----------------------------- MODULE MCSession -----------------------------
(* Instances of Session for TLC. *)
EXTENDS Session

\* Unlimited, the shortest retention, and one in between.
MCRetentions == {NoLimit, 1, 2}
\* Replays unlimited, and a recording that is given up at the third bar.
MCBudgets == {NoLimit, 2}
\* Interrupts where the recording may be given up, before, within and after
\* the writes of the callback.
MCInterruptible == {<<1, 2>>}
MCPartialWrites == {{}, {"state", "varip"}, Places}
=============================================================================
