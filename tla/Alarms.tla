------------------------------- MODULE Alarms -------------------------------
(***************************************************************************)
(* Deadlines of inline execution (_timeouts.py): blocks with a deadline,   *)
(* one inside the other, share the one alarm of the process with each      *)
(* other and with a caller that may have set it before.                    *)
(*                                                                         *)
(* Setting the alarm to a moment that has passed makes it ring at once.    *)
(* The signal is handled between two instructions of the program, so any   *)
(* time after it was due.  A handler takes no time.                        *)
(***************************************************************************)
EXTENDS Integers, Sequences, SequencesExt

CONSTANTS
    Delays,        \* of the caller's alarm
    Periods,       \* its interval; 0 for an alarm that rings once
    Budgets,       \* seconds of a block
    Callers,       \* what the caller's handler does: subset of
                   \* {"returns", "raises", "ignored", "default"}
    Off,           \* no alarm is set
    MaxDepth, MaxNow \* bounds of the model

VARIABLES
    now,
    timer,         \* the alarm of the process: when it is due, and its interval
    levels,        \* of each block: deadline, previous_deadline and interval
    caller,
    raised,        \* the outermost block that has raised its timeout, or 0
    killed,
    expected       \* ghost: when the caller's alarm would ring by itself

vars == <<now, timer, levels, caller, raised, killed, expected>>

Earlier(t, u) == IF t = Off THEN u ELSE IF u = Off \/ t <= u THEN t ELSE u
Reached(t) == t # Off /\ t <= now
NotBefore(t) == IF t = Off \/ t > now THEN t ELSE now

\* The next occurrence after now of an alarm that was due at t.
Following(t, every) ==
    IF every > 0 THEN t + ((now - t) \div every + 1) * every ELSE Off

\* What the process would do with such an alarm by itself.
Rings(t, every) ==
    IF every = 0 THEN Off ELSE CHOOSE u \in now + 1 .. now + every : (u - t) % every = 0

Armed(level) == [due |-> NotBefore(Earlier(level.deadline, level.prev)), every |-> 0]

Tick ==
    /\ ~killed /\ now < MaxNow /\ now' = now + 1
    /\ UNCHANGED <<timer, levels, caller, raised, killed, expected>>

\* alarm_timeout: what is left of the alarm is remembered, and the alarm set to
\* the earlier of the two.
Enter(seconds) ==
    /\ ~killed /\ Len(levels) < MaxDepth /\ ~Reached(timer.due)
    /\ LET level == [deadline |-> now + seconds, prev |-> timer.due, every |-> timer.every] IN
       /\ levels' = Append(levels, level)
       /\ timer' = Armed(level)
    /\ UNCHANGED <<now, caller, raised, killed, expected>>

\* handler of the block at depth d: what is due of the alarm it found is passed
\* to the handler it found, whatever that raises; only then its own deadline.
RECURSIVE Handled(_, _)
Handled(s, d) ==
    IF d = 0
    THEN [s EXCEPT !.told = TRUE, !.error = IF caller = "raises" THEN "its own" ELSE "none"]
    ELSE LET level == s.levels[d]
             passes == Reached(level.prev)
             after == IF passes
                      THEN [level EXCEPT !.prev = Following(level.prev, level.every)]
                      ELSE level
             here == [s EXCEPT !.levels[d] = after]
             below == IF passes THEN Handled(here, d - 1) ELSE here
             rearmed == IF passes /\ ~(d = 1 /\ caller = "ignored")
                        THEN [below EXCEPT !.timer = Armed(after)] ELSE below
         IN  CASE below.error # "none" -> rearmed
               [] Reached(level.deadline) -> [rearmed EXCEPT !.error = "timeout", !.of = d]
               [] OTHER -> [below EXCEPT !.timer = Armed(after)]

\* The alarm rings: in a block the handler of the innermost one runs, outside
\* the caller's, and the process sets an alarm with an interval again.
Fire ==
    /\ ~killed /\ Reached(timer.due)
    /\ LET rung == [timer EXCEPT !.due = Rings(timer.due, timer.every)]
           s == Handled([timer |-> rung, levels |-> levels, told |-> FALSE,
                         error |-> "none", of |-> 0], Len(levels))
       IN
       /\ timer' = s.timer /\ levels' = s.levels
       /\ raised' = IF s.error = "timeout" /\ (raised = 0 \/ s.of < raised) THEN s.of ELSE raised
       /\ killed' = (s.told /\ caller = "default")
       /\ expected' = CASE levels = <<>> -> rung
                         [] s.told -> [expected EXCEPT !.due = Rings(@, expected.every)]
                         [] OTHER -> expected
    /\ UNCHANGED <<now, caller>>

\* restore: the alarm that was found is set again; one that was due rings at
\* once, and its interval counts from there.
Restore(every) ==
    /\ ~killed /\ levels # <<>>
    /\ timer' = [due |-> NotBefore(Last(levels).prev), every |-> every]
    /\ levels' = Front(levels)
    /\ raised' = IF raised = Len(levels) THEN 0 ELSE raised
    /\ UNCHANGED <<now, caller, killed, expected>>
Leave == Restore(IF levels = <<>> THEN 0 ELSE Last(levels).every)

-----------------------------------------------------------------------------
Init ==
    /\ now = 0
    /\ \E due \in Delays \cup {Off}, every \in Periods :
          /\ due = Off => every = 0
          /\ timer = [due |-> due, every |-> every]
    /\ expected = timer
    /\ levels = <<>>
    /\ caller \in Callers
    /\ raised = 0 /\ killed = FALSE
Next ==
    \/ Tick
    \/ \E seconds \in Budgets : Enter(seconds)
    \/ Fire
    \/ Leave
Spec == Init /\ [][Next]_vars

-----------------------------------------------------------------------------
(* Properties.                                                             *)

\* Until a block has raised its timeout, the alarm rings in time for every
\* deadline and for the caller; afterwards the caller finds the alarm as if no
\* block had run.
RingsBy(t) == t # Off => timer.due # Off /\ timer.due <= NotBefore(t)
DeadlinesSurvive ==
    IF killed THEN TRUE
    ELSE IF levels = <<>>
    THEN /\ timer.every = expected.every
         /\ NotBefore(timer.due) = NotBefore(expected.due)
    ELSE raised = 0 =>
         /\ RingsBy(expected.due)
         /\ \A d \in DOMAIN levels : RingsBy(levels[d].deadline)
=============================================================================
