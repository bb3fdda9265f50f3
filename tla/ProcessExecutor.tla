--------------------------- MODULE ProcessExecutor ---------------------------
(***************************************************************************)
(* The process executor (executor.py): a parent that polls the queue of    *)
(* its worker, looks whether the worker lives and whether its time is up,  *)
(* and tidies up; a worker that computes, sends its answer and exits.      *)
(*                                                                         *)
(* The queue is a pipe into which a thread of the worker writes.  A get    *)
(* waits for the first byte at most the length of a poll, and for the rest *)
(* of the answer as long as it takes.                                      *)
(***************************************************************************)
EXTENDS Integers

CONSTANTS
    Deadlines,     \* timeout plus grace, in ticks of the clock
    NoDeadline,    \* timeout_seconds is None
    Nothing,       \* no answer, no outcome
    MaxClock       \* bound of the model

ConstantsAssumption ==
    /\ Deadlines \subseteq Nat
    /\ Nothing \notin {"result", "PYNE_TIMEOUT"}

VARIABLES
    deadline,
    clock,
    parent,        \* "new", "polling", "reading", "checking", "looking", "judging",
                   \* "joining", "terminating", "killing", "returned"
    worker,        \* "none", "computing", "sending", "exiting", "dead"
    answer,        \* what the worker sends
    pipe,          \* "empty", "partial", "full"
    outcome        \* what the caller gets

vars == <<deadline, clock, parent, worker, answer, pipe, outcome>>

Failed == "PYNE_PROCESS_FAILED"
Unpicklable == "PYNE_PROCESS_SERIALIZATION_ERROR"

Alive == worker \in {"computing", "sending", "exiting"}
Late == deadline # NoDeadline /\ clock >= deadline

Tick ==
    /\ clock < MaxClock /\ clock' = clock + 1
    /\ UNCHANGED <<deadline, parent, worker, answer, pipe, outcome>>

-----------------------------------------------------------------------------
(* The parent.                                                             *)

At(from, to) == parent = from /\ parent' = to /\ UNCHANGED <<deadline, clock, answer>>

\* Arguments that cannot be pickled are refused before there is a process; a
\* process that cannot be started is an answer too.
Refuse(code) ==
    /\ At("new", "returned") /\ outcome' = code
    /\ UNCHANGED <<worker, pipe>>
Start ==
    /\ At("new", "polling") /\ worker' = "computing"
    /\ UNCHANGED <<pipe, outcome>>

Poll ==
    /\ At("polling", IF pipe = "empty" THEN "checking" ELSE "reading")
    /\ UNCHANGED <<worker, pipe, outcome>>

\* The rest of an answer has no time limit.
Receive ==
    /\ At("reading", "joining")
    /\ pipe = "full" /\ pipe' = "empty"
    /\ outcome' = answer
    /\ UNCHANGED worker

\* A worker that is gone may have answered since the poll, so the queue is
\* looked at once more; no such look is taken when the time is up.
MutantNoLastLook ==
    /\ At("checking", IF ~Alive \/ Late THEN "judging" ELSE "polling")
    /\ UNCHANGED <<worker, pipe, outcome>>
Check ==
    /\ At("checking", IF ~Alive THEN "looking" ELSE IF Late THEN "judging" ELSE "polling")
    /\ UNCHANGED <<worker, pipe, outcome>>
LookAgain ==
    /\ At("looking", IF pipe = "empty" THEN "judging" ELSE "reading")
    /\ UNCHANGED <<worker, pipe, outcome>>
Judge ==
    /\ At("judging", "terminating")
    /\ outcome' = IF Alive THEN "PYNE_TIMEOUT" ELSE Failed
    /\ UNCHANGED <<worker, pipe>>

\* An interrupt of the parent, or an error of the transport.
Interrupted(code) ==
    /\ \E stage \in {"polling", "reading", "checking", "looking"} : At(stage, "terminating")
    /\ outcome' = code
    /\ UNCHANGED <<worker, pipe>>

\* finally: after an answer the worker is given a second to exit; a worker that
\* is alive is terminated, and killed when it does not obey.
Join ==
    /\ At("joining", IF Alive THEN "terminating" ELSE "returned")
    /\ UNCHANGED <<worker, pipe, outcome>>
Terminate(obeys) ==
    /\ At("terminating", IF Alive /\ ~obeys THEN "killing" ELSE "returned")
    /\ worker' = IF Alive /\ obeys THEN "dead" ELSE worker
    /\ UNCHANGED <<pipe, outcome>>
Kill ==
    /\ At("killing", "returned") /\ worker' = "dead"
    /\ UNCHANGED <<pipe, outcome>>

-----------------------------------------------------------------------------
(* The worker.                                                             *)

On(from, to) == worker = from /\ worker' = to /\ UNCHANGED <<deadline, clock, parent, outcome>>

\* Whatever the script raises, an interrupt too, becomes an answer, and an
\* answer that cannot be pickled another one.
Finish(with) ==
    /\ On("computing", "sending") /\ answer' = with
    /\ UNCHANGED pipe

\* A small answer fits in the pipe, a large one is written while it is read.
BeginWriting ==
    /\ On("sending", "sending")
    /\ pipe = "empty" /\ pipe' = "partial"
    /\ UNCHANGED answer
EndWriting(large) ==
    /\ On("sending", "exiting")
    /\ pipe = "partial" /\ pipe' = "full"
    /\ large => parent = "reading"
    /\ UNCHANGED answer
Exit ==
    /\ On("exiting", "dead")
    /\ UNCHANGED <<answer, pipe>>
\* It crashes, or the system kills it, at any time.
Die ==
    /\ On(worker, "dead") /\ Alive
    /\ UNCHANGED <<answer, pipe>>

-----------------------------------------------------------------------------
Init ==
    /\ deadline \in Deadlines \cup {NoDeadline}
    /\ clock = 0
    /\ parent = "new" /\ worker = "none"
    /\ answer = Nothing /\ pipe = "empty" /\ outcome = Nothing

ParentStep ==
    \/ Poll \/ Receive
    \/ Check \/ LookAgain \/ Judge
    \/ Join \/ (\E obeys \in BOOLEAN : Terminate(obeys)) \/ Kill
Next ==
    \/ Tick
    \/ \E code \in {Unpicklable, Failed} : Refuse(code)
    \/ Start
    \/ ParentStep
    \/ \E code \in {"interrupt", Failed} : Interrupted(code)
    \/ \E with \in {"result", Failed, Unpicklable} : Finish(with)
    \/ BeginWriting \/ \E large \in BOOLEAN : EndWriting(large)
    \/ Exit \/ Die

\* The clock and the parent run, and so does the thread that writes an answer
\* somebody reads; nothing is promised of the script.
Spec == Init /\ [][Next]_vars
FairSpec ==
    /\ Spec
    /\ WF_vars(Tick) /\ WF_vars(ParentStep) /\ WF_vars(EndWriting(TRUE))

-----------------------------------------------------------------------------
(* Properties.                                                             *)

\* The caller gets what the worker sent; a timeout is told only of a worker
\* that was given its time, and a complete answer of a worker that is gone is
\* given up only by a call whose time was up or that was interrupted.
AnswersAreKept ==
    /\ outcome = "result" => answer = "result"
    /\ outcome = "PYNE_TIMEOUT" => Late
    /\ parent = "judging" /\ ~Late => ~Alive /\ pipe # "full"

\* No worker survives the call.
NoWorkerIsLeft == parent = "returned" => ~Alive

\* A call with a deadline returns: except when its worker dies in the middle
\* of an answer, the rest of which is then waited for.
Torn == worker = "dead" /\ pipe = "partial"
CallReturns == (parent = "polling" /\ deadline # NoDeadline) ~> (parent = "returned" \/ Torn)
=============================================================================
