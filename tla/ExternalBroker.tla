--------------------------- MODULE ExternalBroker ---------------------------
(***************************************************************************)
(* The external broker (external.py): a script is run over a history with  *)
(* the account frames of a host, and its orders are handed out as intents. *)
(* A batch script sees all bars at once; an incremental one is called bar  *)
(* by bar, or, with fill feedback, once for every pass of a bar.           *)
(*                                                                         *)
(* A function of a script is the calls it makes, in order: a declaration,  *)
(* an order with its condition, or something that is not supported or      *)
(* fails.  init runs before the first bar, as bar 0.                       *)
(***************************************************************************)
EXTENDS Integers, Sequences, FiniteSets, SequencesExt

CONSTANTS
    Bars,          \* how many
    Scripts,       \* records of the functions: init, on_bar, on_fill
    Groups,        \* the passes a host may give for a bar: sequences of
                   \* [confirmed, time]
    NoPass,
    Batch, ByBar, ByPass  \* the ways to run

VARIABLES
    mode, script, passes,
    bar, pass,     \* of the function that runs
    at,            \* the call of it that is next; 0 before the checks of the input
    declared, pyramiding,
    intents,
    outcome        \* "running", "done", "unsupported"

vars == <<mode, script, passes, bar, pass, at, declared, pyramiding, intents, outcome>>
inputVars == <<mode, script, passes>>

\* A group is not empty, its times do not decrease, and nothing follows the
\* confirmed pass.
ValidGroup(group) ==
    /\ group # <<>>
    /\ \A i \in DOMAIN group \ {1} :
          ~group[i - 1].confirmed /\ group[i - 1].time <= group[i].time
Valid == \A b \in DOMAIN passes : ValidGroup(passes[b])

Unsupported == outcome' = "unsupported"

Check ==
    /\ outcome = "running" /\ at = 0
    /\ IF Valid THEN at' = 1 /\ UNCHANGED outcome ELSE Unsupported /\ UNCHANGED at
    /\ UNCHANGED <<inputVars, bar, pass, declared, pyramiding, intents>>

\* A pass that is not confirmed calls on_fill.
Calls ==
    CASE bar = 0 -> script.init
      [] bar > 0 /\ mode = ByPass /\ ~passes[bar][pass].confirmed -> script.on_fill
      [] OTHER -> script.on_bar

-----------------------------------------------------------------------------
(* The calls of a function.                                                *)

Running(op) ==
    /\ outcome = "running" /\ at \in DOMAIN Calls
    /\ Calls[at].op = op
Returns == at' = at + 1 /\ UNCHANGED outcome
Raises == Unsupported /\ UNCHANGED at

\* Declared again, the pyramiding must be the same.
Configure ==
    /\ Running("configure")
    /\ IF declared /\ pyramiding # Calls[at].value
       THEN Raises /\ UNCHANGED <<declared, pyramiding>>
       ELSE Returns /\ declared' = TRUE /\ pyramiding' = Calls[at].value
    /\ UNCHANGED <<inputVars, bar, pass, intents>>

\* A batch order emits for all bars its condition holds on, an incremental one
\* for the bar and the pass it is made in.
Emit ==
    /\ Running("order")
    /\ IF ~declared THEN Raises /\ UNCHANGED intents
       ELSE /\ Returns
            /\ LET here == (IF mode = Batch THEN 1 .. Bars ELSE {bar}) \cap Calls[at].when
               IN  intents' = intents \o
                      [i \in 1 .. Cardinality(here) |->
                          [bar |-> SetToSortSeq(here, <)[i], pass |-> pass, call |-> Calls[at]]]
    /\ UNCHANGED <<inputVars, bar, pass, declared, pyramiding>>

Fail ==
    /\ Running("fail") /\ Raises
    /\ UNCHANGED <<inputVars, bar, pass, declared, pyramiding, intents>>

-----------------------------------------------------------------------------
(* The end of a function: the next pass, the next bar, or the answer.      *)

Returned == outcome = "running" /\ at = Len(Calls) + 1
MorePasses == mode = ByPass /\ bar > 0 /\ pass < Len(passes[bar])
NextPass ==
    /\ Returned /\ MorePasses
    /\ pass' = pass + 1 /\ at' = 1
    /\ UNCHANGED <<inputVars, bar, declared, pyramiding, intents, outcome>>
NextBar ==
    /\ Returned /\ ~MorePasses /\ mode # Batch /\ bar < Bars
    /\ bar' = bar + 1 /\ at' = 1
    /\ pass' = IF mode = ByPass THEN 1 ELSE NoPass
    /\ UNCHANGED <<inputVars, declared, pyramiding, intents, outcome>>

\* The intents are sorted by bar; those of a bar stay in their order.
ByBars(s) == FlattenSeq([b \in 1 .. Bars + 1 |-> SelectSeq(s, LAMBDA i : i.bar = b - 1)])
Answer ==
    /\ Returned /\ ~MorePasses
    /\ mode = Batch \/ bar = Bars
    /\ IF declared THEN outcome' = "done" ELSE Unsupported
    /\ intents' = ByBars(intents)
    /\ UNCHANGED <<inputVars, bar, pass, at, declared, pyramiding>>

-----------------------------------------------------------------------------
Init ==
    /\ mode \in {Batch, ByBar, ByPass}
    /\ script \in Scripts
    /\ mode = Batch => script.init = <<>>
    /\ passes \in IF mode = ByPass THEN [1 .. Bars -> Groups] ELSE {<<>>}
    /\ bar = IF mode = Batch THEN 1 ELSE 0
    /\ pass = NoPass /\ at = 0
    /\ declared = FALSE /\ pyramiding = 1
    /\ intents = <<>> /\ outcome = "running"

Next ==
    \/ Check
    \/ Configure \/ Emit \/ Fail
    \/ NextPass \/ NextBar \/ Answer

Spec == Init /\ [][Next]_vars

-----------------------------------------------------------------------------
(* Properties.                                                             *)

\* Whichever way a script is run, its intents are the orders of its functions,
\* bar by bar, pass by pass and in the order of the calls, an order of init for
\* the bar before the first; a run that is answered had a valid input, was
\* declared, and met nothing that fails.
OrdersOf(function, b, p) ==
    LET made == SelectSeq(function, LAMBDA call : call.op = "order" /\ b \in call.when)
    IN  [i \in DOMAIN made |-> [bar |-> b, pass |-> p, call |-> made[i]]]
OfBar(b) ==
    IF mode = ByPass
    THEN FlattenSeq([p \in DOMAIN passes[b] |->
             OrdersOf(IF passes[b][p].confirmed THEN script.on_bar ELSE script.on_fill, b, p)])
    ELSE OrdersOf(script.on_bar, b, NoPass)
IntentsAreTheScripts ==
    outcome = "done" =>
        /\ intents = OrdersOf(script.init, 0, NoPass) \o FlattenSeq([b \in 1 .. Bars |-> OfBar(b)])
        /\ declared /\ Valid
=============================================================================
