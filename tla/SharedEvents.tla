---------------------------- MODULE SharedEvents ----------------------------
(***************************************************************************)
(* The events of a shared session (seed_or_snapshot and process_bar of     *)
(* incremental/manager.py): several subscribers hold the same session and  *)
(* each delivers the whole feed to it, at its own pace.                    *)
(*                                                                         *)
(* The session is what its script recorded: in committed state, every      *)
(* closed bar; in intrabar state, every preview of the active bar, with    *)
(* what the script was told of it, whether the bar is new.  The lock of    *)
(* the session makes a call one step; what an interrupt of a callback      *)
(* leaves behind is a matter of Session.                                   *)
(***************************************************************************)
EXTENDS Integers, Sequences, SequencesExt

CONSTANTS
    Subscribers,
    Prices,        \* the values of bars
    Feed,          \* the events: <<"preview" or "closed", bar time, value>>
    History,       \* the bars to seed with
    Nothing        \* no event, no answer, no preview

Events == {"preview", "closed"} \X (Nat \ {0}) \X Prices
Bars == [time : Nat \ {0}, value : Prices]
Records == [time : Nat \ {0}, value : Prices, isnew : BOOLEAN]
Answers == Seq(Records) \X Seq(Records)

\* The feed is in order: a closed bar is the last that is heard of it, and the
\* history was closed before.
ConstantsAssumption ==
    /\ Feed \in Seq(Events)
    /\ \A i, j \in DOMAIN Feed : i < j =>
          /\ Feed[i][2] <= Feed[j][2]
          /\ Feed[i][1] = "closed" => Feed[i][2] < Feed[j][2]
    /\ History \in Seq(Bars)
    /\ \A i, j \in DOMAIN History : i < j => History[i].time < History[j].time
    /\ \A i \in DOMAIN History, j \in DOMAIN Feed : History[i].time < Feed[j][2]
    /\ Nothing \notin Nat /\ Nothing \notin [event : Events, answer : Answers]

VARIABLES
    committed,     \* what the script recorded of the closed bars
    previewing,    \* the time of the active preview
    cells,         \* what it recorded of the previews of that bar, in intrabar cells
    started,       \* the session has a context
    poisoned,
    seeded,
    last,          \* last_event_key and last_event_result
    reads,         \* of each subscriber: how many events it delivered; -1 before it asked
                   \* for the history
    told           \* ghost: of each event the answers given

vars == <<committed, previewing, cells, started, poisoned, seeded, last, reads, told>>

LastClosed == IF committed = <<>> THEN 0 ELSE Last(committed).time

Record(bar, isnew) == [time |-> bar.time, value |-> bar.value, isnew |-> isnew]

\* seed_or_snapshot: the first subscriber seeds the session, the others are
\* shown it.
Asks(s) == reads[s] = -1 /\ reads' = [reads EXCEPT ![s] = 0]
Seed(s) ==
    /\ Asks(s) /\ ~seeded /\ ~started /\ ~poisoned
    /\ committed' = [i \in DOMAIN History |-> Record(History[i], TRUE)]
    /\ seeded' = TRUE /\ started' = TRUE
    /\ UNCHANGED <<previewing, cells, poisoned, last, told>>
\* init, or the callback on a bar of the history, fails: the bars before it stay
\* committed, in a session that is not seeded and never will be.
SeedFails(s) ==
    /\ Asks(s) /\ ~seeded /\ ~started /\ ~poisoned
    /\ \E n \in 0 .. Len(History) :
          /\ n = 0 \/ n < Len(History)
          /\ committed' = [i \in 1 .. n |-> Record(History[i], TRUE)]
    /\ poisoned' = TRUE
    /\ UNCHANGED <<previewing, cells, started, seeded, last, told>>
\* A session that has seen an event cannot be seeded any more, and one that has
\* failed cannot be shown.
Show(s) ==
    /\ Asks(s) /\ (seeded \/ started \/ poisoned)
    /\ UNCHANGED <<committed, previewing, cells, started, poisoned, seeded, last, told>>

-----------------------------------------------------------------------------
(* process_bar: the next event of a subscriber.                            *)

Event(s) == Feed[reads[s] + 1]
Delivers(s) ==
    /\ reads[s] \in 0 .. Len(Feed) - 1
    /\ reads' = [reads EXCEPT ![s] = @ + 1]
Tell(e, answer) == told' = [told EXCEPT ![e] = @ \cup {answer}]

MutantRepeatedBar(e) == last # Nothing /\ last.event[1] = e[1] /\ last.event[2] = e[2]
Repeated(e) == last # Nothing /\ last.event = e

\* An event equal to the last one is answered from memory, whatever has become
\* of the session.
Repeat(s) ==
    /\ Delivers(s) /\ Repeated(Event(s))
    /\ Tell(Event(s), last.answer)
    /\ UNCHANGED <<committed, previewing, cells, started, poisoned, seeded, last>>

\* Bars that the session has closed, or left behind with a preview, and all bars
\* once it has failed.
IsStale(e) ==
    \/ e[2] <= LastClosed
    \/ previewing # Nothing /\ e[2] < previewing
Refuse(s) ==
    /\ Delivers(s) /\ ~Repeated(Event(s))
    /\ poisoned \/ IsStale(Event(s))
    /\ UNCHANGED <<committed, previewing, cells, started, poisoned, seeded, last, told>>

Bar(e) == [time |-> e[2], value |-> e[3]]
\* The first preview of a bar begins with no cells, the others with what the
\* last one left; the bar is new to the first that is told of it.  An earlier
\* preview that is delivered again is a preview like any other.
Process(s) ==
    /\ Delivers(s) /\ ~Repeated(Event(s)) /\ ~poisoned /\ ~IsStale(Event(s))
    /\ LET e == Event(s)
           seen == previewing = e[2]
           record == Record(Bar(e), ~seen)
       IN
       /\ IF e[1] = "closed"
             THEN /\ committed' = Append(committed, record)
                  /\ previewing' = Nothing /\ cells' = <<>>
             ELSE /\ cells' = Append(IF seen THEN cells ELSE <<>>, record)
                  /\ previewing' = e[2] /\ UNCHANGED committed
       /\ last' = [event |-> e, answer |-> <<committed', cells'>>]
       /\ Tell(e, last'.answer)
    /\ started' = TRUE
    /\ UNCHANGED <<poisoned, seeded>>
\* The callback fails.
Fail(s) ==
    /\ Delivers(s) /\ ~Repeated(Event(s)) /\ ~poisoned /\ ~IsStale(Event(s))
    /\ poisoned' = TRUE /\ started' = FALSE /\ previewing' = Nothing /\ cells' = <<>>
    /\ UNCHANGED <<committed, seeded, last, told>>

-----------------------------------------------------------------------------
Init ==
    /\ committed = <<>> /\ previewing = Nothing /\ cells = <<>>
    /\ started = FALSE /\ poisoned = FALSE /\ seeded = FALSE
    /\ last = Nothing
    /\ reads \in [Subscribers -> {-1, 0}]
    /\ told = [e \in ToSet(Feed) |-> {}]

Next == \E s \in Subscribers :
    \/ Seed(s) \/ SeedFails(s) \/ Show(s)
    \/ Repeat(s) \/ Refuse(s) \/ Process(s) \/ Fail(s)

Spec == Init /\ [][Next]_vars

-----------------------------------------------------------------------------
(* Properties.                                                             *)

Closed == {i \in DOMAIN Feed : Feed[i][1] = "closed"}
Recorded == {[time |-> r.time, value |-> r.value] : r \in ToSet(committed)}

\* The history and the closed bars of the feed up to the last bar closed, each
\* once and in order: the whole history if the session was seeded, none if it
\* was not, and the bars before the failure if it failed in between.
CommitsAreTheFeed ==
    /\ \A i, j \in DOMAIN committed : i < j => committed[i].time < committed[j].time
    /\ \E past \in {{}, {bar \in ToSet(History) : bar.time <= LastClosed}} :
          /\ Recorded = past \cup {Bar(Feed[i]) : i \in {j \in Closed : Feed[j][2] <= LastClosed}}
          /\ seeded => past = ToSet(History)
          /\ ~seeded /\ ~poisoned => past = {}

\* bars is what was committed before t, or until then.
CommittedBefore(bars, t) ==
    IsPrefix(bars, committed) /\ \A i \in DOMAIN committed : i <= Len(bars) <=> committed[i].time < t
CommittedUntil(bars, t) ==
    IsPrefix(bars, committed) /\ \A i \in DOMAIN committed : i <= Len(bars) <=> committed[i].time <= t
\* The previews of a bar up to one: the bar is new to the first of them only.
PreviewsOf(records, e) ==
    /\ records # <<>> /\ Last(records).value = e[3]
    /\ \A i \in DOMAIN records : records[i].time = e[2] /\ (records[i].isnew <=> i = 1)

\* Whoever delivers the events, and whatever of them is repeated or comes late,
\* the session commits every bar once, in order and as it closed.  The answer
\* to a closed bar is what is committed with it, the same for all; that to a
\* preview is what is committed before it and the previews of its bar up to it;
\* the previews of a bar are one history, whoever is told of them; and a bar
\* closes as a new one when nobody was told a preview of it.
EventsCountOnce ==
    /\ CommitsAreTheFeed
    /\ \A e \in DOMAIN told : \A answer \in told[e] :
          IF e[1] = "closed"
            THEN CommittedUntil(answer[1], e[2]) /\ answer[2] = <<>>
            ELSE CommittedBefore(answer[1], e[2]) /\ PreviewsOf(answer[2], e)
    /\ \A e, f \in DOMAIN told : e[2] = f[2] =>
          \A a \in told[e], b \in told[f] : IsPrefix(a[2], b[2]) \/ IsPrefix(b[2], a[2])
    /\ \A i \in DOMAIN committed :
          committed[i].isnew <=> \A e \in DOMAIN told : e[2] = committed[i].time /\ e[1] = "preview" => told[e] = {}
=============================================================================
