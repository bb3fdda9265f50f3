----------------------------- MODULE TraceValues -----------------------------
(***************************************************************************)
(* What a trace shows of a value (_trace_value of trace.py): a list of     *)
(* values, a mapping of some keys, or a plain one.  Whatever is under a    *)
(* secret key is replaced, then what is nested too deep; of a long list or *)
(* a large mapping only the beginning is shown, and how much was left out. *)
(***************************************************************************)
EXTENDS Integers, Sequences, FiniteSetsExt

CONSTANTS MaxDepth, MaxItems \* of a value that is shown

Plain == [kind |-> "plain"]
Mark(text) == [kind |-> text]
Items(values) == [kind |-> "list", items |-> values]
Mapping(keys, values) == [kind |-> "mapping", keys |-> keys, items |-> values]

FirstOf(s) == SubSeq(s, 1, Min({Len(s), MaxItems}))
RECURSIVE Shown(_, _, _)
Shown(value, key, depth) ==
    IF key = "secret" THEN Mark("redacted")
    ELSE IF depth >= MaxDepth THEN Mark("truncated")
    ELSE IF value.kind = "plain" THEN value
    ELSE LET mapping == value.kind = "mapping"
             part == [i \in DOMAIN FirstOf(value.items) |->
                         Shown(value.items[i], IF mapping THEN value.keys[i] ELSE "", depth + 1)]
             rest == IF Len(value.items) > MaxItems THEN <<Mark("rest")>> ELSE <<>>
         IN  IF mapping
             THEN Mapping(FirstOf(value.keys) \o [i \in DOMAIN rest |-> "rest"], part \o rest)
             ELSE Items(part \o rest)

\* The ends of a value: the keys and places that lead to them.
RECURSIVE Ends(_)
Ends(value) ==
    IF value.kind \notin {"list", "mapping"} THEN {[path |-> <<>>, kind |-> value.kind]}
    ELSE UNION {{[end EXCEPT !.path =
                     <<IF value.kind = "mapping" THEN value.keys[i] ELSE "item">> \o @] :
                 end \in Ends(value.items[i])} : i \in DOMAIN value.items}

-----------------------------------------------------------------------------
\* Nothing below a secret key is shown, nothing below the depth, and what is
\* shown plainly is what was there.
ShowsOnlyTheRest(value) ==
    \A end \in Ends(Shown(value, "", 0)) :
        /\ Len(end.path) <= MaxDepth
        /\ \A i \in DOMAIN end.path : end.path[i] = "secret" =>
              end.kind = "redacted" /\ i = Len(end.path)
        /\ end.kind = "plain" => end \in Ends(value)
=============================================================================
