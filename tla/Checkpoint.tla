----------------------------- MODULE Checkpoint -----------------------------
(***************************************************************************)
(* Portable checkpoints (incremental/checkpoint.py, and who loads them): a *)
(* session is written by one process as a file of values, with a checksum  *)
(* and the version of its semantics, and loaded by another one, perhaps of *)
(* another release, with the same limits.                                  *)
(*                                                                         *)
(* A value is a tree: a scalar, a list, tuple or mapping of values (its    *)
(* items is a function), or a frozenset of them.  In a file, there are     *)
(* scalars, lists and mappings only.  A checksum is what it was taken of.  *)
(* The graph of a state checkpoint is the subject of StateGraph.           *)
(***************************************************************************)
EXTENDS Integers, Sequences, SequencesExt, FiniteSetsExt

CONSTANTS
    Checkpoints,   \* sessions to be kept: script, params, settings, provider, and bars
                   \* and seed, or a graph that holds a number of bars
    Limits,        \* max_bytes, max_depth, max_nodes
    Loaders,       \* script, settings or None, and whether a provider is given
    None, Refused, \* no file, settings or session; a file that is refused
    Releases       \* values of INCREMENTAL_SEMANTICS_VERSION

VARIABLES
    checkpoint,
    limits,
    release,       \* of the process that runs
    file,          \* None, or format, checksum and payload
    written,       \* ghost: None, or the file as it was written
    loader,        \* who loads it, or None
    loaded         \* None, Refused, or the session

vars == <<checkpoint, limits, release, file, written, loader, loaded>>

Scalar(x) == [kind |-> "scalar", value |-> x]
List(items) == [kind |-> "list", items |-> items]
Mapping(items) == [kind |-> "mapping", items |-> items]
Tag == "$type"

\* The values in a value, by place.
Inner(v) ==
    CASE v.kind \in {"list", "tuple", "mapping"} -> v.items
      [] v.kind = "frozenset" -> SetToSeq(v.items)
      [] OTHER -> <<>>
Sum(f) == MapThenFoldSet(+, 0, LAMBDA i : f[i], LAMBDA S : CHOOSE i \in S : TRUE, DOMAIN f)

-----------------------------------------------------------------------------
(* Values in files.                                                        *)

\* _NodeBudget: values are counted, not what a file needs to say of them.
RECURSIVE Count(_), Nesting(_), Encodable(_), Encoded(_), Decodable(_), Decoded(_)
Count(v) == 1 + Sum([i \in DOMAIN Inner(v) |-> Count(Inner(v)[i])])
Nesting(v) ==
    IF Inner(v) = <<>> THEN 0
    ELSE 1 + Max({Nesting(Inner(v)[i]) : i \in DOMAIN Inner(v)})
WithinBudget(values) ==
    /\ \A i \in DOMAIN values : Nesting(values[i]) <= limits.depth
    /\ Sum([i \in DOMAIN values |-> Count(values[i])]) <= limits.nodes

Encodable(v) ==
    /\ v.kind \notin {"infinite", "other"}
    /\ v.kind = "mapping" => Tag \notin DOMAIN v.items
    /\ \A i \in DOMAIN Inner(v) : Encodable(Inner(v)[i])
\* A scalar of numpy is the scalar that it holds; a frozenset gets an order.
Tagged(kind, items) ==
    Mapping([key \in {Tag, "items"} |-> IF key = Tag THEN Scalar(kind) ELSE List(items)])
Encoded(v) ==
    LET inner == [i \in DOMAIN Inner(v) |-> Encoded(Inner(v)[i])]
    IN  CASE v.kind \in {"scalar", "numpy"} -> Scalar(v.value)
          [] v.kind \in {"list", "mapping"} -> [kind |-> v.kind, items |-> inner]
          [] OTHER -> Tagged(v.kind, inner)

IsTagged(v) == v.kind = "mapping" /\ Tag \in DOMAIN v.items
Items(v) == IF IsTagged(v) THEN v.items["items"].items ELSE Inner(v)
Decodable(v) ==
    /\ v.kind # "infinite"
    /\ IsTagged(v) => /\ DOMAIN v.items = {Tag, "items"} /\ v.items["items"].kind = "list"
                      /\ v.items[Tag] \in {Scalar("tuple"), Scalar("frozenset")}
    /\ \A i \in DOMAIN Items(v) : Decodable(Items(v)[i])
Decoded(v) ==
    LET inner == [i \in DOMAIN Items(v) |-> Decoded(Items(v)[i])]
    IN  IF v.kind = "scalar" THEN v
        ELSE IF ~IsTagged(v) THEN [kind |-> v.kind, items |-> inner]
        ELSE IF v.items[Tag] = Scalar("tuple") THEN [kind |-> "tuple", items |-> inner]
        ELSE [kind |-> "frozenset", items |-> {inner[i] : i \in DOMAIN inner}]

-----------------------------------------------------------------------------
(* Settings.                                                               *)

\* What determines the results is kept and compared (syminfo stands for the
\* timeframe and the session too), the budgets are kept, the executor is not.
SemanticSettings == {"securityMode", "allowedImports", "syminfo"}
ContractFields == SemanticSettings \cup {"budgets"}
Contract(settings) ==
    Mapping([field \in ContractFields |->
        IF field = "allowedImports" THEN List(settings[field].items) ELSE settings[field]])
IsContract(c) == ContractFields \subseteq DOMAIN c.items
FromContract(c) ==
    [field \in ContractFields \cup {"executorMode"} |->
        IF field = "executorMode" THEN Scalar("inline")
        ELSE IF field = "allowedImports" THEN [kind |-> "tuple", items |-> c.items[field].items]
        ELSE c.items[field]]
\* validate_restore_settings
MutantComparesBudgets(c, settings) ==
    IsContract(c) /\ \A field \in ContractFields : Contract(settings).items[field] = c.items[field]
SameComputation(c, settings) ==
    IsContract(c) /\ \A field \in SemanticSettings : Contract(settings).items[field] = c.items[field]

-----------------------------------------------------------------------------
(* Files.                                                                  *)

ReplayFormat == "pyne.incremental-session/1"
StateFormat == "pyne.incremental-state/2"
IsReplay == "bars" \in DOMAIN checkpoint
Shared(version) ==
    [schemaVersion |-> version, semanticsVersion |-> release, scriptSha256 |-> checkpoint.script,
     settings |-> Encoded(Contract(checkpoint.settings)), providerRequired |-> checkpoint.provider]
ReplayPayload ==
    Shared(1) @@ [params |-> Encoded(checkpoint.params), retentionBars |-> checkpoint.retention,
                  bars |-> Encoded(List(checkpoint.bars)), seedCount |-> checkpoint.seed]
StatePayload == Shared(2) @@ [stateGraph |-> checkpoint.graph]
ReplayValues == <<checkpoint.params, Contract(checkpoint.settings), List(checkpoint.bars)>>
StateValues == <<Contract(checkpoint.settings)>>

Sealed(format, payload) == [format |-> format, checksum |-> payload, payload |-> payload]
\* The bytes of a file, one for a scalar and for each thing that holds others.
Bytes(payload) ==
    Sum([field \in DOMAIN payload \cap {"settings", "params", "bars"} |-> Count(payload[field])])

Writes(format, payload, values) ==
    /\ file = None /\ loaded = None
    /\ \A i \in DOMAIN values : Encodable(values[i])
    /\ WithinBudget(values)
    /\ Bytes(payload) <= limits.bytes
    /\ file' = Sealed(format, payload) /\ written' = file'
    /\ UNCHANGED <<checkpoint, limits, release, loader, loaded>>
WriteReplay == IsReplay /\ Writes(ReplayFormat, ReplayPayload, ReplayValues)
WriteState == ~IsReplay /\ Writes(StateFormat, StatePayload, StateValues)

\* Something of the file is lost, or it is of a release that knew less, or
\* another release runs.
Without(field) == [other \in DOMAIN file.payload \ {field} |-> file.payload[other]]
Damage ==
    /\ file # None /\ file = written /\ loaded = None
    /\ \/ file' = [file EXCEPT !.format = None] \/ file' = [file EXCEPT !.checksum = None]
       \/ \E field \in DOMAIN file.payload :
             \/ file' = [file EXCEPT !.payload[field] = None]
             \/ file' = [file EXCEPT !.payload = Without(field)]
             \/ file' = Sealed(file.format, Without(field))
    /\ UNCHANGED <<checkpoint, limits, release, written, loader, loaded>>
Upgrade(to) ==
    /\ loaded = None /\ to > release /\ release' = to
    /\ UNCHANGED <<checkpoint, limits, file, written, loader, loaded>>

\* decode_portable_checkpoint and decode_portable_state_checkpoint: the checksum
\* before the semantics, the semantics before the fields.
Readable(payload, version, fields) ==
    /\ file.checksum = payload
    /\ "semanticsVersion" \in DOMAIN payload /\ payload.semanticsVersion = release
    /\ DOMAIN payload = fields
    /\ payload.schemaVersion = version
    /\ Bytes(payload) <= limits.bytes
    /\ Decodable(payload.settings) /\ payload.settings.kind = "mapping"
SharedFields == {"schemaVersion", "semanticsVersion", "scriptSha256", "settings", "providerRequired"}
IsReplayFile ==
    /\ file.format = ReplayFormat
    /\ LET payload == file.payload IN
       /\ Readable(payload, 1, SharedFields \cup {"params", "retentionBars", "bars", "seedCount"})
       /\ Decodable(payload.params) /\ payload.params.kind = "mapping"
       /\ Decodable(payload.bars) /\ payload.bars.kind = "list"
       /\ WithinBudget(<<Decoded(payload.params), Decoded(payload.settings), Decoded(payload.bars)>>)
       /\ \A i \in DOMAIN payload.bars.items : Decoded(payload.bars.items[i]).kind = "mapping"
       /\ payload.retentionBars # None => payload.retentionBars > 0
       /\ payload.seedCount \in 0 .. Len(payload.bars.items)
IsStateFile ==
    /\ file.format = StateFormat
    /\ Readable(file.payload, 2, SharedFields \cup {"stateGraph"})
    /\ WithinBudget(<<Decoded(file.payload.settings)>>)

\* _portable_restore_settings: the settings of the loader have to compute the
\* same; without any, those of the file are taken.  What is loaded has to fit
\* the budgets of those settings: the bars of the seed that is repeated, or the
\* recorded bars of a graph (one number stands for all that is bounded).
Resolved(by) ==
    IF by.settings = None THEN FromContract(Decoded(file.payload.settings)) ELSE by.settings
Budget(settings) == settings.budgets.items[1].value
Needed(payload) ==
    IF file.format = ReplayFormat THEN payload.seedCount ELSE payload.stateGraph.bars
Accepts(by) ==
    LET c == Decoded(file.payload.settings) IN
    /\ file.payload.scriptSha256 = by.script
    /\ IF by.settings = None THEN IsContract(c) ELSE SameComputation(c, by.settings)
    /\ file.payload.providerRequired => by.provider
    /\ Needed(file.payload) <= Budget(Resolved(by))
Common(by) == [script |-> by.script, settings |-> Resolved(by)]
ReplayOf(payload) ==
    [params |-> Decoded(payload.params), bars |-> Decoded(payload.bars).items,
     seed |-> payload.seedCount, retention |-> payload.retentionBars]

Loads(by, session) ==
    /\ file # None /\ loaded = None
    /\ loader' = by /\ loaded' = session
    /\ UNCHANGED <<checkpoint, limits, release, file, written>>
LoadReplay(by) ==
    /\ file # None
    /\ IsReplayFile /\ Accepts(by)
    /\ Loads(by, Common(by) @@ ReplayOf(file.payload))
LoadState(by) ==
    /\ file # None
    /\ IsStateFile /\ Accepts(by)
    /\ Loads(by, Common(by) @@ [graph |-> file.payload.stateGraph])
Refuse(by) ==
    /\ file # None
    /\ ~((IsReplayFile \/ IsStateFile) /\ Accepts(by))
    /\ Loads(by, Refused)

-----------------------------------------------------------------------------
Init ==
    /\ checkpoint \in Checkpoints /\ limits \in Limits
    /\ release \in Releases
    /\ file = None /\ written = None /\ loader = None /\ loaded = None
Next ==
    \/ WriteReplay \/ WriteState
    \/ Damage \/ \E to \in Releases : Upgrade(to)
    \/ \E by \in Loaders : LoadReplay(by) \/ LoadState(by) \/ Refuse(by)
Spec == Init /\ [][Next]_vars

-----------------------------------------------------------------------------
(* Properties.                                                             *)

RECURSIVE Plain(_)
Plain(v) ==
    CASE v.kind = "numpy" -> Scalar(v.value)
      [] v.kind = "frozenset" -> [v EXCEPT !.items = {Plain(i) : i \in @}]
      [] v.kind \in {"list", "tuple", "mapping"} -> [v EXCEPT !.items = [i \in DOMAIN @ |-> Plain(@[i])]]
      [] OTHER -> v

\* A file that was written is accepted, within the same limits, by whoever runs
\* the same release with the same script, settings that compute the same within
\* budgets that suffice, and a provider if it needs one, unless something of it
\* was lost; and what is loaded is what was kept, of the same release and for the
\* same computation.
Suits(by) ==
    /\ by.script = checkpoint.script
    /\ by.settings # None =>
          /\ \A field \in SemanticSettings : by.settings[field] = checkpoint.settings[field]
          /\ Budget(by.settings) >= IF IsReplay THEN checkpoint.seed ELSE checkpoint.graph.bars
    /\ checkpoint.provider => by.provider
CheckpointsReturn ==
    loaded # None =>
        LET sound == file = written /\ written.payload.semanticsVersion = release IN
        /\ loaded = Refused <=> ~(sound /\ Suits(loader))
        /\ loaded # Refused =>
              /\ \A field \in SemanticSettings : loaded.settings[field] = checkpoint.settings[field]
              /\ IF IsReplay
                 THEN /\ loaded.params = Plain(checkpoint.params)
                      /\ loaded.bars = Plain(List(checkpoint.bars)).items
                      /\ loaded.seed = checkpoint.seed /\ loaded.retention = checkpoint.retention
                 ELSE loaded.graph = checkpoint.graph
=============================================================================
