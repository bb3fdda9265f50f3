------------------------------- MODULE Inputs -------------------------------
(***************************************************************************)
(* The parameters a script declares with input.* (input.py): a declaration *)
(* takes a key, looks it up among the parameters the host gave, checks     *)
(* what it finds and publishes it in the schema; the host shows the schema *)
(* and runs the script again with what it shows.                           *)
(*                                                                         *)
(* A value is its Python type and what str() shows of it: a number in      *)
(* halves (so 3 is 1.5), <<"float", NaN>> for one that is not finite, or a *)
(* word, in lower case.  A title is a text in parts: "Len" is <<"Len">> and*)
(* "Len_2" <<"Len", 2>>.  Tooltips, groups and other metadata of the page  *)
(* are left out.                                                           *)
(***************************************************************************)
EXTENDS Integers, Sequences

CONSTANTS
    Programs,      \* the declarations of a script, in order
    Overrides,     \* the parameters a host may give, by key
    Members,       \* the members of the script's Enum class
    None,          \* an argument that is not given
    NaN

\* Programs and titles are sequences.
IsSequence(s) == Len(s) \in Nat /\ s = [i \in 1 .. Len(s) |-> s[i]]
ConstantsAssumption ==
    \A p \in Programs : IsSequence(p) /\ \A i \in DOMAIN p : IsSequence(p[i].title)

VARIABLES
    program,
    params,
    at,            \* the declaration that is next
    schema,        \* _schema
    given,         \* what the declarations returned, in their order
    refused,       \* one of them raised
    shown          \* of the run before this one: its schema, and what it gave;
                   \* None in the first run

vars == <<program, params, at, schema, given, refused, shown>>

Value(kind, text) == [kind |-> kind, text |-> text]
Int1(n) == Value("int", <<"int", n>>)
Float(n) == Value("float", <<"float", n>>)
Bool(b) == Value("bool", <<"word", IF b THEN "true" ELSE "false">>)
Text(t) == Value("text", t)
Series(name) == Value("series", name)
Close == <<"word", "close">>
SourceNames == {<<"word", w>> : w \in {"open", "high", "low", "close", "hl2", "hlc3", "ohlc4", "hlcc4"}}

-----------------------------------------------------------------------------
(* What a declaration makes of a value; Invalid when it refuses it.        *)

Invalid == Value("invalid", <<>>)
IsNumber(v) == v.text[1] \in {"int", "float"} /\ v.text[2] # NaN
Number(v) == v.text[2]

CoerceInt(v) ==
    IF v.kind = "int" THEN v
    ELSE IF v.kind \in {"float", "text"} /\ IsNumber(v) /\ Number(v) % 2 = 0
    THEN Int1(Number(v)) ELSE Invalid
CoerceFloat(v) ==
    IF v.kind \in {"int", "float", "text"} /\ IsNumber(v) THEN Float(Number(v)) ELSE Invalid
CoerceBool(v) ==
    IF v.kind = "bool" THEN v
    ELSE IF v.kind \in {"int", "text"} /\ v.text \in {<<"int", 2>>, <<"word", "true">>} THEN Bool(TRUE)
    ELSE IF v.kind \in {"int", "text"} /\ v.text \in {<<"int", 0>>, <<"word", "false">>} THEN Bool(FALSE)
    ELSE Invalid
CoerceStr(v) == IF v.kind = "text" THEN v ELSE Invalid
CoerceTime(v) ==
    LET time == CoerceInt(v) IN IF time # Invalid /\ Number(time) >= 0 THEN time ELSE Invalid

\* _enum_token, and _identify_source: a series that is none of the bar's counts
\* as the close.
Token(v) == Text(v.text)
SourceName(v) ==
    IF v = None THEN Text(Close)
    ELSE IF v.kind = "series" /\ v.text \notin SourceNames THEN Text(Close)
    ELSE Token(v)

-----------------------------------------------------------------------------
(* A declaration.                                                          *)

\* input(): the kind is named by an alias, or follows from the default.
Aliases == [integer |-> "int", resolution |-> "timeframe", text |-> "string"]
Kind(d) ==
    IF d.call # "input" THEN d.call
    ELSE IF d.type # None
    THEN IF d.type \in DOMAIN Aliases THEN Aliases[d.type] ELSE d.type
    ELSE IF d.defval.kind \in {"bool", "int", "float"} THEN d.defval.kind
    ELSE IF d.defval.kind = "series" THEN "source" ELSE "string"

\* _next_key: the title, or a name of the place, and the first number that
\* tells it from the keys of the entries before it.
StateKeys(entries) == {entries[i].key : i \in DOMAIN entries}
Base(entries, d) == IF d.title # <<>> THEN d.title ELSE <<Kind(d), Len(entries)>>
Free(taken, base, n) ==
    Append(base, n) \notin taken /\ \A m \in 2 .. n - 1 : Append(base, m) \in taken
MutantNextKey(entries, d) == Append(Base(entries, d), at)
NextKey(entries, d) ==
    LET base == Base(entries, d)
        taken == StateKeys(entries)
    IN  IF base \notin taken THEN base
        ELSE Append(base, CHOOSE n \in 2 .. Len(entries) + 1 : Free(taken, base, n))

Default(d) ==
    IF Kind(d) \in {"float", "price"} THEN CoerceFloat(d.defval)
    ELSE IF Kind(d) = "time"
    THEN IF IsNumber(d.defval) THEN Int1(2 * (Number(d.defval) \div 2)) ELSE Invalid
    ELSE IF Kind(d) = "enum" THEN Token(d.defval)
    ELSE IF Kind(d) = "source" THEN SourceName(d.defval)
    ELSE d.defval

WithinBounds(d, v) ==
    /\ d.low # None => Number(v) >= Number(d.low)
    /\ d.high # None => Number(v) <= Number(d.high)
WithinOptions(d, v) == d.options # None => \E i \in DOMAIN d.options : d.options[i] = v

Choices(d) ==
    IF d.options # None THEN d.options
    ELSE IF d.defval.kind = "member" THEN Members ELSE <<d.defval>>
Places(d, token) == {i \in DOMAIN Choices(d) : Token(Choices(d)[i]) = token}
FirstPlace(d, token) == CHOOSE i \in Places(d, token) : \A j \in Places(d, token) : i <= j

\* _resolve
Selected(by, key, d) == IF key \in DOMAIN by THEN by[key] ELSE Default(d)

\* What the host is shown, and what the script gets, of a value.
Answer(current, value) == [current |-> current, value |-> value]
Refused == Answer(Invalid, Invalid)
Admitted(v, ok) == IF v # Invalid /\ ok THEN Answer(v, v) ELSE Refused

IntInput(d, v) == LET n == CoerceInt(v) IN Admitted(n, WithinBounds(d, n))
\* The default and the bounds have to be numbers as well.
FloatInput(d, v) ==
    LET n == CoerceFloat(v)
    IN  Admitted(n, /\ Default(d) # Invalid
                    /\ \A b \in {d.low, d.high} \ {None} : CoerceFloat(b) # Invalid
                    /\ WithinBounds(d, n))
PriceInput(d, v) == Admitted(CoerceFloat(v), Default(d) # Invalid)
BoolInput(d, v) == Admitted(CoerceBool(v), TRUE)
StringInput(d, v) == Admitted(CoerceStr(v), WithinOptions(d, v))
ColorInput(d, v) == Admitted(CoerceStr(v), TRUE)
TimeframeInput(d, v) == Admitted(CoerceStr(v), WithinOptions(d, v))
SymbolInput(d, v) == Admitted(CoerceStr(v), WithinOptions(d, v))
SessionInput(d, v) == Admitted(CoerceStr(v), WithinOptions(d, v))
TimeInput(d, v) == Admitted(CoerceTime(v), Default(d) # Invalid)
TextAreaInput(d, v) == Admitted(CoerceStr(v), TRUE)
\* The first choice that has the token.
EnumInput(d, v) ==
    LET token == Token(v)
    IN  IF Places(d, Default(d)) = {} \/ Places(d, token) = {} THEN Refused
        ELSE Answer(token, Choices(d)[FirstPlace(d, token)])
SourceInput(d, v) ==
    IF v.kind = "text"
    THEN IF v.text \in SourceNames THEN Answer(v, Series(v.text)) ELSE Refused
    ELSE IF v.kind = "series" THEN Answer(Default(d), v)
    ELSE Answer(Text(Close), Series(Close))

\* input() knows every kind but enum.
Result(d, v) ==
    IF Kind(d) = "int" THEN IntInput(d, v)
    ELSE IF Kind(d) = "float" THEN FloatInput(d, v)
    ELSE IF Kind(d) = "price" THEN PriceInput(d, v)
    ELSE IF Kind(d) = "bool" THEN BoolInput(d, v)
    ELSE IF Kind(d) = "string" THEN StringInput(d, v)
    ELSE IF Kind(d) = "color" THEN ColorInput(d, v)
    ELSE IF Kind(d) = "timeframe" THEN TimeframeInput(d, v)
    ELSE IF Kind(d) = "symbol" THEN SymbolInput(d, v)
    ELSE IF Kind(d) = "session" THEN SessionInput(d, v)
    ELSE IF Kind(d) = "time" THEN TimeInput(d, v)
    ELSE IF Kind(d) = "text_area" THEN TextAreaInput(d, v)
    ELSE IF Kind(d) = "source" THEN SourceInput(d, v)
    ELSE IF d.call = "enum" THEN EnumInput(d, v)
    ELSE Refused

-----------------------------------------------------------------------------
(* A run of the script, and the next one.                                  *)

\* _set_current, after all checks.
Selection == Selected(params, NextKey(schema, program[at]), program[at])
Entry(d, key, answer) ==
    [key |-> key, kind |-> Kind(d), title |-> d.title, default |-> Default(d), current |-> answer.current]
Declare ==
    /\ at <= Len(program)
    /\ LET d == program[at]
           answer == Result(d, Selection)
       IN
       /\ answer.current # Invalid
       /\ schema' = Append(schema, Entry(d, NextKey(schema, d), answer))
       /\ given' = Append(given, answer.value)
    /\ at' = at + 1
    /\ UNCHANGED <<program, params, refused, shown>>

\* A refused declaration leaves nothing behind; the script catches the error, or
\* ends with it.
Refuse(caught) ==
    /\ at <= Len(program)
    /\ Result(program[at], Selection).current = Invalid
    /\ at' = IF caught THEN at + 1 ELSE Len(program) + 1
    /\ refused' = TRUE
    /\ UNCHANGED <<program, params, schema, given, shown>>

\* The host runs the script with the parameters it was shown.
Currents(entries) ==
    [k \in StateKeys(entries) |-> entries[CHOOSE i \in DOMAIN entries : entries[i].key = k].current]
Rerun ==
    /\ at > Len(program) /\ shown = None
    /\ shown' = [schema |-> schema, given |-> given, whole |-> ~refused, by |-> params]
    /\ params' = Currents(schema)
    /\ at' = 1 /\ schema' = <<>> /\ given' = <<>> /\ refused' = FALSE
    /\ UNCHANGED program

Init ==
    /\ program \in Programs
    /\ params \in Overrides
    /\ at = 1 /\ schema = <<>> /\ given = <<>> /\ refused = FALSE /\ shown = None
Next == Declare \/ (\E caught \in BOOLEAN : Refuse(caught)) \/ Rerun
Spec == Init /\ [][Next]_vars

-----------------------------------------------------------------------------
(* Properties.                                                             *)

\* No two inputs have a key in common, and a key is numbered only after the
\* title itself and every smaller number are taken: docs/api/input.md:98, a
\* declaration that failed cannot be repeated under another key.
Stem(i) == IF schema[i].title # <<>> THEN schema[i].title ELSE <<schema[i].kind, i - 1>>
KeysBefore(i) == {schema[j].key : j \in 1 .. i - 1}
KeysAreStable ==
    \A i \in DOMAIN schema :
        /\ schema[i].key \notin KeysBefore(i)
        /\ \/ schema[i].key = Stem(i)
           \/ /\ Stem(i) \in KeysBefore(i)
              /\ \E n \in 2 .. i :
                    /\ schema[i].key = Append(Stem(i), n)
                    /\ \A m \in 2 .. n - 1 : Append(Stem(i), m) \in KeysBefore(i)

\* What a host was shown is what it gets: run again with the current values of
\* the schema, every declaration takes the same key, is accepted, and returns
\* the same value, whatever texts, numbers or tokens stood for them first.  (A
\* host that gave a series itself is shown the name of the default.)
GaveSeries == \E k \in DOMAIN shown.by : shown.by[k].kind = "series"
RerunRepeats ==
    (IF shown = None THEN FALSE ELSE shown.whole /\ ~GaveSeries) =>
        /\ ~refused
        /\ schema = SubSeq(shown.schema, 1, at - 1)
        /\ given = SubSeq(shown.given, 1, at - 1)
=============================================================================
