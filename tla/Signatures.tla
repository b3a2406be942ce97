------------------------------ MODULE Signatures ------------------------------
(***************************************************************************)
(* How the arguments of a call become a payload, and a payload the         *)
(* arguments of a function: FnSignature and the two data converters.       *)
(*                                                                         *)
(* A value is its Python type and which one it is.  A function is declared *)
(* with its parameters in order.  What raises is a predicate beside the    *)
(* operator it would raise in.                                             *)
(***************************************************************************)
EXTENDS Integers, Sequences, FiniteSetsExt

Value(type, id) == [type |-> type, id |-> id]
None == Value("NoneType", "none")

\* A parameter: its hint is the set of types it may have, {} if it has none or Any;
\* its default is empty or one value.
Parameter(name, hint, default) == [name |-> name, hint |-> hint, default |-> default]
Empty == << >>

-----------------------------------------------------------------------------
(* FnSignature                                                             *)

\* A default of None is none.
HasDefault(p) == p.default \notin {Empty, << None >>}
DefaultValue(p) == IF p.default = Empty THEN None ELSE p.default[1]

\* FnSignature.of; self is no parameter, and only positional ones are allowed.
Declarable(fn) == fn.positional
Parameters(fn) == SelectSeq(fn.params, LAMBDA p : p.name # "self")

\* params_from_call raises no ValueError.
CallIsAccepted(params, args, kwargs) ==
    LET rest == (Len(args) + 1)..Len(params)
    IN  /\ Len(args) <= Len(params)
        /\ \A i \in rest : params[i].name \in DOMAIN kwargs \/ HasDefault(params[i])
        /\ DOMAIN kwargs \subseteq {params[i].name : i \in rest}

\* Mutant of params_from_call: keywords are looked up by name only.
params_from_call_keywords_first(params, args, kwargs) ==
    [i \in DOMAIN params |->
        CASE params[i].name \in DOMAIN kwargs -> kwargs[params[i].name]
          [] i <= Len(args) /\ DOMAIN kwargs = {} -> args[i]
          [] OTHER -> DefaultValue(params[i])]

params_from_call(params, args, kwargs) ==
    [i \in DOMAIN params |->
        CASE i <= Len(args) -> args[i]
          [] i > Len(args) /\ params[i].name \in DOMAIN kwargs -> kwargs[params[i].name]
          [] OTHER -> DefaultValue(params[i])]

-----------------------------------------------------------------------------
(* Data converters                                                         *)

\* JSON knows no classes and no enums, and cannot say everything.
Encodable(values) == \A i \in DOMAIN values : values[i].type # "socket"
JsonType(type) ==
    CASE type = "dataclass" -> "dict"
      [] type = "enum" -> "int"
      [] type = "datetime" -> "str"
      [] type \in {"set", "tuple"} -> "list"
      [] OTHER -> type
Json(value) == Value(JsonType(value.type), value.id)

Space == Value(" ", "space")

\* Values one after the other, a space between two.
to_data(values) ==
    [i \in 1..(2 * Len(values) - 1) |->
        IF i % 2 = 1 THEN Json(values[(i + 1) \div 2]) ELSE Space]

\* _decode_whitespace_delimited: a value, one character, the next value; what is
\* behind the last one that is wanted stays unread.
Decoded(payload, wanted) ==
    [i \in 1..Min({wanted, (Len(payload) + 1) \div 2}) |-> payload[2 * i - 1]]

Untyped(hint) == hint = {}
Fits(json, hint) == Untyped(hint) \/ \E type \in hint : json.type = JsonType(type)
Converted(json, hint) ==
    IF Untyped(hint) THEN json
    ELSE Value(CHOOSE type \in hint : json.type = JsonType(type), json.id)

\* _get_default
Zero(hint) ==
    IF hint \in {{"int"}, {"bool"}} THEN Value(CHOOSE type \in hint : TRUE, "zero") ELSE None

\* DefaultDataConverter.from_data raises for what is missing and untyped, and for
\* what does not fit; PydanticDataConverter never does.
FromDataIsAccepted(converter, payload, hints) ==
    LET values == Decoded(payload, Len(hints))
    IN  converter = "default" =>
            \A i \in DOMAIN hints :
                IF i <= Len(values) THEN Fits(values[i], hints[i]) ELSE ~Untyped(hints[i])

\* Pydantic hands on as it is what does not fit.
from_data(payload, hints) ==
    LET values == Decoded(payload, Len(hints))
    IN  [i \in DOMAIN hints |->
            CASE i > Len(values) -> Zero(hints[i])
              [] i <= Len(values) /\ Fits(values[i], hints[i]) -> Converted(values[i], hints[i])
              [] OTHER -> values[i]]

Hints(params) == [i \in DOMAIN params |-> params[i].hint]
=============================================================================
