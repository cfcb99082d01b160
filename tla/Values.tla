------------------------------- MODULE Values -------------------------------
(***************************************************************************)
(* How values become text and text values, by the type data.xml gives a    *)
(* variable.  Types fall into five classes: "bool", "integer", "float",    *)
(* "string", and "other" for a type without a decoder.  Numbers are        *)
(* counted in halves, so that some are whole and some are not.             *)
(***************************************************************************)
EXTENDS Integers

Types == {"bool", "integer", "float", "string", "other"}
IntegerTypes == {"bool", "integer"}

\* Text: digits, digits with a point, "nan" or "inf", "!off", or words, with
\* blanks around them or not.
Texts == [form : {"digits", "point"}, num : Int]
            \cup [form : {"special", "off", "word", "padded"}, num : {0}]

IsWhole(n) == n % 2 = 0

\* Python values: "special" is a nan or inf, "decimal" and "fraction" stand for the
\* numbers that are neither int nor float; a str holds a text.
PythonValues ==
    [is : {"int", "bool"}, num : {n \in Int : IsWhole(n)}]
        \cup [is : {"float", "decimal", "fraction"}, num : Int]
        \cup [is : {"special", "None"}, num : {0}]
        \cup [is : {"str"}, text : Texts]

None == [is |-> "None", num |-> 0]
Digits(n) == [form |-> "digits", num |-> n]
NotEncoded == [form |-> "InvalidValueError", num |-> 0]

\* The texts int() and float() read.
Readable(typ) == IF typ = "float" THEN {"digits", "point", "special"} ELSE {"digits"}

Stripped(raw) == IF raw.form = "padded" THEN [raw EXCEPT !.form = "word"] ELSE raw

\* _to_bool, int or float of a text.
Number(typ, raw) ==
    IF typ = "bool" THEN [is |-> "bool", num |-> IF raw.num = 0 THEN 0 ELSE 2]
    ELSE IF typ = "integer" THEN [is |-> "int", num |-> raw.num]
    ELSE [is |-> IF raw.form = "special" THEN "special" ELSE "float", num |-> raw.num]

\* None for a sentinel, and for what the decoder of the type cannot read.
DecodeValue(typ, raw) ==
    IF raw.form = "off" THEN None
    ELSE IF typ = "other" THEN [is |-> "str", text |-> raw]
    ELSE IF typ = "string" THEN [is |-> "str", text |-> Stripped(raw)]
    ELSE IF raw.form \in Readable(typ) THEN Number(typ, raw)
    ELSE None

\* str(value) of what is not a str; a fraction that is not whole has a bar in it.
FormOf ==
    [int |-> "digits", bool |-> "digits", float |-> "point", decimal |-> "point",
     fraction |-> "digits", special |-> "special", None |-> "word"]

Str(value) ==
    IF value.is = "fraction" /\ ~IsWhole(value.num) THEN [form |-> "word", num |-> 0]
    ELSE [form |-> FormOf[value.is], num |-> value.num]

\* int() of a number.
Truncated(n) == IF IsWhole(n) THEN n ELSE IF n > 0 THEN n - 1 ELSE n + 1

\* Mutated form of EncodeValue: floats are written as they are.
EncodeValueAsGiven(typ, value) == IF value.is = "str" THEN value.text ELSE Str(value)

EncodeValue(typ, value) ==
    IF value.is = "str" THEN value.text
    ELSE IF typ \notin IntegerTypes THEN Str(value)
    ELSE IF value.is \in {"special", "None"} \/ (value.is = "float" /\ ~IsWhole(value.num)) THEN NotEncoded
    ELSE Digits(Truncated(value.num))

Accepted(typ, value) == EncodeValue(typ, value) # NotEncoded
=============================================================================
