------------------------------ MODULE TinyJson ------------------------------
(***************************************************************************)
(* tinyjson.hpp: the recursive-descent parser and the serializer, on top   *)
(* of JsonString.  A double is kept as the decimal digits before and after *)
(* the point of the number it is nearest to.  That is exact for numerals   *)
(* of at most 15 digits that are below 10^15.                              *)
(***************************************************************************)
EXTENDS JsonString, FiniteSets, SequencesExt

Comma == 44
Plus == 43
Minus == 45
Dot == 46
Colon == 58
Space == {9, 10, 11, 12, 13, 32}
Digit == 48 .. 57

TrueText == <<116, 114, 117, 101>>
FalseText == <<102, 97, 108, 115, 101>>
NullText == <<110, 117, 108, 108>>

Null == [type |-> "null"]
Bool(b) == [type |-> "bool", is |-> b]
Number(neg, whole, frac) ==
    [type |-> "num", neg |-> neg, whole |-> whole, frac |-> frac]
String(text) == [type |-> "str", bytes |-> text]
Array(items) == [type |-> "arr", items |-> items]
Object(members) == [type |-> "obj", members |-> members]

(* A value and the index after it, or a ParseError. *)
Parsed(v, i) == [ok |-> TRUE, v |-> v, i |-> i]
ParseError == [ok |-> FALSE]

RECURSIVE skip_ws(_, _)
skip_ws(s, i) == IF peek(s, i) \in Space THEN skip_ws(s, i + 1) ELSE i

Literal(s, i, text, v) ==
    IF IsPrefix(text, SubSeq(s, i, Len(s))) THEN Parsed(v, i + Len(text)) ELSE ParseError

(* The index after the digits that start at i. *)
RECURSIVE Digits(_, _)
Digits(s, i) == IF peek(s, i) \in Digit THEN Digits(s, i + 1) ELSE i

Value10(digits) == FoldLeft(LAMBDA n, d : 10 * n + (d - 48), 0, digits)

Zeros(n) == [i \in 1 .. n |-> 48]

TrimZeros(digits) ==
    SubSeq(digits, 1, Max({0} \cup {i \in DOMAIN digits : digits[i] # 48}))

LeadingTrimmed(digits) == Reverse(TrimZeros(Reverse(digits)))

(* stod: the digits with the point behind the p-th of them.  It throws     *)
(* when the value is too large or too near zero for a double, here by its  *)
(* power of ten (what it does with a subnormal is up to the C library).    *)
stod(neg, digits, p) ==
    LET first == p - Len(digits) + Len(LeadingTrimmed(digits))
        whole == SubSeq(digits \o Zeros(p - Len(digits)), 1, p)
        frac == Zeros(-p) \o SubSeq(digits, IF p < 0 THEN 1 ELSE p + 1, Len(digits))
    IN  IF LeadingTrimmed(digits) # <<>> /\ first \notin -307 .. 309 THEN ParseError
        ELSE [ok |-> TRUE, v |-> Number(neg, LeadingTrimmed(whole), TrimZeros(frac))]

parse_number(s, start) ==
    LET neg == peek(s, start) = Minus
        i == IF neg THEN start + 1 ELSE start
        j == IF peek(s, i) = 48 THEN i + 1 ELSE Digits(s, i)
        k == IF peek(s, j) = Dot THEN Digits(s, j + 1) ELSE j
        hasExp == peek(s, k) \in {69, 101}
        x == IF peek(s, k + 1) \in {Plus, Minus} THEN k + 2 ELSE k + 1
        end == IF hasExp THEN Digits(s, x) ELSE k
        exp == (IF peek(s, k + 1) = Minus THEN -1 ELSE 1) * Value10(SubSeq(s, x, end - 1))
        value == stod(neg, SubSeq(s, i, j - 1) \o SubSeq(s, j + 1, k - 1),
                      (j - i) + IF hasExp THEN exp ELSE 0)
    IN  IF j = i \/ k = j + 1 \/ (hasExp /\ end = x) \/ ~value.ok THEN ParseError
        ELSE Parsed(value.v, end)

(* i is after the opening quote. *)
RECURSIVE parse_string(_, _, _)
parse_string(s, i, out) ==
    LET turn == StringTurn(s, i)
    IN  CASE turn.is = "error" -> ParseError
          [] turn.is = "end" -> Parsed(String(out), turn.i)
          [] turn.is = "put" -> parse_string(s, turn.i, out \o turn.put)

(* emplace: the first of two equal keys stays. *)
Emplace(o, key, v) ==
    IF key \in DOMAIN o THEN o ELSE [k \in DOMAIN o \cup {key} |-> IF k = key THEN v ELSE o[k]]

RECURSIVE parse_value(_, _)
RECURSIVE parse_members(_, _, _)
RECURSIVE parse_items(_, _, _)

(* The members of an object from i on, after those in o. *)
parse_members(s, i, o) ==
    LET key == parse_string(s, i + 1, <<>>)
        colon == skip_ws(s, key.i)
        val == parse_value(s, skip_ws(s, colon + 1))
        next == skip_ws(s, val.i)
        all == Emplace(o, key.v.bytes, val.v)
    IN  IF peek(s, i) # Quote \/ ~key.ok THEN ParseError
        ELSE IF peek(s, colon) # Colon \/ ~val.ok THEN ParseError
        ELSE IF peek(s, next) = 125 THEN Parsed(Object(all), next + 1)
        ELSE IF peek(s, next) = Comma THEN parse_members(s, skip_ws(s, next + 1), all)
        ELSE ParseError

parse_object(s, i) ==
    LET j == skip_ws(s, i + 1)
    IN  IF peek(s, j) = 125 THEN Parsed(Object(<<>>), j + 1) ELSE parse_members(s, j, <<>>)

parse_items(s, i, arr) ==
    LET val == parse_value(s, i)
        next == skip_ws(s, val.i)
        all == Append(arr, val.v)
    IN  IF ~val.ok THEN ParseError
        ELSE IF peek(s, next) = 93 THEN Parsed(Array(all), next + 1)
        ELSE IF peek(s, next) = Comma THEN parse_items(s, skip_ws(s, next + 1), all)
        ELSE ParseError

parse_array(s, i) ==
    LET j == skip_ws(s, i + 1)
    IN  IF peek(s, j) = 93 THEN Parsed(Array(<<>>), j + 1) ELSE parse_items(s, j, <<>>)

parse_value(s, i) ==
    LET c == peek(s, i) IN
    CASE c = 123 -> parse_object(s, i)
      [] c = 91 -> parse_array(s, i)
      [] c = Quote -> parse_string(s, i + 1, <<>>)
      [] c = 116 -> Literal(s, i, TrueText, Bool(TRUE))
      [] c = 102 -> Literal(s, i, FalseText, Bool(FALSE))
      [] c = 110 -> Literal(s, i, NullText, Null)
      [] c = Minus \/ c \in Digit -> parse_number(s, i)
      [] OTHER -> ParseError

parse(s) ==
    LET r == parse_value(s, skip_ws(s, 1))
    IN  IF r.ok /\ skip_ws(s, r.i) = Len(s) + 1 THEN r ELSE ParseError

-----------------------------------------------------------------------------
dump_string(s) ==
    <<Quote>> \o FlattenSeq([i \in DOMAIN s |-> DumpByte(s[i])]) \o <<Quote>>

(* The number after the one with these digits. *)
RECURSIVE Successor(_)
Successor(digits) ==
    IF digits = <<>> THEN <<49>>
    ELSE IF Last(digits) = 57 THEN Append(Successor(Front(digits)), 48)
    ELSE Append(Front(digits), Last(digits) + 1)

(* Sign, whole part and what is left of six decimals. *)
Printed(neg, digits) ==
    LET n == Len(digits) - 6
        frac == TrimZeros(SubSeq(digits, n + 1, n + 6))
    IN  (IF neg THEN <<Minus>> ELSE <<>>) \o (IF n = 0 THEN <<48>> ELSE SubSeq(digits, 1, n))
            \o (IF frac = <<>> THEN <<>> ELSE <<Dot>> \o frac)

SixDecimals(v) == v.whole \o SubSeq(v.frac \o Zeros(6), 1, 6)

(* The decimals after the sixth are cut off. *)
DumpNumberSlip(v, up) == Printed(v.neg, SixDecimals(v))

(* to_string rounds to six decimals, and then the zeros and the point at   *)
(* the end go.  A half is rounded as the double nearest to it lies: up.    *)
DumpNumber(v, up) ==
    LET rest == SubSeq(v.frac, 7, Len(v.frac))
        more == rest # <<>> /\ IF rest = <<53>> THEN up ELSE Head(rest) >= 53
    IN  Printed(v.neg, IF more THEN Successor(SixDecimals(v)) ELSE SixDecimals(v))

(* Byte order, the order of std::map. *)
KeyBefore(a, b) ==
    \E n \in 0 .. Len(a) :
        /\ n <= Len(b) /\ SubSeq(a, 1, n) = SubSeq(b, 1, n)
        /\ \/ n = Len(a) /\ n < Len(b)
           \/ n < Len(a) /\ n < Len(b) /\ a[n + 1] < b[n + 1]

Commas(texts) ==
    FlattenSeq([i \in DOMAIN texts |-> IF i = 1 THEN texts[i] ELSE <<Comma>> \o texts[i]])

RECURSIVE dumps(_, _)
dumps(v, up) ==
    CASE v.type = "null" -> NullText
      [] v.type = "bool" -> IF v.is THEN TrueText ELSE FalseText
      [] v.type = "num" -> DumpNumber(v, up)
      [] v.type = "str" -> dump_string(v.bytes)
      [] v.type = "arr" -> <<91>> \o Commas([i \in DOMAIN v.items |-> dumps(v.items[i], up)])
                               \o <<93>>
      [] v.type = "obj" ->
            LET keys == SetToSortSeq(DOMAIN v.members, KeyBefore)
            IN  <<123>> \o Commas([i \in DOMAIN keys |-> dump_string(keys[i])
                                      \o <<Colon>> \o dumps(v.members[keys[i]], up)])
                    \o <<125>>
=============================================================================
