----------------------------- MODULE JsonString -----------------------------
(***************************************************************************)
(* tinyjson.hpp: the loop of dump_string and that of parse_string, a turn  *)
(* at a time, the second reading what the first has written.  A text is a  *)
(* sequence of byte values.                                                *)
(***************************************************************************)
EXTENDS Integers, Sequences

CONSTANT JsonStrings    \* the strings that are serialized

ASSUME JsonStringsAssumption == JsonStrings \subseteq Seq(0 .. 255)

VARIABLES
    str,        \* the string
    dumped,     \* the text of it
    starts,     \* where the text of each byte begins, and the next one's will
    cursor,     \* i_ of the parser
    parsed,     \* out of parse_string
    jpc         \* where the two calls are

jsonString == <<str, dumped, starts, cursor, parsed, jpc>>

Quote == 34
Backslash == 92

peek(s, i) == IF i <= Len(s) THEN s[i] ELSE 0

hexval(c) ==
    CASE c \in 48 .. 57 -> c - 48
      [] c \in 97 .. 102 -> c - 87
      [] c \in 65 .. 70 -> c - 55
      [] OTHER -> -1

(* UTF-8 of a code in the basic plane. *)
Utf8(code) ==
    IF code < 128 THEN <<code>>
    ELSE IF code < 2048 THEN <<192 + code \div 64, 128 + (code % 64)>>
    ELSE <<224 + code \div 4096, 128 + ((code \div 64) % 64), 128 + (code % 64)>>

(* What follows a backslash, and the byte it stands for. *)
Escapes == {<<34, 34>>, <<92, 92>>, <<47, 47>>, <<98, 8>>, <<102, 12>>,
            <<110, 10>>, <<114, 13>>, <<116, 9>>}

Puts(out, i) == [is |-> "put", put |-> out, i |-> i]
Ends(i) == [is |-> "end", put |-> <<>>, i |-> i]
Throws(i) == [is |-> "error", put |-> <<>>, i |-> i]

(* What the turn of parse_string's loop that begins at i does. *)
StringTurn(s, i) ==
    LET c == peek(s, i)
        e == peek(s, i + 1)
        hex == [n \in 1 .. 4 |-> hexval(peek(s, i + 1 + n))]
    IN  IF i > Len(s) THEN Throws(i)
        ELSE IF c = Quote THEN Ends(i + 1)
        ELSE IF c # Backslash THEN Puts(<<c>>, i + 1)
        ELSE IF \E p \in Escapes : p[1] = e
        THEN Puts(<<(CHOOSE p \in Escapes : p[1] = e)[2]>>, i + 2)
        ELSE IF e = 117 /\ \A n \in 1 .. 4 : hex[n] >= 0
        THEN Puts(Utf8(4096 * hex[1] + 256 * hex[2] + 16 * hex[3] + hex[4]), i + 6)
        ELSE Throws(i)

HexDigit(n) == IF n < 10 THEN 48 + n ELSE 87 + n

DumpByte(c) ==
    IF c # 47 /\ \E p \in Escapes : p[2] = c
    THEN <<Backslash, (CHOOSE p \in Escapes : p[2] = c)[1]>>
    ELSE IF c < 32 THEN <<Backslash, 117, 48, 48, HexDigit(c \div 16), HexDigit(c % 16)>>
    ELSE <<c>>

-----------------------------------------------------------------------------
JsonStringInit ==
    /\ str \in JsonStrings
    /\ dumped = <<Quote>> /\ starts = <<2>>
    /\ cursor = 1 /\ parsed = <<>>
    /\ jpc = "dump"

(* Only a quote is escaped: a backslash goes out as it is. *)
DumpTurnSlip ==
    /\ jpc = "dump" /\ Len(starts) <= Len(str)
    /\ LET c == str[Len(starts)]
       IN  dumped' = dumped \o (IF c = Quote THEN <<Backslash, Quote>> ELSE <<c>>)
    /\ starts' = Append(starts, Len(dumped') + 1)
    /\ UNCHANGED <<str, cursor, parsed, jpc>>

DumpTurn ==
    /\ jpc = "dump" /\ Len(starts) <= Len(str)
    /\ dumped' = dumped \o DumpByte(str[Len(starts)])
    /\ starts' = Append(starts, Len(dumped') + 1)
    /\ UNCHANGED <<str, cursor, parsed, jpc>>

DumpReturn ==
    /\ jpc = "dump" /\ Len(starts) > Len(str)
    /\ dumped' = Append(dumped, Quote)
    /\ jpc' = "open"
    /\ UNCHANGED <<str, starts, cursor, parsed>>

(* get() != '"' is an error. *)
ParseOpen ==
    /\ jpc = "open"
    /\ cursor' = cursor + 1
    /\ jpc' = IF peek(dumped, cursor) = Quote THEN "parse" ELSE "error"
    /\ UNCHANGED <<str, dumped, starts, parsed>>

ParseTurn ==
    /\ jpc = "parse"
    /\ LET turn == StringTurn(dumped, cursor)
       IN  /\ parsed' = parsed \o turn.put
           /\ cursor' = turn.i
           /\ jpc' = IF turn.is = "put" THEN "parse" ELSE turn.is
    /\ UNCHANGED <<str, dumped, starts>>

JsonStringNext == DumpTurn \/ DumpReturn \/ ParseOpen \/ ParseTurn

JsonStringSpec == JsonStringInit /\ [][JsonStringNext]_jsonString

(* Whatever bytes a string is made of, the parser reads the text that the  *)
(* serializer writes of it as the same bytes, without a ParseError, and    *)
(* stands behind the text's closing quote, not at a quote within it.       *)
JsonStringRoundTrip ==
    /\ jpc # "error"
    /\ jpc = "end" => parsed = str /\ cursor = Len(dumped) + 1
=============================================================================
