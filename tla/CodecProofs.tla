---------------------------- MODULE CodecProofs -----------------------------
(***************************************************************************)
(* The two codecs that stand between a client's bytes and the core, for    *)
(* byte strings of every length: the text that one loop writes the other   *)
(* reads back.                                                             *)
(***************************************************************************)
EXTENDS JsonString, Base64, SequenceTheorems, TLAPS

\* Unless a leaf names Zenon it is one for SMT; the limit leaves a slow machine its time.
USE SMTT(60)

(* Bytes, characters with the padding, and places in a sequence. *)
Octet == 0 .. 255
Letter == 0 .. 64
Place == Nat \ {0}

ByteString == Seq(Octet)

-----------------------------------------------------------------------------
(* The text of the byte c stands in s from i on. *)
Spells(s, i, c) ==
    \A j \in 1 .. Len(DumpByte(c)) : i + j - 1 <= Len(s) /\ s[i + j - 1] = DumpByte(c)[j]

LEMMA EscapesDiffer ==
    \A p, q \in Escapes : p[1] = q[1] \/ p[2] = q[2] => p = q
BY DEF Escapes

LEMMA EscapeCodes ==
    \A p \in Escapes : p[1] \in Octet /\ p[2] \in Octet /\ p[1] # 117
BY DEF Escapes, Octet

(* What dump_string writes of a byte: an escape, a code, or the byte. *)
LEMMA DumpByteIs ==
    ASSUME NEW c \in Octet
    PROVE  \/ \E p \in Escapes : p[2] = c /\ DumpByte(c) = <<Backslash, p[1]>>
           \/ /\ c < 32
              /\ DumpByte(c) = <<Backslash, 117, 48, 48, HexDigit(c \div 16), HexDigit(c % 16)>>
           \/ c # Quote /\ c # Backslash /\ DumpByte(c) = <<c>>
<1>1. CASE c # 47 /\ \E p \in Escapes : p[2] = c
  <2>1. PICK p \in Escapes : p[2] = c BY <1>1
  <2>2. (CHOOSE r \in Escapes : r[2] = c) = p BY <2>1, EscapesDiffer, ZenonT(60)
  <2> QED BY <1>1, <2>1, <2>2, ZenonT(60) DEF DumpByte
<1>2. CASE ~(c # 47 /\ \E p \in Escapes : p[2] = c)
  <2>1. c # Quote /\ c # Backslash
    <3>1. <<34, 34>> \in Escapes /\ <<92, 92>> \in Escapes BY DEF Escapes
    <3>2. <<34, 34>>[2] = 34 /\ <<92, 92>>[2] = 92 OBVIOUS
    <3> QED BY <1>2, <3>1, <3>2 DEF Quote, Backslash
  <2>2. DumpByte(c) = IF c < 32
                      THEN <<Backslash, 117, 48, 48, HexDigit(c \div 16), HexDigit(c % 16)>>
                      ELSE <<c>>
    BY <1>2, ZenonT(60) DEF DumpByte
  <2>3. CASE c < 32 BY <2>2, <2>3, ZenonT(60)
  <2>4. CASE ~(c < 32) BY <2>1, <2>2, <2>4, ZenonT(60)
  <2> QED BY <2>3, <2>4, ZenonT(60)
<1> QED BY <1>1, <1>2

LEMMA HexDigitValue ==
    ASSUME NEW n \in 0 .. 15
    PROVE  HexDigit(n) \in Octet /\ hexval(HexDigit(n)) = n
<1>1. CASE n < 10
  <2>1. HexDigit(n) = 48 + n /\ 48 + n \in 48 .. 57 BY <1>1 DEF HexDigit
  <2> QED BY <2>1 DEF hexval, Octet
<1>2. CASE n >= 10
  <2>1. HexDigit(n) = 87 + n /\ 87 + n \in 97 .. 102 BY <1>2 DEF HexDigit
  <2>2. 87 + n \notin 48 .. 57 /\ 87 + n \notin 65 .. 70 BY <2>1
  <2> QED BY <2>1, <2>2 DEF hexval, Octet
<1> QED BY <1>1, <1>2

LEMMA DumpByteType ==
    ASSUME NEW c \in Octet
    PROVE  DumpByte(c) \in Seq(Octet) /\ Len(DumpByte(c)) \in Nat \ {0}
<1>1. CASE \E p \in Escapes : p[2] = c /\ DumpByte(c) = <<Backslash, p[1]>>
  <2>1. PICK p \in Escapes : DumpByte(c) = <<Backslash, p[1]>> BY <1>1
  <2>2. p[1] \in Octet /\ Backslash \in Octet BY EscapeCodes, <2>1 DEF Backslash, Octet
  <2> QED BY <2>1, <2>2
<1>2. CASE /\ c < 32
           /\ DumpByte(c) = <<Backslash, 117, 48, 48, HexDigit(c \div 16), HexDigit(c % 16)>>
  <2>1. c \div 16 \in 0 .. 15 /\ c % 16 \in 0 .. 15 BY <1>2 DEF Octet
  <2>2. HexDigit(c \div 16) \in Octet /\ HexDigit(c % 16) \in Octet
    BY <2>1, HexDigitValue, ZenonT(60)
  <2>3. Backslash \in Octet /\ 117 \in Octet /\ 48 \in Octet BY DEF Backslash, Octet
  <2> QED BY <1>2, <2>2, <2>3
<1>3. CASE DumpByte(c) = <<c>>
  BY <1>3
<1> QED BY <1>1, <1>2, <1>3, DumpByteIs, ZenonT(60)

(* A turn of parse_string's loop at the text of a byte puts that byte and  *)
(* goes on behind its text.                                                *)
LEMMA TurnReadsByte ==
    ASSUME NEW s \in Seq(Octet), NEW i \in Nat \ {0}, NEW c \in Octet, Spells(s, i, c)
    PROVE  StringTurn(s, i) = Puts(<<c>>, i + Len(DumpByte(c)))
<1> DEFINE D == DumpByte(c)
<1>0. Len(s) \in Nat BY LenProperties
<1>1. CASE \E p \in Escapes : p[2] = c /\ D = <<Backslash, p[1]>>
  <2>1. PICK p \in Escapes : p[2] = c /\ D = <<Backslash, p[1]>> BY <1>1
  <2>2. Len(D) = 2 /\ D[1] = Backslash /\ D[2] = p[1] BY <2>1
  <2>3. /\ i <= Len(s) /\ s[i] = Backslash
        /\ i + 1 <= Len(s) /\ s[i + 1] = p[1]
    <3>1. /\ i + 1 - 1 <= Len(s) /\ s[i + 1 - 1] = D[1]
          /\ i + 2 - 1 <= Len(s) /\ s[i + 2 - 1] = D[2]
      BY <2>2 DEF Spells
    <3>2. i + 1 - 1 = i /\ i + 2 - 1 = i + 1 OBVIOUS
    <3> QED BY <2>2, <3>1, <3>2
  <2>4. peek(s, i) = Backslash /\ peek(s, i + 1) = p[1] BY <2>3 DEF peek
  <2>5. (CHOOSE r \in Escapes : r[1] = p[1]) = p BY <2>1, EscapesDiffer, ZenonT(60)
  <2>6. ~(i > Len(s)) /\ Backslash # Quote BY <1>0, <2>3 DEF Backslash, Quote
  <2>7. StringTurn(s, i) = Puts(<<c>>, i + 2)
    BY <2>1, <2>4, <2>5, <2>6, ZenonT(60) DEF StringTurn
  <2> QED BY <2>2, <2>7
<1>2. CASE c < 32 /\ D = <<Backslash, 117, 48, 48, HexDigit(c \div 16), HexDigit(c % 16)>>
  <2> DEFINE h == HexDigit(c \div 16)
             l == HexDigit(c % 16)
  <2>1. c \div 16 \in 0 .. 15 /\ c % 16 \in 0 .. 15 /\ c \in 0 .. 31 BY <1>2 DEF Octet
  <2>2. hexval(h) = c \div 16 /\ hexval(l) = c % 16 BY <2>1, HexDigitValue, ZenonT(60)
  <2> HIDE DEF h, l
  <2>3. /\ Len(D) = 6 /\ D[1] = Backslash /\ D[2] = 117 /\ D[3] = 48 /\ D[4] = 48
        /\ D[5] = h /\ D[6] = l
    BY <1>2 DEF h, l
  <2> HIDE DEF D
  <2>4. /\ i + 1 - 1 <= Len(s) /\ s[i + 1 - 1] = D[1] /\ i + 2 - 1 <= Len(s) /\ s[i + 2 - 1] = D[2]
        /\ i + 3 - 1 <= Len(s) /\ s[i + 3 - 1] = D[3] /\ i + 4 - 1 <= Len(s) /\ s[i + 4 - 1] = D[4]
        /\ i + 5 - 1 <= Len(s) /\ s[i + 5 - 1] = D[5] /\ i + 6 - 1 <= Len(s) /\ s[i + 6 - 1] = D[6]
    <3>1. \A j \in 1 .. Len(D) : i + j - 1 <= Len(s) /\ s[i + j - 1] = D[j] BY DEF Spells, D
    <3>2. /\ 1 \in 1 .. Len(D) /\ 2 \in 1 .. Len(D) /\ 3 \in 1 .. Len(D)
          /\ 4 \in 1 .. Len(D) /\ 5 \in 1 .. Len(D) /\ 6 \in 1 .. Len(D)
      BY <2>3
    <3> QED BY <3>1, <3>2, ZenonT(60)
  <2>5. /\ i + 1 - 1 = i /\ i + 2 - 1 = i + 1 /\ i + 3 - 1 = i + 1 + 1 /\ i + 4 - 1 = i + 1 + 2
        /\ i + 5 - 1 = i + 1 + 3 /\ i + 6 - 1 = i + 1 + 4
    OBVIOUS
  <2>6. /\ peek(s, i) = Backslash /\ peek(s, i + 1) = 117
        /\ peek(s, i + 1 + 1) = 48 /\ peek(s, i + 1 + 2) = 48
        /\ peek(s, i + 1 + 3) = h /\ peek(s, i + 1 + 4) = l
    BY <2>3, <2>4, <2>5, ZenonT(60) DEF peek
  <2> DEFINE hex == [n \in 1 .. 4 |-> hexval(peek(s, i + 1 + n))]
  <2>7. hex[1] = 0 /\ hex[2] = 0 /\ hex[3] = c \div 16 /\ hex[4] = c % 16
    <3>1. hexval(48) = 0 BY DEF hexval
    <3>2. hex[1] = hexval(peek(s, i + 1 + 1)) /\ hex[2] = hexval(peek(s, i + 1 + 2))
      OBVIOUS
    <3>3. hex[3] = hexval(peek(s, i + 1 + 3)) /\ hex[4] = hexval(peek(s, i + 1 + 4))
      OBVIOUS
    <3> QED BY <2>2, <2>6, <3>1, <3>2, <3>3, ZenonT(60)
  <2>8. \A n \in 1 .. 4 : hex[n] >= 0
    <3> HIDE DEF hex
    <3>1. \A n \in 1 .. 4 : n = 1 \/ n = 2 \/ n = 3 \/ n = 4 OBVIOUS
    <3>2. hex[1] >= 0 /\ hex[2] >= 0 /\ hex[3] >= 0 /\ hex[4] >= 0 BY <2>1, <2>7
    <3> QED BY <3>1, <3>2, ZenonT(60)
  <2>9. Utf8(4096 * hex[1] + 256 * hex[2] + 16 * hex[3] + hex[4]) = <<c>>
    <3> HIDE DEF hex
    <3>1. 4096 * hex[1] + 256 * hex[2] + 16 * hex[3] + hex[4] = c BY <2>1, <2>7
    <3>2. Utf8(c) = <<c>> BY <2>1 DEF Utf8
    <3> QED BY <3>1, <3>2
  <2>10. ~(\E p \in Escapes : p[1] = 117) BY EscapeCodes
  <2>11. i <= Len(s) /\ ~(i > Len(s)) BY <1>0, <2>4, <2>5
  <2>12. Backslash # Quote BY DEF Backslash, Quote
  <2>13. StringTurn(s, i) = Puts(Utf8(4096 * hex[1] + 256 * hex[2] + 16 * hex[3] + hex[4]), i + 6)
    <3> HIDE DEF Utf8, Puts
    <3> QED BY <2>6, <2>8, <2>10, <2>11, <2>12 DEF StringTurn
  <2>14. StringTurn(s, i) = Puts(<<c>>, i + 6)
    <3> HIDE DEF hex
    <3> QED BY <2>9, <2>13
  <2> QED BY <2>3, <2>14 DEF D
<1>3. CASE c # Quote /\ c # Backslash /\ D = <<c>>
  <2>1. Len(D) = 1 /\ D[1] = c BY <1>3
  <2>2. i <= Len(s) /\ s[i] = c
    <3>1. i + 1 - 1 <= Len(s) /\ s[i + 1 - 1] = D[1] BY <2>1 DEF Spells
    <3>2. i + 1 - 1 = i OBVIOUS
    <3> QED BY <2>1, <3>1, <3>2
  <2>3. peek(s, i) = c /\ ~(i > Len(s)) BY <1>0, <2>2 DEF peek
  <2>4. StringTurn(s, i) = Puts(<<c>>, i + 1) BY <1>3, <2>3 DEF StringTurn
  <2> QED BY <2>1, <2>4
<1> QED BY <1>1, <1>2, <1>3, DumpByteIs, ZenonT(60)

(* The bytes dumped so far stand one behind the other, from the opening    *)
(* quote on.                                                               *)
DumpedInv ==
    /\ Len(starts) >= 1 /\ Len(starts) <= Len(str) + 1 /\ starts[1] = 2
    /\ Len(dumped) >= 1 /\ dumped[1] = Quote
    /\ \A k \in 1 .. Len(starts) - 1 :
           /\ starts[k + 1] = starts[k] + Len(DumpByte(str[k]))
           /\ Spells(dumped, starts[k], str[k])

(* The text is complete: behind the last byte stands the closing quote. *)
TextInv ==
    /\ Len(starts) = Len(str) + 1 /\ starts[Len(starts)] = Len(dumped)
    /\ dumped[Len(dumped)] = Quote

(* The parser has read whole bytes. *)
ParseInv ==
    /\ Len(parsed) <= Len(str)
    /\ \A k \in 1 .. Len(parsed) : parsed[k] = str[k]
    /\ cursor = starts[Len(parsed) + 1]

JsonStringInv ==
    /\ str \in ByteString /\ dumped \in Seq(Octet) /\ parsed \in Seq(Octet)
    /\ starts \in Seq(Place) /\ cursor \in Nat
    /\ jpc \in {"dump", "open", "parse", "end"}
    /\ DumpedInv
    /\ jpc = "dump" =>
           starts[Len(starts)] = Len(dumped) + 1 /\ parsed = <<>> /\ cursor = 1
    /\ jpc \in {"open", "parse", "end"} => TextInv
    /\ jpc = "open" => parsed = <<>> /\ cursor = 1
    /\ jpc = "parse" => ParseInv
    /\ jpc = "end" => parsed = str /\ cursor = Len(dumped) + 1

(* A text that is continued still spells what it spelled. *)
LEMMA SpellsLonger ==
    ASSUME NEW s \in Seq(Octet), NEW t \in Seq(Octet), NEW i \in Place, NEW c \in Octet,
           Len(s) <= Len(t), \A k \in 1 .. Len(s) : t[k] = s[k], Spells(s, i, c)
    PROVE  Spells(t, i, c)
<1>1. Len(s) \in Nat /\ Len(t) \in Nat /\ i \in Nat /\ i > 0 BY LenProperties DEF Place
<1>2. Len(DumpByte(c)) \in Nat BY DumpByteType
<1> DEFINE n == Len(DumpByte(c))
<1> SUFFICES ASSUME NEW j \in 1 .. n
             PROVE  i + j - 1 <= Len(t) /\ t[i + j - 1] = DumpByte(c)[j]
  BY DEF Spells
<1>3. i + j - 1 <= Len(s) /\ s[i + j - 1] = DumpByte(c)[j] BY DEF Spells
<1> HIDE DEF n
<1>4. i + j - 1 \in 1 .. Len(s) /\ i + j - 1 <= Len(t)
  <2>1. n \in Nat BY <1>2 DEF n
  <2> QED BY <1>1, <1>3, <2>1
<1>5. t[i + j - 1] = s[i + j - 1] BY <1>4, ZenonT(60)
<1> QED BY <1>3, <1>4, <1>5, ZenonT(60)

LEMMA DumpTurnStep == JsonStringInv /\ DumpTurn => JsonStringInv'
<1> SUFFICES ASSUME JsonStringInv, DumpTurn PROVE JsonStringInv'
  OBVIOUS
<1> DEFINE n == Len(starts)
           c == str[n]
           D == DumpByte(c)
           t == dumped \o D
           g == Append(starts, Len(t) + 1)
<1>1. /\ jpc = "dump" /\ n <= Len(str) /\ dumped' = t /\ starts' = g
      /\ str' = str /\ cursor' = cursor /\ parsed' = parsed /\ jpc' = jpc
  BY DEF DumpTurn
<1>2. /\ str \in ByteString /\ dumped \in Seq(Octet) /\ parsed \in Seq(Octet)
      /\ starts \in Seq(Place) /\ cursor \in Nat /\ DumpedInv
      /\ starts[n] = Len(dumped) + 1 /\ parsed = <<>> /\ cursor = 1
  BY <1>1 DEF JsonStringInv
<1>3. /\ n >= 1 /\ starts[1] = 2 /\ Len(dumped) >= 1 /\ dumped[1] = Quote
      /\ \A k \in 1 .. n - 1 : /\ starts[k + 1] = starts[k] + Len(DumpByte(str[k]))
                               /\ Spells(dumped, starts[k], str[k])
  BY <1>2 DEF DumpedInv
<1>4. n \in Nat /\ Len(dumped) \in Nat /\ Len(str) \in Nat
  BY <1>2, LenProperties DEF ByteString
<1>5. n \in 1 .. Len(str) BY <1>1, <1>3, <1>4
<1>6. \A k \in 1 .. Len(str) : str[k] \in Octet
  BY <1>2, ElementOfSeq DEF ByteString
<1>7. c \in Octet BY <1>5, <1>6
<1> HIDE DEF c
<1>8. D \in Seq(Octet) /\ Len(D) \in Nat /\ Len(D) > 0 BY <1>7, DumpByteType
<1> HIDE DEF D
<1>9. /\ t \in Seq(Octet) /\ Len(t) = Len(dumped) + Len(D)
      /\ \A k \in 1 .. Len(dumped) + Len(D) :
             t[k] = IF k <= Len(dumped) THEN dumped[k] ELSE D[k - Len(dumped)]
  BY <1>2, <1>8, ConcatProperties
<1> HIDE DEF t
<1>10. Len(t) \in Nat /\ Len(dumped) <= Len(t) /\ \A k \in 1 .. Len(dumped) : t[k] = dumped[k]
  BY <1>4, <1>8, <1>9
<1>11. Spells(t, starts[n], c)
  <2> SUFFICES ASSUME NEW j \in 1 .. Len(D)
               PROVE  starts[n] + j - 1 <= Len(t) /\ t[starts[n] + j - 1] = D[j]
    BY DEF Spells, D
  <2> DEFINE i == Len(dumped) + j
  <2>1. starts[n] + j - 1 = i BY <1>2, <1>4, <1>8
  <2>2. /\ i \in 1 .. Len(dumped) + Len(D) /\ ~(i <= Len(dumped)) /\ i - Len(dumped) = j
        /\ i <= Len(t)
    BY <1>4, <1>8, <1>9
  <2>3. t[i] = D[j] BY <1>9, <2>2
  <2> QED BY <2>1, <2>2, <2>3
<1>12. /\ g \in Seq(Place) /\ Len(g) = n + 1 /\ g[n + 1] = Len(t) + 1
       /\ \A k \in 1 .. n : g[k] = starts[k]
  <2>1. Len(t) + 1 \in Place BY <1>10 DEF Place
  <2> QED BY <1>2, <2>1, AppendProperties
<1> HIDE DEF g
<1>13. ASSUME NEW k \in 1 .. Len(g) - 1
       PROVE  g[k + 1] = g[k] + Len(DumpByte(str[k])) /\ Spells(t, g[k], str[k])
  <2>1. k \in 1 .. n BY <1>4, <1>12
  <2>2. CASE k = n
    <3>1. g[k] = starts[n] /\ g[k + 1] = Len(t) + 1 BY <1>12, <2>1, <2>2
    <3>2. str[k] = c BY <2>2 DEF c
    <3>3. Len(DumpByte(str[k])) = Len(D) BY <3>2 DEF D
    <3>4. Len(t) + 1 = starts[n] + Len(D) BY <1>2, <1>4, <1>8, <1>9
    <3> QED BY <1>11, <3>1, <3>2, <3>3, <3>4, ZenonT(60)
  <2>3. CASE k # n
    <3>1. k \in 1 .. n - 1 /\ k + 1 \in 1 .. n /\ k \in 1 .. Len(str)
      BY <1>4, <1>5, <2>1, <2>3
    <3>2. g[k] = starts[k] /\ g[k + 1] = starts[k + 1] BY <1>12, <2>1, <3>1
    <3>3. /\ starts[k + 1] = starts[k] + Len(DumpByte(str[k]))
          /\ Spells(dumped, starts[k], str[k])
      BY <1>3, <3>1, ZenonT(60)
    <3>4. starts[k] \in Place BY <1>2, <2>1, ElementOfSeq
    <3>5. str[k] \in Octet BY <1>6, <3>1, ZenonT(60)
    <3>6. Spells(t, starts[k], str[k])
      BY <1>2, <1>9, <1>10, <3>3, <3>4, <3>5, SpellsLonger, ZenonT(60)
    <3> QED BY <3>2, <3>3, <3>6, ZenonT(60)
  <2> QED BY <2>2, <2>3
<1>14. DumpedInv'
  <2>1. Len(g) >= 1 /\ Len(g) <= Len(str) + 1 BY <1>1, <1>3, <1>4, <1>12
  <2>2. g[1] = 2 BY <1>3, <1>4, <1>12
  <2>3. Len(t) >= 1 /\ t[1] = Quote BY <1>3, <1>4, <1>10
  <2>4. \A k \in 1 .. Len(g) - 1 : /\ g[k + 1] = g[k] + Len(DumpByte(str[k]))
                                   /\ Spells(t, g[k], str[k])
    BY <1>13
  <2> QED BY <1>1, <2>1, <2>2, <2>3, <2>4, ZenonT(60) DEF DumpedInv
<1>15. starts'[Len(starts')] = Len(dumped') + 1 BY <1>1, <1>12, ZenonT(60)
<1> QED BY <1>1, <1>2, <1>9, <1>12, <1>14, <1>15 DEF JsonStringInv

LEMMA DumpReturnStep == JsonStringInv /\ DumpReturn => JsonStringInv'
<1> SUFFICES ASSUME JsonStringInv, DumpReturn PROVE JsonStringInv'
  OBVIOUS
<1> DEFINE t == Append(dumped, Quote)
<1>1. /\ jpc = "dump" /\ Len(starts) > Len(str) /\ dumped' = t /\ jpc' = "open"
      /\ str' = str /\ starts' = starts /\ cursor' = cursor /\ parsed' = parsed
  BY DEF DumpReturn
<1>2. /\ str \in ByteString /\ dumped \in Seq(Octet) /\ parsed \in Seq(Octet)
      /\ starts \in Seq(Place) /\ cursor \in Nat /\ DumpedInv
      /\ starts[Len(starts)] = Len(dumped) + 1 /\ parsed = <<>> /\ cursor = 1
  BY <1>1 DEF JsonStringInv
<1>3. /\ Len(starts) >= 1 /\ Len(starts) <= Len(str) + 1 /\ starts[1] = 2
      /\ Len(dumped) >= 1 /\ dumped[1] = Quote
      /\ \A k \in 1 .. Len(starts) - 1 :
            /\ starts[k + 1] = starts[k] + Len(DumpByte(str[k]))
            /\ Spells(dumped, starts[k], str[k])
  BY <1>2 DEF DumpedInv
<1>4. Len(starts) \in Nat /\ Len(dumped) \in Nat /\ Len(str) \in Nat
  BY <1>2, LenProperties DEF ByteString
<1>5. Quote \in Octet BY DEF Quote, Octet
<1>6. /\ t \in Seq(Octet) /\ Len(t) = Len(dumped) + 1 /\ t[Len(dumped) + 1] = Quote
      /\ \A k \in 1 .. Len(dumped) : t[k] = dumped[k]
  BY <1>2, <1>5, AppendProperties
<1> HIDE DEF t
<1>7. Len(dumped) <= Len(t) /\ Len(t) >= 1 /\ t[1] = Quote BY <1>3, <1>4, <1>6
<1>8. ASSUME NEW k \in 1 .. Len(starts) - 1
      PROVE  /\ starts[k + 1] = starts[k] + Len(DumpByte(str[k]))
             /\ Spells(t, starts[k], str[k])
  <2>1. k \in 1 .. Len(str) /\ k \in 1 .. Len(starts) BY <1>3, <1>4
  <2>2. starts[k] \in Place BY <1>2, <2>1, ElementOfSeq
  <2>3. str[k] \in Octet BY <1>2, <2>1, ElementOfSeq DEF ByteString
  <2>4. Spells(t, starts[k], str[k])
    BY <1>2, <1>3, <1>6, <1>7, <2>2, <2>3, SpellsLonger, ZenonT(60)
  <2> QED BY <1>3, <2>4, ZenonT(60)
<1>9. DumpedInv' BY <1>1, <1>3, <1>7, <1>8, ZenonT(60) DEF DumpedInv
<1>10. TextInv'
  <2>1. Len(starts) = Len(str) + 1 BY <1>1, <1>3, <1>4
  <2>2. starts[Len(starts)] = Len(t) /\ t[Len(t)] = Quote BY <1>2, <1>6
  <2> QED BY <1>1, <2>1, <2>2, ZenonT(60) DEF TextInv
<1> QED BY <1>1, <1>2, <1>6, <1>9, <1>10 DEF JsonStringInv

LEMMA ParseOpenStep == JsonStringInv /\ ParseOpen => JsonStringInv'
<1> SUFFICES ASSUME JsonStringInv, ParseOpen PROVE JsonStringInv'
  OBVIOUS
<1>1. /\ jpc = "open" /\ cursor' = cursor + 1
      /\ jpc' = IF peek(dumped, cursor) = Quote THEN "parse" ELSE "error"
      /\ str' = str /\ dumped' = dumped /\ starts' = starts /\ parsed' = parsed
  BY DEF ParseOpen
<1>2. /\ str \in ByteString /\ dumped \in Seq(Octet) /\ parsed \in Seq(Octet)
      /\ starts \in Seq(Place) /\ DumpedInv /\ TextInv /\ parsed = <<>> /\ cursor = 1
  BY <1>1 DEF JsonStringInv
<1>3. Len(dumped) >= 1 /\ dumped[1] = Quote /\ starts[1] = 2 BY <1>2 DEF DumpedInv
<1>4. Len(dumped) \in Nat /\ Len(str) \in Nat BY <1>2, LenProperties DEF ByteString
<1>5. peek(dumped, cursor) = Quote
  <2>1. 1 <= Len(dumped) BY <1>3, <1>4
  <2> QED BY <1>2, <1>3, <2>1, ZenonT(60) DEF peek
<1>6. jpc' = "parse" /\ cursor' = 2 BY <1>1, <1>2, <1>5
<1>7. DumpedInv' /\ TextInv' BY <1>1, <1>2 DEF DumpedInv, TextInv
<1>8. ParseInv'
  <2>1. Len(<<>>) = 0 OBVIOUS
  <2>2. Len(parsed') = 0 BY <1>1, <1>2, <2>1, ZenonT(60)
  <2>3. Len(parsed') <= Len(str') /\ Len(parsed') + 1 = 1 BY <1>1, <1>4, <2>2
  <2>4. \A k \in 1 .. Len(parsed') : parsed'[k] = str'[k] BY <2>2
  <2>5. cursor' = starts'[Len(parsed') + 1] BY <1>1, <1>3, <1>6, <2>3
  <2> QED BY <2>3, <2>4, <2>5, ZenonT(60) DEF ParseInv
<1>9. cursor' \in Nat BY <1>6
<1> QED BY <1>1, <1>2, <1>6, <1>7, <1>8, <1>9 DEF JsonStringInv

LEMMA ParseTurnStep == JsonStringInv /\ ParseTurn => JsonStringInv'
<1> SUFFICES ASSUME JsonStringInv, ParseTurn PROVE JsonStringInv'
  OBVIOUS
<1> DEFINE turn == StringTurn(dumped, cursor)
<1>1. /\ jpc = "parse" /\ parsed' = parsed \o turn.put /\ cursor' = turn.i
      /\ jpc' = IF turn.is = "put" THEN "parse" ELSE turn.is
      /\ str' = str /\ dumped' = dumped /\ starts' = starts
  BY DEF ParseTurn
<1> HIDE DEF turn
<1>2. /\ str \in ByteString /\ dumped \in Seq(Octet) /\ parsed \in Seq(Octet)
      /\ starts \in Seq(Place) /\ cursor \in Nat /\ DumpedInv /\ TextInv /\ ParseInv
  BY <1>1 DEF JsonStringInv
<1> DEFINE n == Len(parsed)
<1>3. /\ n <= Len(str) /\ cursor = starts[n + 1]
      /\ \A k \in 1 .. n : parsed[k] = str[k]
  BY <1>2 DEF ParseInv
<1>4. /\ Len(starts) = Len(str) + 1 /\ starts[Len(starts)] = Len(dumped)
      /\ dumped[Len(dumped)] = Quote
  BY <1>2 DEF TextInv
<1>5. n \in Nat /\ Len(str) \in Nat /\ Len(dumped) \in Nat
  BY <1>2, LenProperties DEF ByteString
<1>6. DumpedInv' /\ TextInv' BY <1>1, <1>2 DEF DumpedInv, TextInv
<1>7. CASE n = Len(str)
  <2>1. cursor = Len(dumped) BY <1>3, <1>4, <1>7
  <2>2. peek(dumped, cursor) = Quote /\ ~(cursor > Len(dumped))
    <3>1. cursor <= Len(dumped) /\ ~(cursor > Len(dumped)) BY <1>5, <2>1
    <3>2. dumped[cursor] = Quote BY <1>4, <2>1, ZenonT(60)
    <3> QED BY <3>1, <3>2, ZenonT(60) DEF peek
  <2>3. turn = Ends(cursor + 1) BY <2>2, ZenonT(60) DEF StringTurn, turn
  <2>4. turn.is = "end" /\ turn.put = <<>> /\ turn.i = cursor + 1 BY <2>3 DEF Ends
  <2>5. parsed' = parsed
    <3>1. parsed \o <<>> = parsed BY <1>2, ConcatEmptySeq
    <3> QED BY <1>1, <2>4, <3>1
  <2>6. parsed = str BY <1>2, <1>3, <1>7, SeqEqual, ZenonT(60) DEF ByteString
  <2>7. jpc' = "end" /\ cursor' = Len(dumped') + 1 /\ cursor' \in Nat BY <1>1, <1>2, <2>1, <2>4
  <2> QED BY <1>1, <1>2, <1>6, <2>5, <2>6, <2>7 DEF JsonStringInv
<1>8. CASE n # Len(str)
  <2> DEFINE c == str[n + 1]
             m == Len(DumpByte(c))
  <2>1. n + 1 \in 1 .. Len(str) /\ n + 1 \in 1 .. Len(starts) - 1 BY <1>3, <1>4, <1>5, <1>8
  <2>2. c \in Octet BY <1>2, <2>1, ElementOfSeq DEF ByteString
  <2>3. starts[n + 1 + 1] = starts[n + 1] + m /\ Spells(dumped, starts[n + 1], c)
    BY <1>2, <2>1, ZenonT(60) DEF DumpedInv
  <2> HIDE DEF c
  <2>4. m \in Nat BY <2>2, DumpByteType
  <2>5. cursor \in Nat \ {0}
    <3>1. n + 1 \in 1 .. Len(starts) BY <1>4, <1>5, <2>1
    <3>2. starts[n + 1] \in Place BY <1>2, <3>1, ElementOfSeq
    <3> QED BY <1>3, <3>2 DEF Place
  <2>6. turn = Puts(<<c>>, cursor + m)
    BY <1>2, <1>3, <2>2, <2>3, <2>5, TurnReadsByte, ZenonT(60) DEF turn
  <2> HIDE DEF m
  <2>7. turn.is = "put" /\ turn.put = <<c>> /\ turn.i = cursor + m BY <2>6 DEF Puts
  <2> DEFINE d == <<c>>
             p == parsed \o d
  <2>8. d \in Seq(Octet) /\ Len(d) = 1 /\ d[1] = c BY <2>2
  <2> HIDE DEF d
  <2>9. /\ p \in Seq(Octet) /\ Len(p) = n + 1
        /\ \A k \in 1 .. n + 1 : p[k] = IF k <= n THEN parsed[k] ELSE d[k - n]
    <3>1. /\ p \in Seq(Octet) /\ Len(p) = n + Len(d)
          /\ \A k \in 1 .. n + Len(d) : p[k] = IF k <= n THEN parsed[k] ELSE d[k - n]
      <4>1. parsed \in Seq(Octet) /\ d \in Seq(Octet) BY <1>2, <2>8, ZenonT(60)
      <4> QED BY <4>1, ConcatProperties, ZenonT(60)
    <3> QED BY <2>8, <3>1, ZenonT(60)
  <2>10. parsed' = p BY <1>1, <2>7 DEF d
  <2> HIDE DEF p
  <2>11. \A k \in 1 .. n + 1 : p[k] = str[k]
    <3>1. \A k \in 1 .. n + 1 : k \in 1 .. n \/ k = n + 1 BY <1>5
    <3>2. ASSUME NEW k \in 1 .. n PROVE p[k] = str[k]
      <4>1. k <= n /\ k \in 1 .. n + 1 BY <1>5
      <4> QED BY <1>3, <2>9, <4>1, ZenonT(60)
    <3>3. p[n + 1] = str[n + 1]
      <4>1. n + 1 \in 1 .. n + 1 /\ ~(n + 1 <= n) /\ n + 1 - n = 1 BY <1>5
      <4>2. p[n + 1] = d[n + 1 - n] BY <2>9, <4>1
      <4> QED BY <2>8, <4>1, <4>2, ZenonT(60) DEF c
    <3> QED BY <3>1, <3>2, <3>3, ZenonT(60)
  <2>12. cursor' = starts[n + 1 + 1] /\ cursor' \in Nat /\ jpc' = "parse"
    BY <1>1, <1>2, <1>3, <2>3, <2>4, <2>7 DEF m
  <2>13. n + 1 <= Len(str) BY <2>1
  <2>14. ParseInv' BY <1>1, <2>9, <2>10, <2>11, <2>12, <2>13, ZenonT(60) DEF ParseInv
  <2> QED BY <1>1, <1>2, <1>6, <2>9, <2>10, <2>12, <2>14 DEF JsonStringInv
<1> QED BY <1>7, <1>8

(* json::dumps of a string of any bytes and any length is a text that      *)
(* parse_string reads back as the same bytes, to its end and no further,   *)
(* and no text that dump_string wrote is a ParseError.                     *)
THEOREM JsonStringRoundTripHolds == JsonStringSpec => []JsonStringRoundTrip
<1>1. JsonStringInit => JsonStringInv
  <2> SUFFICES ASSUME JsonStringInit PROVE JsonStringInv
    OBVIOUS
  <2>1. /\ str \in JsonStrings /\ dumped = <<Quote>> /\ starts = <<2>> /\ cursor = 1
        /\ parsed = <<>> /\ jpc = "dump"
    BY DEF JsonStringInit
  <2>2. str \in ByteString BY <2>1, JsonStringsAssumption DEF ByteString, Octet
  <2>3. Quote \in Octet /\ 2 \in Place BY DEF Quote, Octet, Place
  <2>4. dumped \in Seq(Octet) /\ Len(dumped) = 1 /\ dumped[1] = Quote BY <2>1, <2>3
  <2>5. starts \in Seq(Place) /\ Len(starts) = 1 /\ starts[1] = 2 BY <2>1, <2>3
  <2>6. parsed \in Seq(Octet) BY <2>1, EmptySeq
  <2>7. Len(str) \in Nat BY <2>2, LenProperties DEF ByteString
  <2>8. DumpedInv BY <2>4, <2>5, <2>7 DEF DumpedInv
  <2>9. starts[Len(starts)] = Len(dumped) + 1 BY <2>4, <2>5
  <2> QED BY <2>1, <2>2, <2>4, <2>5, <2>6, <2>8, <2>9 DEF JsonStringInv
<1>2. JsonStringInv /\ [JsonStringNext]_jsonString => JsonStringInv'
  <2> SUFFICES ASSUME JsonStringInv, [JsonStringNext]_jsonString PROVE JsonStringInv'
    OBVIOUS
  <2>1. CASE UNCHANGED jsonString
    BY <2>1, ZenonT(60) DEF jsonString, JsonStringInv, DumpedInv, TextInv, ParseInv
  <2> QED BY <2>1, DumpTurnStep, DumpReturnStep, ParseOpenStep, ParseTurnStep, ZenonT(60)
          DEF JsonStringNext
<1>3. JsonStringInv => JsonStringRoundTrip
  BY DEF JsonStringInv, JsonStringRoundTrip
<1> QED BY <1>1, <1>2, <1>3, PTL DEF JsonStringSpec

-----------------------------------------------------------------------------
SameLowBits(v, w) == v % 16384 = w % 16384

(* The accumulator overflows at its top: the low 14 bits stay. *)
LEMMA KeepLowBits ==
    ASSUME NEW v \in Nat
    PROVE  Keep(v) \in Nat /\ SameLowBits(Keep(v), v)
<1> DEFINE t == AccSize \div 16384
           m == v \div AccSize
           u == t * m
<1>1. AccSize \in Nat \ {0} /\ AccSize % 16384 = 0 BY Base64Assumption
<1>2. t \in Nat /\ AccSize = 16384 * t BY <1>1
<1>3. m \in Nat /\ Keep(v) \in Nat /\ v = AccSize * m + Keep(v) BY <1>1 DEF Keep
<1> HIDE DEF t, m
<1>4. u \in Nat /\ AccSize * m = 16384 * u BY <1>2, <1>3
<1> HIDE DEF u
<1>5. v = 16384 * u + Keep(v) BY <1>3, <1>4
<1> HIDE DEF Keep
<1> QED BY <1>3, <1>4, <1>5 DEF SameLowBits

LEMMA ByteAtType ==
    ASSUME NEW in \in ByteString, NEW i \in Place
    PROVE  ByteAt(in, i) \in Octet
<1>1. CASE i <= Len(in)
  <2>1. i \in 1 .. Len(in) BY <1>1, LenProperties DEF ByteString, Place
  <2> QED BY <1>1, <2>1, ElementOfSeq DEF ByteAt, ByteString
<1> QED BY <1>1 DEF ByteAt, Octet

(* The four characters of a group, from its three bytes. *)
LEMMA SextetIs ==
    ASSUME NEW in \in ByteString, NEW q \in Nat
    PROVE  LET b(i) == ByteAt(in, 3 * q + i)
           IN  /\ Sextet(in, 4 * q + 1) = b(1) \div 4
               /\ Sextet(in, 4 * q + 2) = (b(1) % 4) * 16 + (b(2) \div 16)
               /\ Sextet(in, 4 * q + 3) = (b(2) % 16) * 4 + (b(3) \div 64)
               /\ Sextet(in, 4 * q + 4) = b(3) % 64
<1> DEFINE b1 == ByteAt(in, 3 * q + 1)
           b2 == ByteAt(in, 3 * q + 2)
           b3 == ByteAt(in, 3 * q + 3)
<1>1. b1 \in 0 .. 255 /\ b2 \in 0 .. 255 /\ b3 \in 0 .. 255
  <2>1. 3 * q + 1 \in Place /\ 3 * q + 2 \in Place /\ 3 * q + 3 \in Place BY DEF Place
  <2>2. b1 \in Octet /\ b2 \in Octet /\ b3 \in Octet BY <2>1, ByteAtType, ZenonT(60)
  <2> QED BY <2>2 DEF Octet
<1>2. Group(in, q) = 65536 * b1 + 256 * b2 + b3 BY DEF Group
<1> HIDE DEF b1, b2, b3
<1> DEFINE g == Group(in, q)
<1>3. Sextet(in, 4 * q + 1) = (g \div 262144) % 64
  <2>1. (4 * q + 1 - 1) \div 4 = q /\ 1 + ((4 * q + 1 - 1) % 4) = 1 OBVIOUS
  <2>2. <<262144, 4096, 64, 1>>[1] = 262144 OBVIOUS
  <2> QED BY <2>1, <2>2 DEF Sextet
<1>4. Sextet(in, 4 * q + 2) = (g \div 4096) % 64
  <2>1. (4 * q + 2 - 1) \div 4 = q /\ 1 + ((4 * q + 2 - 1) % 4) = 2 OBVIOUS
  <2>2. <<262144, 4096, 64, 1>>[2] = 4096 OBVIOUS
  <2> QED BY <2>1, <2>2 DEF Sextet
<1>5. Sextet(in, 4 * q + 3) = (g \div 64) % 64
  <2>1. (4 * q + 3 - 1) \div 4 = q /\ 1 + ((4 * q + 3 - 1) % 4) = 3 OBVIOUS
  <2>2. <<262144, 4096, 64, 1>>[3] = 64 OBVIOUS
  <2> QED BY <2>1, <2>2 DEF Sextet
<1>6. Sextet(in, 4 * q + 4) = (g \div 1) % 64
  <2>1. (4 * q + 4 - 1) \div 4 = q /\ 1 + ((4 * q + 4 - 1) % 4) = 4 OBVIOUS
  <2>2. <<262144, 4096, 64, 1>>[4] = 1 OBVIOUS
  <2> QED BY <2>1, <2>2 DEF Sextet
<1> HIDE DEF g
<1>7. g = 65536 * b1 + 256 * b2 + b3 BY <1>2 DEF g
<1>8. (g \div 262144) % 64 = b1 \div 4 BY <1>1, <1>7
<1>9. (g \div 4096) % 64 = (b1 % 4) * 16 + (b2 \div 16)
  <2> DEFINE h == b1 \div 4
             r == b1 % 4
             e == b2 \div 16
             f == b2 % 16
  <2>1. h \in 0 .. 63 /\ r \in 0 .. 3 /\ b1 = 4 * h + r BY <1>1
  <2>2. e \in 0 .. 15 /\ f \in 0 .. 15 /\ b2 = 16 * e + f BY <1>1
  <2> HIDE DEF h, r, e, f
  <2>3. g \div 4096 = 64 * h + (16 * r + e) BY <1>1, <1>7, <2>1, <2>2
  <2>4. (g \div 4096) % 64 = r * 16 + e BY <2>1, <2>2, <2>3
  <2> QED BY <2>4 DEF r, e
<1>10. (g \div 64) % 64 = (b2 % 16) * 4 + (b3 \div 64) BY <1>1, <1>7
<1>11. (g \div 1) % 64 = b3 % 64 BY <1>1, <1>7
<1> QED BY <1>3, <1>4, <1>5, <1>6, <1>8, <1>9, <1>10, <1>11 DEF b1, b2, b3
-----------------------------------------------------------------------------
(* How many characters have a bit of a byte of in in them. *)
CharCount(in) == (4 * Len(in) + 2) \div 3

(* The bits of the accumulator w that are still to be written or read: so  *)
(* many of the last element b that was taken in, after those of a.         *)
Holds2(w, b) == w % 4 = b % 4
Holds4(w, b) == w % 16 = b % 16
Holds6(w, b) == w % 64 = b % 64
Holds8(w, b) == w % 256 = b
Holds10(w, a, b) == w % 1024 = (a % 4) * 256 + b
Holds12(w, a, b) == w % 4096 = (a % 16) * 256 + b

(* In the group after q whole ones. *)
EncodeState(q) ==
    LET b(i) == ByteAt(bytes, 3 * q + i) IN
    \/ taken = 3 * q /\ valb = -6 /\ Len(chars) = 4 * q
    \/ taken = 3 * q + 1 /\ valb = 2 /\ Len(chars) = 4 * q /\ Holds8(val, b(1))
    \/ taken = 3 * q + 1 /\ valb = -4 /\ Len(chars) = 4 * q + 1 /\ Holds2(val, b(1))
    \/ taken = 3 * q + 2 /\ valb = 4 /\ Len(chars) = 4 * q + 1 /\ Holds10(val, b(1), b(2))
    \/ taken = 3 * q + 2 /\ valb = -2 /\ Len(chars) = 4 * q + 2 /\ Holds4(val, b(2))
    \/ taken = 3 * q + 3 /\ valb = 6 /\ Len(chars) = 4 * q + 2 /\ Holds12(val, b(2), b(3))
    \/ taken = 3 * q + 3 /\ valb = 0 /\ Len(chars) = 4 * q + 3 /\ Holds6(val, b(3))

EncodeInv ==
    /\ taken <= Len(bytes) /\ back = <<>>
    /\ \A k \in 1 .. Len(chars) : chars[k] = Sextet(bytes, k)
    /\ \E q \in Nat : EncodeState(q)

PadInv ==
    /\ Len(chars) >= CharCount(bytes) /\ Len(chars) <= 4 * ((Len(bytes) + 2) \div 3)
    /\ back = <<>>
    /\ \A k \in 1 .. Len(chars) :
           chars[k] = IF k <= CharCount(bytes) THEN Sextet(bytes, k) ELSE Pad

DecodeState(q) ==
    LET s(k) == Sextet(bytes, 4 * q + k) IN
    \/ taken = 4 * q /\ valb = -8 /\ Len(back) = 3 * q
    \/ taken = 4 * q + 1 /\ valb = -2 /\ Len(back) = 3 * q /\ Holds6(val, s(1))
    \/ taken = 4 * q + 2 /\ valb = -4 /\ Len(back) = 3 * q + 1 /\ Holds4(val, s(2))
    \/ taken = 4 * q + 3 /\ valb = -6 /\ Len(back) = 3 * q + 2 /\ Holds2(val, s(3))

DecodeInv ==
    /\ chars = Standard(bytes)
    /\ taken <= CharCount(bytes)
    /\ \A i \in 1 .. Len(back) : back[i] = ByteAt(bytes, i)
    /\ \E q \in Nat : DecodeState(q)

Base64Inv ==
    /\ bytes \in ByteString /\ chars \in Seq(Letter) /\ back \in Seq(Octet)
    /\ taken \in Nat /\ val \in Nat /\ valb \in Int
    /\ bpc \in {"encode", "pad", "decode", "done"}
    /\ bpc = "encode" => EncodeInv
    /\ bpc = "pad" => PadInv
    /\ bpc = "decode" => DecodeInv
    /\ bpc = "done" => chars = Standard(bytes) /\ back = bytes

LEMMA SextetType ==
    ASSUME NEW in \in ByteString, NEW k \in Place
    PROVE  Sextet(in, k) \in 0 .. 63
<1> DEFINE q == (k - 1) \div 4
<1>0. k \in Nat /\ k > 0 BY DEF Place
<1>1. q \in Nat BY <1>0
<1>2. k = 4 * q + 1 \/ k = 4 * q + 2 \/ k = 4 * q + 3 \/ k = 4 * q + 4 BY <1>0
<1> HIDE DEF q
<1> DEFINE b1 == ByteAt(in, 3 * q + 1)
           b2 == ByteAt(in, 3 * q + 2)
           b3 == ByteAt(in, 3 * q + 3)
<1>3. b1 \in 0 .. 255 /\ b2 \in 0 .. 255 /\ b3 \in 0 .. 255
  <2>1. 3 * q + 1 \in Place /\ 3 * q + 2 \in Place /\ 3 * q + 3 \in Place
    BY <1>1 DEF Place
  <2>2. b1 \in Octet /\ b2 \in Octet /\ b3 \in Octet BY <2>1, ByteAtType, ZenonT(60)
  <2> QED BY <2>2 DEF Octet
<1>4. /\ Sextet(in, 4 * q + 1) = b1 \div 4
      /\ Sextet(in, 4 * q + 2) = (b1 % 4) * 16 + (b2 \div 16)
      /\ Sextet(in, 4 * q + 3) = (b2 % 16) * 4 + (b3 \div 64)
      /\ Sextet(in, 4 * q + 4) = b3 % 64
  BY <1>1, SextetIs
<1> HIDE DEF b1, b2, b3
<1>5. /\ b1 \div 4 \in 0 .. 63 /\ (b1 % 4) * 16 + (b2 \div 16) \in 0 .. 63
      /\ (b2 % 16) * 4 + (b3 \div 64) \in 0 .. 63 /\ b3 % 64 \in 0 .. 63
  BY <1>3
<1> QED BY <1>2, <1>4, <1>5

(* A character, or a byte, that is the next one continues what is there. *)
LEMMA AppendSextet ==
    ASSUME NEW in \in ByteString, NEW c \in Seq(Letter), NEW s,
           s = Sextet(in, Len(c) + 1),
           \A k \in 1 .. Len(c) : c[k] = Sextet(in, k)
    PROVE  /\ Append(c, s) \in Seq(Letter) /\ Len(Append(c, s)) = Len(c) + 1
           /\ \A k \in 1 .. Len(Append(c, s)) : Append(c, s)[k] = Sextet(in, k)
<1>1. Len(c) \in Nat BY LenProperties
<1>2. s \in Letter
  <2>1. Len(c) + 1 \in Place BY <1>1 DEF Place
  <2>2. s \in 0 .. 63 BY <2>1, SextetType, ZenonT(60)
  <2> QED BY <2>2 DEF Letter
<1> DEFINE d == Append(c, s)
<1>3. /\ d \in Seq(Letter) /\ Len(d) = Len(c) + 1
      /\ \A k \in 1 .. Len(c) : d[k] = c[k]
      /\ d[Len(c) + 1] = s
  BY <1>2, AppendProperties
<1> HIDE DEF d
<1>4. \A k \in 1 .. Len(d) : d[k] = Sextet(in, k) BY <1>1, <1>3
<1> QED BY <1>3, <1>4 DEF d

LEMMA AppendByte ==
    ASSUME NEW in \in ByteString, NEW c \in Seq(Octet), NEW s,
           s = ByteAt(in, Len(c) + 1),
           \A i \in 1 .. Len(c) : c[i] = ByteAt(in, i)
    PROVE  /\ Append(c, s) \in Seq(Octet) /\ Len(Append(c, s)) = Len(c) + 1
           /\ \A i \in 1 .. Len(Append(c, s)) : Append(c, s)[i] = ByteAt(in, i)
<1>1. Len(c) \in Nat BY LenProperties
<1>2. s \in Octet
  <2>1. Len(c) + 1 \in Place BY <1>1 DEF Place
  <2> QED BY <2>1, ByteAtType, ZenonT(60)
<1> DEFINE d == Append(c, s)
<1>3. /\ d \in Seq(Octet) /\ Len(d) = Len(c) + 1
      /\ \A k \in 1 .. Len(c) : d[k] = c[k]
      /\ d[Len(c) + 1] = s
  BY <1>2, AppendProperties
<1> HIDE DEF d
<1>4. \A i \in 1 .. Len(d) : d[i] = ByteAt(in, i) BY <1>1, <1>3
<1> QED BY <1>3, <1>4 DEF d

(* What is in the accumulator after a byte was taken in. *)
Takes8(w, v, c) == SameLowBits(w, v * 256 + c)

LEMMA TakeByte ==
    ASSUME NEW v \in Nat, NEW w \in Nat, NEW a \in Octet, NEW c \in Octet, Takes8(w, v, c)
    PROVE  /\ Holds8(w, c)
           /\ Holds2(v, a) => Holds10(w, a, c)
           /\ Holds4(v, a) => Holds12(w, a, c)
<1>1. w % 16384 = (v * 256 + c) % 16384 BY DEF Takes8, SameLowBits
<1>2. a \in 0 .. 255 /\ c \in 0 .. 255 BY DEF Octet
<1>3. Holds8(w, c) BY <1>1, <1>2 DEF Holds8
<1>4. Holds2(v, a) => Holds10(w, a, c) BY <1>1, <1>2 DEF Holds2, Holds10
<1>5. Holds4(v, a) => Holds12(w, a, c) BY <1>1, <1>2 DEF Holds4, Holds12
<1> QED BY <1>3, <1>4, <1>5

(* The six bits that are written out, and what stays. *)
SixBits(w, n) == ShiftRight(w, n) % 64

LEMMA PutChar ==
    ASSUME NEW w \in Nat, NEW a \in Octet, NEW b \in Octet
    PROVE  /\ Holds8(w, b) => SixBits(w, 2) = b \div 4 /\ Holds2(w, b)
           /\ Holds10(w, a, b) => SixBits(w, 4) = (a % 4) * 16 + (b \div 16) /\ Holds4(w, b)
           /\ Holds12(w, a, b) => SixBits(w, 6) = (a % 16) * 4 + (b \div 64) /\ Holds6(w, b)
           /\ Holds6(w, b) => SixBits(w, 0) = b % 64
<1>1. a \in 0 .. 255 /\ b \in 0 .. 255 BY DEF Octet
<1>2. /\ SixBits(w, 0) = w % 64 /\ SixBits(w, 2) = (w \div 4) % 64
      /\ SixBits(w, 4) = (w \div 16) % 64 /\ SixBits(w, 6) = (w \div 64) % 64
  BY DEF SixBits, ShiftRight
<1>3. Holds8(w, b) => (w \div 4) % 64 = b \div 4 /\ Holds2(w, b)
  BY <1>1 DEF Holds8, Holds2
<1>4. Holds10(w, a, b) => (w \div 16) % 64 = (a % 4) * 16 + (b \div 16) /\ Holds4(w, b)
  BY <1>1 DEF Holds10, Holds4
<1>5. Holds12(w, a, b) => (w \div 64) % 64 = (a % 16) * 4 + (b \div 64) /\ Holds6(w, b)
  BY <1>1 DEF Holds12, Holds6
<1>6. Holds6(w, b) => w % 64 = b % 64 BY DEF Holds6
<1> QED BY <1>2, <1>3, <1>4, <1>5, <1>6

LEMMA EncodeByteStep == Base64Inv /\ EncodeByte => Base64Inv'
<1> SUFFICES ASSUME Base64Inv, EncodeByte PROVE Base64Inv'
  OBVIOUS
<1> DEFINE c == bytes[taken + 1]
           u == val * 256 + c
<1>1. /\ bpc = "encode" /\ valb < 0 /\ taken < Len(bytes)
      /\ val' = Keep(u) /\ valb' = valb + 8 /\ taken' = taken + 1
      /\ bytes' = bytes /\ chars' = chars /\ back' = back /\ bpc' = bpc
  BY DEF EncodeByte
<1>2. /\ bytes \in ByteString /\ chars \in Seq(Letter) /\ back \in Seq(Octet)
      /\ taken \in Nat /\ val \in Nat /\ valb \in Int
  BY DEF Base64Inv
<1>3. EncodeInv BY <1>1 DEF Base64Inv
<1>4. PICK q \in Nat : EncodeState(q) BY <1>3 DEF EncodeInv
<1>5. Len(bytes) \in Nat /\ Len(chars) \in Nat BY <1>2, LenProperties DEF ByteString
<1> DEFINE b1 == ByteAt(bytes, 3 * q + 1)
           b2 == ByteAt(bytes, 3 * q + 2)
           b3 == ByteAt(bytes, 3 * q + 3)
<1>6. b1 \in Octet /\ b2 \in Octet /\ b3 \in Octet
  <2>1. 3 * q + 1 \in Place /\ 3 * q + 2 \in Place /\ 3 * q + 3 \in Place
    BY <1>4 DEF Place
  <2> QED BY <1>2, <2>1, ByteAtType, ZenonT(60)
<1>7. c = ByteAt(bytes, taken + 1) /\ c \in Octet
  <2> DEFINE n == taken + 1
  <2>1. n \in Place /\ n <= Len(bytes) BY <1>1, <1>2, <1>5 DEF Place
  <2> HIDE DEF n
  <2>2. bytes[n] = ByteAt(bytes, n) BY <2>1, ZenonT(60) DEF ByteAt
  <2>3. ByteAt(bytes, n) \in Octet BY <1>2, <2>1, ByteAtType, ZenonT(60)
  <2> QED BY <2>2, <2>3 DEF n
<1> HIDE DEF c
<1>8. val' \in Nat /\ Takes8(val', val, c)
  <2>1. c \in 0 .. 255 BY <1>7 DEF Octet
  <2>2. u \in Nat BY <1>2, <2>1
  <2>3. Keep(u) \in Nat /\ SameLowBits(Keep(u), u) BY <2>2, KeepLowBits, ZenonT(60)
  <2> QED BY <1>1, <2>3, ZenonT(60) DEF Takes8
<1> HIDE DEF u, b1, b2, b3
<1>9. /\ Holds8(val', c)
      /\ Holds2(val, b1) => Holds10(val', b1, c)
      /\ Holds4(val, b2) => Holds12(val', b2, c)
  BY <1>2, <1>6, <1>7, <1>8, TakeByte, ZenonT(60)
<1>10. EncodeState(q)'
  <2>1. CASE valb = -6
    <3>1. taken = 3 * q /\ Len(chars) = 4 * q
      BY <1>1, <1>4, <2>1 DEF EncodeState
    <3>2. taken' = 3 * q + 1 /\ valb' = 2 /\ taken + 1 = 3 * q + 1 BY <1>1, <1>4, <2>1, <3>1
    <3>3. Holds8(val', ByteAt(bytes', 3 * q + 1)) BY <1>1, <1>7, <1>9, <3>2
    <3> QED BY <1>1, <3>1, <3>2, <3>3 DEF EncodeState
  <2>2. CASE valb = -4
    <3>1. taken = 3 * q + 1 /\ Len(chars) = 4 * q + 1 /\ Holds2(val, b1)
      BY <1>1, <1>4, <2>2 DEF EncodeState, b1
    <3>2. taken' = 3 * q + 2 /\ valb' = 4 /\ taken + 1 = 3 * q + 2 BY <1>1, <1>4, <2>2, <3>1
    <3>3. Holds10(val', ByteAt(bytes', 3 * q + 1), ByteAt(bytes', 3 * q + 2))
      BY <1>1, <1>7, <1>9, <3>1, <3>2 DEF b1
    <3> QED BY <1>1, <3>1, <3>2, <3>3 DEF EncodeState
  <2>3. CASE valb = -2
    <3>1. taken = 3 * q + 2 /\ Len(chars) = 4 * q + 2 /\ Holds4(val, b2)
      BY <1>1, <1>4, <2>3 DEF EncodeState, b2
    <3>2. taken' = 3 * q + 3 /\ valb' = 6 /\ taken + 1 = 3 * q + 3 BY <1>1, <1>4, <2>3, <3>1
    <3>3. Holds12(val', ByteAt(bytes', 3 * q + 2), ByteAt(bytes', 3 * q + 3))
      BY <1>1, <1>7, <1>9, <3>1, <3>2 DEF b2
    <3> QED BY <1>1, <3>1, <3>2, <3>3 DEF EncodeState
  <2>4. valb \in {-6, -4, -2} BY <1>1, <1>4 DEF EncodeState
  <2> QED BY <2>1, <2>2, <2>3, <2>4
<1>11. EncodeInv'
  <2>1. taken' <= Len(bytes') BY <1>1, <1>2, <1>5
  <2> QED BY <1>1, <1>3, <1>4, <1>10, <2>1 DEF EncodeInv
<1> QED BY <1>1, <1>2, <1>8, <1>11 DEF Base64Inv

LEMMA EncodeCharStep == Base64Inv /\ EncodeChar => Base64Inv'
<1> SUFFICES ASSUME Base64Inv, EncodeChar PROVE Base64Inv'
  OBVIOUS
<1> DEFINE s == SixBits(val, valb)
<1>1. /\ bpc = "encode" /\ valb >= 0
      /\ chars' = Append(chars, s) /\ valb' = valb - 6
      /\ bytes' = bytes /\ back' = back /\ taken' = taken /\ val' = val /\ bpc' = bpc
  BY DEF EncodeChar, SixBits
<1>2. /\ bytes \in ByteString /\ chars \in Seq(Letter) /\ back \in Seq(Octet)
      /\ taken \in Nat /\ val \in Nat /\ valb \in Int
  BY DEF Base64Inv
<1>3. EncodeInv BY <1>1 DEF Base64Inv
<1>4. PICK q \in Nat : EncodeState(q) BY <1>3 DEF EncodeInv
<1>5. Len(chars) \in Nat BY <1>2, LenProperties
<1> DEFINE b1 == ByteAt(bytes, 3 * q + 1)
           b2 == ByteAt(bytes, 3 * q + 2)
           b3 == ByteAt(bytes, 3 * q + 3)
<1>6. b1 \in Octet /\ b2 \in Octet /\ b3 \in Octet
  <2>1. 3 * q + 1 \in Place /\ 3 * q + 2 \in Place /\ 3 * q + 3 \in Place
    BY <1>4 DEF Place
  <2> QED BY <1>2, <2>1, ByteAtType, ZenonT(60)
<1>7. /\ Sextet(bytes, 4 * q + 1) = b1 \div 4
      /\ Sextet(bytes, 4 * q + 2) = (b1 % 4) * 16 + (b2 \div 16)
      /\ Sextet(bytes, 4 * q + 3) = (b2 % 16) * 4 + (b3 \div 64)
      /\ Sextet(bytes, 4 * q + 4) = b3 % 64
  BY <1>2, <1>4, SextetIs, ZenonT(60)
<1> HIDE DEF b1, b2, b3, s
<1>8. /\ Holds8(val, b1) => SixBits(val, 2) = b1 \div 4 /\ Holds2(val, b1)
      /\ Holds10(val, b1, b2) =>
            SixBits(val, 4) = (b1 % 4) * 16 + (b2 \div 16) /\ Holds4(val, b2)
      /\ Holds12(val, b2, b3) =>
            SixBits(val, 6) = (b2 % 16) * 4 + (b3 \div 64) /\ Holds6(val, b3)
      /\ Holds6(val, b3) => SixBits(val, 0) = b3 % 64
  BY <1>2, <1>6, PutChar, ZenonT(60)
<1>9. /\ s = Sextet(bytes, Len(chars) + 1)
      /\ Len(chars') = Len(chars) + 1 => \E p \in Nat : EncodeState(p)'
  <2>1. CASE valb = 2
    <3>1. taken = 3 * q + 1 /\ Len(chars) = 4 * q /\ Holds8(val, b1)
      BY <1>1, <1>4, <2>1 DEF EncodeState, b1
    <3>2. s = Sextet(bytes, 4 * q + 1) /\ Holds2(val, b1)
      BY <1>7, <1>8, <2>1, <3>1, ZenonT(60) DEF s
    <3>3. valb' = -4 /\ Len(chars) + 1 = 4 * q + 1 /\ taken' = 3 * q + 1
      BY <1>1, <1>4, <2>1, <3>1
    <3>4. Holds2(val', ByteAt(bytes', 3 * q + 1)) BY <1>1, <3>2, ZenonT(60) DEF b1
    <3>5. Len(chars') = Len(chars) + 1 => EncodeState(q)'
      BY <3>3, <3>4 DEF EncodeState
    <3> QED BY <1>4, <3>2, <3>3, <3>5
  <2>2. CASE valb = 4
    <3>1. taken = 3 * q + 2 /\ Len(chars) = 4 * q + 1 /\ Holds10(val, b1, b2)
      BY <1>1, <1>4, <2>2 DEF EncodeState, b1, b2
    <3>2. s = Sextet(bytes, 4 * q + 2) /\ Holds4(val, b2)
      BY <1>7, <1>8, <2>2, <3>1, ZenonT(60) DEF s
    <3>3. valb' = -2 /\ Len(chars) + 1 = 4 * q + 2 /\ taken' = 3 * q + 2
      BY <1>1, <1>4, <2>2, <3>1
    <3>4. Holds4(val', ByteAt(bytes', 3 * q + 2)) BY <1>1, <3>2, ZenonT(60) DEF b2
    <3>5. Len(chars') = Len(chars) + 1 => EncodeState(q)'
      BY <3>3, <3>4 DEF EncodeState
    <3> QED BY <1>4, <3>2, <3>3, <3>5
  <2>3. CASE valb = 6
    <3>1. taken = 3 * q + 3 /\ Len(chars) = 4 * q + 2 /\ Holds12(val, b2, b3)
      BY <1>1, <1>4, <2>3 DEF EncodeState, b2, b3
    <3>2. s = Sextet(bytes, 4 * q + 3) /\ Holds6(val, b3)
      BY <1>7, <1>8, <2>3, <3>1, ZenonT(60) DEF s
    <3>3. valb' = 0 /\ Len(chars) + 1 = 4 * q + 3 /\ taken' = 3 * q + 3
      BY <1>1, <1>4, <2>3, <3>1
    <3>4. Holds6(val', ByteAt(bytes', 3 * q + 3)) BY <1>1, <3>2, ZenonT(60) DEF b3
    <3>5. Len(chars') = Len(chars) + 1 => EncodeState(q)'
      BY <3>3, <3>4 DEF EncodeState
    <3> QED BY <1>4, <3>2, <3>3, <3>5
  <2>4. CASE valb = 0
    <3>1. taken = 3 * q + 3 /\ Len(chars) = 4 * q + 3 /\ Holds6(val, b3)
      BY <1>1, <1>4, <2>4 DEF EncodeState, b3
    <3>2. s = Sextet(bytes, 4 * q + 4)
      BY <1>7, <1>8, <2>4, <3>1, ZenonT(60) DEF s
    <3>3. /\ valb' = -6 /\ Len(chars) + 1 = 4 * q + 4 /\ Len(chars) + 1 = 4 * (q + 1)
          /\ taken' = 3 * (q + 1) /\ q + 1 \in Nat
      BY <1>1, <1>4, <2>4, <3>1
    <3>4. Len(chars') = Len(chars) + 1 => EncodeState(q + 1)'
      BY <3>3 DEF EncodeState
    <3> QED BY <3>2, <3>3, <3>4
  <2>5. valb \in {2, 4, 6, 0} BY <1>1, <1>4 DEF EncodeState
  <2> QED BY <2>1, <2>2, <2>3, <2>4, <2>5
<1>10. \A k \in 1 .. Len(chars) : chars[k] = Sextet(bytes, k) BY <1>3 DEF EncodeInv
<1>11. /\ chars' \in Seq(Letter) /\ Len(chars') = Len(chars) + 1
       /\ \A k \in 1 .. Len(chars') : chars'[k] = Sextet(bytes, k)
  BY <1>1, <1>2, <1>9, <1>10, AppendSextet, ZenonT(60)
<1>12. EncodeInv'
  BY <1>1, <1>3, <1>9, <1>11, ZenonT(60) DEF EncodeInv
<1>13. valb' \in Int BY <1>1, <1>2
<1> QED BY <1>1, <1>2, <1>11, <1>12, <1>13 DEF Base64Inv

LEMMA EncodeLastStep == Base64Inv /\ EncodeLast => Base64Inv'
<1> SUFFICES ASSUME Base64Inv, EncodeLast PROVE Base64Inv'
  OBVIOUS
<1> DEFINE u == val * 256
           w == Keep(u)
<1>1. /\ bpc = "encode" /\ valb < 0 /\ taken = Len(bytes)
      /\ chars' = IF valb > -6 THEN Append(chars, SixBits(w, valb + 8)) ELSE chars
      /\ bpc' = "pad"
      /\ bytes' = bytes /\ back' = back /\ taken' = taken /\ val' = val /\ valb' = valb
  BY DEF EncodeLast, LastGroup, SixBits
<1>2. /\ bytes \in ByteString /\ chars \in Seq(Letter) /\ back \in Seq(Octet)
      /\ taken \in Nat /\ val \in Nat /\ valb \in Int
  BY DEF Base64Inv
<1>3. EncodeInv BY <1>1 DEF Base64Inv
<1>4. PICK q \in Nat : EncodeState(q) BY <1>3 DEF EncodeInv
<1>5. Len(bytes) \in Nat /\ Len(chars) \in Nat BY <1>2, LenProperties DEF ByteString
<1> DEFINE b1 == ByteAt(bytes, 3 * q + 1)
           b2 == ByteAt(bytes, 3 * q + 2)
           b3 == ByteAt(bytes, 3 * q + 3)
<1>6. b1 \in Octet /\ b2 \in Octet /\ b3 \in Octet
  <2>1. 3 * q + 1 \in Place /\ 3 * q + 2 \in Place /\ 3 * q + 3 \in Place
    BY <1>4 DEF Place
  <2> QED BY <1>2, <2>1, ByteAtType, ZenonT(60)
<1>7. /\ Sextet(bytes, 4 * q + 2) = (b1 % 4) * 16 + (b2 \div 16)
      /\ Sextet(bytes, 4 * q + 3) = (b2 % 16) * 4 + (b3 \div 64)
  BY <1>2, <1>4, SextetIs, ZenonT(60)
<1>8. w \in Nat /\ Takes8(w, val, 0)
  <2>1. u \in Nat /\ u = val * 256 + 0 BY <1>2
  <2>2. w \in Nat /\ SameLowBits(w, u) BY <2>1, KeepLowBits, ZenonT(60)
  <2> HIDE DEF u, w
  <2> QED BY <2>1, <2>2 DEF Takes8
<1> HIDE DEF u, w
<1>9. 0 \in Octet BY DEF Octet
<1>10. /\ Holds2(val, b1) => Holds10(w, b1, 0)
       /\ Holds4(val, b2) => Holds12(w, b2, 0)
  <2> HIDE DEF b1, b2, b3
  <2> QED BY <1>2, <1>6, <1>8, <1>9, TakeByte, ZenonT(60)
<1>11. /\ Holds10(w, b1, 0) => SixBits(w, 4) = (b1 % 4) * 16 + (0 \div 16)
       /\ Holds12(w, b2, 0) => SixBits(w, 6) = (b2 % 16) * 4 + (0 \div 64)
  <2> HIDE DEF b1, b2, b3
  <2>1. Holds10(w, b1, 0) => SixBits(w, 4) = (b1 % 4) * 16 + (0 \div 16)
    BY <1>6, <1>8, <1>9, PutChar, ZenonT(60)
  <2>2. Holds12(w, b2, 0) => SixBits(w, 6) = (b2 % 16) * 4 + (0 \div 64)
    BY <1>6, <1>8, <1>9, PutChar, ZenonT(60)
  <2> QED BY <2>1, <2>2, ZenonT(60)
<1>12. \A k \in 1 .. Len(chars) : chars[k] = Sextet(bytes, k) BY <1>3 DEF EncodeInv
<1>13. /\ chars' \in Seq(Letter) /\ Len(chars') = CharCount(bytes)
       /\ \A k \in 1 .. Len(chars') : chars'[k] = Sextet(bytes, k)
  <2>1. CASE valb = -6
    <3>1. taken = 3 * q /\ Len(chars) = 4 * q BY <1>4, <2>1 DEF EncodeState
    <3>2. chars' = chars BY <1>1, <2>1
    <3>3. CharCount(bytes) = 4 * q
      <4>1. Len(bytes) = 3 * q BY <1>1, <3>1
      <4> QED BY <1>4, <4>1 DEF CharCount
    <3> QED BY <1>2, <1>12, <3>1, <3>2, <3>3, ZenonT(60)
  <2>2. CASE valb = -4
    <3>1. taken = 3 * q + 1 /\ Len(chars) = 4 * q + 1 /\ Holds2(val, b1)
      BY <1>4, <2>2 DEF EncodeState
    <3>2. b2 = 0
      <4>1. ~(3 * q + 2 <= Len(bytes)) BY <1>1, <1>4, <1>5, <3>1
      <4> QED BY <4>1, ZenonT(60) DEF ByteAt
    <3>3. SixBits(w, 4) = Sextet(bytes, 4 * q + 2)
      BY <1>7, <1>10, <1>11, <3>1, <3>2, ZenonT(60)
    <3>4. valb + 8 = 4 /\ valb > -6 /\ Len(chars) + 1 = 4 * q + 2 BY <1>4, <2>2, <3>1
    <3>5. chars' = Append(chars, SixBits(w, 4)) BY <1>1, <3>4
    <3>6. SixBits(w, 4) = Sextet(bytes, Len(chars) + 1) BY <3>3, <3>4
    <3>7. /\ chars' \in Seq(Letter) /\ Len(chars') = Len(chars) + 1
          /\ \A k \in 1 .. Len(chars') : chars'[k] = Sextet(bytes, k)
      BY <1>2, <1>12, <3>5, <3>6, AppendSextet, ZenonT(60)
    <3>8. CharCount(bytes) = 4 * q + 2
      <4>1. Len(bytes) = 3 * q + 1 BY <1>1, <3>1
      <4> QED BY <1>4, <4>1 DEF CharCount
    <3> QED BY <3>4, <3>7, <3>8, ZenonT(60)
  <2>3. CASE valb = -2
    <3>1. taken = 3 * q + 2 /\ Len(chars) = 4 * q + 2 /\ Holds4(val, b2)
      BY <1>4, <2>3 DEF EncodeState
    <3>2. b3 = 0
      <4>1. ~(3 * q + 3 <= Len(bytes)) BY <1>1, <1>4, <1>5, <3>1
      <4> QED BY <4>1, ZenonT(60) DEF ByteAt
    <3>3. SixBits(w, 6) = Sextet(bytes, 4 * q + 3)
      BY <1>7, <1>10, <1>11, <3>1, <3>2, ZenonT(60)
    <3>4. valb + 8 = 6 /\ valb > -6 /\ Len(chars) + 1 = 4 * q + 3 BY <1>4, <2>3, <3>1
    <3>5. chars' = Append(chars, SixBits(w, 6)) BY <1>1, <3>4
    <3>6. SixBits(w, 6) = Sextet(bytes, Len(chars) + 1) BY <3>3, <3>4
    <3>7. /\ chars' \in Seq(Letter) /\ Len(chars') = Len(chars) + 1
          /\ \A k \in 1 .. Len(chars') : chars'[k] = Sextet(bytes, k)
      BY <1>2, <1>12, <3>5, <3>6, AppendSextet, ZenonT(60)
    <3>8. CharCount(bytes) = 4 * q + 3
      <4>1. Len(bytes) = 3 * q + 2 BY <1>1, <3>1
      <4> QED BY <1>4, <4>1 DEF CharCount
    <3> QED BY <3>4, <3>7, <3>8, ZenonT(60)
  <2>4. valb \in {-6, -4, -2} BY <1>1, <1>4 DEF EncodeState
  <2> QED BY <2>1, <2>2, <2>3, <2>4
<1>14. PadInv'
  <2>1. back' = <<>> BY <1>1, <1>3 DEF EncodeInv
  <2>2. CharCount(bytes) \in Nat /\ CharCount(bytes) <= 4 * ((Len(bytes) + 2) \div 3)
    BY <1>5 DEF CharCount
  <2>3. \A k \in 1 .. Len(chars') :
          chars'[k] = IF k <= CharCount(bytes) THEN Sextet(bytes, k) ELSE Pad
    BY <1>13, <2>2
  <2>4. CharCount(bytes') = CharCount(bytes) BY <1>1
  <2> QED BY <1>1, <1>13, <2>1, <2>2, <2>3, <2>4 DEF PadInv
<1> QED BY <1>1, <1>2, <1>13, <1>14 DEF Base64Inv

LEMMA EncodePadStep == Base64Inv /\ EncodePad => Base64Inv'
<1> SUFFICES ASSUME Base64Inv, EncodePad PROVE Base64Inv'
  OBVIOUS
<1>1. /\ bpc = "pad" /\ Len(chars) % 4 # 0 /\ chars' = Append(chars, Pad)
      /\ bytes' = bytes /\ back' = back /\ taken' = taken /\ val' = val /\ valb' = valb
      /\ bpc' = bpc
  BY DEF EncodePad
<1>2. /\ bytes \in ByteString /\ chars \in Seq(Letter) /\ back \in Seq(Octet)
      /\ taken \in Nat /\ val \in Nat /\ valb \in Int
  BY DEF Base64Inv
<1>3. PadInv BY <1>1 DEF Base64Inv
<1>4. Len(bytes) \in Nat /\ Len(chars) \in Nat BY <1>2, LenProperties DEF ByteString
<1>5. Pad \in Letter BY DEF Pad, Letter
<1>6. /\ chars' \in Seq(Letter) /\ Len(chars') = Len(chars) + 1
      /\ \A k \in 1 .. Len(chars) : chars'[k] = chars[k]
      /\ chars'[Len(chars) + 1] = Pad
  BY <1>1, <1>2, <1>5, AppendProperties
<1> DEFINE n == CharCount(bytes)
           m == 4 * ((Len(bytes) + 2) \div 3)
<1>7. n \in Nat /\ m \in Nat /\ m % 4 = 0 BY <1>4 DEF CharCount
<1>8. /\ n <= Len(chars) /\ Len(chars) <= m /\ back = <<>>
      /\ \A k \in 1 .. Len(chars) : chars[k] = IF k <= n THEN Sextet(bytes, k) ELSE Pad
  BY <1>3 DEF PadInv
<1> HIDE DEF n, m
<1>9. Len(chars) + 1 <= m /\ n <= Len(chars) + 1 BY <1>1, <1>4, <1>7, <1>8
<1>10. \A k \in 1 .. Len(chars') : chars'[k] = IF k <= n THEN Sextet(bytes, k) ELSE Pad
  BY <1>4, <1>6, <1>7, <1>8
<1>11. PadInv'
  <2>1. CharCount(bytes') = n BY <1>1 DEF n
  <2>2. 4 * ((Len(bytes') + 2) \div 3) = m BY <1>1 DEF m
  <2>3. Len(chars') >= n /\ Len(chars') <= m BY <1>4, <1>6, <1>7, <1>9
  <2> QED BY <1>1, <1>8, <1>10, <2>1, <2>2, <2>3 DEF PadInv
<1> QED BY <1>1, <1>2, <1>6, <1>11 DEF Base64Inv

LEMMA DecodeCallStep == Base64Inv /\ DecodeCall => Base64Inv'
<1> SUFFICES ASSUME Base64Inv, DecodeCall PROVE Base64Inv'
  OBVIOUS
<1>1. /\ bpc = "pad" /\ Len(chars) % 4 = 0
      /\ taken' = 0 /\ val' = 0 /\ valb' = -8 /\ bpc' = "decode"
      /\ bytes' = bytes /\ chars' = chars /\ back' = back
  BY DEF DecodeCall
<1>2. /\ bytes \in ByteString /\ chars \in Seq(Letter) /\ back \in Seq(Octet)
  BY DEF Base64Inv
<1>3. PadInv BY <1>1 DEF Base64Inv
<1>4. Len(bytes) \in Nat /\ Len(chars) \in Nat BY <1>2, LenProperties DEF ByteString
<1> DEFINE n == CharCount(bytes)
           m == 4 * ((Len(bytes) + 2) \div 3)
<1>5. n \in Nat /\ m \in Nat /\ m % 4 = 0 /\ m < n + 4 BY <1>4 DEF CharCount
<1>6. /\ n <= Len(chars) /\ Len(chars) <= m /\ back = <<>>
      /\ \A k \in 1 .. Len(chars) : chars[k] = IF k <= n THEN Sextet(bytes, k) ELSE Pad
  BY <1>3 DEF PadInv
<1> HIDE DEF n, m
<1>7. Len(chars) = m BY <1>1, <1>4, <1>5, <1>6
<1>8. chars = Standard(bytes)
  <2>1. chars = [k \in 1 .. m |-> chars[k]] BY <1>2, <1>7, LenProperties
  <2>2. Standard(bytes) = [k \in 1 .. m |-> IF k <= n THEN Sextet(bytes, k) ELSE Pad]
    BY ZenonT(60) DEF Standard, m, n, CharCount
  <2>3. \A k \in 1 .. m : chars[k] = IF k <= n THEN Sextet(bytes, k) ELSE Pad
    BY <1>6, <1>7, ZenonT(60)
  <2>4. [k \in 1 .. m |-> chars[k]] = [k \in 1 .. m |-> IF k <= n THEN Sextet(bytes, k) ELSE Pad]
    BY <2>3, ZenonT(60)
  <2> QED BY <2>1, <2>2, <2>4, ZenonT(60)
<1>9. DecodeInv'
  <2>0. Len(<<>>) = 0 OBVIOUS
  <2>1. Len(back') = 0 BY <1>1, <1>6, <2>0, ZenonT(60)
  <2>2. \A i \in 1 .. Len(back') : back'[i] = ByteAt(bytes', i) BY <2>1
  <2>3. DecodeState(0)' BY <1>1, <2>1 DEF DecodeState
  <2>4. taken' <= CharCount(bytes') BY <1>1, <1>5 DEF n
  <2>5. 0 \in Nat OBVIOUS
  <2>6. chars' = Standard(bytes') BY <1>1, <1>8, ZenonT(60)
  <2> QED BY <2>2, <2>3, <2>4, <2>5, <2>6, ZenonT(60) DEF DecodeInv
<1> QED BY <1>1, <1>2, <1>9 DEF Base64Inv

(* The characters of decode's argument, up to the padding. *)
LEMMA StandardIs ==
    ASSUME NEW in \in ByteString
    PROVE  /\ CharCount(in) \in Nat
           /\ Len(Standard(in)) = 4 * ((Len(in) + 2) \div 3)
           /\ CharCount(in) <= Len(Standard(in))
           /\ \A k \in 1 .. Len(Standard(in)) :
                  Standard(in)[k] = IF k <= CharCount(in) THEN Sextet(in, k) ELSE Pad
<1>1. Len(in) \in Nat BY LenProperties DEF ByteString
<1> DEFINE n == CharCount(in)
           m == 4 * ((Len(in) + 2) \div 3)
<1>2. n \in Nat /\ m \in Nat /\ n <= m BY <1>1 DEF CharCount
<1>3. Standard(in) = [k \in 1 .. m |-> IF k <= n THEN Sextet(in, k) ELSE Pad]
  BY ZenonT(60) DEF Standard, CharCount
<1> HIDE DEF n, m
<1>4. Len(Standard(in)) = m
  <2> DEFINE f == [k \in 1 .. m |-> IF k <= n THEN Sextet(in, k) ELSE Pad]
  <2>1. DOMAIN f = 1 .. m OBVIOUS
  <2>2. f \in Seq({f[k] : k \in 1 .. m}) BY <1>2
  <2> HIDE DEF f
  <2>3. Len(f) = m BY <1>2, <2>1, <2>2, LenProperties
  <2> QED BY <1>3, <2>3, ZenonT(60) DEF f
<1> QED BY <1>2, <1>3, <1>4 DEF n, m

LEMMA DecodeReturnStep == Base64Inv /\ DecodeReturn => Base64Inv'
<1> SUFFICES ASSUME Base64Inv, DecodeReturn PROVE Base64Inv'
  OBVIOUS
<1>1. /\ bpc = "decode" /\ (taken < Len(chars) => chars[taken + 1] = Pad) /\ bpc' = "done"
      /\ bytes' = bytes /\ chars' = chars /\ back' = back /\ taken' = taken /\ val' = val
      /\ valb' = valb
  BY DEF DecodeReturn
<1>2. /\ bytes \in ByteString /\ chars \in Seq(Letter) /\ back \in Seq(Octet)
      /\ taken \in Nat /\ val \in Nat /\ valb \in Int
  BY DEF Base64Inv
<1>3. DecodeInv BY <1>1 DEF Base64Inv
<1>4. PICK q \in Nat : DecodeState(q) BY <1>3 DEF DecodeInv
<1>5. Len(bytes) \in Nat /\ Len(back) \in Nat BY <1>2, LenProperties DEF ByteString
<1> DEFINE n == CharCount(bytes)
<1>6. /\ n \in Nat /\ n <= Len(chars) /\ Len(chars) \in Nat
      /\ \A k \in 1 .. Len(chars) : chars[k] = IF k <= n THEN Sextet(bytes, k) ELSE Pad
  <2>1. chars = Standard(bytes) BY <1>3 DEF DecodeInv
  <2>2. Len(chars) \in Nat BY <1>2, LenProperties
  <2> QED BY <1>2, <2>1, <2>2, StandardIs, ZenonT(60)
<1>7. taken <= n BY <1>3 DEF DecodeInv
<1> HIDE DEF n
<1>8. taken = n
  <2> SUFFICES ASSUME taken < n PROVE FALSE
    BY <1>2, <1>6, <1>7
  <2>1. taken + 1 \in 1 .. Len(chars) /\ taken + 1 <= n /\ taken < Len(chars)
    BY <1>2, <1>6
  <2>2. chars[taken + 1] = Sextet(bytes, taken + 1) BY <1>6, <2>1, ZenonT(60)
  <2>3. taken + 1 \in Place BY <1>2 DEF Place
  <2>4. Sextet(bytes, taken + 1) \in 0 .. 63 BY <1>2, <2>3, SextetType, ZenonT(60)
  <2>5. chars[taken + 1] = Pad BY <1>1, <2>1, ZenonT(60)
  <2>6. Pad \in 0 .. 63 BY <2>2, <2>4, <2>5, ZenonT(60)
  <2> QED BY <2>6 DEF Pad
<1>9. Len(back) = Len(bytes)
  <2>1. \/ taken = 4 * q /\ Len(back) = 3 * q
        \/ taken = 4 * q + 1 /\ Len(back) = 3 * q
        \/ taken = 4 * q + 2 /\ Len(back) = 3 * q + 1
        \/ taken = 4 * q + 3 /\ Len(back) = 3 * q + 2
    BY <1>4 DEF DecodeState
  <2>2. taken = (4 * Len(bytes) + 2) \div 3 BY <1>8 DEF n, CharCount
  <2> QED BY <1>4, <1>5, <2>1, <2>2
<1>10. \A i \in 1 .. Len(back) : back[i] = bytes[i]
  <2>1. \A i \in 1 .. Len(back) : back[i] = ByteAt(bytes, i) BY <1>3 DEF DecodeInv
  <2>2. \A i \in 1 .. Len(back) : i <= Len(bytes) BY <1>5, <1>9
  <2>3. \A i \in 1 .. Len(back) : ByteAt(bytes, i) = bytes[i] BY <2>2, ZenonT(60) DEF ByteAt
  <2> QED BY <2>1, <2>3, ZenonT(60)
<1>11. back = bytes BY <1>2, <1>9, <1>10, SeqEqual, ZenonT(60) DEF ByteString
<1>12. chars = Standard(bytes) BY <1>3 DEF DecodeInv
<1> QED BY <1>1, <1>2, <1>11, <1>12 DEF Base64Inv

(* What is in the accumulator after a character was taken in, and the byte *)
(* that is read from it.                                                   *)
Takes6(w, v, c) == SameLowBits(w, v * 64 + c)
EightBits(w, n) == ShiftRight(w, n) % 256
SixSet == 0 .. 63

(* The bytes of a group, from two characters next to each other. *)
FirstByte(a, c) == a * 4 + (c \div 16)
SecondByte(a, c) == (a % 16) * 16 + (c \div 4)
ThirdByte(a, c) == (a % 4) * 64 + c

(* After c was taken in and, before it, a. *)
AfterChars(w, v, a, c) ==
    /\ Holds6(w, c) /\ Holds4(w, c) /\ Holds2(w, c)
    /\ Holds6(v, a) => EightBits(w, 4) = FirstByte(a, c)
    /\ Holds4(v, a) => EightBits(w, 2) = SecondByte(a, c)
    /\ Holds2(v, a) => EightBits(w, 0) = ThirdByte(a, c)

LEMMA TakeChar ==
    ASSUME NEW v \in Nat, NEW w \in Nat, NEW a \in SixSet, NEW c \in SixSet, Takes6(w, v, c)
    PROVE  AfterChars(w, v, a, c)
<1>1. w % 16384 = (v * 64 + c) % 16384 BY DEF Takes6, SameLowBits
<1>2. a \in 0 .. 63 /\ c \in 0 .. 63 BY DEF SixSet
<1>3. /\ EightBits(w, 0) = w % 256 /\ EightBits(w, 2) = (w \div 4) % 256
      /\ EightBits(w, 4) = (w \div 16) % 256
  BY DEF EightBits, ShiftRight
<1>4. Holds6(w, c) /\ Holds4(w, c) /\ Holds2(w, c) BY <1>1, <1>2 DEF Holds6, Holds4, Holds2
<1> DEFINE d == (w \div 16384) - ((v * 64 + c) \div 16384)
<1>5. d \in Int /\ w = 16384 * d + v * 64 + c BY <1>1, <1>2
<1> HIDE DEF d
<1>6. Holds6(v, a) => (w \div 16) % 256 = a * 4 + (c \div 16)
  <2> SUFFICES ASSUME Holds6(v, a) PROVE (w \div 16) % 256 = a * 4 + (c \div 16)
    OBVIOUS
  <2> DEFINE k == 4 * d + (v \div 64)
             e == c \div 16
             f == c % 16
  <2>1. v = 64 * (v \div 64) + a BY <1>2 DEF Holds6
  <2>2. k \in Int /\ w = 4096 * k + 64 * a + c BY <1>2, <1>5, <2>1
  <2>3. e \in 0 .. 3 /\ f \in 0 .. 15 /\ c = 16 * e + f BY <1>2
  <2> HIDE DEF k, e, f
  <2>4. w \div 16 = 256 * k + (4 * a + e) BY <1>2, <2>2, <2>3
  <2>5. (w \div 16) % 256 = a * 4 + e BY <1>2, <2>2, <2>3, <2>4
  <2> QED BY <2>5 DEF e
<1>7. Holds4(v, a) => (w \div 4) % 256 = (a % 16) * 16 + (c \div 4)
  <2> SUFFICES ASSUME Holds4(v, a) PROVE (w \div 4) % 256 = (a % 16) * 16 + (c \div 4)
    OBVIOUS
  <2> DEFINE k == 16 * d + (v \div 16)
             r == a % 16
             e == c \div 4
             f == c % 4
  <2>1. r \in 0 .. 15 /\ v = 16 * (v \div 16) + r BY <1>2 DEF Holds4
  <2> HIDE DEF r
  <2>2. k \in Int /\ w = 1024 * k + 64 * r + c BY <1>2, <1>5, <2>1
  <2>3. e \in 0 .. 15 /\ f \in 0 .. 3 /\ c = 4 * e + f BY <1>2
  <2> HIDE DEF k, e, f
  <2>4. w \div 4 = 256 * k + (16 * r + e) BY <2>1, <2>2, <2>3
  <2>5. (w \div 4) % 256 = r * 16 + e BY <2>1, <2>2, <2>3, <2>4
  <2> QED BY <2>5 DEF e, r
<1>8. Holds2(v, a) => w % 256 = (a % 4) * 64 + c
  <2> SUFFICES ASSUME Holds2(v, a) PROVE w % 256 = (a % 4) * 64 + c
    OBVIOUS
  <2> DEFINE k == 64 * d + (v \div 4)
             r == a % 4
  <2>1. r \in 0 .. 3 /\ v = 4 * (v \div 4) + r BY <1>2 DEF Holds2
  <2> HIDE DEF r
  <2>2. k \in Int /\ w = 256 * k + 64 * r + c BY <1>2, <1>5, <2>1
  <2> HIDE DEF k
  <2>3. w % 256 = r * 64 + c BY <1>2, <2>1, <2>2
  <2> QED BY <2>3 DEF r
<1> QED BY <1>3, <1>4, <1>6, <1>7, <1>8
  DEF AfterChars, FirstByte, SecondByte, ThirdByte

(* The characters of a group determine its bytes. *)
LEMMA BytesOfGroup ==
    ASSUME NEW in \in ByteString, NEW q \in Nat
    PROVE  LET s(k) == Sextet(in, 4 * q + k)
           IN  /\ FirstByte(s(1), s(2)) = ByteAt(in, 3 * q + 1)
               /\ SecondByte(s(2), s(3)) = ByteAt(in, 3 * q + 2)
               /\ ThirdByte(s(3), s(4)) = ByteAt(in, 3 * q + 3)
<1> DEFINE b1 == ByteAt(in, 3 * q + 1)
           b2 == ByteAt(in, 3 * q + 2)
           b3 == ByteAt(in, 3 * q + 3)
<1>1. b1 \in 0 .. 255 /\ b2 \in 0 .. 255 /\ b3 \in 0 .. 255
  <2>1. 3 * q + 1 \in Place /\ 3 * q + 2 \in Place /\ 3 * q + 3 \in Place BY DEF Place
  <2>2. b1 \in Octet /\ b2 \in Octet /\ b3 \in Octet BY <2>1, ByteAtType, ZenonT(60)
  <2> QED BY <2>2 DEF Octet
<1> DEFINE s1 == Sextet(in, 4 * q + 1)
           s2 == Sextet(in, 4 * q + 2)
           s3 == Sextet(in, 4 * q + 3)
           s4 == Sextet(in, 4 * q + 4)
<1>2. /\ s1 = b1 \div 4 /\ s2 = (b1 % 4) * 16 + (b2 \div 16)
      /\ s3 = (b2 % 16) * 4 + (b3 \div 64) /\ s4 = b3 % 64
  BY SextetIs, ZenonT(60)
<1> HIDE DEF b1, b2, b3, s1, s2, s3, s4
<1>3. FirstByte(s1, s2) = b1 BY <1>1, <1>2 DEF FirstByte
<1>4. SecondByte(s2, s3) = b2 BY <1>1, <1>2 DEF SecondByte
<1>5. ThirdByte(s3, s4) = b3 BY <1>1, <1>2 DEF ThirdByte
<1> QED BY <1>3, <1>4, <1>5, ZenonT(60) DEF b1, b2, b3, s1, s2, s3, s4

LEMMA DecodeCharStep == Base64Inv /\ DecodeChar => Base64Inv'
<1> SUFFICES ASSUME Base64Inv, DecodeChar PROVE Base64Inv'
  OBVIOUS
<1> DEFINE c == chars[taken + 1]
           u == val * 64 + c
<1>1. /\ bpc = "decode" /\ taken < Len(chars) /\ c # Pad
      /\ val' = Keep(u) /\ taken' = taken + 1
      /\ bytes' = bytes /\ chars' = chars /\ bpc' = bpc
  BY DEF DecodeChar
<1>2. /\ valb + 6 >= 0 => back' = Append(back, EightBits(val', valb + 6)) /\ valb' = valb - 2
      /\ ~(valb + 6 >= 0) => valb' = valb + 6 /\ back' = back
  BY DEF DecodeChar, EightBits
<1>3. /\ bytes \in ByteString /\ chars \in Seq(Letter) /\ back \in Seq(Octet)
      /\ taken \in Nat /\ val \in Nat /\ valb \in Int
  BY DEF Base64Inv
<1>4. DecodeInv BY <1>1 DEF Base64Inv
<1>5. PICK q \in Nat : DecodeState(q) BY <1>4 DEF DecodeInv
<1>6. Len(bytes) \in Nat /\ Len(back) \in Nat /\ Len(chars) \in Nat
  BY <1>3, LenProperties DEF ByteString
<1>7. /\ taken' <= CharCount(bytes') /\ c = Sextet(bytes, taken + 1) /\ c \in SixSet
  <2> DEFINE n == CharCount(bytes)
  <2>1. chars = Standard(bytes) BY <1>4 DEF DecodeInv
  <2>2. /\ n \in Nat
        /\ \A k \in 1 .. Len(chars) : chars[k] = IF k <= n THEN Sextet(bytes, k) ELSE Pad
    BY <1>3, <2>1, StandardIs, ZenonT(60)
  <2>3. taken + 1 \in 1 .. Len(chars) /\ taken + 1 \in Place BY <1>1, <1>3, <1>6 DEF Place
  <2> HIDE DEF n
  <2>4. taken + 1 <= n /\ c = Sextet(bytes, taken + 1) BY <1>1, <2>2, <2>3, ZenonT(60)
  <2>5. c \in SixSet BY <1>3, <2>3, <2>4, SextetType, ZenonT(60) DEF SixSet
  <2>6. taken' <= CharCount(bytes') BY <1>1, <2>4, ZenonT(60) DEF n
  <2> QED BY <2>4, <2>5, <2>6
<1> HIDE DEF c
<1>8. val' \in Nat /\ Takes6(val', val, c)
  <2>1. c \in 0 .. 63 BY <1>7 DEF SixSet
  <2>2. u \in Nat BY <1>3, <2>1
  <2>3. Keep(u) \in Nat /\ SameLowBits(Keep(u), u) BY <2>2, KeepLowBits, ZenonT(60)
  <2> QED BY <1>1, <2>3, ZenonT(60) DEF Takes6
<1> HIDE DEF u
<1> DEFINE s1 == Sextet(bytes, 4 * q + 1)
           s2 == Sextet(bytes, 4 * q + 2)
           s3 == Sextet(bytes, 4 * q + 3)
           s4 == Sextet(bytes, 4 * q + 4)
<1>9. s1 \in SixSet /\ s2 \in SixSet /\ s3 \in SixSet
  <2>1. 4 * q + 1 \in Place /\ 4 * q + 2 \in Place /\ 4 * q + 3 \in Place BY <1>5 DEF Place
  <2> QED BY <1>3, <2>1, SextetType, ZenonT(60) DEF SixSet
<1>10. /\ FirstByte(s1, s2) = ByteAt(bytes, 3 * q + 1)
       /\ SecondByte(s2, s3) = ByteAt(bytes, 3 * q + 2)
       /\ ThirdByte(s3, s4) = ByteAt(bytes, 3 * q + 3)
  BY <1>3, <1>5, BytesOfGroup, ZenonT(60)
<1> HIDE DEF s1, s2, s3, s4
<1>11. /\ Holds6(val', c) /\ Holds4(val', c) /\ Holds2(val', c)
       /\ Holds6(val, s1) => EightBits(val', 4) = FirstByte(s1, c)
       /\ Holds4(val, s2) => EightBits(val', 2) = SecondByte(s2, c)
       /\ Holds2(val, s3) => EightBits(val', 0) = ThirdByte(s3, c)
  <2>1. AfterChars(val', val, s1, c) /\ AfterChars(val', val, s2, c) /\ AfterChars(val', val, s3, c)
    BY <1>3, <1>7, <1>8, <1>9, TakeChar, ZenonT(60)
  <2> QED BY <2>1, ZenonT(60) DEF AfterChars
<1>12. \A i \in 1 .. Len(back) : back[i] = ByteAt(bytes, i) BY <1>4 DEF DecodeInv
<1> DEFINE Goal == /\ back' \in Seq(Octet) /\ valb' \in Int
                   /\ \A i \in 1 .. Len(back') : back'[i] = ByteAt(bytes, i)
                   /\ \E p \in Nat : DecodeState(p)'
<1>13. Goal
  <2>1. CASE valb = -8
    <3>1. taken = 4 * q /\ Len(back) = 3 * q BY <1>5, <2>1 DEF DecodeState
    <3>2. /\ valb' = -2 /\ back' = back /\ taken' = 4 * q + 1 /\ taken + 1 = 4 * q + 1
      BY <1>1, <1>2, <1>5, <2>1, <3>1
    <3>3. Holds6(val', Sextet(bytes', 4 * q + 1)) BY <1>1, <1>7, <1>11, <3>2
    <3>4. Len(back') = 3 * q BY <3>1, <3>2
    <3>5. DecodeState(q)' BY <3>2, <3>3, <3>4 DEF DecodeState
    <3>6. valb' \in Int BY <3>2
    <3> QED BY <1>3, <1>5, <1>12, <3>2, <3>5, <3>6, ZenonT(60)
  <2>2. CASE valb = -2
    <3>1. taken = 4 * q + 1 /\ Len(back) = 3 * q /\ Holds6(val, s1)
      BY <1>5, <2>2 DEF DecodeState, s1
    <3>2. /\ valb + 6 = 4 /\ valb' = -4 /\ back' = Append(back, EightBits(val', 4))
          /\ taken' = 4 * q + 2 /\ taken + 1 = 4 * q + 2 /\ Len(back) + 1 = 3 * q + 1
      BY <1>1, <1>2, <1>5, <2>2, <3>1
    <3>3. c = s2 BY <1>7, <3>2, ZenonT(60) DEF s2
    <3>4. EightBits(val', 4) = ByteAt(bytes, Len(back) + 1)
      BY <1>10, <1>11, <3>1, <3>2, <3>3, ZenonT(60)
    <3>5. /\ back' \in Seq(Octet) /\ Len(back') = Len(back) + 1
          /\ \A i \in 1 .. Len(back') : back'[i] = ByteAt(bytes, i)
      <4>1. back' = Append(back, EightBits(val', 4)) BY <3>2, ZenonT(60)
      <4> QED BY <1>3, <1>12, <3>4, <4>1, AppendByte, ZenonT(60)
    <3>6. Holds4(val', Sextet(bytes', 4 * q + 2)) BY <1>1, <1>11, <3>3, ZenonT(60) DEF s2
    <3>7. Len(back') = 3 * q + 1 BY <3>2, <3>5, ZenonT(60)
    <3>8. valb' = -4 /\ valb' \in Int /\ taken' = 4 * q + 2 BY <3>2
    <3>9. DecodeState(q)' BY <3>6, <3>7, <3>8 DEF DecodeState
    <3> QED BY <1>5, <3>5, <3>8, <3>9, ZenonT(60)
  <2>3. CASE valb = -4
    <3>1. taken = 4 * q + 2 /\ Len(back) = 3 * q + 1 /\ Holds4(val, s2)
      BY <1>5, <2>3 DEF DecodeState, s2
    <3>2. /\ valb + 6 = 2 /\ valb' = -6 /\ back' = Append(back, EightBits(val', 2))
          /\ taken' = 4 * q + 3 /\ taken + 1 = 4 * q + 3 /\ Len(back) + 1 = 3 * q + 2
      BY <1>1, <1>2, <1>5, <2>3, <3>1
    <3>3. c = s3 BY <1>7, <3>2, ZenonT(60) DEF s3
    <3>4. EightBits(val', 2) = ByteAt(bytes, Len(back) + 1)
      BY <1>10, <1>11, <3>1, <3>2, <3>3, ZenonT(60)
    <3>5. /\ back' \in Seq(Octet) /\ Len(back') = Len(back) + 1
          /\ \A i \in 1 .. Len(back') : back'[i] = ByteAt(bytes, i)
      <4>1. back' = Append(back, EightBits(val', 2)) BY <3>2, ZenonT(60)
      <4> QED BY <1>3, <1>12, <3>4, <4>1, AppendByte, ZenonT(60)
    <3>6. Holds2(val', Sextet(bytes', 4 * q + 3)) BY <1>1, <1>11, <3>3, ZenonT(60) DEF s3
    <3>7. Len(back') = 3 * q + 2 BY <3>2, <3>5, ZenonT(60)
    <3>8. valb' = -6 /\ valb' \in Int /\ taken' = 4 * q + 3 BY <3>2
    <3>9. DecodeState(q)' BY <3>6, <3>7, <3>8 DEF DecodeState
    <3> QED BY <1>5, <3>5, <3>8, <3>9, ZenonT(60)
  <2>4. CASE valb = -6
    <3>1. taken = 4 * q + 3 /\ Len(back) = 3 * q + 2 /\ Holds2(val, s3)
      BY <1>5, <2>4 DEF DecodeState, s3
    <3>2. /\ valb + 6 = 0 /\ valb' = -8 /\ back' = Append(back, EightBits(val', 0))
          /\ taken' = 4 * (q + 1) /\ taken + 1 = 4 * q + 4
          /\ Len(back) + 1 = 3 * q + 3 /\ 3 * q + 3 = 3 * (q + 1) /\ q + 1 \in Nat
      BY <1>1, <1>2, <1>5, <2>4, <3>1
    <3>3. c = s4 BY <1>7, <3>2, ZenonT(60) DEF s4
    <3>4. EightBits(val', 0) = ByteAt(bytes, Len(back) + 1)
      BY <1>10, <1>11, <3>1, <3>2, <3>3, ZenonT(60)
    <3>5. /\ back' \in Seq(Octet) /\ Len(back') = Len(back) + 1
          /\ \A i \in 1 .. Len(back') : back'[i] = ByteAt(bytes, i)
      <4>1. back' = Append(back, EightBits(val', 0)) BY <3>2, ZenonT(60)
      <4> QED BY <1>3, <1>12, <3>4, <4>1, AppendByte, ZenonT(60)
    <3>6. Len(back') = 3 * (q + 1) BY <3>2, <3>5, ZenonT(60)
    <3>7. valb' = -8 /\ valb' \in Int /\ taken' = 4 * (q + 1) BY <3>2
    <3>8. DecodeState(q + 1)' BY <3>6, <3>7 DEF DecodeState
    <3> QED BY <3>2, <3>5, <3>7, <3>8, ZenonT(60)
  <2>5. valb \in {-8, -2, -4, -6} BY <1>5 DEF DecodeState
  <2> HIDE DEF Goal
  <2> QED BY <2>1, <2>2, <2>3, <2>4, <2>5
<1>14. DecodeInv'
  <2>1. chars' = Standard(bytes') BY <1>1, <1>4 DEF DecodeInv
  <2> QED BY <1>1, <1>7, <1>13, <2>1, ZenonT(60) DEF DecodeInv
<1> QED BY <1>1, <1>3, <1>8, <1>13, <1>14 DEF Base64Inv

(* base64::encode writes the standard text of any bytes, however many, and *)
(* base64::decode gives them back, whatever multiple of 2^14 the values of *)
(* the accumulator number: that it overflows is never seen.                *)
THEOREM Base64RoundTripHolds == Base64Spec => []Base64RoundTrip
<1>1. Base64Init => Base64Inv
  <2> SUFFICES ASSUME Base64Init PROVE Base64Inv
    OBVIOUS
  <2>1. /\ bytes \in ByteStrings /\ chars = <<>> /\ back = <<>> /\ taken = 0 /\ val = 0
        /\ valb = -6 /\ bpc = "encode"
    BY DEF Base64Init
  <2>2. bytes \in ByteString BY <2>1, Base64Assumption DEF ByteString, Octet
  <2>3. Len(<<>>) = 0 OBVIOUS
  <2>4. Len(chars) = 0 BY <2>1, <2>3, ZenonT(60)
  <2>5. EncodeState(0) BY <2>1, <2>4 DEF EncodeState
  <2>6. taken <= Len(bytes) BY <2>1, <2>2, LenProperties DEF ByteString
  <2>7. \A k \in 1 .. Len(chars) : chars[k] = Sextet(bytes, k) BY <2>4
  <2>8. 0 \in Nat OBVIOUS
  <2>9. EncodeInv BY <2>1, <2>5, <2>6, <2>7, <2>8, ZenonT(60) DEF EncodeInv
  <2>10. chars \in Seq(Letter) /\ back \in Seq(Octet) BY <2>1, EmptySeq
  <2> QED BY <2>1, <2>2, <2>9, <2>10 DEF Base64Inv
<1>2. Base64Inv /\ [Base64Next]_base64 => Base64Inv'
  <2> SUFFICES ASSUME Base64Inv, [Base64Next]_base64 PROVE Base64Inv'
    OBVIOUS
  <2>1. CASE UNCHANGED base64
    BY <2>1, ZenonT(60) DEF base64, Base64Inv, EncodeInv, EncodeState, PadInv, DecodeInv, DecodeState
  <2> QED BY <2>1, EncodeByteStep, EncodeCharStep, EncodeLastStep, EncodePadStep,
             DecodeCallStep, DecodeCharStep, DecodeReturnStep, ZenonT(60) DEF Base64Next
<1>3. Base64Inv => Base64RoundTrip
  BY ZenonT(60) DEF Base64Inv, DecodeInv, Base64RoundTrip
<1> QED BY <1>1, <1>2, <1>3, PTL DEF Base64Spec
=============================================================================
