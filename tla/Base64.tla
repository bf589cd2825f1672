------------------------------- MODULE Base64 -------------------------------
(***************************************************************************)
(* base64.hpp: the loops of encode and decode, a turn at a time.  A        *)
(* character is its place in the alphabet, 0 .. 63, or Pad.  The           *)
(* accumulator is an int that is never cleared: bits that were written out *)
(* are shifted to its top and lost there.                                  *)
(***************************************************************************)
EXTENDS Integers, Sequences

CONSTANTS
    ByteStrings,    \* what encode is called with
    AccSize         \* values the accumulator can have: 2^32 in the code

(* No more than 14 bits of the accumulator are in use. *)
ASSUME Base64Assumption ==
    /\ ByteStrings \subseteq Seq(0 .. 255)
    /\ AccSize \in Nat \ {0} /\ AccSize % 16384 = 0

VARIABLES
    bytes,      \* the argument of encode
    chars,      \* what encode returns, and the argument of decode
    back,       \* what decode returns
    taken,      \* how many elements of its argument a loop has taken
    val, valb,
    bpc         \* where the two calls are

base64 == <<bytes, chars, back, taken, val, valb, bpc>>

Pad == 64

Keep(v) == v % AccSize

ShiftRight(v, n) == v \div <<1, 2, 4, 8, 16, 32, 64, 128>>[n + 1]

Base64Init ==
    /\ bytes \in ByteStrings
    /\ chars = <<>> /\ back = <<>> /\ taken = 0
    /\ val = 0 /\ valb = -6
    /\ bpc = "encode"

EncodeByte ==
    /\ bpc = "encode" /\ valb < 0 /\ taken < Len(bytes)
    /\ val' = Keep(val * 256 + bytes[taken + 1])
    /\ valb' = valb + 8
    /\ taken' = taken + 1
    /\ UNCHANGED <<bytes, chars, back, bpc>>

(* while (valb >= 0): write out six bits. *)
EncodeChar ==
    /\ bpc = "encode" /\ valb >= 0
    /\ chars' = Append(chars, ShiftRight(val, valb) % 64)
    /\ valb' = valb - 6
    /\ UNCHANGED <<bytes, back, taken, val, bpc>>

(* The bits of an incomplete group at the end are dropped. *)
LastGroupSlip == chars

(* What is left is filled up with zeros to six bits. *)
LastGroup ==
    IF valb > -6 THEN Append(chars, ShiftRight(Keep(val * 256), valb + 8) % 64) ELSE chars

EncodeLast ==
    /\ bpc = "encode" /\ valb < 0 /\ taken = Len(bytes)
    /\ chars' = LastGroup
    /\ bpc' = "pad"
    /\ UNCHANGED <<bytes, back, taken, val, valb>>

EncodePad ==
    /\ bpc = "pad" /\ Len(chars) % 4 # 0
    /\ chars' = Append(chars, Pad)
    /\ UNCHANGED <<bytes, back, taken, val, valb, bpc>>

(* The text reaches whoever decodes it. *)
DecodeCall ==
    /\ bpc = "pad" /\ Len(chars) % 4 = 0
    /\ taken' = 0 /\ val' = 0 /\ valb' = -8
    /\ bpc' = "decode"
    /\ UNCHANGED <<bytes, chars, back>>

DecodeChar ==
    /\ bpc = "decode" /\ taken < Len(chars) /\ chars[taken + 1] # Pad
    /\ val' = Keep(val * 64 + chars[taken + 1])
    /\ taken' = taken + 1
    /\ IF valb + 6 >= 0
       THEN back' = Append(back, ShiftRight(val', valb + 6) % 256) /\ valb' = valb - 2
       ELSE valb' = valb + 6 /\ UNCHANGED back
    /\ UNCHANGED <<bytes, chars, bpc>>

(* At the end, or at a character that is not in the alphabet. *)
DecodeReturn ==
    /\ bpc = "decode"
    /\ taken < Len(chars) => chars[taken + 1] = Pad
    /\ bpc' = "done"
    /\ UNCHANGED <<bytes, chars, back, taken, val, valb>>

Base64Next ==
    \/ EncodeByte \/ EncodeChar \/ EncodeLast \/ EncodePad
    \/ DecodeCall \/ DecodeChar \/ DecodeReturn

Base64Spec == Base64Init /\ [][Base64Next]_base64

-----------------------------------------------------------------------------
(* RFC 4648: three bytes, those that are missing being zero, are one       *)
(* number of 24 bits, which is cut into four of six; as many characters    *)
(* are written as have a bit of a byte in them, and the rest is padding.   *)
ByteAt(in, i) == IF i <= Len(in) THEN in[i] ELSE 0

Group(in, g) ==
    65536 * ByteAt(in, 3 * g + 1) + 256 * ByteAt(in, 3 * g + 2) + ByteAt(in, 3 * g + 3)

Sextet(in, k) ==
    (Group(in, (k - 1) \div 4) \div <<262144, 4096, 64, 1>>[1 + ((k - 1) % 4)]) % 64

Standard(in) ==
    [k \in 1 .. 4 * ((Len(in) + 2) \div 3) |->
        IF k <= (4 * Len(in) + 2) \div 3 THEN Sextet(in, k) ELSE Pad]

(* What mem.read and screen.capture put into their answers is the standard *)
(* base64 of the bytes, and decoding it, as mem.write does, gives the same *)
(* bytes back, for every number of bytes modulo three and although the     *)
(* accumulator overflows.                                                  *)
Base64RoundTrip ==
    /\ bpc \in {"decode", "done"} => chars = Standard(bytes)
    /\ bpc = "done" => back = bytes
=============================================================================
