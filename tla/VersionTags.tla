---------------------------- MODULE VersionTags -----------------------------
(***************************************************************************)
(* update.cpp: the tag of a release, a sequence of character codes, read   *)
(* as a version, and whether the release is offered.                       *)
(***************************************************************************)
EXTENDS UpdateClient, SequencesExt

(* The character codes of '.', '-', 'v', 'V' and the digits. *)
Period == 46
Hyphen == 45
LetterV == {118, 86}
DigitCodes == 48 .. 57

(* getline by '.': a last segment that is empty is not delivered. *)
Segments(s) ==
    LET ends == SetToSortSeq({i \in DOMAIN s : s[i] = Period} \cup {Len(s) + 1}, <)
        all == [k \in DOMAIN ends |->
                   SubSeq(s, IF k = 1 THEN 1 ELSE ends[k - 1] + 1, ends[k] - 1)]
    IN  IF Last(all) = <<>> THEN Front(all) ELSE all

LeadingDigits(seg) ==
    SubSeq(seg, 1, CHOOSE n \in 0 .. Len(seg) :
        /\ \A i \in 1 .. n : seg[i] \in DigitCodes
        /\ n < Len(seg) => seg[n + 1] \notin DigitCodes)

(* stoi: a sign and the digits at the front; the rest is not looked at.    *)
(* Without a digit it throws.                                              *)
Signed(seg) == seg # <<>> /\ seg[1] = Hyphen
Numeral(seg) == LeadingDigits(IF Signed(seg) THEN Tail(seg) ELSE seg)
stoi(seg) ==
    LET n == FoldLeft(LAMBDA sum, d : 10 * sum + (d - 48), 0, Numeral(seg))
    IN  IF Signed(seg) THEN -n ELSE n

(* Empty when there is no segment or one is not a number. *)
parse_version(tag) ==
    LET s == IF tag # <<>> /\ tag[1] \in LetterV THEN Tail(tag) ELSE tag
        segs == Segments(s)
    IN  IF \E i \in DOMAIN segs : Numeral(segs[i]) = <<>> THEN <<>>
        ELSE [i \in DOMAIN segs |-> stoi(segs[i])]

(* check_for_update, once there is an answer with a tag. *)
update_available(current, latest) ==
    LET cur == parse_version(current)
        lat == parse_version(latest)
    IN  cur # <<>> /\ lat # <<>> /\ compare_versions(lat, cur) > 0
=============================================================================
