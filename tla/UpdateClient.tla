---------------------------- MODULE UpdateClient ----------------------------
(***************************************************************************)
(* update.cpp: the order of versions, and the download of a release to a   *)
(* file in the temporary directory.  The name of that file depends on the  *)
(* kind of download and the running version only, so that all requests for *)
(* one kind write the same file.                                           *)
(***************************************************************************)
EXTENDS Integers, Sequences

CONSTANT Downloads      \* the requests that download an update

VARIABLES
    dpc,        \* where each download is
    writer,     \* the download that has the file open, or NoDownload
    file        \* the download whose bytes are in the file, or NoDownload

downloads == <<dpc, writer, file>>

NoDownload == "none"

ASSUME DownloadsAssumption == NoDownload \notin Downloads

PartOf(v, i) == IF i <= Len(v) THEN v[i] ELSE 0

(* Only the parts both have are compared. *)
ComparedPartsSlip(a, b) == 1 .. IF Len(a) < Len(b) THEN Len(a) ELSE Len(b)

ComparedParts(a, b) == 1 .. IF Len(a) > Len(b) THEN Len(a) ELSE Len(b)

compare_versions(a, b) ==
    LET differ == {i \in ComparedParts(a, b) : PartOf(a, i) # PartOf(b, i)}
        first == CHOOSE i \in differ : \A j \in differ : i <= j
    IN  IF differ = {} THEN 0
        ELSE IF PartOf(a, first) < PartOf(b, first) THEN -1 ELSE 1

(* What compare_versions is to find out: a comes before b when it is less  *)
(* in the first part in which they differ, a part that is missing being    *)
(* zero.                                                                   *)
Before(a, b) ==
    \E i \in 1 .. Len(a) + Len(b) :
        PartOf(a, i) < PartOf(b, i) /\ \A j \in 1 .. i - 1 : PartOf(a, j) = PartOf(b, j)

-----------------------------------------------------------------------------
DownloadInit ==
    /\ dpc = [d \in Downloads |-> "url"]
    /\ writer = NoDownload
    /\ file = NoDownload

Goto(d, step) == dpc' = [dpc EXCEPT ![d] = step]

(* A request asks for a URL; parse_url takes it, or the answer is empty. *)
DownloadUrl(d) ==
    /\ dpc[d] = "url"
    /\ Goto(d, "request") \/ Goto(d, "failed")
    /\ UNCHANGED <<writer, file>>

(* No response; a redirect, which starts over with its URL; or any other   *)
(* status, a 404 or a redirect without a location included.                *)
DownloadResponse(d) ==
    /\ dpc[d] = "request"
    /\ Goto(d, "failed") \/ Goto(d, "url") \/ Goto(d, "create")
    /\ UNCHANGED <<writer, file>>

(* The file is opened although another download writes it. *)
SharingAllowsSlip == TRUE

(* dwShareMode is 0. *)
SharingAllows == writer = NoDownload

(* CREATE_ALWAYS empties a file that is there. *)
DownloadCreate(d) ==
    /\ dpc[d] = "create"
    /\ \/ /\ SharingAllows
          /\ writer' = d
          /\ file' = d
          /\ Goto(d, "read")
       \/ Goto(d, "failed") /\ UNCHANGED <<writer, file>>

(* The loop ends at the end of the body or when a read fails, and nothing  *)
(* tells the two apart; the file is closed and its path returned.          *)
DownloadEnds(d) ==
    /\ dpc[d] = "read"
    /\ writer' = NoDownload
    /\ Goto(d, "done")
    /\ UNCHANGED file

(* The request is answered and its connection asks for another download. *)
DownloadAgain(d) ==
    /\ dpc[d] \in {"failed", "done"}
    /\ Goto(d, "url")
    /\ UNCHANGED <<writer, file>>

DownloadNext ==
    \E d \in Downloads :
        \/ DownloadUrl(d) \/ DownloadResponse(d) \/ DownloadCreate(d)
        \/ DownloadEnds(d) \/ DownloadAgain(d)

DownloadSpec == DownloadInit /\ [][DownloadNext]_downloads

(* Two requests that download at the same time do not write into each      *)
(* other's file: a download in progress is the only one that has the file  *)
(* open, and what is in it is its own.                                     *)
DownloadsDoNotMix ==
    \A d \in Downloads : dpc[d] = "read" => writer = d /\ file = d
=============================================================================
