----------------------------- MODULE Connection -----------------------------
(***************************************************************************)
(* One connection between a client process and its thread in the daemon:   *)
(* two byte streams that deliver in order but in pieces of any size, the   *)
(* framing, the TCP handshake and the switch to encryption.  What happens  *)
(* inside the daemon between a request and its answer is RequestHandler's; *)
(* here the answer is any it may give.                                     *)
(*                                                                         *)
(* A frame is the unit with part 0, which holds the length, and BodyParts  *)
(* more units.  A read takes a prefix of what is in the stream.            *)
(***************************************************************************)
EXTENDS ClientCommands

CONSTANTS
    BodyParts,  \* pieces a message body can be split into
    Backlog     \* units left unread in a stream when watch polls again (bound)

ASSUME BodyPartsAssumption == BodyParts \in Nat \ {0}

VARIABLES
    keys,       \* the daemon was given authorized keys
    tcpConn,    \* the connection is TCP, not a pipe
    clientOpen, \* the client's end is open
    up, down,   \* the streams to and from the daemon
    spc,        \* where the daemon's thread is
    got,        \* the units of the frame the thread is reading
    encrypted   \* the thread's transport is encrypted

stream == <<up, down>>
connection == <<keys, tcpConn, clientOpen, up, down, spc, got, encrypted>>

(* The messages: what the receiver's code tells apart. *)
Hello == [type |-> "hello", nonce |-> keys]

(* An answer to the challenge; key says whether it brings an ECDH key the  *)
(* daemon can use.                                                         *)
AuthResponse(valid, key) == [type |-> "auth", valid |-> valid, key |-> key]

AuthStatus == [type |-> "auth_status"]

(* sealed: "no", "yes", or "odd" for the portable client's layout, which   *)
(* no decryption of the daemon opens.                                      *)
RequestMessage(sealed, method, params, length) ==
    [type |-> "request", sealed |-> sealed, method |-> method,
     params |-> params, length |-> length]

AnswerMessage(sealed, resp) == [type |-> "answer", sealed |-> sealed, resp |-> resp]

Frame(m) == [i \in 1 .. 1 + BodyParts |-> [msg |-> m, part |-> i - 1]]

ConnectionInit ==
    /\ keys \in BOOLEAN
    /\ tcpConn = FALSE
    /\ clientOpen = FALSE
    /\ up = <<>> /\ down = <<>>
    /\ spc = "none"
    /\ got = <<>>
    /\ encrypted = FALSE

(* No connection, and nothing left of the last one. *)
Unconnected ==
    /\ tcpConn' = FALSE /\ clientOpen' = FALSE
    /\ up' = <<>> /\ down' = <<>>
    /\ spc' = "none" /\ got' = <<>> /\ encrypted' = FALSE

Serving == spc \notin {"none", "closed"}

CloseServer == spc' = "closed" /\ got' = <<>>

(* The daemon accepts a connection and starts a thread for it; a pipe over *)
(* the connection limit is dropped at once.                                *)
Accept(isTcp) ==
    /\ tcpConn' = isTcp
    /\ clientOpen' = TRUE
    /\ up' = <<>> /\ down' = <<>>
    /\ got' = <<>>
    /\ encrypted' = FALSE
    /\ spc' \in IF isTcp THEN {"hello"} ELSE {"reading", "closed"}
    /\ UNCHANGED keys

(* handle_socket_client opens with its hello and, with keys, waits for the *)
(* response.                                                               *)
SendHello ==
    /\ spc = "hello"
    /\ down' = down \o Frame(Hello)
    /\ spc' = IF keys THEN "auth" ELSE "reading"
    /\ UNCHANGED <<keys, tcpConn, clientOpen, up, got, encrypted>>

Reading == spc \in {"auth", "reading"}

(* One read is taken for the whole body. *)
CompleteSlip(units) == Len(units) > 1

(* socket_read_all and read_all go on until they have the length asked for. *)
Complete(units) == Len(units) = 1 + BodyParts

(* The length is read first, by itself. *)
Wanted == IF got = <<>> THEN 1 ELSE 1 + BodyParts - Len(got)

(* TCP only: a length of 0 or above 10 MiB. *)
BadLength ==
    /\ spc = "reading" /\ tcpConn
    /\ Len(got) = 1
    /\ got[1].msg.type = "request"
    /\ got[1].msg.length = "bad"

ReadSome ==
    /\ Reading
    /\ ~Complete(got) /\ ~BadLength
    /\ \E k \in 1 .. Len(up) :
          /\ k <= Wanted
          /\ got' = got \o SubSeq(up, 1, k)
          /\ up' = SubSeq(up, k + 1, Len(up))
    /\ UNCHANGED <<keys, tcpConn, clientOpen, down, spc, encrypted>>

(* The read fails: the client closed its end. *)
ReadFails ==
    /\ Reading
    /\ ~Complete(got)
    /\ up = <<>>
    /\ ~clientOpen
    /\ CloseServer
    /\ UNCHANGED <<keys, tcpConn, clientOpen, stream, encrypted>>

(* SO_RCVTIMEO: five seconds during the handshake, half an hour later.     *)
(* The pipe has no timeout.                                                *)
ReadTimesOut ==
    /\ Reading
    /\ tcpConn
    /\ ~Complete(got)
    /\ up = <<>>
    /\ CloseServer
    /\ UNCHANGED <<keys, tcpConn, clientOpen, stream, encrypted>>

RefuseLength ==
    /\ BadLength
    /\ CloseServer
    /\ UNCHANGED <<keys, tcpConn, clientOpen, stream, encrypted>>

(* Version, identity and signature are checked; then the shared secret is  *)
(* computed if the client sent a key, and a failure to do so is only       *)
(* logged.                                                                 *)
VerifyIdentity ==
    /\ spc = "auth"
    /\ Complete(got)
    /\ LET m == got[1].msg IN
       IF m.type = "auth" /\ m.valid
       THEN /\ encrypted' = (m.key = "usable")
            /\ down' = down \o Frame(AuthStatus)
            /\ spc' = "reading"
            /\ got' = <<>>
       ELSE CloseServer /\ UNCHANGED <<encrypted, down>>
    /\ UNCHANGED <<keys, tcpConn, clientOpen, up>>

(* What any request may be answered before or instead of the core's        *)
(* answer: unauthorized, too many sessions, access denied, bad snapshot or *)
(* timeout (RequestHandler), which no client tells apart.                  *)
Refusal == CoreResponse("refused", "daemon", TRUE)

(* Methods the daemon answers itself. *)
DaemonHandled == {"snapshot.capture", "events.subscribe", "events.unsubscribe"}

Answers(m) ==
    {Refusal}
        \cup IF m.method \in DaemonHandled
             THEN {CoreResponse("ok", "daemon", TRUE)}
             ELSE {handle(m.method, m.params, s) : s \in BOOLEAN}

(* A frame that is not JSON. *)
ParseError == CoreResponse("E_BAD_REQUEST", "parse", FALSE)

(* Decrypt, parse, serve and answer.  On an encrypted connection a frame   *)
(* that does not decrypt ends it.  What cannot be written is lost.         *)
ServeRequest ==
    /\ spc = "reading"
    /\ Complete(got)
    /\ LET m == got[1].msg IN
       IF encrypted /\ m.sealed # "yes"
       THEN CloseServer /\ UNCHANGED down
       ELSE /\ \E r \in IF encrypted \/ m.sealed = "no" THEN Answers(m)
                        ELSE {ParseError} :
                  down' = IF ~clientOpen THEN down
                          ELSE down \o Frame(AnswerMessage(encrypted, r))
            /\ got' = <<>>
            /\ UNCHANGED spc
    /\ UNCHANGED <<keys, tcpConn, clientOpen, up, encrypted>>

(* The daemon process ended. *)
ServerDies ==
    /\ spc' = IF spc = "none" THEN "none" ELSE "closed"
    /\ got' = <<>>
    /\ UNCHANGED <<keys, tcpConn, clientOpen, stream, encrypted>>

ServerStep ==
    \/ SendHello \/ ReadSome \/ ReadFails \/ ReadTimesOut \/ RefuseLength
    \/ VerifyIdentity \/ ServeRequest

(* However the stream is cut up, what the daemon takes for a frame is one  *)
(* frame of its client: it starts with a length and goes on with the body  *)
(* of the same message.  A frame read short would leave the rest to be     *)
(* taken for the length of the next.                                       *)
FramesInSync ==
    \A i \in DOMAIN got : got[i] = [msg |-> got[1].msg, part |-> i - 1]
=============================================================================
