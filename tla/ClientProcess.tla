--------------------------- MODULE ClientProcess ----------------------------
(***************************************************************************)
(* A client process from its command line to its exit: wininspect (cli),   *)
(* wi-portable (portable), and any other program that speaks the protocol  *)
(* over TCP (peer, external).  One process runs at a time.                 *)
(***************************************************************************)
EXTENDS Connection, Lifecycle

CONSTANT Invocations    \* the command lines of this instance

ASSUME InvocationsAssumption ==
    \A i \in Invocations : i.client = "cli" =>
        i.args \in Nat /\ i.wellFormed \in BOOLEAN /\ i.tcp \in BOOLEAN

VARIABLES
    inv,    \* the command line in progress
    cpc,    \* where the process is
    exit,   \* "none" while it runs, then the exit code or "crash"
    seen    \* the last message it printed or Nothing, and whether in full

process == <<inv, cpc, exit, seen>>

Nothing == [msg |-> [type |-> "none"], whole |-> FALSE]

NoInvocation == [client |-> "none"]

ProcessInit ==
    /\ inv = NoInvocation
    /\ cpc = "idle"
    /\ exit = "none"
    /\ seen = Nothing

Is(client) == inv.client = client

(* The exit code is forgotten. *)
FinishSlip(code) == cpc' = "done" /\ UNCHANGED exit

Finish(code) == cpc' = "done" /\ exit' = code

(* The process ends, and its end of the connection is closed. *)
Hangup(code) ==
    /\ Finish(code)
    /\ clientOpen' = FALSE
    /\ UNCHANGED <<keys, tcpConn, stream, spc, got, encrypted, inv>>

Continue(step) == cpc' = step /\ UNCHANGED <<inv, exit, seen>>

Launch ==
    /\ cpc = "idle"
    /\ inv' \in Invocations
    /\ cpc' = "args"
    /\ UNCHANGED <<connection, exit, seen>>

(* The process is gone; its connection has been wound up on both sides. *)
Reap ==
    /\ cpc = "done"
    /\ ~Serving
    /\ inv' = NoInvocation /\ cpc' = "idle" /\ exit' = "none" /\ seen' = Nothing
    /\ Unconnected
    /\ UNCHANGED keys

CliCommand == CHOOSE c \in CliCommands : c.name = inv.cmd

(* A command that is none gets the usage as well. *)
Enough ==
    /\ \E c \in CliCommands : c.name = inv.cmd
    /\ inv.args >= CliCommand.least

(* main of the CLI up to the connection: usage, a number that is none,     *)
(* config, which only writes a file, and discover.                         *)
CliArgs ==
    /\ cpc = "args" /\ Is("cli")
    /\ IF inv.cmd \in {"config", "discover"}
       THEN \/ inv.cmd = "config" /\ Finish(IF inv.args >= 2 THEN "0" ELSE "2")
            \/ inv.cmd = "discover" /\ cpc' = "discover" /\ UNCHANGED exit
       ELSE IF ~Enough THEN Finish("2")
       ELSE IF CliCrashes(CliCommand, inv.args, inv.wellFormed) THEN Finish("crash")
       ELSE cpc' = "connect" /\ UNCHANGED exit
    /\ UNCHANGED <<connection, inv, seen>>

(* discover prints what answers to its datagrams, which may be lost, and   *)
(* ends when none came for a while.                                        *)
Discover ==
    /\ cpc = "discover"
    /\ \E answered \in DiscoveryAnswers :
          seen' = IF answered THEN [msg |-> [type |-> "announcement"], whole |-> TRUE]
                  ELSE seen
    /\ Finish("0")
    /\ UNCHANGED <<connection, inv>>

OtherArgs ==
    /\ cpc = "args" /\ ~Is("cli")
    /\ Continue("connect")
    /\ UNCHANGED connection

Listening ==
    IF inv.tcp THEN \E t \in TcpThreads : tcp[t] = "listening"
    ELSE pipe = "listening"

Connect ==
    /\ cpc = "connect"
    /\ Listening
    /\ Accept(inv.tcp)
    /\ Continue(IF inv.tcp THEN "hello" ELSE "send")

ConnectFails ==
    /\ cpc = "connect"
    /\ ~Listening
    /\ Finish("1")
    /\ UNCHANGED <<connection, inv, seen>>

(* The CLI reads a length with one recv and the body with another, which   *)
(* may return less than was asked for; the other clients read in full.     *)
Pieces == IF Is("cli") THEN 1 .. BodyParts ELSE {BodyParts}

(* The next frame is received, k units of its body: the process then acts  *)
(* on the message at the head, whole or not.                               *)
Receive(step, k) ==
    /\ cpc = step
    /\ k + 1 <= Len(down)
    /\ down' = SubSeq(down, k + 2, Len(down))
    /\ UNCHANGED <<keys, tcpConn, up, spc, got, encrypted, inv>>

(* A unit that is no length gives a length that means nothing. *)
Whole(k) == k = BodyParts /\ down[1].part = 0

(* The receive is tried again. *)
GiveUpSlip == UNCHANGED <<connection, process>>

GiveUp == Hangup("1") /\ UNCHANGED seen

(* The daemon closed its end and nothing is left to read. *)
ReceiveFails ==
    /\ cpc \in {"hello", "status", "recv"}
    /\ spc = "closed"
    /\ Len(down) <= 1
    /\ ~(Is("cli") /\ inv.cmd = "watch" /\ cpc = "recv")
    /\ GiveUp

(* perform_auth asks for the nonce with at(), which throws when there is   *)
(* none; nothing catches it.                                               *)
NoNonce == Finish("crash") /\ clientOpen' = FALSE

(* perform_auth, first half.  A hello that came in part does not parse and *)
(* ends the process as well.                                               *)
CliHello(m, whole) ==
    /\ IF ~whole THEN Finish("crash") /\ clientOpen' = FALSE
       ELSE IF ~m.nonce THEN NoNonce
       ELSE IF ~inv.key THEN Finish("1") /\ clientOpen' = FALSE
       ELSE cpc' = "respond" /\ UNCHANGED <<exit, clientOpen>>
    /\ UNCHANGED seen

(* handshake of the portable client; a peer does the same. *)
OtherHello(m, whole) ==
    /\ cpc' = IF m.nonce THEN "respond" ELSE "send"
    /\ UNCHANGED <<exit, clientOpen, seen>>

ReceiveHello ==
    \E k \in Pieces :
       /\ Receive("hello", k)
       /\ \/ Is("cli") /\ CliHello(down[1].msg, Whole(k))
          \/ ~Is("cli") /\ OtherHello(down[1].msg, Whole(k))

(* Send m; to a closed end it is lost. *)
Send(step, m, next) ==
    /\ cpc = step
    /\ up' = IF spc = "closed" THEN up ELSE up \o Frame(m)
    /\ Continue(next)
    /\ UNCHANGED <<keys, tcpConn, clientOpen, down, spc, got, encrypted>>

(* sign_ssh_msg of the CLI and the portable client return a fixed text,    *)
(* which verify_ssh_sig decodes to less than a signature; neither sends a  *)
(* key.                                                                    *)
Respond ==
    Send("respond", IF Is("peer") THEN AuthResponse(inv.valid, inv.ecdh)
                    ELSE AuthResponse(FALSE, "none"), "status")

(* Only a peer comes this far: the daemon hangs up on the other two. *)
StatusReceived(m, whole) == cpc' = "send" /\ UNCHANGED <<exit, clientOpen, seen>>

ReceiveStatus ==
    \E k \in Pieces :
       Receive("status", k) /\ StatusReceived(down[1].msg, Whole(k))

(* The portable client looks at its arguments only now. *)
PortableRefuses ==
    \/ inv.cmd \notin PortableCommands
    \/ inv.args < PortableLeast(inv.cmd)

PortableFails ==
    /\ cpc = "send" /\ Is("portable")
    /\ PortableRefuses
    /\ Hangup("1")
    /\ UNCHANGED seen

TheRequest ==
    CASE Is("cli") -> RequestMessage("no", CliCommand.method,
                          CliParams(CliCommand, inv.args, inv.wellFormed), "good")
      [] Is("portable") -> RequestMessage("odd", inv.cmd, NoParams, "good")
      [] OTHER -> RequestMessage(inv.sealed, "window.listTop", NoParams, inv.length)

SendRequest ==
    /\ Is("portable") => ~PortableRefuses
    /\ Send("send", TheRequest, "recv")

(* The portable client drops 28 bytes of whatever it receives. *)
Printed(m, whole) == seen' = [msg |-> m, whole |-> whole /\ ~Is("portable")]

(* Print and exit 0; watch goes on. *)
AnswerReceived(m, whole) ==
    /\ Printed(m, whole)
    /\ IF inv.cmd = "watch" THEN cpc' = "pause" /\ UNCHANGED <<exit, clientOpen>>
       ELSE Finish("0") /\ clientOpen' = FALSE

ReceiveAnswer ==
    \E k \in Pieces :
       Receive("recv", k) /\ AnswerReceived(down[1].msg, Whole(k))

(* A length that is none can be too much to allocate. *)
WatchScrambled ==
    /\ cpc = "recv"
    /\ down # <<>> /\ down[1].part # 0
    /\ Hangup("crash")
    /\ UNCHANGED seen

(* watch does not mind that nothing can be read any more. *)
WatchUnanswered ==
    /\ cpc = "recv" /\ inv.cmd = "watch"
    /\ spc = "closed" /\ Len(down) <= 1
    /\ Continue("pause")
    /\ UNCHANGED connection

WatchAgain ==
    /\ cpc = "pause"
    /\ Len(up) <= Backlog /\ Len(down) <= Backlog
    /\ Continue("send")
    /\ UNCHANGED connection

(* Ctrl+C. *)
WatchStopped == cpc = "pause" /\ Hangup("0") /\ UNCHANGED seen

(* What the process does without its user. *)
ClientStep ==
    \/ CliArgs \/ Discover \/ OtherArgs \/ Connect \/ ConnectFails
    \/ ReceiveHello \/ Respond \/ ReceiveStatus \/ PortableFails
    \/ SendRequest \/ ReceiveAnswer \/ ReceiveFails \/ WatchScrambled
    \/ WatchUnanswered \/ WatchAgain

Running == cpc \notin {"idle", "done"}

(* Every command of the CLI but status, given the arguments its usage asks *)
(* for, makes a request the daemon understands: it names a method of the   *)
(* daemon, with every parameter the method insists on, in the right kind.  *)
(* status asks for daemon.status, which no part of the daemon knows:       *)
(* unless it is refused before, the answer is that there is no such        *)
(* method.                                                                 *)
OnlyStatusUnknown ==
    Is("cli") /\ inv.wellFormed /\ seen.msg.type = "answer" =>
        IF inv.cmd = "status"
        THEN seen.msg.resp.stage = "method" \/ seen.msg.resp = Refusal
        ELSE seen.msg.resp.stage \notin {"parse", "method", "params"}

(* Every process but watch comes to its end, whatever the daemon does with *)
(* the connection and wherever the daemon ends: neither side waits for     *)
(* ever for the other.                                                     *)
InvocationsEnd == (Running /\ inv.cmd # "watch") ~> (cpc = "done")

(* Without authorized keys the daemon asks for no authentication, and the  *)
(* CLI, given a good command line, does without it.                        *)
KeylessClientsServed ==
    ~keys /\ Is("cli") /\ inv.tcp /\ inv.wellFormed => exit # "crash"
=============================================================================
