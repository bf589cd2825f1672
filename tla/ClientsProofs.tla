--------------------------- MODULE ClientsProofs ----------------------------
(***************************************************************************)
(* The daemon's start, the GUI's selection, and the dialogue of a client   *)
(* process with the thread that serves it: what they read of each other is *)
(* whole frames, and what the CLI's commands are answered.  For every set  *)
(* of windows and command lines and every size of the messages.            *)
(***************************************************************************)
EXTENDS Clients, ConnectionProofs

\* Unless a leaf names Zenon it is one for SMT; the limit leaves a slow machine its time.
USE SMTT(60)

(* The thread that runs TcpServer::start says where main is: with an icon  *)
(* it is the detached one, and main does not leave the tray's loop but by  *)
(* ending the process.                                                     *)
StartInv ==
    /\ tcp \in [TcpThreads -> ThreadStates]
    /\ tcp["bg"] # "unborn" => main \in {"tray", "exiting", "gone"}
    /\ tcp["main"] # "unborn" => main \in {"tcp", "joining", "gone"}
    /\ tcp["bg"] = "unborn" \/ tcp["main"] = "unborn"

(* Every item of the control refers to the place where its handle is, and  *)
(* properties are shown only after a selection.                            *)
GuiInv ==
    /\ DOMAIN listing \subseteq Nat \ {0}
    /\ DOMAIN items \subseteq Nat \ {0}
    /\ \A i \in DOMAIN items : hwnd_storage[items[i].param + 1] = items[i].hwnd
    /\ gpc = "info" => selected \in DOMAIN items
    /\ gpc \in {"off", "capture", "list"} => props = Blank
    /\ PropsOfSelection

-----------------------------------------------------------------------------
(* main starts the TCP server once, whichever thread gets to run it and    *)
(* however the process ends.                                               *)
LEMMA StartInvStep ==
    ASSUME StartInv, LifecycleNext \/ MainJoined(Serving)
    PROVE  StartInv'
<1> USE DEF StartInv, TcpThreads, ThreadStates
<1>1. CASE StartThreads BY <1>1 DEF StartThreads
<1>2. CASE PipeThreadStarts BY <1>2 DEF PipeThreadStarts
<1>3. CASE TrayInit BY <1>3 DEF TrayInit
<1>4. CASE TrayExit BY <1>4 DEF TrayExit
<1>5. CASE TrayExits BY <1>5 DEF TrayExits, ExitFromTray, ProcessEnds
<1>6. CASE MainReturns BY <1>6 DEF MainReturns
<1>7. CASE MainJoined(Serving) BY <1>7 DEF MainJoined, ProcessEnds
<1>8. ASSUME NEW t \in TcpThreads, TcpThreadStarts(t) \/ TcpThreadFails(t)
      PROVE  StartInv'
  BY <1>8 DEF TcpThreadStarts, TcpThreadFails
<1> QED BY <1>1, <1>2, <1>3, <1>4, <1>5, <1>6, <1>7, <1>8 DEF LifecycleNext

(* TcpServer::start is entered once in the life of the process. *)
THEOREM TcpStartedOnceHolds == ClientsSpec => []TcpStartedOnce
<1>1. ClientsInit => StartInv
  BY DEF ClientsInit, LifecycleInit, StartInv, TcpThreads, ThreadStates
<1>2. StartInv /\ [ClientsNext]_clientVars => StartInv'
  <2> SUFFICES ASSUME StartInv, [ClientsNext]_clientVars PROVE StartInv'
    OBVIOUS
  <2>1. CASE DaemonStep
    BY <2>1, StartInvStep DEF DaemonStep
  <2>2. CASE UNCHANGED life
    BY <2>2 DEF life, StartInv
  <2>3. CASE UNCHANGED clientVars
    BY <2>3 DEF clientVars, StartInv
  <2> QED BY <2>1, <2>2, <2>3 DEF ClientsNext, ThreadStep, ProcessLaunch, ProcessStep,
                                  ProcessStopped, ProcessReaped, GuiStep
<1>3. StartInv => TcpStartedOnce
  BY DEF StartInv, TcpStartedOnce, TcpThreads
<1> QED BY <1>1, <1>2, <1>3, PTL DEF ClientsSpec

-----------------------------------------------------------------------------
(* A step of the GUI or of the desktop keeps the items and the storage in  *)
(* agreement, and shows what was asked for the selected item.              *)
LEMMA GuiInvStep ==
    ASSUME GuiInv, GuiNext
    PROVE  GuiInv'
<1> USE DEF GuiInv, PropsOfSelection, Blank
<1>1. CASE GuiStart BY <1>1 DEF GuiStart
<1>2. CASE GuiEnds BY <1>2 DEF GuiEnds
<1>3. CASE GuiCapture
  <2>1. DOMAIN listing' = 1 .. Cardinality(living)
    BY <1>3 DEF GuiCapture, Bijection, Injection
  <2>2. DOMAIN listing' \subseteq Nat \ {0} BY <2>1
  <2> QED BY <1>3, <2>2 DEF GuiCapture
<1>4. CASE GuiRefreshed
  <2>1. \A i \in DOMAIN items' : hwnd_storage'[items'[i].param + 1] = items'[i].hwnd
    BY <1>4 DEF GuiRefreshed
  <2>2. DOMAIN items' \subseteq Nat \ {0}
    BY <1>4 DEF GuiRefreshed
  <2> QED BY <1>4, <2>1, <2>2 DEF GuiRefreshed
<1>5. CASE GuiSelect BY <1>5 DEF GuiSelect
<1>6. CASE GuiInfo BY <1>6 DEF GuiInfo, Cleared
<1>7. CASE WindowsChange BY <1>7 DEF WindowsChange
<1> QED BY <1>1, <1>2, <1>3, <1>4, <1>5, <1>6, <1>7
        DEF GuiNext, GuiRefreshThrows, GuiSelectThrows, GuiClose

(* The properties shown are those of the selected item's window, or none. *)
THEOREM PropsOfSelectionHolds == ClientsSpec => []PropsOfSelection
<1>1. ClientsInit => GuiInv
  BY DEF ClientsInit, GuiInit, GuiInv, PropsOfSelection, Blank
<1>2. GuiInv /\ [ClientsNext]_clientVars => GuiInv'
  <2> SUFFICES ASSUME GuiInv, [ClientsNext]_clientVars PROVE GuiInv'
    OBVIOUS
  <2>1. CASE GuiNext
    BY <2>1, GuiInvStep
  <2>2. CASE UNCHANGED gui
    BY <2>2 DEF gui, GuiInv, PropsOfSelection
  <2>3. CASE UNCHANGED clientVars
    BY <2>3 DEF clientVars, GuiInv, PropsOfSelection
  <2> QED BY <2>1, <2>2, <2>3 DEF ClientsNext, DaemonStep, ThreadStep, ProcessLaunch,
                                  ProcessStep, ProcessStopped, ProcessReaped, GuiStep
<1>3. GuiInv => PropsOfSelection
  BY DEF GuiInv
<1> QED BY <1>1, <1>2, <1>3, PTL DEF ClientsSpec

-----------------------------------------------------------------------------
SpcStates == {"none", "hello", "auth", "reading", "closed"}
CpcStates == {"idle", "args", "discover", "connect", "hello", "respond", "status",
              "send", "recv", "pause", "done"}
ExitCodes == {"none", "0", "1", "2", "crash"}

(* The part of ClientsTypeOK that is about a client and its connection. *)
ProcessOK ==
    /\ spc \in SpcStates
    /\ inv \in Invocations \cup {NoInvocation}
    /\ cpc \in CpcStates
    /\ exit \in ExitCodes
    /\ (exit # "none") = (cpc = "done")

(* Where the daemon's thread can be after a step of its own. *)
LEMMA ServerStepType ==
    ASSUME spc \in SpcStates, ServerStep
    PROVE  spc' \in SpcStates
<1> USE DEF SpcStates
<1>1. CASE SendHello BY <1>1 DEF SendHello
<1>2. CASE ReadSome BY <1>2 DEF ReadSome
<1>3. CASE ReadFails \/ ReadTimesOut \/ RefuseLength
  BY <1>3 DEF ReadFails, ReadTimesOut, RefuseLength, CloseServer
<1>4. CASE VerifyIdentity BY <1>4 DEF VerifyIdentity, CloseServer
<1>5. CASE ServeRequest BY <1>5 DEF ServeRequest, CloseServer
<1> QED BY <1>1, <1>2, <1>3, <1>4, <1>5 DEF ServerStep

(* A step of the client process leads from one of its places to another,   *)
(* and sets the exit code exactly when it ends the process.                *)
LEMMA ClientStepType ==
    ASSUME ProcessOK, ClientStep
    PROVE  ProcessOK'
<1> USE DEF ProcessOK, SpcStates, CpcStates, ExitCodes, Finish, Hangup, Continue,
            connection
<1>1. CASE CliArgs BY <1>1 DEF CliArgs
<1>2. CASE Discover BY <1>2 DEF Discover
<1>3. CASE OtherArgs BY <1>3 DEF OtherArgs
<1>4. CASE Connect BY <1>4 DEF Connect, Accept
<1>5. CASE ConnectFails BY <1>5 DEF ConnectFails
<1>6. CASE ReceiveHello
  BY <1>6 DEF ReceiveHello, Receive, CliHello, NoNonce, OtherHello
<1>7. CASE Respond \/ SendRequest BY <1>7, ZenonT(60) DEF Respond, SendRequest, Send
<1>8. CASE ReceiveStatus BY <1>8 DEF ReceiveStatus, Receive, StatusReceived
<1>9. CASE PortableFails BY <1>9 DEF PortableFails
<1>10. CASE ReceiveAnswer BY <1>10 DEF ReceiveAnswer, Receive, AnswerReceived
<1>11. CASE ReceiveFails BY <1>11 DEF ReceiveFails, GiveUp
<1>12. CASE WatchScrambled BY <1>12 DEF WatchScrambled
<1>13. CASE WatchUnanswered BY <1>13 DEF WatchUnanswered
<1>14. CASE WatchAgain BY <1>14 DEF WatchAgain
<1> QED BY <1>1, <1>2, <1>3, <1>4, <1>5, <1>6, <1>7, <1>8, <1>9, <1>10, <1>11, <1>12,
           <1>13, <1>14 DEF ClientStep

(* main and the threads it starts are where their code can be. *)
LEMMA LifecycleType ==
    ASSUME LifecycleTypeOK, LifecycleNext \/ MainJoined(Serving)
    PROVE  LifecycleTypeOK'
<1> USE DEF LifecycleTypeOK, TcpThreads, ThreadStates
<1>1. CASE StartThreads BY <1>1 DEF StartThreads
<1>2. CASE PipeThreadStarts BY <1>2 DEF PipeThreadStarts
<1>3. CASE TrayInit BY <1>3 DEF TrayInit
<1>4. CASE TrayExit BY <1>4 DEF TrayExit
<1>5. CASE TrayExits BY <1>5 DEF TrayExits, ExitFromTray, ProcessEnds
<1>6. CASE MainReturns BY <1>6 DEF MainReturns
<1>7. CASE MainJoined(Serving) BY <1>7 DEF MainJoined, ProcessEnds
<1>8. ASSUME NEW t \in TcpThreads, TcpThreadStarts(t) \/ TcpThreadFails(t)
      PROVE  LifecycleTypeOK'
  BY <1>8 DEF TcpThreadStarts, TcpThreadFails
<1> QED BY <1>1, <1>2, <1>3, <1>4, <1>5, <1>6, <1>7, <1>8 DEF LifecycleNext

(* The daemon's threads and the client process are where their code can    *)
(* be, and a process has an exit code exactly when it has ended.           *)
THEOREM ClientsTypeCorrect == ClientsSpec => []ClientsTypeOK
<1>1. ClientsInit => ClientsTypeOK
  BY DEF ClientsInit, ConnectionInit, LifecycleInit, ProcessInit, ClientsTypeOK,
         LifecycleTypeOK, TcpThreads, ThreadStates
<1>2. ClientsTypeOK /\ [ClientsNext]_clientVars => ClientsTypeOK'
  <2> SUFFICES ASSUME LifecycleTypeOK, ProcessOK, [ClientsNext]_clientVars
               PROVE  LifecycleTypeOK' /\ ProcessOK'
    BY DEF ClientsTypeOK, ProcessOK, SpcStates, CpcStates, ExitCodes
  <2> USE DEF life, process
  <2>1. CASE DaemonStep
    <3>1. LifecycleTypeOK' BY <2>1, LifecycleType DEF DaemonStep
    <3>2. spc' \in {spc, "none", "closed"}
      BY <2>1 DEF DaemonStep, ServerDies, connection
    <3> QED BY <2>1, <3>1, <3>2 DEF DaemonStep, ProcessOK, SpcStates
  <2>2. CASE UNCHANGED life
    <3>1. LifecycleTypeOK' BY <2>2 DEF LifecycleTypeOK
    <3>2. CASE ThreadStep
      BY <3>1, <3>2, ServerStepType DEF ThreadStep, ProcessOK
    <3>3. CASE ProcessLaunch
      BY <3>1, <3>3 DEF ProcessLaunch, Launch, connection, ProcessOK, CpcStates
    <3>4. CASE ProcessStep
      BY <3>1, <3>4, ClientStepType DEF ProcessStep
    <3>5. CASE ProcessStopped
      BY <3>1, <3>5 DEF ProcessStopped, WatchStopped, Hangup, Finish, ProcessOK, CpcStates,
                        ExitCodes
    <3>6. CASE ProcessReaped
      BY <3>1, <3>6 DEF ProcessReaped, Reap, Unconnected, ProcessOK, CpcStates, ExitCodes,
                        SpcStates
    <3>7. CASE GuiStep
      BY <3>1, <3>7 DEF GuiStep, connection, ProcessOK
    <3>8. CASE UNCHANGED clientVars
      BY <3>1, <3>8 DEF clientVars, ProcessOK
    <3> QED BY <2>1, <3>1, <3>2, <3>3, <3>4, <3>5, <3>6, <3>7, <3>8 DEF ClientsNext
  <2> QED BY <2>1, <2>2 DEF ClientsNext, ThreadStep, ProcessLaunch, ProcessStep,
                            ProcessStopped, ProcessReaped, GuiStep, clientVars
<1> QED BY <1>1, <1>2, PTL DEF ClientsSpec

-----------------------------------------------------------------------------
(* What the client's end writes: units of the messages of its invocation. *)
ChallengeAnswer ==
    IF Is("peer") THEN AuthResponse(inv.valid, inv.ecdh) ELSE AuthResponse(FALSE, "none")

MessagesSent == (IF inv.tcp THEN {ChallengeAnswer} ELSE {}) \cup {TheRequest}

UnitsSent == [msg : MessagesSent, part : 0 .. BodyParts]

(* Nothing has been written before there is a connection. *)
Unbegun == cpc \in {"idle", "args", "discover", "connect"}

(* What the daemon's thread has of the frame it is reading, and what it    *)
(* has not read yet, together are whole frames.                            *)
StreamInv ==
    /\ up \in Seq(UnitsSent)
    /\ got \in Seq(UnitsSent)
    /\ Unbegun => spc = "none"
    /\ Unbegun \/ cpc = "hello" => up = <<>> /\ got = <<>>
    /\ cpc \in {"hello", "respond", "status"} => inv.tcp
    /\ Serving => WholeFrames(got \o up) /\ Len(got) <= 1 + BodyParts
    /\ ~Serving => got = <<>>

(* While its invocation is the same, a process sends the same messages. *)
LEMMA SameMessages ==
    ASSUME UNCHANGED inv
    PROVE  UnitsSent' = UnitsSent
BY DEF UnitsSent, MessagesSent, ChallengeAnswer, AuthResponse, TheRequest, CliCommand, Is

(* A step of the daemon's thread keeps the frames together. *)
LEMMA StreamServerStep ==
    ASSUME StreamInv, ServerStep, UNCHANGED <<inv, cpc>>
    PROVE  StreamInv'
<1> USE BodyPartsAssumption
<1>0. UnitsSent' = UnitsSent BY SameMessages
<1>1. CASE SendHello
  BY <1>0, <1>1 DEF SendHello, StreamInv, Serving, Unbegun
<1>2. CASE ReadSome
  <2>6. PICK k \in 1 .. Len(up) :
        /\ k <= Wanted
        /\ got' = got \o SubSeq(up, 1, k)
        /\ up' = SubSeq(up, k + 1, Len(up))
    BY <1>2, ZenonT(60) DEF ReadSome
  <2>0. Len(got) \in Nat /\ Len(up) \in Nat /\ (got = <<>> => Len(got) = 0)
    BY LenProperties, EmptySeq DEF StreamInv
  <2>1. /\ got' \in Seq(UnitsSent) /\ up' \in Seq(UnitsSent)
        /\ Len(got') = Len(got) + k
        /\ WholeFrames(got \o up) => WholeFrames(got' \o up')
    <3>1. got \in Seq(UnitsSent) /\ up \in Seq(UnitsSent) BY DEF StreamInv
    <3>2. ReadOf(k, got, up, got', up') BY <2>6 DEF ReadOf
    <3> QED BY <3>1, <3>2, ReadMoves
  <2>2. Len(got') <= 1 + BodyParts
    BY <2>0, <2>1, <2>6 DEF Wanted
  <2>3. Serving /\ Serving' /\ spc' = spc BY <1>2 DEF ReadSome, Reading, Serving
  <2>4. WholeFrames(got' \o up') BY <2>1, <2>3 DEF StreamInv
  <2>5. ~Unbegun BY <2>3 DEF StreamInv, Serving
  <2> QED BY <1>0, <2>1, <2>2, <2>3, <2>4, <2>5 DEF StreamInv, Unbegun
<1>3. CASE CloseServer /\ up' = up /\ Reading
  <2>1. ~Unbegun' BY <1>3 DEF StreamInv, Reading, Unbegun
  <2> QED BY <1>0, <1>3, <2>1 DEF CloseServer, StreamInv, Serving
<1>4. CASE Complete(got) /\ got' = <<>> /\ up' = up /\ spc' = "reading" /\ Reading
  <2>1. ~Unbegun' BY <1>4 DEF StreamInv, Reading, Unbegun
  <2>2. WholeFrames(got \o up) BY <1>4 DEF StreamInv, Reading, Serving
  <2>3. JoinOf(got \o up, got, 1 + BodyParts, up, Len(up))
    BY <1>4, Joined DEF StreamInv, Complete
  <2>4. WholeFrames(up) BY <2>2, <2>3, FramesDropFirst
  <2>5. got' \o up' = up /\ got' \in Seq(UnitsSent) /\ Len(got') = 0
    BY <1>4, ConcatEmptySeq, EmptySeq DEF StreamInv
  <2> QED BY <1>0, <1>4, <2>1, <2>4, <2>5 DEF StreamInv, Serving
<1>5. CASE ReadFails \/ ReadTimesOut \/ RefuseLength
  BY <1>3, <1>5 DEF ReadFails, ReadTimesOut, RefuseLength, BadLength, Reading, stream
<1>6. CASE VerifyIdentity BY <1>3, <1>4, <1>6 DEF VerifyIdentity, Reading
<1>7. CASE ServeRequest BY <1>3, <1>4, <1>7 DEF ServeRequest, Reading
<1> QED BY <1>1, <1>2, <1>5, <1>6, <1>7 DEF ServerStep

(* A message a process sends is a message of its invocation, written whole. *)
LEMMA StreamSend ==
    ASSUME StreamInv, NEW m \in MessagesSent, NEW step, NEW next,
           next \in {"status", "recv"}, next = "status" => inv.tcp,
           Send(step, m, next)
    PROVE  StreamInv'
<1> USE BodyPartsAssumption
<1>0. UnitsSent' = UnitsSent BY SameMessages DEF Send, Continue
<1>1. /\ ~Unbegun' /\ Serving' = Serving /\ got' = got
      /\ cpc' # "hello" /\ (cpc' = "status" => inv.tcp) /\ cpc' # "respond" /\ inv' = inv
  BY DEF Send, Continue, Unbegun, Serving
<1>2. CASE spc = "closed" BY <1>0, <1>1, <1>2 DEF Send, StreamInv, Serving
<1>3. CASE spc # "closed"
  <2>1. up' = up \o Frame(m) BY <1>3 DEF Send
  <2>2. Frame(m) \in Seq(UnitsSent) /\ Len(Frame(m)) = 1 + BodyParts
    BY FrameUnits DEF UnitsSent
  <2>3. up' \in Seq(UnitsSent) BY <2>1, <2>2, ConcatProperties DEF StreamInv
  <2>4. ASSUME Serving PROVE WholeFrames(got' \o up')
    <3>1. got \o up \in Seq(UnitsSent) BY ConcatProperties DEF StreamInv
    <3>2. got' \o up' = (got \o up) \o Frame(m)
      <4>1. got \o (up \o Frame(m)) = (got \o up) \o Frame(m)
        <5> DEFINE f == Frame(m)
        <5>1. got \in Seq(UnitsSent) /\ up \in Seq(UnitsSent) /\ f \in Seq(UnitsSent)
          BY <2>2 DEF StreamInv
        <5> HIDE DEF f
        <5>2. got \o (up \o f) = (got \o up) \o f BY <5>1
        <5> QED BY <5>2 DEF f
      <4> QED BY <1>1, <2>1, <4>1
    <3>3. JoinOf(got' \o up', got \o up, Len(got \o up), Frame(m), 1 + BodyParts)
      <4> DEFINE w == got \o up
                 f == Frame(m)
      <4>1. w \in Seq(UnitsSent) /\ f \in Seq(UnitsSent) BY <2>2, <3>1
      <4> HIDE DEF w, f
      <4>2. JoinOf(w \o f, w, Len(w), f, Len(f)) BY <4>1, Joined
      <4> QED BY <2>2, <3>2, <4>2 DEF w, f
    <3> QED BY <2>4, <3>3, FramesAppend DEF StreamInv
  <2> QED BY <1>0, <1>1, <2>3, <2>4 DEF StreamInv
<1> QED BY <1>2, <1>3

(* A step of a client that neither connects nor sends leaves the stream to *)
(* the daemon alone.                                                       *)
LEMMA StreamQuiet ==
    ASSUME StreamInv, UNCHANGED <<inv, up, got, spc>>, Unbegun' => Unbegun,
           cpc' = "hello" => cpc = "hello",
           cpc' \in {"respond", "status"} => cpc \in {"hello", "respond", "status"}
    PROVE  StreamInv'
BY SameMessages DEF StreamInv, Serving

(* So does every step of a process keep the frames together. *)
LEMMA StreamClientStep ==
    ASSUME StreamInv, ClientStep
    PROVE  StreamInv'
<1> USE DEF Unbegun, Finish, Hangup, Continue, connection, stream
<1>1. CASE CliArgs BY <1>1, StreamQuiet DEF CliArgs
<1>2. CASE Discover BY <1>2, StreamQuiet DEF Discover
<1>3. CASE OtherArgs BY <1>3, StreamQuiet DEF OtherArgs
<1>4. CASE Connect
  <2>1. /\ up' = <<>> /\ got' = <<>> /\ ~Unbegun' /\ inv' = inv
        /\ cpc' = IF inv.tcp THEN "hello" ELSE "send"
    BY <1>4 DEF Connect, Accept
  <2>2. up' \in Seq(UnitsSent') /\ got' \in Seq(UnitsSent') /\ Len(got') = 0
    BY <2>1, EmptySeq
  <2>3. WholeFrames(got' \o up')
    <3>1. got' \o up' = <<>> BY <2>1
    <3>2. DOMAIN <<>> = {} OBVIOUS
    <3> QED BY <3>1, <3>2 DEF WholeFrames
  <2> QED BY <2>1, <2>2, <2>3, BodyPartsAssumption DEF StreamInv
<1>5. CASE ConnectFails BY <1>5, StreamQuiet DEF ConnectFails
<1>6. CASE ReceiveHello
  BY <1>6, StreamQuiet DEF ReceiveHello, Receive, CliHello, NoNonce, OtherHello
<1>7. CASE Respond
  <2>1. inv.tcp /\ ChallengeAnswer \in MessagesSent
    BY <1>7 DEF Respond, Send, StreamInv, MessagesSent
  <2>2. Send("respond", ChallengeAnswer, "status") BY <1>7, ZenonT(60) DEF Respond, ChallengeAnswer
  <2> QED BY <2>1, <2>2, StreamSend
<1>8. CASE SendRequest
  BY <1>8, StreamSend DEF SendRequest, MessagesSent
<1>9. CASE ReceiveStatus BY <1>9, StreamQuiet DEF ReceiveStatus, Receive, StatusReceived
<1>10. CASE PortableFails BY <1>10, StreamQuiet DEF PortableFails
<1>11. CASE ReceiveAnswer BY <1>11, StreamQuiet DEF ReceiveAnswer, Receive, AnswerReceived
<1>12. CASE ReceiveFails BY <1>12, StreamQuiet DEF ReceiveFails, GiveUp
<1>13. CASE WatchScrambled \/ WatchUnanswered \/ WatchAgain
  BY <1>13, StreamQuiet, ZenonT(60) DEF WatchScrambled, WatchUnanswered, WatchAgain
<1> QED BY <1>1, <1>2, <1>3, <1>4, <1>5, <1>6, <1>7, <1>8, <1>9, <1>10, <1>11, <1>12,
           <1>13 DEF ClientStep

(* The streams hold whole frames for as long as they are read. *)
LEMMA StreamInvariant == ClientsSpec => []StreamInv
<1>1. ClientsInit => StreamInv
  BY EmptySeq DEF ClientsInit, ConnectionInit, ProcessInit, StreamInv, Serving
<1>2. StreamInv /\ [ClientsNext]_clientVars => StreamInv'
  <2> SUFFICES ASSUME StreamInv, [ClientsNext]_clientVars PROVE StreamInv'
    OBVIOUS
  <2>1. CASE DaemonStep
    <3>1. CASE UNCHANGED connection
      BY <2>1, <3>1, StreamQuiet DEF DaemonStep, connection, process, Unbegun
    <3>2. CASE ServerDies
      <4>1. UnitsSent' = UnitsSent BY <2>1, SameMessages DEF DaemonStep, process
      <4>2. UNCHANGED <<inv, cpc, up>> /\ got' = <<>> /\ spc' \in {"none", "closed"}
            /\ (spc = "none" => spc' = "none")
        BY <2>1, <3>2 DEF DaemonStep, process, ServerDies, stream
      <4> QED BY <4>1, <4>2, EmptySeq DEF StreamInv, Serving, Unbegun
    <3> QED BY <2>1, <3>1, <3>2 DEF DaemonStep
  <2>2. CASE ThreadStep
    BY <2>2, StreamServerStep DEF ThreadStep, process
  <2>3. CASE ProcessLaunch
    <3>1. Unbegun /\ cpc' = "args" /\ UNCHANGED <<up, got, spc>>
      BY <2>3 DEF ProcessLaunch, Launch, Unbegun, connection
    <3>2. spc = "none" /\ up = <<>> /\ got = <<>> BY <3>1 DEF StreamInv
    <3> QED BY <3>1, <3>2, EmptySeq DEF StreamInv, Serving
  <2>4. CASE ProcessStep BY <2>4, StreamClientStep DEF ProcessStep
  <2>5. CASE ProcessStopped
    BY <2>5, StreamQuiet DEF ProcessStopped, WatchStopped, Hangup, Finish, stream, Unbegun
  <2>6. CASE ProcessReaped
    BY <2>6, EmptySeq DEF ProcessReaped, Reap, Unconnected, StreamInv, Serving
  <2>7. CASE GuiStep
    BY <2>7, StreamQuiet DEF GuiStep, connection, process, Unbegun
  <2>8. CASE UNCHANGED clientVars
    BY <2>8, StreamQuiet, ZenonT(60) DEF clientVars, Unbegun
  <2> QED BY <2>1, <2>2, <2>3, <2>4, <2>5, <2>6, <2>7, <2>8 DEF ClientsNext
<1> QED BY <1>1, <1>2, PTL DEF ClientsSpec

(* However the stream is cut up by the reads, and for every size of the    *)
(* body and every client: what handle_socket_client and the pipe's loop    *)
(* take for one frame is one frame of the client, from its length on.      *)
THEOREM FramesInSyncHolds == ClientsSpec => []FramesInSync
<1>1. StreamInv => FramesInSync
  <2> SUFFICES ASSUME StreamInv PROVE FramesInSync
    OBVIOUS
  <2>1. CASE Serving
    <3>1. JoinOf(got \o up, got, Len(got), up, Len(up)) BY Joined DEF StreamInv
    <3>2. \A i \in 1 .. Len(got) :
             i <= 1 + BodyParts => got[i] = [msg |-> got[1].msg, part |-> i - 1]
      BY <2>1, <3>1, FirstFrame DEF StreamInv
    <3>3. Len(got) \in Nat /\ DOMAIN got = 1 .. Len(got) BY LenProperties DEF StreamInv
    <3>4. Len(got) <= 1 + BodyParts BY <2>1 DEF StreamInv
    <3> QED BY <3>2, <3>3, <3>4, BodyPartsAssumption DEF FramesInSync
  <2>2. CASE ~Serving
    BY <2>2 DEF StreamInv, FramesInSync
  <2> QED BY <2>1, <2>2
<1> QED BY <1>1, StreamInvariant, PTL

-----------------------------------------------------------------------------
(* What the daemon may answer to the request of this command line. *)
AnswersToThis == {AnswerMessage(FALSE, r) : r \in Answers(TheRequest)}

(* The CLI has come far enough to have checked its arguments. *)
PastArgs == cpc \notin {"idle", "args", "discover", "done"}

(* Over TCP the CLI is turned away before it can ask: without keys by the  *)
(* missing nonce, with keys by its signature.                              *)
OverTcpInv ==
    /\ cpc \in {"hello", "respond", "status", "done"}
    /\ seen.msg.type # "answer"
    /\ cpc = "hello" =>
          \/ down = <<>> /\ spc \in {"hello", "closed"}
          \/ down = Frame(Hello) /\ spc \in {IF keys THEN "auth" ELSE "reading", "closed"}
    /\ cpc \in {"respond", "status"} => down = <<>> /\ spc \in {"auth", "closed"}

(* Over the pipe nothing but answers to its request comes back. *)
OverPipeInv ==
    cpc \in {"send", "recv", "pause"} =>
        /\ encrypted = FALSE
        /\ spc \in {"reading", "closed"}
        /\ down \in Seq([msg : AnswersToThis, part : 0 .. BodyParts])

DialogueInv ==
    /\ Unbegun => seen = Nothing
    /\ Is("cli") =>
          /\ PastArgs => Enough
          /\ seen.msg.type = "answer" => Enough /\ seen.msg \in AnswersToThis
          /\ ~Unbegun => IF inv.tcp THEN OverTcpInv ELSE OverPipeInv

(* A step of the client process: its command line stays, and once it has   *)
(* come to a connection it neither goes back nor goes on from its end.     *)
LEMMA ClientStepMoves ==
    ASSUME ClientStep
    PROVE  inv' = inv /\ (~Unbegun => ~Unbegun' /\ cpc # "done")
<1> USE DEF Finish, Continue, Unbegun
<1>1. inv' = inv
  BY ZenonT(60) DEF ClientStep, CliArgs, Discover, OtherArgs, Connect, ConnectFails, ReceiveHello,
           Receive, Respond, Send, ReceiveStatus, PortableFails, SendRequest, ReceiveAnswer,
           ReceiveFails, GiveUp, Hangup, WatchScrambled, WatchUnanswered, WatchAgain
<1>2. ASSUME ~Unbegun PROVE ~Unbegun'
  BY <1>2, ZenonT(60) DEF ClientStep, CliArgs, Discover, OtherArgs, Connect, ConnectFails, ReceiveHello,
           Receive, CliHello, NoNonce, OtherHello, Respond, Send, ReceiveStatus, StatusReceived,
           PortableFails, SendRequest, ReceiveAnswer, AnswerReceived, ReceiveFails, GiveUp,
           Hangup, WatchScrambled, WatchUnanswered, WatchAgain
<1>3. cpc # "done"
  BY ZenonT(60) DEF ClientStep, CliArgs, Discover, OtherArgs, Connect, ConnectFails, ReceiveHello,
           Receive, Respond, Send, ReceiveStatus, PortableFails, SendRequest, ReceiveAnswer,
           ReceiveFails, WatchScrambled, WatchUnanswered, WatchAgain
<1> QED BY <1>1, <1>2, <1>3

(* While the command line is the same, so are the answers to it. *)
LEMMA SameAnswers ==
    ASSUME UNCHANGED inv
    PROVE  AnswersToThis' = AnswersToThis /\ Enough' = Enough /\ Is("cli")' = Is("cli")
BY DEF AnswersToThis, TheRequest, CliCommand, Is, Enough

(* The daemon's thread and a CLI over TCP. *)
LEMMA TcpServerStep ==
    ASSUME StreamInv, ServerStep, UNCHANGED <<inv, cpc, seen>>,
           Is("cli"), inv.tcp, OverTcpInv
    PROVE  OverTcpInv'
<1> USE BodyPartsAssumption
<1>1. keys' = keys /\ Hello' = Hello
  BY ZenonT(60) DEF ServerStep, SendHello, ReadSome, ReadFails, ReadTimesOut, RefuseLength,
         VerifyIdentity, ServeRequest, Hello
<1>2. cpc = "hello" => got = <<>> /\ up = <<>>
  BY DEF StreamInv
<1>3. CASE SendHello
  <2>1. cpc = "hello" => down' = Frame(Hello) /\ spc' = IF keys THEN "auth" ELSE "reading"
    <3>1. <<>> \o Frame(Hello) = Frame(Hello)
      <4>1. Frame(Hello) \in Seq([msg : {Hello}, part : 0 .. BodyParts]) BY FrameUnits, ZenonT(60)
      <4> QED BY <4>1, ConcatEmptySeq
    <3> QED BY <1>3, <3>1, ZenonT(60) DEF SendHello, OverTcpInv
  <2> QED BY <1>1, <1>3, <2>1 DEF OverTcpInv, SendHello, Frame
<1>4. CASE down' = down /\ spc' \in {spc, "closed"}
  BY <1>1, <1>4, ZenonT(60) DEF OverTcpInv, Frame
<1>5. CASE ReadSome \/ ReadFails \/ ReadTimesOut \/ RefuseLength
  BY <1>4, <1>5 DEF ReadSome, ReadFails, ReadTimesOut, RefuseLength, CloseServer, stream
<1>6. Complete(got) => cpc # "hello"
  <2>1. Len(<<>>) = 0 OBVIOUS
  <2> QED BY <1>2, <2>1 DEF Complete
<1>7. CASE VerifyIdentity
  <2>1. cpc # "hello" BY <1>6, <1>7 DEF VerifyIdentity
  <2>2. got[1].msg \in MessagesSent
    <3>1. 1 \in 1 .. Len(got) BY <1>7 DEF VerifyIdentity, Complete
    <3>2. got[1] \in UnitsSent BY <3>1, ElementOfSeq DEF StreamInv
    <3> QED BY <3>2 DEF UnitsSent
  <2>3. ~(got[1].msg.type = "auth" /\ got[1].msg.valid)
    BY <2>2 DEF MessagesSent, ChallengeAnswer, AuthResponse, TheRequest, RequestMessage, Is
  <2> QED BY <1>4, <1>7, <2>1, <2>3, ZenonT(60) DEF VerifyIdentity, CloseServer
<1>8. CASE ServeRequest
  BY <1>6, <1>8 DEF ServeRequest, OverTcpInv
<1>9. \/ SendHello \/ VerifyIdentity \/ ServeRequest
      \/ ReadSome \/ ReadFails \/ ReadTimesOut \/ RefuseLength
  BY DEF ServerStep
<1> QED BY <1>3, <1>5, <1>7, <1>8, <1>9

(* The daemon's thread and a CLI over the pipe. *)
LEMMA PipeServerStep ==
    ASSUME StreamInv, ServerStep, UNCHANGED <<inv, cpc, seen>>,
           Is("cli"), ~inv.tcp, OverPipeInv
    PROVE  OverPipeInv'
<1> USE BodyPartsAssumption
<1>0. AnswersToThis' = AnswersToThis BY SameAnswers
<1> SUFFICES ASSUME cpc \in {"send", "recv", "pause"}
             PROVE  /\ encrypted' = FALSE /\ spc' \in {"reading", "closed"}
                    /\ down' \in Seq([msg : AnswersToThis, part : 0 .. BodyParts])
  BY <1>0, ZenonT(60) DEF OverPipeInv
<1>1. /\ encrypted = FALSE /\ spc \in {"reading", "closed"}
      /\ down \in Seq([msg : AnswersToThis, part : 0 .. BodyParts])
  BY DEF OverPipeInv
<1>2. ~SendHello /\ ~VerifyIdentity
  BY <1>1 DEF SendHello, VerifyIdentity
<1>3. CASE ReadSome \/ ReadFails \/ ReadTimesOut \/ RefuseLength
  BY <1>1, <1>3 DEF ReadSome, ReadFails, ReadTimesOut, RefuseLength, CloseServer, stream
<1>4. CASE ServeRequest
  <2>1. got[1].msg = TheRequest
    <3>1. 1 \in 1 .. Len(got) BY <1>4 DEF ServeRequest, Complete
    <3>2. got[1] \in UnitsSent BY <3>1, ElementOfSeq DEF StreamInv
    <3> QED BY <3>2 DEF UnitsSent, MessagesSent
  <2>2. TheRequest.sealed = "no" BY DEF TheRequest, RequestMessage, Is
  <2>3. PICK r \in Answers(TheRequest) :
          down' = IF ~clientOpen THEN down ELSE down \o Frame(AnswerMessage(FALSE, r))
    BY <1>1, <1>4, <2>1, <2>2, ZenonT(60) DEF ServeRequest, AnswerMessage
  <2>4. down' \in Seq([msg : AnswersToThis, part : 0 .. BodyParts])
    <3> DEFINE a == AnswerMessage(FALSE, r)
               f == Frame(a)
    <3>1. a \in AnswersToThis BY ZenonT(60) DEF AnswersToThis
    <3> HIDE DEF a
    <3>2. f \in Seq([msg : AnswersToThis, part : 0 .. BodyParts]) BY <3>1, FrameUnits
    <3>3. down' = down \/ down' = down \o f BY <2>3, ZenonT(60) DEF a
    <3> HIDE DEF f
    <3> QED BY <1>1, <3>2, <3>3, ConcatProperties, ZenonT(60)
  <2> QED BY <1>1, <1>4, <2>4, ZenonT(60) DEF ServeRequest, CloseServer
<1> QED BY <1>2, <1>3, <1>4, ZenonT(60) DEF ServerStep

(* A CLI over TCP takes a step: it never gets as far as a request. *)
LEMMA TcpClientStep ==
    ASSUME StreamInv, DialogueInv, ClientStep, Is("cli"), inv.tcp, ~Unbegun
    PROVE  OverTcpInv'
<1> USE BodyPartsAssumption DEF Finish, Hangup, Continue
<1>0. OverTcpInv BY DEF DialogueInv
<1>1. CASE ReceiveHello
  <2>1. PICK k \in Pieces : Receive("hello", k) /\ CliHello(down[1].msg, Whole(k))
    BY <1>1 DEF ReceiveHello
  <2>2. k \in 1 .. BodyParts BY <2>1 DEF Pieces
  <2>3. CASE cpc' = "done" /\ seen' = seen
    BY <1>0, <2>3 DEF OverTcpInv
  <2>4. CASE cpc' # "done"
    <3>1. Whole(k) /\ down[1].msg.nonce /\ cpc' = "respond" /\ seen' = seen
      BY <2>1, <2>4 DEF CliHello, NoNonce
    <3>2. cpc = "hello" /\ k + 1 <= Len(down) /\ spc' = spc
          /\ down' = SubSeq(down, k + 2, Len(down))
      BY <2>1 DEF Receive
    <3>3. down = Frame(Hello)
      <4>1. Len(<<>>) = 0 OBVIOUS
      <4> QED BY <1>0, <2>2, <3>2, <4>1 DEF OverTcpInv
    <3>4. keys
      BY <3>1, <3>3 DEF Frame, Hello
    <3>5. spc \in {"auth", "closed"}
      <4>1. down # <<>>
        <5>1. Len(down) = 1 + BodyParts BY <3>3, FrameUnits, ZenonT(60)
        <5>2. Len(<<>>) = 0 OBVIOUS
        <5> QED BY <5>1, <5>2
      <4> QED BY <1>0, <3>2, <3>4, <4>1 DEF OverTcpInv
    <3>6. down' = <<>>
      <4>1. k = BodyParts BY <3>1 DEF Whole
      <4>2. Len(down) = 1 + BodyParts BY <3>3, FrameUnits, ZenonT(60)
      <4>3. down' = SubSeq(down, BodyParts + 2, 1 + BodyParts) BY <3>2, <4>1, <4>2
      <4> QED BY <4>3
    <3> QED BY <1>0, <3>1, <3>2, <3>5, <3>6 DEF OverTcpInv
  <2> QED BY <2>1, <2>3, <2>4 DEF CliHello, NoNonce
<1>2. CASE Respond
  BY <1>0, <1>2 DEF Respond, Send, OverTcpInv
<1>3. CASE ReceiveStatus
  <2>1. PICK k \in Pieces : Receive("status", k)
    BY <1>3 DEF ReceiveStatus
  <2>2. k \in 1 .. BodyParts BY <2>1 DEF Pieces
  <2>3. cpc = "status" /\ k + 1 <= Len(down) BY <2>1 DEF Receive
  <2>4. Len(<<>>) = 0 OBVIOUS
  <2> QED BY <1>0, <2>2, <2>3, <2>4 DEF OverTcpInv
<1>4. CASE ReceiveFails
  BY <1>0, <1>4 DEF ReceiveFails, GiveUp, OverTcpInv
<1>5. ~CliArgs /\ ~Discover /\ ~OtherArgs /\ ~Connect /\ ~ConnectFails
  BY ZenonT(60) DEF Unbegun, CliArgs, Discover, OtherArgs, Connect, ConnectFails
<1>6. ~PortableFails /\ ~SendRequest /\ ~ReceiveAnswer /\ ~WatchScrambled
      /\ ~WatchUnanswered /\ ~WatchAgain
  BY <1>0, ZenonT(60) DEF OverTcpInv, PortableFails, SendRequest, Send, ReceiveAnswer, Receive,
              WatchScrambled, WatchUnanswered, WatchAgain
<1> QED BY <1>1, <1>2, <1>3, <1>4, <1>5, <1>6 DEF ClientStep

(* A CLI over the pipe takes a step: what it prints is an answer to its    *)
(* request.                                                                *)
LEMMA PipeClientStep ==
    ASSUME StreamInv, DialogueInv, ClientStep, Is("cli"), ~inv.tcp, ~Unbegun
    PROVE  /\ OverPipeInv'
           /\ seen'.msg.type = "answer" => Enough /\ seen'.msg \in AnswersToThis
<1> USE BodyPartsAssumption DEF Finish, Hangup, Continue
<1> DEFINE U == [msg : AnswersToThis, part : 0 .. BodyParts]
<1>0. /\ OverPipeInv
      /\ seen.msg.type = "answer" => Enough /\ seen.msg \in AnswersToThis
      /\ PastArgs => Enough
  BY DEF DialogueInv
<1>1. inv' = inv /\ AnswersToThis' = AnswersToThis
  <2>1. inv' = inv BY ClientStepMoves
  <2> QED BY <2>1, SameAnswers
<1>2. cpc \notin {"hello", "respond", "status"}
  BY DEF StreamInv
<1>3. CASE cpc' = "done" /\ seen' = seen
  BY <1>0, <1>3, ZenonT(60) DEF OverPipeInv
<1>4. CASE seen' = seen /\ cpc \in {"send", "recv", "pause"}
           /\ UNCHANGED <<encrypted, spc, down>>
  BY <1>0, <1>1, <1>4 DEF OverPipeInv
<1>5. CASE ReceiveAnswer
  <2>1. PICK k \in Pieces : Receive("recv", k) /\ AnswerReceived(down[1].msg, Whole(k))
    BY <1>5 DEF ReceiveAnswer
  <2>2. k \in 1 .. BodyParts BY <2>1 DEF Pieces
  <2>3. /\ cpc = "recv" /\ k + 1 <= Len(down) /\ spc' = spc /\ encrypted' = encrypted
        /\ down' = SubSeq(down, k + 2, Len(down))
    BY <2>1 DEF Receive
  <2>4. down \in Seq(U) /\ Len(down) \in Nat
    BY <1>0, <2>3, LenProperties DEF OverPipeInv
  <2>5. down[1].msg \in AnswersToThis
    <3>1. 1 \in 1 .. Len(down) BY <2>2, <2>3, <2>4
    <3>2. down[1] \in U BY <2>4, <3>1, ElementOfSeq, ZenonT(60)
    <3> QED BY <3>2
  <2>6. down' \in Seq(U)
    <3>1. \A i \in k + 2 .. Len(down) : down[i] \in U
      <4>1. \A i \in 1 .. Len(down) : down[i] \in U BY <2>4, ElementOfSeq, ZenonT(60)
      <4> QED BY <2>2, <2>4, <4>1
    <3> HIDE DEF U
    <3> QED BY <2>2, <2>3, <2>4, <3>1, SubSeqProperties
  <2>7. seen'.msg = down[1].msg BY <2>1 DEF AnswerReceived, Printed
  <2>8. Enough BY <1>0, <2>3 DEF PastArgs
  <2> QED BY <1>0, <1>1, <2>3, <2>5, <2>6, <2>7, <2>8, ZenonT(60) DEF OverPipeInv
<1>6. CASE SendRequest \/ WatchUnanswered \/ WatchAgain
  BY <1>4, <1>6, ZenonT(60) DEF SendRequest, Send, WatchUnanswered, WatchAgain, connection
<1>7. CASE PortableFails \/ ReceiveFails \/ WatchScrambled
  BY <1>3, <1>7 DEF PortableFails, ReceiveFails, GiveUp, WatchScrambled
<1>8. ~CliArgs /\ ~Discover /\ ~OtherArgs /\ ~Connect /\ ~ConnectFails
  BY DEF Unbegun, CliArgs, Discover, OtherArgs, Connect, ConnectFails
<1>9. ~ReceiveHello /\ ~Respond /\ ~ReceiveStatus
  BY <1>2, ZenonT(60) DEF ReceiveHello, Receive, Respond, Send, ReceiveStatus
<1> QED BY <1>5, <1>6, <1>7, <1>8, <1>9 DEF ClientStep

(* A step of the client process keeps the dialogue in order. *)
LEMMA DialogueClientStep ==
    ASSUME StreamInv, DialogueInv, ClientStep
    PROVE  DialogueInv'
<1> USE DEF Finish, Continue, Unbegun
<1>1. inv' = inv /\ Enough' = Enough /\ Is("cli")' = Is("cli") /\ AnswersToThis' = AnswersToThis
  <2>1. inv' = inv BY ClientStepMoves
  <2> QED BY <2>1, SameAnswers
<1>2. CASE ~Unbegun
  <2>1. ~Unbegun' /\ cpc # "done" BY <1>2, ClientStepMoves
  <2>2. Is("cli") => Enough BY <1>2, <2>1 DEF DialogueInv, PastArgs
  <2>3. CASE ~Is("cli")
    BY <1>1, <2>1, <2>3 DEF DialogueInv
  <2>4. CASE Is("cli") /\ inv.tcp
    <3>1. OverTcpInv' BY <1>2, <2>4, TcpClientStep
    <3>2. seen'.msg.type # "answer" BY <3>1 DEF OverTcpInv
    <3> QED BY <1>1, <2>1, <2>2, <2>4, <3>1, <3>2 DEF DialogueInv
  <2>5. CASE Is("cli") /\ ~inv.tcp
    BY <1>1, <1>2, <2>1, <2>2, <2>5, PipeClientStep, ZenonT(60) DEF DialogueInv
  <2> QED BY <2>3, <2>4, <2>5
<1>3. CASE Unbegun
  <2>0. seen = Nothing /\ seen.msg.type = "none" BY <1>3 DEF DialogueInv, Nothing
  <2>1. CASE CliArgs
    <3>1. seen' = seen /\ (cpc' = "connect" => Enough) /\ cpc' \in {"connect", "discover", "done"}
      BY <2>1 DEF CliArgs
    <3>2. cpc' = "done" => OverTcpInv' /\ OverPipeInv'
      BY <2>0, <3>1 DEF OverTcpInv, OverPipeInv
    <3> QED BY <1>1, <2>0, <3>1, <3>2, ZenonT(60) DEF DialogueInv, PastArgs
  <2>2. CASE Discover
    <3>1. cpc' = "done" /\ seen'.msg.type # "answer"
      BY <2>0, <2>2 DEF Discover
    <3>2. OverTcpInv' /\ OverPipeInv' BY <3>1 DEF OverTcpInv, OverPipeInv
    <3> QED BY <1>1, <3>1, <3>2 DEF DialogueInv, PastArgs
  <2>3. CASE OtherArgs
    BY <1>1, <2>0, <2>3 DEF OtherArgs, DialogueInv
  <2>4. CASE ConnectFails
    <3>1. cpc' = "done" /\ seen' = seen BY <2>4 DEF ConnectFails
    <3>2. OverTcpInv' /\ OverPipeInv' BY <2>0, <3>1 DEF OverTcpInv, OverPipeInv
    <3> QED BY <1>1, <2>0, <3>1, <3>2 DEF DialogueInv, PastArgs
  <2>5. CASE Connect
    <3>1. /\ cpc = "connect" /\ seen' = seen /\ down' = <<>> /\ encrypted' = FALSE
          /\ cpc' = IF inv.tcp THEN "hello" ELSE "send"
          /\ spc' \in IF inv.tcp THEN {"hello"} ELSE {"reading", "closed"}
      BY <2>5 DEF Connect, Accept
    <3>2. inv.tcp => OverTcpInv' BY <2>0, <3>1 DEF OverTcpInv
    <3>3. ~inv.tcp => OverPipeInv' BY <3>1, EmptySeq DEF OverPipeInv
    <3>4. PastArgs BY <3>1 DEF PastArgs
    <3>5. Is("cli") => Enough BY <3>4 DEF DialogueInv
    <3> QED BY <1>1, <2>0, <3>1, <3>2, <3>3, <3>5 DEF DialogueInv
  <2>6. CliArgs \/ Discover \/ OtherArgs \/ Connect \/ ConnectFails
    BY <1>3, ZenonT(60) DEF ClientStep, ReceiveHello, Receive, Respond, Send, ReceiveStatus, PortableFails,
           SendRequest, ReceiveAnswer, ReceiveFails, WatchScrambled, WatchUnanswered, WatchAgain
  <2> QED BY <2>1, <2>2, <2>3, <2>4, <2>5, <2>6
<1> QED BY <1>2, <1>3

(* The dialogue stays in order throughout. *)
LEMMA DialogueInvariant == ClientsSpec => []DialogueInv
<1>1. ClientsInit => DialogueInv
  BY DEF ClientsInit, ProcessInit, DialogueInv, Is, NoInvocation
<1>2. StreamInv /\ DialogueInv /\ [ClientsNext]_clientVars => DialogueInv'
  <2> SUFFICES ASSUME StreamInv, DialogueInv, [ClientsNext]_clientVars PROVE DialogueInv'
    OBVIOUS
  <2>1. ASSUME UNCHANGED <<process, down, encrypted, keys>>,
               spc' = spc \/ spc' = "closed" \/ Unbegun
        PROVE  DialogueInv'
    <3>1. /\ UNCHANGED <<inv, cpc, seen, down>> /\ Frame(Hello)' = Frame(Hello)
          /\ Enough' = Enough /\ Is("cli")' = Is("cli") /\ AnswersToThis' = AnswersToThis
      BY <2>1, SameAnswers DEF process, Frame, Hello
    <3>2. OverTcpInv /\ ~Unbegun => OverTcpInv' BY <2>1, <3>1 DEF OverTcpInv
    <3>3. OverPipeInv /\ ~Unbegun => OverPipeInv' BY <2>1, <3>1 DEF OverPipeInv
    <3> QED BY <3>1, <3>2, <3>3, ZenonT(60) DEF DialogueInv, Unbegun, PastArgs
  <2>2. CASE DaemonStep
    <3>1. UNCHANGED <<down, encrypted, keys>> /\ spc' \in {spc, "closed"}
      <4>1. ServerDies \/ UNCHANGED connection BY <2>2, ZenonT(60) DEF DaemonStep
      <4>2. CASE ServerDies BY <4>2 DEF ServerDies, stream
      <4>3. CASE UNCHANGED connection BY <4>3 DEF connection, stream
      <4> QED BY <4>1, <4>2, <4>3
    <3>2. UNCHANGED process BY <2>2 DEF DaemonStep
    <3> QED BY <2>1, <3>1, <3>2
  <2>3. CASE ThreadStep
    <3>1. UNCHANGED <<inv, cpc, seen>> BY <2>3 DEF ThreadStep, process
    <3>2. Enough' = Enough /\ Is("cli")' = Is("cli") /\ AnswersToThis' = AnswersToThis
      BY <3>1, SameAnswers
    <3>3. Is("cli") /\ inv.tcp /\ ~Unbegun => OverTcpInv'
      BY <2>3, <3>1, TcpServerStep DEF ThreadStep, DialogueInv
    <3>4. Is("cli") /\ ~inv.tcp /\ ~Unbegun => OverPipeInv'
      BY <2>3, <3>1, PipeServerStep DEF ThreadStep, DialogueInv
    <3> QED BY <3>1, <3>2, <3>3, <3>4 DEF DialogueInv, Unbegun, PastArgs
  <2>4. CASE ProcessLaunch
    <3>1. cpc = "idle" /\ cpc' = "args" /\ seen' = seen
      BY <2>4 DEF ProcessLaunch, Launch
    <3> QED BY <3>1 DEF DialogueInv, Unbegun, PastArgs, Nothing
  <2>5. CASE ProcessStep
    BY <2>5, DialogueClientStep DEF ProcessStep
  <2>6. CASE ProcessStopped
    <3>1. cpc = "pause" /\ cpc' = "done" /\ UNCHANGED <<inv, seen>>
      BY <2>6 DEF ProcessStopped, WatchStopped, Hangup, Finish
    <3>2. Enough' = Enough /\ Is("cli")' = Is("cli") /\ AnswersToThis' = AnswersToThis
      BY <3>1, SameAnswers
    <3>3. OverTcpInv /\ inv.tcp => OverTcpInv' BY <3>1 DEF OverTcpInv
    <3>4. OverPipeInv' BY <3>1 DEF OverPipeInv
    <3> QED BY <3>1, <3>2, <3>3, <3>4 DEF DialogueInv, Unbegun, PastArgs
  <2>7. CASE ProcessReaped
    BY <2>7, ZenonT(60) DEF ProcessReaped, Reap, DialogueInv, Unbegun, PastArgs, Is, NoInvocation
  <2>8. CASE GuiStep
    BY <2>1, <2>8 DEF GuiStep, connection
  <2>9. CASE UNCHANGED clientVars
    BY <2>1, <2>9 DEF clientVars, process
  <2> QED BY <2>2, <2>3, <2>4, <2>5, <2>6, <2>7, <2>8, <2>9 DEF ClientsNext
<1> QED BY <1>1, <1>2, StreamInvariant, PTL DEF ClientsSpec

(* Whatever the daemon's threads do, and however the answers are cut up: a *)
(* CLI command other than status, with the arguments its usage asks for,   *)
(* is never answered that its method is unknown or its parameters are      *)
(* missing or of the wrong kind, and status, whose daemon.status is no     *)
(* method of the daemon, is never answered anything but that it is unknown *)
(* or a refusal.  This compares the table of commands in the CLI's main    *)
(* with the dispatch table of the core, entry by entry.                    *)
THEOREM OnlyStatusUnknownHolds == ClientsSpec => []OnlyStatusUnknown
<1>1. ClientsTypeOK /\ DialogueInv => OnlyStatusUnknown
  <2> SUFFICES ASSUME ClientsTypeOK, DialogueInv, Is("cli"), inv.wellFormed,
                      seen.msg.type = "answer"
               PROVE  IF inv.cmd = "status"
                      THEN seen.msg.resp.stage = "method" \/ seen.msg.resp = Refusal
                      ELSE seen.msg.resp.stage \notin {"parse", "method", "params"}
    BY DEF OnlyStatusUnknown
  <2>1. PICK r \in Answers(TheRequest) : seen.msg = AnswerMessage(FALSE, r)
    BY ZenonT(60) DEF DialogueInv, AnswersToThis
  <2>2. CliCommand \in CliCommands /\ CliCommand.name = inv.cmd /\ inv.args >= CliCommand.least
    BY ZenonT(60) DEF DialogueInv, Enough, CliCommand
  <2>3. inv.args \in Nat /\ inv.wellFormed = TRUE
    BY InvocationsAssumption DEF ClientsTypeOK, Is, NoInvocation
  <2>4. TheRequest.method = CliCommand.method
        /\ TheRequest.params = CliParams(CliCommand, inv.args, TRUE)
    BY <2>3, ZenonT(60) DEF TheRequest, RequestMessage, Is
  <2>5. CASE inv.cmd = "status"
    <3>1. r.stage = "method" \/ r = Refusal
      BY <2>2, <2>4, <2>5, StatusUnknown, ZenonT(60)
    <3> QED BY <2>1, <2>5, <3>1 DEF AnswerMessage
  <2>6. CASE inv.cmd # "status"
    <3>1. Fits(CliCommand) BY <2>2, <2>6, CommandsFit
    <3>2. r.stage \notin {"parse", "method", "params"}
      BY <2>2, <2>3, <2>4, <3>1, AnswerUnderstood, ZenonT(60)
    <3> QED BY <2>1, <2>6, <3>2 DEF AnswerMessage
  <2> QED BY <2>5, <2>6
<1> QED BY <1>1, ClientsTypeCorrect, DialogueInvariant, PTL
=============================================================================
