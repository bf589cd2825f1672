----------------------------- MODULE Lifecycle ------------------------------
(***************************************************************************)
(* The life of the wininspectd process: main, the threads it starts and    *)
(* detaches, the tray icon and the two ways the process ends, exit(0) from *)
(* the tray and a return from main.  Any system call that creates a pipe,  *)
(* a socket or an icon may fail.                                           *)
(***************************************************************************)
EXTENDS Integers, FiniteSets

VARIABLES
    main,   \* where the main thread is
    pipe,   \* the thread in run_server
    tcp     \* each thread that may run TcpServer::start: bg and main

life == <<main, pipe, tcp>>

TcpThreads == {"bg", "main"}

ThreadStates == {"unborn", "starting", "listening", "ended"}

LifecycleTypeOK ==
    /\ main \in {"options", "tray_init", "tray", "exiting", "tcp", "joining", "gone"}
    /\ pipe \in ThreadStates
    /\ tcp \in [TcpThreads -> ThreadStates]

LifecycleInit ==
    /\ main = "options"
    /\ pipe = "unborn"
    /\ tcp = [t \in TcpThreads |-> "unborn"]

Gone == main = "gone"

(* exit(0), or the end of main: every thread ends with the process. *)
ProcessEnds ==
    /\ main' = "gone"
    /\ pipe' = "ended"
    /\ tcp' = [t \in TcpThreads |-> IF tcp[t] = "unborn" THEN "unborn" ELSE "ended"]

(* Options, state, backend and keys; then the discovery, cleanup and pipe  *)
(* threads are started.  Headless or not is an option.                     *)
StartThreads ==
    /\ main = "options"
    /\ pipe' = "starting"
    /\ \/ main' = "tray_init" /\ UNCHANGED tcp
       \/ main' = "tcp" /\ tcp' = [tcp EXCEPT !["main"] = "starting"]

(* CreateNamedPipe succeeds or the loop ends, for every connection anew. *)
PipeThreadStarts ==
    /\ pipe \in {"starting", "listening"}
    /\ pipe' \in {"listening", "ended"} \ {pipe}
    /\ UNCHANGED <<main, tcp>>

(* The discovery thread answers a datagram, unless it could not bind its   *)
(* port or the datagram is lost.                                           *)
DiscoveryAnswers == IF main \in {"options", "gone"} THEN {FALSE} ELSE BOOLEAN

(* With an icon the TCP server gets a thread of its own; without one it    *)
(* runs in the main thread.                                                *)
TrayInit ==
    /\ main = "tray_init"
    /\ \/ main' = "tray" /\ tcp' = [tcp EXCEPT !["bg"] = "starting"]
       \/ main' = "tcp" /\ tcp' = [tcp EXCEPT !["main"] = "starting"]
    /\ UNCHANGED pipe

(* TcpServer::start up to the accept loop.  A port has one listener. *)
TcpThreadStarts(t) ==
    /\ tcp[t] = "starting"
    /\ \/ /\ \A u \in TcpThreads : tcp[u] # "listening"
          /\ tcp' = [tcp EXCEPT ![t] = "listening"]
       \/ tcp' = [tcp EXCEPT ![t] = "ended"]
    /\ UNCHANGED <<main, pipe>>

(* accept fails with something other than "would block". *)
TcpThreadFails(t) ==
    /\ tcp[t] = "listening"
    /\ tcp' = [tcp EXCEPT ![t] = "ended"]
    /\ UNCHANGED <<main, pipe>>

(* onExit_: running = false and tcp->stop(), which closes the listener. *)
TrayExit ==
    /\ main = "tray"
    /\ main' = "exiting"
    /\ tcp' = [t \in TcpThreads |-> IF tcp[t] = "listening" THEN "ended" ELSE tcp[t]]
    /\ UNCHANGED pipe

(* Without exit(0) the tray loop returns and main goes on to start. *)
ExitFromTraySlip ==
    /\ main' = "tcp"
    /\ tcp' = [tcp EXCEPT !["main"] = "starting"]
    /\ UNCHANGED pipe

ExitFromTray == ProcessEnds

TrayExits == main = "exiting" /\ ExitFromTray

(* start returned in the main thread: main returns.  The backend is        *)
(* destroyed, then ServerState, which joins the client threads.            *)
MainReturns ==
    /\ main = "tcp"
    /\ tcp["main"] = "ended"
    /\ main' = "joining"
    /\ UNCHANGED <<pipe, tcp>>

(* The last client thread is joined. *)
MainJoined(serving) ==
    /\ main = "joining"
    /\ ~serving
    /\ ProcessEnds

LifecycleNext ==
    \/ StartThreads \/ PipeThreadStarts \/ TrayInit
    \/ TrayExit \/ TrayExits \/ MainReturns
    \/ \E t \in TcpThreads : TcpThreadStarts(t) \/ TcpThreadFails(t)

(* TcpServer::start is entered once in the life of the process.  It keeps  *)
(* its socket in a member and reads the running flag of main, so a second  *)
(* entry, which main's code has after the tray loop, would share both with *)
(* the thread the tray branch detached.                                    *)
TcpStartedOnce ==
    \A s, t \in TcpThreads : tcp[s] # "unborn" /\ tcp[t] # "unborn" => s = t
=============================================================================
