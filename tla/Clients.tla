------------------------------ MODULE Clients -------------------------------
(***************************************************************************)
(* Client processes, the GUI and the daemon process together.              *)
(***************************************************************************)
EXTENDS ClientProcess, Gui

clientVars == <<keys, tcpConn, clientOpen, up, down, spc, got, encrypted,
                main, pipe, tcp, inv, cpc, exit, seen,
                gpc, living, listing, items, hwnd_storage, selected, props>>

ClientsInit == ConnectionInit /\ LifecycleInit /\ ProcessInit /\ GuiInit

(* The daemon starts its threads, and ends; with it ends every connection. *)
DaemonStep ==
    /\ \/ LifecycleNext
       \/ MainJoined(Serving)
    /\ IF Gone' THEN ServerDies ELSE UNCHANGED connection
    /\ UNCHANGED <<process, gui>>

ThreadStep == ServerStep /\ UNCHANGED <<life, process, gui>>

ProcessLaunch == gpc = "off" /\ Launch /\ UNCHANGED <<life, gui>>

ProcessReaped == Reap /\ UNCHANGED <<life, gui>>

ProcessStep == ClientStep /\ UNCHANGED <<life, gui>>

ProcessStopped == WatchStopped /\ UNCHANGED <<life, gui>>

(* The GUI runs while no other client does. *)
GuiStep == cpc = "idle" /\ GuiNext /\ UNCHANGED <<connection, life, process>>

ClientsNext ==
    \/ DaemonStep \/ ThreadStep \/ ProcessLaunch \/ ProcessStep
    \/ ProcessStopped \/ ProcessReaped \/ GuiStep

(* The daemon's threads and the client process are scheduled; a receive    *)
(* timeout that is due is delivered.  The user, the tray and failing       *)
(* system calls owe nothing.                                               *)
ClientsSpec ==
    /\ ClientsInit /\ [][ClientsNext]_clientVars
    /\ WF_clientVars(ThreadStep)
    /\ WF_clientVars(ProcessStep)

(* The daemon's threads and the process of a client are where their code   *)
(* can be, and an exit code is there exactly when the process has ended.   *)
ClientsTypeOK ==
    /\ LifecycleTypeOK
    /\ spc \in {"none", "hello", "auth", "reading", "closed"}
    /\ inv \in Invocations \cup {NoInvocation}
    /\ cpc \in {"idle", "args", "discover", "connect", "hello", "respond",
                "status", "send", "recv", "pause", "done"}
    /\ exit \in {"none", "0", "1", "2", "crash"}
    /\ (exit # "none") = (cpc = "done")
=============================================================================
