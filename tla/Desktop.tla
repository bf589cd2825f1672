------------------------------ MODULE Desktop -------------------------------
(***************************************************************************)
(* The backends: what requests of several connections do to one desktop.   *)
(* With Win32Backend every call into Windows is a step of its own, between *)
(* which other threads and other programs act; FakeBackend does an         *)
(* operation in one step under its mutex.  Windows itself is external:     *)
(* windows, the clipboard, services, the registry and named mutexes are    *)
(* modelled by what the backend's code relies on.                          *)
(*                                                                         *)
(* The core calls the backend in a task of its own (std::async).  A        *)
(* request that takes too long is answered E_TIMEOUT, but only after the   *)
(* future's destructor has waited for the task.                            *)
(***************************************************************************)
EXTENDS Integers, FiniteSets

CONSTANTS
    Threads,    \* connections being served
    Hwnds,      \* windows
    Workloads   \* sets of requests the threads of a behaviour choose from

VARIABLES
    backend,    \* "win32" or "fake"
    workload,
    windows,    \* of every handle: does the window live, is it visible
    foreground, \* the foreground window, or NoWindow
    clipboard,  \* what it holds and which thread or program has it open
    service,    \* state of the one service
    registry,   \* the keys that exist: the user's and the probe's
    mutexes,    \* who has a handle to the named mutex
    pc, req, result,
    open,       \* the client has not been answered yet
    late,       \* the watchdog has given up on the request
    settled     \* the last ensure of a client whose goal has held since

world == <<windows, foreground, clipboard, service, registry, mutexes>>
calls == <<pc, req, result, open, late>>
desktopVars == <<backend, workload, world, calls, settled>>

NoWindow == "no window"
NoRequest == [op |-> "none"]
Nobody == "nobody"
App == "another program"

ASSUME DesktopAssumption ==
    /\ Nobody \notin Threads /\ App \notin Threads
    /\ \A W \in Workloads : NoRequest \notin W

(* The core parses a window handle and a flag out of an ensure request. *)
ASSUME WorkloadsAssumption ==
    \A W \in Workloads : \A r \in W :
        /\ r.op = "ensure_visible" => r.hwnd \in Hwnds /\ r.on \in BOOLEAN
        /\ r.op = "ensure_foreground" => r.hwnd \in Hwnds

Visible(h, on) == [op |-> "ensure_visible", hwnd |-> h, on |-> on]
Foreground(h) == [op |-> "ensure_foreground", hwnd |-> h]

DesktopTypeOK ==
    /\ backend \in {"win32", "fake"}
    /\ workload \in Workloads
    /\ windows \in [Hwnds -> [alive : BOOLEAN, visible : BOOLEAN]]
    /\ foreground \in Hwnds \cup {NoWindow}
    /\ clipboard.owner \in Threads \cup {Nobody, App}
    /\ service \in {"STOPPED", "STARTING", "RUNNING", "STOPPING"}
    /\ registry \subseteq {"user", "probe"}
    /\ mutexes \subseteq Threads \cup {App}
    /\ \A t \in Threads :
          /\ req[t] \in workload \cup {NoRequest}
          /\ result[t] \in {"none", "ok", "failed", "changed", "unchanged", "E_BAD_REQUEST"}
          /\ (pc[t] = "idle") = (result[t] = "none" /\ req[t] = NoRequest)

DesktopInit ==
    /\ backend \in {"win32", "fake"}
    /\ workload \in Workloads
    /\ windows \in [Hwnds -> [alive : {TRUE}, visible : BOOLEAN]]
    /\ foreground = NoWindow
    /\ clipboard = [text |-> "old", owner |-> Nobody]
    /\ service = "STOPPED"
    /\ registry = {}
    /\ mutexes = {}
    /\ pc = [t \in Threads |-> "idle"]
    /\ req = [t \in Threads |-> NoRequest]
    /\ result = [t \in Threads |-> "none"]
    /\ open = [t \in Threads |-> FALSE]
    /\ late = [t \in Threads |-> FALSE]
    /\ settled = [t \in Threads |-> NoRequest]

(* What an ensure request asks for, of the windows ws and the foreground   *)
(* window fg.                                                              *)
Goal(r, ws, fg) ==
    CASE r.op = "ensure_visible" -> ws[r.hwnd] = [alive |-> TRUE, visible |-> r.on]
      [] r.op = "ensure_foreground" -> ws[r.hwnd].alive /\ fg = r.hwnd
      [] OTHER -> FALSE

(* A goal that no longer holds is no longer settled. *)
Unsettle ==
    settled' = [t \in Threads |->
        IF Goal(settled[t], windows', foreground') THEN settled[t] ELSE NoRequest]

Step(t, next) == pc' = [pc EXCEPT ![t] = next]

Finish(t, value) ==
    /\ Step(t, "done")
    /\ result' = [result EXCEPT ![t] = value]

(* Set the outcome and go on to next. *)
Outcome(t, value, next) ==
    /\ Step(t, next)
    /\ result' = [result EXCEPT ![t] = value]

At(t, where, ops) == backend = "win32" /\ pc[t] = where /\ req[t].op \in ops

(* The request reaches the core, which starts the task. *)
Request(t) ==
    /\ pc[t] = "idle"
    /\ \E r \in workload : req' = [req EXCEPT ![t] = r]
    /\ open' = [open EXCEPT ![t] = TRUE]
    /\ Step(t, "call")
    /\ UNCHANGED <<world, result, late>>

(* wait_for came back without a result. *)
Watchdog(t) ==
    /\ open[t] /\ pc[t] # "done" /\ ~late[t]
    /\ late' = [late EXCEPT ![t] = TRUE]
    /\ UNCHANGED <<world, pc, req, result, open>>

(* The answer goes out while the task is still at work. *)
MayAnswerSlip(t) == pc[t] = "done" \/ late[t]

MayAnswer(t) == pc[t] = "done"

Answer(t) ==
    /\ open[t] /\ MayAnswer(t)
    /\ open' = [open EXCEPT ![t] = FALSE]
    /\ late' = [late EXCEPT ![t] = FALSE]
    /\ UNCHANGED <<world, pc, req, result, settled>>

(* The outcome of the last request is carried over. *)
ForgetSlip(t) == UNCHANGED result

Forget(t) == result' = [result EXCEPT ![t] = "none"]

(* The connection is ready for the next request. *)
NextRequest(t) ==
    /\ pc[t] = "done" /\ ~open[t]
    /\ Step(t, "idle")
    /\ Forget(t)
    /\ req' = [req EXCEPT ![t] = NoRequest]
    /\ settled' = [settled EXCEPT ![t] = IF Goal(req[t], windows, foreground)
                                         THEN req[t] ELSE @]
    /\ UNCHANGED <<world, open, late>>

-----------------------------------------------------------------------------
EnsureOps == {"ensure_visible", "ensure_foreground"}

(* The window is shown again although it is visible. *)
AlreadySlip(r) == FALSE

(* cur == visible, fg == h *)
Already(r) ==
    CASE r.op = "ensure_visible" -> windows[r.hwnd].visible = r.on
      [] r.op = "ensure_foreground" -> foreground = r.hwnd

(* IsWindow, then the test. *)
EnsureTest(t) ==
    /\ At(t, "call", EnsureOps)
    /\ IF ~windows[req[t].hwnd].alive \/ Already(req[t])
       THEN Finish(t, "unchanged")
       ELSE Step(t, "act") /\ UNCHANGED result
    /\ UNCHANGED <<world, req, open, late>>

(* ShowWindow and SetForegroundWindow do nothing to a window that is gone; *)
(* Windows may refuse the latter.  The result is not looked at.            *)
SetGoal(r) ==
    LET lives == windows[r.hwnd].alive IN
    \/ /\ r.op = "ensure_visible"
       /\ windows' = IF lives THEN [windows EXCEPT ![r.hwnd].visible = r.on] ELSE windows
       /\ UNCHANGED foreground
    \/ /\ r.op = "ensure_foreground"
       /\ foreground' \in IF lives THEN {r.hwnd, foreground} ELSE {foreground}
       /\ UNCHANGED windows

EnsureAct(t) ==
    /\ At(t, "act", EnsureOps)
    /\ SetGoal(req[t])
    /\ Finish(t, "changed")
    /\ UNCHANGED <<clipboard, service, registry, mutexes, req, open, late>>

(* The fake backend: test and set in one step, and never refused.  It      *)
(* does not ask whether the window of ensure_foreground exists.            *)
FakeEnsure(t) ==
    /\ backend = "fake" /\ pc[t] = "call" /\ req[t].op \in EnsureOps
    /\ LET r == req[t] IN
       /\ Finish(t, IF Already(r) THEN "unchanged" ELSE "changed")
       /\ windows' = IF r.op = "ensure_visible"
                     THEN [windows EXCEPT ![r.hwnd].visible = r.on] ELSE windows
       /\ foreground' = IF r.op = "ensure_foreground" THEN r.hwnd ELSE foreground
    /\ UNCHANGED <<clipboard, service, registry, mutexes, req, open, late>>

(* Its other operations answer a fixed value. *)
FakeOther(t) ==
    /\ backend = "fake" /\ pc[t] = "call" /\ req[t].op \notin EnsureOps
    /\ Finish(t, "ok")
    /\ UNCHANGED <<world, req, open, late>>

-----------------------------------------------------------------------------
ClipboardOps == {"clipboard_write", "clipboard_read", "get_capabilities"}

SetOwner(o) == clipboard' = [clipboard EXCEPT !.owner = o]

AfterOpen(op) ==
    CASE op = "clipboard_write" -> "empty"
      [] op = "clipboard_read" -> "get"
      [] OTHER -> "close"

(* The result of OpenClipboard is not looked at. *)
ClipboardFreeSlip == TRUE

ClipboardFree == clipboard.owner = Nobody

(* OpenClipboard fails while someone else has it open; only the probe of   *)
(* get_capabilities goes on all the same.                                  *)
ClipboardOpen(t) ==
    /\ At(t, "call", ClipboardOps)
    /\ IF ClipboardFree
       THEN SetOwner(t) /\ Step(t, AfterOpen(req[t].op)) /\ UNCHANGED result
       ELSE /\ IF req[t].op = "get_capabilities"
               THEN Step(t, "probe") /\ UNCHANGED result
               ELSE Finish(t, "failed")
            /\ UNCHANGED clipboard
    /\ UNCHANGED <<windows, foreground, service, registry, mutexes, req, open, late>>

ClipboardEmpty(t) ==
    /\ At(t, "empty", {"clipboard_write"})
    /\ clipboard' = [clipboard EXCEPT !.text = "none"]
    /\ Step(t, "set")
    /\ UNCHANGED <<windows, foreground, service, registry, mutexes, req, result, open, late>>

(* GlobalAlloc, GlobalLock and SetClipboardData: each may fail. *)
ClipboardSet(t) ==
    /\ At(t, "set", {"clipboard_write"})
    /\ \/ /\ clipboard' = [clipboard EXCEPT !.text = req[t].text]
          /\ Outcome(t, "ok", "close")
       \/ Outcome(t, "failed", "close") /\ UNCHANGED clipboard
    /\ UNCHANGED <<windows, foreground, service, registry, mutexes, req, open, late>>

ClipboardGet(t) ==
    /\ At(t, "get", {"clipboard_read"})
    /\ Outcome(t, IF clipboard.text = "none" THEN "failed" ELSE "ok", "close")
    /\ UNCHANGED <<world, req, open, late>>

(* CloseClipboard: on every path. *)
ClipboardClose(t) ==
    /\ At(t, "close", ClipboardOps)
    /\ SetOwner(Nobody)
    /\ Step(t, IF req[t].op = "get_capabilities" THEN "probe" ELSE "done")
    /\ UNCHANGED <<windows, foreground, service, registry, mutexes, req, result, open, late>>

(* The probe's key is left where it was created. *)
ProbeCleanupSlip == registry

ProbeCleanup == registry \ {"probe"}

(* Can a registry key be created?  The other probes leave nothing. *)
ProbeCreate(t) ==
    /\ At(t, "probe", {"get_capabilities"})
    /\ \/ registry' = registry \cup {"probe"} /\ Step(t, "unprobe") /\ UNCHANGED result
       \/ Finish(t, "ok") /\ UNCHANGED registry
    /\ UNCHANGED <<windows, foreground, clipboard, service, mutexes, req, open, late>>

ProbeDelete(t) ==
    /\ At(t, "unprobe", {"get_capabilities"})
    /\ registry' = ProbeCleanup
    /\ Finish(t, "ok")
    /\ UNCHANGED <<windows, foreground, clipboard, service, mutexes, req, open, late>>

-----------------------------------------------------------------------------
(* reg_write creates the key, then looks at the type of the value, which   *)
(* may be one it does not know, or a number that is none.                  *)
RegCreateKey(t) ==
    /\ At(t, "call", {"reg_write"})
    /\ \/ registry' = registry \cup {"user"} /\ Step(t, "value") /\ UNCHANGED result
       \/ Finish(t, "failed") /\ UNCHANGED registry
    /\ UNCHANGED <<windows, foreground, clipboard, service, mutexes, req, open, late>>

(* A key deleted in between takes no value. *)
RegSetValue(t) ==
    /\ At(t, "value", {"reg_write"})
    /\ \/ req[t].type = "good" /\ "user" \in registry /\ Finish(t, "ok")
       \/ req[t].type = "good" /\ "user" \notin registry /\ Finish(t, "failed")
       \/ req[t].type = "unknown" /\ Finish(t, "failed")
       \/ req[t].type = "no number" /\ Finish(t, "E_BAD_REQUEST")
    /\ UNCHANGED <<world, req, open, late>>

RegDelete(t) ==
    /\ At(t, "call", {"reg_delete"})
    /\ \/ "user" \in registry /\ registry' = registry \ {"user"} /\ Finish(t, "ok")
       \/ Finish(t, "failed") /\ UNCHANGED registry
    /\ UNCHANGED <<windows, foreground, clipboard, service, mutexes, req, open, late>>

(* StartService and ControlService(STOP), or no handle to do it with. *)
ServiceControl(t) ==
    /\ At(t, "call", {"service_control"})
    /\ \/ /\ service = IF req[t].start THEN "STOPPED" ELSE "RUNNING"
          /\ service' = IF req[t].start THEN "STARTING" ELSE "STOPPING"
          /\ Step(t, "poll") /\ UNCHANGED result
       \/ Finish(t, "failed") /\ UNCHANGED service
    /\ UNCHANGED <<windows, foreground, clipboard, registry, mutexes, req, open, late>>

(* The handle that starts a service may not query it: a start is never     *)
(* seen to have come about.                                                *)
ServiceSettles(t) ==
    /\ At(t, "poll", {"service_control"})
    /\ ~req[t].start /\ service = "STOPPED"
    /\ Finish(t, "ok")
    /\ UNCHANGED <<world, req, open, late>>

(* The poll goes on until the service is where it should be. *)
PollExpiresSlip(t) == service \in {"STOPPED", "RUNNING"}

(* service_timeout_sec_ has passed. *)
PollExpires(t) == TRUE

ServiceTimeout(t) ==
    /\ At(t, "poll", {"service_control"})
    /\ PollExpires(t)
    /\ Finish(t, "ok")
    /\ UNCHANGED <<world, req, open, late>>

(* The handle of the mutex is closed when sync_create_mutex returns. *)
MutexCreate(t) ==
    /\ At(t, "call", {"sync_create_mutex"})
    /\ mutexes' = mutexes \cup {t}
    /\ Outcome(t, IF mutexes = {} THEN "ok" ELSE "failed", "release")
    /\ UNCHANGED <<windows, foreground, clipboard, service, registry, req, open, late>>

MutexRelease(t) ==
    /\ At(t, "release", {"sync_create_mutex"})
    /\ mutexes' = mutexes \ {t}
    /\ Step(t, "done")
    /\ UNCHANGED <<windows, foreground, clipboard, service, registry, req, result, open, late>>

MutexCheck(t) ==
    /\ At(t, "call", {"sync_check_mutex"})
    /\ Finish(t, IF mutexes = {} THEN "failed" ELSE "ok")
    /\ UNCHANGED <<world, req, open, late>>

-----------------------------------------------------------------------------
(* Other programs and the user.  They leave alone the parts of the desktop *)
(* that no request of the workload has to do with.                         *)
Touched(ops) == backend = "win32" /\ \E r \in workload : r.op \in ops

AppClosesWindow ==
    /\ Touched(EnsureOps)
    /\ \E h \in Hwnds :
          /\ windows[h].alive
          /\ windows' = [windows EXCEPT ![h].alive = FALSE, ![h].visible = FALSE]
          /\ foreground' = IF foreground = h THEN NoWindow ELSE foreground
    /\ UNCHANGED <<clipboard, service, registry, mutexes>>

AppTakesForeground ==
    /\ Touched(EnsureOps)
    /\ foreground' \in {h \in Hwnds : windows[h].alive} \cup {NoWindow}
    /\ foreground' # foreground
    /\ UNCHANGED <<windows, clipboard, service, registry, mutexes>>

AppUsesClipboard ==
    /\ Touched({"clipboard_write"})
    /\ \/ clipboard.owner = Nobody /\ SetOwner(App)
       \/ clipboard.owner = App /\ clipboard' = [text |-> "app", owner |-> Nobody]
    /\ UNCHANGED <<windows, foreground, service, registry, mutexes>>

(* A service that was told to does, or does not, start or stop. *)
ServiceProceeds ==
    /\ \/ service = "STARTING" /\ service' \in {"RUNNING", "STOPPED"}
       \/ service = "STOPPING" /\ service' = "STOPPED"
    /\ UNCHANGED <<windows, foreground, clipboard, registry, mutexes>>

AppStep ==
    /\ AppClosesWindow \/ AppTakesForeground \/ AppUsesClipboard \/ ServiceProceeds
    /\ UNCHANGED calls

CallStep(t) ==
    \/ EnsureTest(t) \/ EnsureAct(t) \/ FakeEnsure(t) \/ FakeOther(t)
    \/ ClipboardOpen(t) \/ ClipboardEmpty(t) \/ ClipboardSet(t)
    \/ ClipboardGet(t) \/ ClipboardClose(t) \/ ProbeCreate(t) \/ ProbeDelete(t)
    \/ RegCreateKey(t) \/ RegSetValue(t) \/ RegDelete(t)
    \/ ServiceControl(t) \/ ServiceSettles(t) \/ ServiceTimeout(t)
    \/ MutexCreate(t) \/ MutexRelease(t) \/ MutexCheck(t)

DesktopNext ==
    /\ \/ \E t \in Threads : Answer(t) \/ NextRequest(t)
       \/ /\ AppStep \/ \E t \in Threads : Request(t) \/ Watchdog(t) \/ CallStep(t)
          /\ Unsettle
    /\ UNCHANGED <<backend, workload>>

(* Tasks and connection threads are scheduled. *)
Progress(t) ==
    /\ Answer(t) \/ NextRequest(t) \/ (CallStep(t) /\ Unsettle)
    /\ UNCHANGED <<backend, workload>>

DesktopSpec ==
    /\ DesktopInit /\ [][DesktopNext]_desktopVars
    /\ \A t \in Threads : WF_desktopVars(Progress(t))

-----------------------------------------------------------------------------
(* CONTRACTS.md: "repeating the same ensureX yields changed:false after    *)
(* first convergence", with either backend and whatever the other client   *)
(* and other programs do, as long as nothing undoes it.                    *)
RepeatedEnsureUnchanged ==
    \A t \in Threads :
        pc[t] = "done" /\ req[t] = settled[t] => result[t] = "unchanged"

(* A clipboard_write that succeeded has its text in the clipboard until it *)
(* closes it: two writers, a probe and other programs do not mix.          *)
ClipboardExclusive ==
    \A t \in Threads :
        pc[t] = "close" /\ req[t].op = "clipboard_write" /\ result[t] = "ok"
            => clipboard = [text |-> req[t].text, owner |-> t]

(* get_capabilities, which the discovery thread calls for every datagram,  *)
(* leaves nothing in the registry: the key of its probe exists only while  *)
(* a probe is in progress, also when several overlap.                      *)
ProbesLeaveNothing ==
    "probe" \in registry => \E t \in Threads : pc[t] = "unprobe"

(* A request does nothing to the desktop after it was answered, not even   *)
(* when the answer is E_TIMEOUT: a client may try again at once.           *)
NoEffectAfterAnswer ==
    [][\A t \in Threads : pc'[t] # pc[t] /\ world' # world => open[t]]_desktopVars

(* Every request is answered, also while services do not react and another *)
(* program keeps the clipboard.                                            *)
RequestsCompleted == \A t \in Threads : open[t] ~> ~open[t]
=============================================================================
