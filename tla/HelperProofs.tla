---------------------------- MODULE HelperProofs ----------------------------
(***************************************************************************)
(* What the request handlers call: the operations on the one desktop, the  *)
(* update download, the logger and the order of versions, for every set of *)
(* threads, windows and workloads and every number of messages and parts.  *)
(***************************************************************************)
EXTENDS Desktop, UpdateClient, LogBuffer, SequenceTheorems, WellFoundedInduction, TLAPS

\* Unless a leaf names Zenon it is one for SMT; the limit leaves a slow machine its time.
USE SMTT(60)

(* DesktopInv below is inductive and carries the desktop's three state     *)
(* properties: a thread that holds the clipboard is its owner; the probe's *)
(* key exists only under a probe; a goal that counts as settled holds; and *)
(* a request that has come past its test for a settled goal found nothing  *)
(* to do.                                                                  *)
Holding == {"empty", "set", "get", "close"}
Places == Holding \cup {"idle", "call", "act", "probe", "unprobe", "value", "poll",
                        "release", "done"}
Outcomes == {"none", "ok", "failed", "changed", "unchanged", "E_BAD_REQUEST"}

(* What the steps below need to know of the variables' shape. *)
CallsOK ==
    /\ pc \in [Threads -> Places]
    /\ req \in [Threads -> workload \cup {NoRequest}]
    /\ result \in [Threads -> Outcomes]
    /\ open \in [Threads -> BOOLEAN]
    /\ late \in [Threads -> BOOLEAN]
    /\ workload \in Workloads
    /\ clipboard = [text |-> clipboard.text, owner |-> clipboard.owner]
    /\ \A t \in Threads : pc[t] # "idle" => req[t] # NoRequest

(* A thread at work has an open request. *)
OpenInv == \A t \in Threads : pc[t] \notin {"idle", "done"} => open[t]

(* The clipboard belongs to whoever is between opening and closing it. *)
ClipInv ==
    \A t \in Threads :
        /\ pc[t] \in Holding => clipboard.owner = t
        /\ pc[t] = "close" /\ req[t].op = "clipboard_write" /\ result[t] = "ok"
              => clipboard.text = req[t].text

SettledInv ==
    \A t \in Threads :
        /\ settled[t] = NoRequest \/ Goal(settled[t], windows, foreground)
        /\ pc[t] \notin {"idle", "call"} /\ req[t] = settled[t]
              => pc[t] = "done" /\ result[t] = "unchanged"

DesktopInv == CallsOK /\ OpenInv /\ ClipInv /\ ProbesLeaveNothing /\ SettledInv

(* A step that changes the calls of one thread only. *)
Only(t) ==
    /\ \A u \in Threads \ {t} : pc'[u] = pc[u] /\ result'[u] = result[u]
    /\ req' = req /\ open' = open /\ late' = late

-----------------------------------------------------------------------------
(* The core's task touches its own thread's call and nobody else's, and    *)
(* only while its request is in progress.                                  *)
LEMMA CallStepLocal ==
    ASSUME CallsOK, NEW t \in Threads, CallStep(t)
    PROVE  /\ Only(t)
           /\ pc' \in [Threads -> Places] /\ result' \in [Threads -> Outcomes]
           /\ pc[t] \notin {"idle", "done"}
           /\ pc'[t] # "idle" /\ pc'[t] # "call"
<1> USE DEF CallsOK, Only, Places, Holding, Outcomes, Step, Finish, Outcome, At
<1>1. CASE EnsureTest(t) BY <1>1 DEF EnsureTest
<1>2. CASE EnsureAct(t) BY <1>2 DEF EnsureAct
<1>3. CASE FakeEnsure(t) BY <1>3 DEF FakeEnsure
<1>4. CASE FakeOther(t) BY <1>4 DEF FakeOther
<1>5. CASE ClipboardOpen(t) BY <1>5 DEF ClipboardOpen, AfterOpen
<1>6. CASE ClipboardEmpty(t) BY <1>6 DEF ClipboardEmpty
<1>7. CASE ClipboardSet(t) BY <1>7 DEF ClipboardSet
<1>8. CASE ClipboardGet(t) BY <1>8 DEF ClipboardGet
<1>9. CASE ClipboardClose(t) BY <1>9 DEF ClipboardClose
<1>10. CASE ProbeCreate(t) BY <1>10 DEF ProbeCreate
<1>11. CASE ProbeDelete(t) BY <1>11 DEF ProbeDelete
<1>12. CASE RegCreateKey(t) BY <1>12 DEF RegCreateKey
<1>13. CASE RegSetValue(t) BY <1>13, ZenonT(60) DEF RegSetValue
<1>14. CASE RegDelete(t) BY <1>14 DEF RegDelete
<1>15. CASE ServiceControl(t) BY <1>15 DEF ServiceControl
<1>16. CASE ServiceSettles(t) BY <1>16 DEF ServiceSettles
<1>17. CASE ServiceTimeout(t) BY <1>17 DEF ServiceTimeout
<1>18. CASE MutexCreate(t) BY <1>18 DEF MutexCreate
<1>19. CASE MutexRelease(t) BY <1>19 DEF MutexRelease
<1>20. CASE MutexCheck(t) BY <1>20 DEF MutexCheck
<1> QED BY <1>1, <1>2, <1>3, <1>4, <1>5, <1>6, <1>7, <1>8, <1>9, <1>10, <1>11, <1>12,
           <1>13, <1>14, <1>15, <1>16, <1>17, <1>18, <1>19, <1>20, ZenonT(60) DEF CallStep

(* Only the clipboard operations touch the clipboard, and a task that      *)
(* finds someone else has it open leaves it alone: OpenClipboard's result  *)
(* is looked at, and CloseClipboard is called by the owner only.           *)
LEMMA CallStepClipboard ==
    ASSUME CallsOK, ClipInv, NEW t \in Threads, CallStep(t)
    PROVE  /\ clipboard' = [text |-> clipboard.text, owner |-> clipboard.owner]'
           /\ ClipInv'
<1>1. /\ Only(t)
      /\ pc' \in [Threads -> Places] /\ result' \in [Threads -> Outcomes]
  BY CallStepLocal
<1> USE DEF CallsOK, Only, Step, Finish, Outcome, At, Holding, ClipInv
<1>2. CASE clipboard' = clipboard /\ pc'[t] \notin Holding
  BY <1>1, <1>2
<1>3. CASE ClipboardOpen(t)
  BY <1>1, <1>3, DesktopAssumption DEF ClipboardOpen, ClipboardFree, SetOwner, AfterOpen, ClipboardOps
<1>4. CASE ClipboardEmpty(t)
  BY <1>1, <1>4 DEF ClipboardEmpty
<1>5. CASE ClipboardSet(t)
  BY <1>1, <1>5 DEF ClipboardSet
<1>6. CASE ClipboardGet(t)
  BY <1>1, <1>6 DEF ClipboardGet, world
<1>7. CASE ClipboardClose(t)
  BY <1>1, <1>7 DEF ClipboardClose, SetOwner
<1>8. CASE EnsureTest(t) \/ EnsureAct(t) \/ FakeEnsure(t) \/ FakeOther(t)
  BY <1>2, <1>8 DEF EnsureTest, EnsureAct, FakeEnsure, FakeOther, world
<1>9. CASE ProbeCreate(t) \/ ProbeDelete(t) \/ RegCreateKey(t) \/ RegSetValue(t) \/ RegDelete(t)
  BY <1>2, <1>9, ZenonT(60) DEF ProbeCreate, ProbeDelete, RegCreateKey, RegSetValue, RegDelete, world
<1>10. CASE ServiceControl(t) \/ ServiceSettles(t) \/ ServiceTimeout(t)
  BY <1>2, <1>10 DEF ServiceControl, ServiceSettles, ServiceTimeout, world
<1>11. CASE MutexCreate(t) \/ MutexRelease(t) \/ MutexCheck(t)
  BY <1>2, <1>11 DEF MutexCreate, MutexRelease, MutexCheck, world
<1> QED BY <1>3, <1>4, <1>5, <1>6, <1>7, <1>8, <1>9, <1>10, <1>11, ZenonT(60) DEF CallStep

(* The registry probe deletes what it created before it goes on. *)
LEMMA CallStepProbe ==
    ASSUME CallsOK, ProbesLeaveNothing, NEW t \in Threads, CallStep(t)
    PROVE  ProbesLeaveNothing'
<1>1. /\ Only(t)
      /\ pc' \in [Threads -> Places]
  BY CallStepLocal
<1> USE DEF CallsOK, Only, Step, Finish, Outcome, At, ProbesLeaveNothing
<1>2. CASE ("probe" \in registry' => "probe" \in registry) /\ pc[t] # "unprobe"
  BY <1>1, <1>2
<1>3. CASE ProbeCreate(t)
  BY <1>1, <1>2, <1>3 DEF ProbeCreate
<1>4. CASE ProbeDelete(t)
  BY <1>1, <1>4 DEF ProbeDelete, ProbeCleanup
<1>5. CASE EnsureTest(t) \/ EnsureAct(t) \/ FakeEnsure(t) \/ FakeOther(t)
  BY <1>2, <1>5 DEF EnsureTest, EnsureAct, FakeEnsure, FakeOther, world
<1>6. CASE ClipboardOpen(t) \/ ClipboardEmpty(t) \/ ClipboardSet(t) \/ ClipboardGet(t)
            \/ ClipboardClose(t)
  BY <1>2, <1>6 DEF ClipboardOpen, ClipboardEmpty, ClipboardSet, ClipboardGet, ClipboardClose, world
<1>7. CASE RegCreateKey(t) \/ RegSetValue(t) \/ RegDelete(t)
  <2>1. CASE RegCreateKey(t)
    <3>1. registry' = registry \cup {"user"} \/ registry' = registry
      BY <2>1 DEF RegCreateKey
    <3> QED BY <1>2, <2>1, <3>1 DEF RegCreateKey
  <2>2. CASE RegSetValue(t) BY <1>2, <2>2, ZenonT(60) DEF RegSetValue, world
  <2>3. CASE RegDelete(t) BY <1>2, <2>3 DEF RegDelete
  <2> QED BY <1>7, <2>1, <2>2, <2>3
<1>8. CASE ServiceControl(t) \/ ServiceSettles(t) \/ ServiceTimeout(t)
  BY <1>2, <1>8 DEF ServiceControl, ServiceSettles, ServiceTimeout, world
<1>9. CASE MutexCreate(t) \/ MutexRelease(t) \/ MutexCheck(t)
  BY <1>2, <1>9 DEF MutexCreate, MutexRelease, MutexCheck, world
<1> QED BY <1>3, <1>4, <1>5, <1>6, <1>7, <1>8, <1>9 DEF CallStep

(* ensureX does nothing when the goal it is asked for holds already: the   *)
(* test of the win32 backend and the test-and-set of the fake one.         *)
LEMMA CallStepSettled ==
    ASSUME CallsOK, SettledInv, NEW t \in Threads, CallStep(t),
           req[t] = settled[t]
    PROVE  pc'[t] = "done" /\ result'[t] = "unchanged"
<1>1. /\ pc[t] # "idle" /\ pc[t] # "done"
      /\ req[t] # NoRequest
  BY CallStepLocal DEF CallsOK
<1>2. /\ pc[t] = "call"
      /\ Goal(req[t], windows, foreground)
  BY <1>1 DEF SettledInv
<1>3. /\ req[t].op \in EnsureOps
      /\ Already(req[t])
  <2>1. CASE req[t].op = "ensure_visible"
    <3>1. windows[req[t].hwnd] = [alive |-> TRUE, visible |-> req[t].on]
      BY <1>2, <2>1 DEF Goal
    <3> QED BY <2>1, <3>1 DEF EnsureOps, Already
  <2>2. CASE req[t].op = "ensure_foreground"
    BY <1>2, <2>2 DEF Goal, EnsureOps, Already
  <2> QED BY <1>2, <2>1, <2>2 DEF Goal
<1>4. CASE EnsureTest(t)
  BY <1>3, <1>4 DEF EnsureTest, Finish, Step, CallsOK
<1>5. CASE FakeEnsure(t)
  BY <1>3, <1>5 DEF FakeEnsure, Finish, Step, CallsOK
<1> USE DEF At, EnsureOps
<1>6. CASE EnsureAct(t) \/ FakeOther(t)
  BY <1>2, <1>3, <1>6 DEF EnsureAct, FakeOther
<1>7. CASE ClipboardOpen(t) \/ ClipboardEmpty(t) \/ ClipboardSet(t) \/ ClipboardGet(t)
            \/ ClipboardClose(t)
  BY <1>3, <1>7 DEF ClipboardOpen, ClipboardEmpty, ClipboardSet, ClipboardGet, ClipboardClose,
                    ClipboardOps
<1>8. CASE ProbeCreate(t) \/ ProbeDelete(t) \/ RegCreateKey(t) \/ RegSetValue(t) \/ RegDelete(t)
  BY <1>3, <1>8, ZenonT(60) DEF ProbeCreate, ProbeDelete, RegCreateKey, RegSetValue, RegDelete
<1>9. CASE ServiceControl(t) \/ ServiceSettles(t) \/ ServiceTimeout(t)
            \/ MutexCreate(t) \/ MutexRelease(t) \/ MutexCheck(t)
  BY <1>3, <1>9 DEF ServiceControl, ServiceSettles, ServiceTimeout, MutexCreate, MutexRelease,
                    MutexCheck
<1> QED BY <1>4, <1>5, <1>6, <1>7, <1>8, <1>9 DEF CallStep

(* What is settled only becomes less, and what is left holds. *)
LEMMA UnsettleKeeps ==
    ASSUME Unsettle, NEW t \in Threads
    PROVE  \/ settled'[t] = NoRequest
           \/ settled'[t] = settled[t] /\ Goal(settled[t], windows', foreground')
BY DEF Unsettle

(* The calls of all threads stay as they are. *)
LEMMA QuietStep ==
    ASSUME DesktopInv, Unsettle, UNCHANGED <<pc, req, result, open, workload>>,
           clipboard' = [text |-> clipboard.text, owner |-> clipboard.owner]',
           late' \in [Threads -> BOOLEAN], ClipInv', ProbesLeaveNothing'
    PROVE  DesktopInv'
<1>1. CallsOK' /\ OpenInv'
  BY DEF DesktopInv, CallsOK, OpenInv
<1>2. SettledInv'
  <2> SUFFICES ASSUME NEW t \in Threads
               PROVE /\ settled'[t] = NoRequest \/ Goal(settled'[t], windows', foreground')
                     /\ pc[t] \notin {"idle", "call"} /\ req[t] = settled'[t]
                           => pc[t] = "done" /\ result[t] = "unchanged"
    BY DEF SettledInv
  <2> QED BY UnsettleKeeps DEF DesktopInv, SettledInv, CallsOK
<1> QED BY <1>1, <1>2 DEF DesktopInv

(* DesktopInv holds when the daemon starts to serve. *)
LEMMA DesktopInvInit == DesktopInit => DesktopInv
BY DEF DesktopInit, DesktopInv, CallsOK, OpenInv, ClipInv, ProbesLeaveNothing, SettledInv,
       Places, Holding, Outcomes

(* Every step of a thread, of its task and of another program keeps it. *)
LEMMA DesktopInvStep ==
    ASSUME DesktopInv, DesktopNext
    PROVE  DesktopInv'
<1> USE DEF DesktopInv
<1>0. workload' = workload
  BY DEF DesktopNext
<1>1. ASSUME NEW t \in Threads, Answer(t) PROVE DesktopInv'
  <2>1. CallsOK' /\ OpenInv'
    BY <1>0, <1>1 DEF Answer, MayAnswer, CallsOK, OpenInv, world
  <2>2. ClipInv' /\ ProbesLeaveNothing' /\ SettledInv'
    BY <1>1 DEF Answer, ClipInv, ProbesLeaveNothing, SettledInv, world
  <2> QED BY <2>1, <2>2
<1>2. ASSUME NEW t \in Threads, NextRequest(t) PROVE DesktopInv'
  <2>1. CallsOK' /\ OpenInv'
    BY <1>0, <1>2 DEF NextRequest, Step, Forget, CallsOK, OpenInv, world, Places, Outcomes
  <2>2. ClipInv'
    BY <1>2 DEF NextRequest, Step, Forget, CallsOK, ClipInv, world, Holding
  <2>3. ProbesLeaveNothing'
    BY <1>2 DEF NextRequest, Step, CallsOK, ProbesLeaveNothing, world
  <2>4. SettledInv'
    BY <1>2 DEF NextRequest, Step, Forget, CallsOK, SettledInv, world
  <2> QED BY <2>1, <2>2, <2>3, <2>4
<1>3. ASSUME NEW t \in Threads, Request(t), Unsettle PROVE DesktopInv'
  <2>0. PICK r \in workload : req' = [req EXCEPT ![t] = r]
    BY <1>3, ZenonT(60) DEF Request
  <2>1. CallsOK' /\ OpenInv'
    BY <1>0, <1>3, <2>0, DesktopAssumption DEF Request, Step, CallsOK, OpenInv, world, Places
  <2>2. ClipInv'
    BY <1>3, <2>0 DEF Request, Step, CallsOK, ClipInv, world, Holding
  <2>3. ProbesLeaveNothing'
    BY <1>3 DEF Request, Step, CallsOK, ProbesLeaveNothing, world
  <2>4. SettledInv'
    <3> SUFFICES ASSUME NEW u \in Threads
                 PROVE /\ settled'[u] = NoRequest \/ Goal(settled'[u], windows', foreground')
                       /\ pc'[u] \notin {"idle", "call"} /\ req'[u] = settled'[u]
                             => pc'[u] = "done" /\ result'[u] = "unchanged"
      BY DEF SettledInv
    <3>1. CASE u = t
      BY <1>3, <3>1, UnsettleKeeps DEF Request, Step, CallsOK
    <3>2. CASE u # t
      <4>1. pc'[u] = pc[u] /\ req'[u] = req[u] /\ result'[u] = result[u]
        BY <1>3, <2>0, <3>2 DEF Request, Step, CallsOK
      <4> QED BY <1>3, <4>1, UnsettleKeeps DEF SettledInv, CallsOK
    <3> QED BY <3>1, <3>2
  <2> QED BY <2>1, <2>2, <2>3, <2>4
<1>4. ASSUME NEW t \in Threads, Watchdog(t), Unsettle PROVE DesktopInv'
  <2>1. UNCHANGED <<pc, req, result, open, workload, clipboard, registry>>
    BY <1>0, <1>4 DEF Watchdog, world
  <2>2. late' \in [Threads -> BOOLEAN]
    BY <1>4 DEF Watchdog, CallsOK
  <2>3. ClipInv' /\ ProbesLeaveNothing'
    BY <2>1 DEF ClipInv, ProbesLeaveNothing
  <2> QED BY <1>4, <2>1, <2>2, <2>3, QuietStep DEF CallsOK
<1>5. ASSUME AppStep, Unsettle PROVE DesktopInv'
  <2>1. UNCHANGED <<pc, req, result, open, late, workload>>
    BY <1>0, <1>5 DEF AppStep, calls
  <2>2. registry' = registry
    BY <1>5 DEF AppStep, AppClosesWindow, AppTakesForeground, AppUsesClipboard, ServiceProceeds
  <2>3. \/ clipboard' = clipboard
        \/ clipboard.owner \in {Nobody, App} /\ clipboard' = [clipboard EXCEPT !.owner = App]
        \/ clipboard.owner \in {Nobody, App} /\ clipboard' = [text |-> "app", owner |-> Nobody]
    BY <1>5 DEF AppStep, AppClosesWindow, AppTakesForeground, AppUsesClipboard, ServiceProceeds,
                SetOwner
  <2>4. clipboard' = [text |-> clipboard.text, owner |-> clipboard.owner]'
    BY <2>3 DEF CallsOK
  <2>5. ClipInv'
    BY <2>1, <2>3, DesktopAssumption DEF ClipInv, CallsOK, Holding
  <2>6. ProbesLeaveNothing'
    BY <2>1, <2>2 DEF ProbesLeaveNothing
  <2> QED BY <1>5, <2>1, <2>4, <2>5, <2>6, QuietStep DEF CallsOK
<1>6. ASSUME NEW t \in Threads, CallStep(t), Unsettle PROVE DesktopInv'
  <2>1. /\ Only(t)
        /\ pc' \in [Threads -> Places] /\ result' \in [Threads -> Outcomes]
        /\ pc[t] \notin {"idle", "done"}
        /\ pc'[t] # "idle" /\ pc'[t] # "call"
    BY <1>6, CallStepLocal
  <2>2. clipboard' = [text |-> clipboard.text, owner |-> clipboard.owner]' /\ ClipInv'
    BY <1>6, CallStepClipboard
  <2>3. CallsOK' /\ OpenInv'
    BY <1>0, <2>1, <2>2 DEF Only, CallsOK, OpenInv
  <2>4. ProbesLeaveNothing'
    BY <1>6, CallStepProbe
  <2>5. SettledInv'
    <3> SUFFICES ASSUME NEW u \in Threads
                 PROVE /\ settled'[u] = NoRequest \/ Goal(settled'[u], windows', foreground')
                       /\ pc'[u] \notin {"idle", "call"} /\ req'[u] = settled'[u]
                             => pc'[u] = "done" /\ result'[u] = "unchanged"
      BY DEF SettledInv
    <3>1. CASE u = t
      BY <1>6, <2>1, <3>1, UnsettleKeeps, CallStepSettled DEF Only, CallsOK
    <3>2. CASE u # t
      BY <1>6, <2>1, <3>2, UnsettleKeeps DEF Only, SettledInv, CallsOK
    <3> QED BY <3>1, <3>2
  <2> QED BY <2>2, <2>3, <2>4, <2>5
<1> QED BY <1>1, <1>2, <1>3, <1>4, <1>5, <1>6 DEF DesktopNext

-----------------------------------------------------------------------------
(* The invariant holds throughout every behaviour of the backends. *)
THEOREM DesktopInvariant == DesktopSpec => []DesktopInv
<1>1. DesktopInv /\ UNCHANGED desktopVars => DesktopInv'
  BY DEF desktopVars, world, calls, DesktopInv, CallsOK, OpenInv, ClipInv, ProbesLeaveNothing,
         SettledInv
<1> QED BY <1>1, DesktopInvInit, DesktopInvStep, PTL DEF DesktopSpec

(* What Windows holds is of its kind, and an idle connection has neither a *)
(* request nor an outcome.                                                 *)
WorldOK ==
    /\ backend \in {"win32", "fake"}
    /\ windows \in [Hwnds -> [alive : BOOLEAN, visible : BOOLEAN]]
    /\ foreground \in Hwnds \cup {NoWindow}
    /\ clipboard.owner \in Threads \cup {Nobody, App}
    /\ service \in {"STOPPED", "STARTING", "RUNNING", "STOPPING"}
    /\ registry \subseteq {"user", "probe"}
    /\ mutexes \subseteq Threads \cup {App}
    /\ \A t \in Threads : pc[t] = "idle" => result[t] = "none" /\ req[t] = NoRequest

(* The windows after a step of a task. *)
LEMMA CallStepWindows ==
    ASSUME CallsOK, WorldOK, NEW t \in Threads, CallStep(t)
    PROVE  /\ windows' \in [Hwnds -> [alive : BOOLEAN, visible : BOOLEAN]]
           /\ foreground' \in Hwnds \cup {NoWindow}
<1>1. /\ req[t].op = "ensure_visible" => req[t].hwnd \in Hwnds /\ req[t].on \in BOOLEAN
      /\ req[t].op = "ensure_foreground" => req[t].hwnd \in Hwnds
  BY WorkloadsAssumption DEF CallsOK, NoRequest
<1> USE DEF WorldOK
<1>2. CASE UNCHANGED <<windows, foreground>>
  BY <1>2
<1>3. CASE EnsureAct(t)
  BY <1>1, <1>3 DEF EnsureAct, SetGoal
<1>4. CASE FakeEnsure(t)
  BY <1>1, <1>4 DEF FakeEnsure
<1>5. CASE EnsureTest(t) \/ FakeOther(t)
  BY <1>2, <1>5 DEF EnsureTest, FakeOther, world
<1>6. CASE ClipboardOpen(t) \/ ClipboardEmpty(t) \/ ClipboardSet(t) \/ ClipboardGet(t)
            \/ ClipboardClose(t)
  BY <1>2, <1>6 DEF ClipboardOpen, ClipboardEmpty, ClipboardSet, ClipboardGet, ClipboardClose, world
<1>7. CASE ProbeCreate(t) \/ ProbeDelete(t) \/ RegCreateKey(t) \/ RegSetValue(t) \/ RegDelete(t)
  BY <1>2, <1>7, ZenonT(60) DEF ProbeCreate, ProbeDelete, RegCreateKey, RegSetValue, RegDelete, world
<1>8. CASE ServiceControl(t) \/ ServiceSettles(t) \/ ServiceTimeout(t)
            \/ MutexCreate(t) \/ MutexRelease(t) \/ MutexCheck(t)
  BY <1>2, <1>8 DEF ServiceControl, ServiceSettles, ServiceTimeout, MutexCreate, MutexRelease,
                    MutexCheck, world
<1> QED BY <1>3, <1>4, <1>5, <1>6, <1>7, <1>8, ZenonT(60) DEF CallStep

(* The rest of the desktop after a step of a task. *)
LEMMA CallStepSystem ==
    ASSUME CallsOK, WorldOK, NEW t \in Threads, CallStep(t)
    PROVE  /\ clipboard'.owner \in Threads \cup {Nobody, App}
           /\ service' \in {"STOPPED", "STARTING", "RUNNING", "STOPPING"}
           /\ registry' \subseteq {"user", "probe"}
           /\ mutexes' \subseteq Threads \cup {App}
<1> USE DEF WorldOK
<1>1. CASE UNCHANGED <<clipboard, service, registry, mutexes>>
  BY <1>1
<1>2. CASE EnsureTest(t) \/ EnsureAct(t) \/ FakeEnsure(t) \/ FakeOther(t)
  BY <1>1, <1>2 DEF EnsureTest, EnsureAct, FakeEnsure, FakeOther, world
<1>3. CASE ClipboardOpen(t) \/ ClipboardEmpty(t) \/ ClipboardSet(t) \/ ClipboardGet(t)
            \/ ClipboardClose(t)
  BY <1>3 DEF ClipboardOpen, ClipboardEmpty, ClipboardSet, ClipboardGet, ClipboardClose, SetOwner,
              CallsOK, world
<1>4. CASE ProbeCreate(t) \/ ProbeDelete(t)
  BY <1>4, ZenonT(60) DEF ProbeCreate, ProbeDelete, ProbeCleanup
<1>5. CASE RegCreateKey(t) \/ RegSetValue(t) \/ RegDelete(t)
  <2>1. CASE RegCreateKey(t) BY <2>1, ZenonT(60) DEF RegCreateKey
  <2>2. CASE RegSetValue(t) BY <1>1, <2>2, ZenonT(60) DEF RegSetValue, world
  <2>3. CASE RegDelete(t) BY <2>3, ZenonT(60) DEF RegDelete
  <2> QED BY <1>5, <2>1, <2>2, <2>3
<1>6. CASE ServiceControl(t) \/ ServiceSettles(t) \/ ServiceTimeout(t)
  BY <1>6, ZenonT(60) DEF ServiceControl, ServiceSettles, ServiceTimeout, world
<1>7. CASE MutexCreate(t) \/ MutexRelease(t) \/ MutexCheck(t)
  BY <1>7, ZenonT(60) DEF MutexCreate, MutexRelease, MutexCheck, world
<1> QED BY <1>2, <1>3, <1>4, <1>5, <1>6, <1>7, ZenonT(60) DEF CallStep

(* Windows is handed nothing but windows, and every handle it is given     *)
(* back: the daemon's threads, their tasks and other programs keep every   *)
(* part of the desktop of its kind, and a connection is idle exactly when  *)
(* it has no request and no outcome.                                       *)
THEOREM DesktopTypeCorrect == DesktopSpec => []DesktopTypeOK
<1>1. DesktopInit => WorldOK
  <2> SUFFICES ASSUME DesktopInit PROVE WorldOK
    OBVIOUS
  <2>1. windows \in [Hwnds -> [alive : BOOLEAN, visible : BOOLEAN]]
    <3>1. windows \in [Hwnds -> [alive : {TRUE}, visible : BOOLEAN]]
      BY ZenonT(60) DEF DesktopInit
    <3>2. [alive : {TRUE}, visible : BOOLEAN] \subseteq [alive : BOOLEAN, visible : BOOLEAN]
      BY ZenonT(60)
    <3> QED BY <3>1, <3>2, ZenonT(60)
  <2> QED BY <2>1 DEF DesktopInit, WorldOK
<1>2. DesktopInv /\ WorldOK /\ [DesktopNext]_desktopVars => WorldOK'
  <2> SUFFICES ASSUME DesktopInv, WorldOK, [DesktopNext]_desktopVars PROVE WorldOK'
    OBVIOUS
  <2> USE DEF DesktopInv
  <2>0. backend' = backend
    BY DEF DesktopNext, desktopVars
  <2>1. ASSUME NEW t \in Threads, Answer(t) \/ Request(t) \/ Watchdog(t) \/ NextRequest(t)
        PROVE  WorldOK'
    <3>1. UNCHANGED world
      BY <2>1 DEF Answer, Request, Watchdog, NextRequest
    <3>2. \A u \in Threads : pc'[u] = "idle" => result'[u] = "none" /\ req'[u] = NoRequest
      BY <2>1 DEF Answer, Request, Watchdog, NextRequest, Step, Forget, CallsOK, WorldOK
    <3> QED BY <2>0, <3>1, <3>2 DEF WorldOK, world
  <2>2. ASSUME AppStep PROVE WorldOK'
    <3>1. UNCHANGED <<pc, result, req>>
      BY <2>2 DEF AppStep, calls
    <3>2. CASE AppClosesWindow
      <4>1. PICK h \in Hwnds :
              /\ windows' = [windows EXCEPT ![h].alive = FALSE, ![h].visible = FALSE]
              /\ foreground' = IF foreground = h THEN NoWindow ELSE foreground
        BY <3>2, ZenonT(60) DEF AppClosesWindow
      <4>2. windows' \in [Hwnds -> [alive : BOOLEAN, visible : BOOLEAN]]
        BY <4>1, ZenonT(60) DEF WorldOK
      <4>3. foreground' \in Hwnds \cup {NoWindow}
        BY <4>1 DEF WorldOK
      <4> QED BY <2>0, <3>1, <3>2, <4>2, <4>3 DEF AppClosesWindow, WorldOK
    <3>3. CASE AppTakesForeground
      BY <2>0, <3>1, <3>3 DEF AppTakesForeground, WorldOK
    <3>4. CASE AppUsesClipboard
      BY <2>0, <3>1, <3>4 DEF AppUsesClipboard, SetOwner, CallsOK, WorldOK
    <3>5. CASE ServiceProceeds
      BY <2>0, <3>1, <3>5 DEF ServiceProceeds, WorldOK
    <3> QED BY <2>2, <3>2, <3>3, <3>4, <3>5 DEF AppStep
  <2>3. ASSUME NEW t \in Threads, CallStep(t) PROVE WorldOK'
    <3>1. \A u \in Threads : pc'[u] = "idle" => result'[u] = "none" /\ req'[u] = NoRequest
      BY <2>3, CallStepLocal, ZenonT(60) DEF Only, WorldOK
    <3> QED BY <2>0, <2>3, <3>1, CallStepWindows, CallStepSystem DEF WorldOK
  <2>4. CASE UNCHANGED desktopVars
    BY <2>4 DEF desktopVars, world, calls, WorldOK
  <2> QED BY <2>1, <2>2, <2>3, <2>4 DEF DesktopNext
<1>3. DesktopInv /\ WorldOK => DesktopTypeOK
  BY DEF DesktopInv, CallsOK, WorldOK, DesktopTypeOK, Outcomes
<1> QED BY <1>1, <1>2, <1>3, DesktopInvariant, PTL DEF DesktopSpec

(* Clipboard writers do not mix: between its SetClipboardData and its      *)
(* CloseClipboard a writer finds its own text in the clipboard.            *)
THEOREM ClipboardExclusiveHolds == DesktopSpec => []ClipboardExclusive
<1>1. DesktopInv => ClipboardExclusive
  BY DEF DesktopInv, CallsOK, ClipInv, ClipboardExclusive, Holding
<1> QED BY <1>1, DesktopInvariant, PTL

(* The probe of get_capabilities leaves no registry key behind. *)
THEOREM ProbesLeaveNothingHolds == DesktopSpec => []ProbesLeaveNothing
<1>1. DesktopInv => ProbesLeaveNothing
  BY DEF DesktopInv
<1> QED BY <1>1, DesktopInvariant, PTL

(* A repeated ensureX answers changed:false while nothing undoes it. *)
THEOREM RepeatedEnsureHolds == DesktopSpec => []RepeatedEnsureUnchanged
<1>1. DesktopInv => RepeatedEnsureUnchanged
  BY DEF DesktopInv, SettledInv, RepeatedEnsureUnchanged
<1> QED BY <1>1, DesktopInvariant, PTL

(* A task does nothing to the desktop after its request was answered: the  *)
(* future is waited for before the answer is sent.                         *)
THEOREM NoEffectAfterAnswerHolds == DesktopSpec => NoEffectAfterAnswer
<1> DEFINE Quiet == \A t \in Threads : pc'[t] # pc[t] /\ world' # world => open[t]
<1>1. ASSUME DesktopInv, DesktopNext PROVE Quiet
  <2> SUFFICES ASSUME NEW t \in Threads, pc'[t] # pc[t], world' # world PROVE open[t]
    OBVIOUS
  <2>1. PICK u \in Threads : CallStep(u)
    <3>1. ~AppStep
      BY DEF AppStep, calls
    <3>2. \A u \in Threads : ~Answer(u) /\ ~NextRequest(u) /\ ~Request(u) /\ ~Watchdog(u)
      BY ZenonT(60) DEF Answer, NextRequest, Request, Watchdog, world
    <3> QED BY <1>1, <3>1, <3>2 DEF DesktopNext
  <2>2. Only(u) /\ pc[u] \notin {"idle", "done"}
    BY <1>1, <2>1, CallStepLocal DEF DesktopInv
  <2>3. t = u
    BY <2>2 DEF Only
  <2> QED BY <1>1, <2>2, <2>3 DEF DesktopInv, OpenInv
<1>2. DesktopInv /\ [DesktopNext]_desktopVars => [Quiet]_desktopVars
  BY <1>1
<1> QED BY <1>2, DesktopInvariant, PTL DEF DesktopSpec, NoEffectAfterAnswer

-----------------------------------------------------------------------------
(* A download that reads has the file for itself: no other can open it     *)
(* before it is closed.                                                    *)
THEOREM DownloadsDoNotMixHolds == DownloadSpec => []DownloadsDoNotMix
<1> DEFINE Inv == DOMAIN dpc = Downloads /\ DownloadsDoNotMix
<1> USE DEF DownloadsDoNotMix, Goto
<1>1. DownloadInit => Inv
  BY DEF DownloadInit
<1>2. Inv /\ [DownloadNext]_downloads => Inv'
  <2> SUFFICES ASSUME Inv, [DownloadNext]_downloads PROVE Inv'
    OBVIOUS
  <2>1. ASSUME NEW d \in Downloads, DownloadUrl(d) PROVE Inv'
    BY <2>1 DEF DownloadUrl
  <2>2. ASSUME NEW d \in Downloads, DownloadResponse(d) PROVE Inv'
    BY <2>2 DEF DownloadResponse
  <2>3. ASSUME NEW d \in Downloads, DownloadCreate(d) PROVE Inv'
    BY <2>3, DownloadsAssumption DEF DownloadCreate, SharingAllows
  <2>4. ASSUME NEW d \in Downloads, DownloadEnds(d) PROVE Inv'
    BY <2>4 DEF DownloadEnds
  <2>5. ASSUME NEW d \in Downloads, DownloadAgain(d) PROVE Inv'
    BY <2>5 DEF DownloadAgain
  <2>6. CASE UNCHANGED downloads
    BY <2>6 DEF downloads
  <2> QED BY <2>1, <2>2, <2>3, <2>4, <2>5, <2>6 DEF DownloadNext
<1> QED BY <1>1, <1>2, PTL DEF DownloadSpec

-----------------------------------------------------------------------------
(* The messages a thread can log. *)
Message == [level : Levels \cup {Idle}, by : Loggers, nr : Nat]

(* How many of n messages the logger keeps, and the last so many of the    *)
(* first n.                                                                *)
Kept(n) == IF n < MaxLogs THEN n ELSE MaxLogs

Newest(messages, n) == SubSeq(messages, n - Kept(n) + 1, n)

(* The buffer holds the newest of all messages; what was answered were the *)
(* newest then.                                                            *)
LogInv ==
    /\ pending \in [Loggers -> Levels \cup {Idle}]
    /\ history \in Seq(Message)
    /\ buffer = Newest(history, Len(history))
    /\ atAnswer \in 0 .. Len(history)
    /\ answered = Newest(history, atAnswer)

LEMMA NewestProperties ==
    ASSUME NEW S, NEW h \in Seq(S), NEW n \in 0 .. Len(h)
    PROVE  /\ Kept(n) \in Nat /\ Kept(n) <= n
           /\ Newest(h, n) \in Seq(S)
           /\ Len(Newest(h, n)) = Kept(n)
           /\ \A i \in 1 .. Kept(n) : Newest(h, n)[i] = h[n - Kept(n) + i]
<1>1. Len(h) \in Nat /\ \A i \in 1 .. Len(h) : h[i] \in S
  BY LenProperties, ElementOfSeq
<1>2. Kept(n) \in Nat /\ Kept(n) <= n
  BY <1>1, LogAssumption DEF Kept
<1> DEFINE m == n - Kept(n) + 1
<1>3. m \in Int /\ n \in Int /\ m >= 1 /\ n - m + 1 = Kept(n)
  BY <1>1, <1>2
<1> HIDE DEF m
<1>4. \A i \in m .. n : h[i] \in S
  BY <1>1, <1>3
<1>5. /\ SubSeq(h, m, n) \in Seq(S)
      /\ Len(SubSeq(h, m, n)) = IF m <= n THEN n - m + 1 ELSE 0
      /\ \A i \in 1 .. n - m + 1 : SubSeq(h, m, n)[i] = h[m + i - 1]
  BY <1>3, <1>4, SubSeqProperties
<1>6. Len(SubSeq(h, m, n)) = Kept(n)
  BY <1>2, <1>3, <1>5
<1>7. ASSUME NEW i \in 1 .. Kept(n) PROVE SubSeq(h, m, n)[i] = h[n - Kept(n) + i]
  <2>1. m + i - 1 = n - Kept(n) + i BY <1>2, <1>3 DEF m
  <2> QED BY <1>3, <1>5, <2>1
<1> QED BY <1>2, <1>5, <1>6, <1>7 DEF Newest, m

(* A message appended later does not change what the newest were. *)
LEMMA NewestOfLonger ==
    ASSUME NEW S, NEW h \in Seq(S), NEW m \in S, NEW n \in 0 .. Len(h)
    PROVE  Newest(Append(h, m), n) = Newest(h, n)
<1> DEFINE g == Append(h, m)
<1>1. /\ g \in Seq(S) /\ Len(g) = Len(h) + 1 /\ Len(h) \in Nat
      /\ \A i \in 1 .. Len(h) : g[i] = h[i]
  BY AppendProperties, LenProperties
<1> HIDE DEF g
<1>2. n \in 0 .. Len(g) BY <1>1
<1> DEFINE a == Newest(g, n)
           b == Newest(h, n)
<1>3. /\ Kept(n) \in Nat /\ Kept(n) <= n
      /\ b \in Seq(S) /\ Len(b) = Kept(n)
      /\ \A i \in 1 .. Kept(n) : b[i] = h[n - Kept(n) + i]
  BY NewestProperties
<1>4. /\ a \in Seq(S) /\ Len(a) = Kept(n)
      /\ \A i \in 1 .. Kept(n) : a[i] = g[n - Kept(n) + i]
  BY <1>1, <1>2, NewestProperties, ZenonT(60)
<1> HIDE DEF a, b
<1>5. ASSUME NEW i \in 1 .. Len(a) PROVE a[i] = b[i]
  <2>1. n - Kept(n) + i \in 1 .. Len(h) BY <1>1, <1>3, <1>4
  <2> QED BY <1>1, <1>3, <1>4, <2>1
<1>6. a = b BY <1>3, <1>4, <1>5, SeqEqual
<1> QED BY <1>6 DEF a, b, g

(* The message that is appended to the newest, with the oldest erased when *)
(* there is one too many, gives the newest again.                          *)
LEMMA NewestAppend ==
    ASSUME NEW S, NEW h \in Seq(S), NEW m \in S
    PROVE  Erase(Append(Newest(h, Len(h)), m)) = Newest(Append(h, m), Len(h) + 1)
<1> DEFINE n == Len(h)
           g == Append(h, m)
           b == Newest(h, n)
           c == Append(b, m)
           a == Newest(g, n + 1)
<1>0. MaxLogs \in Nat /\ MaxLogs > 0 BY LogAssumption
<1>1. /\ g \in Seq(S) /\ Len(g) = n + 1 /\ n \in Nat
      /\ \A i \in 1 .. n : g[i] = h[i]
      /\ g[n + 1] = m
  BY AppendProperties, LenProperties
<1>2. n \in 0 .. Len(h) BY <1>1
<1>3. /\ b \in Seq(S) /\ Len(b) = Kept(n)
      /\ \A i \in 1 .. Kept(n) : b[i] = h[n - Kept(n) + i]
  BY <1>2, NewestProperties
<1> HIDE DEF g, b, n
<1>4. n + 1 \in 0 .. Len(g) BY <1>1
<1>5. /\ a \in Seq(S) /\ Len(a) = Kept(n + 1)
      /\ \A i \in 1 .. Kept(n + 1) : a[i] = g[(n + 1) - Kept(n + 1) + i]
  BY <1>1, <1>4, NewestProperties, ZenonT(60)
<1>6. /\ c \in Seq(S) /\ c # <<>> /\ Len(c) = Len(b) + 1
      /\ \A i \in 1 .. Len(b) : c[i] = b[i]
      /\ c[Len(b) + 1] = m
  BY <1>3, AppendProperties
<1> HIDE DEF a, c
<1>7. CASE n < MaxLogs
  <2>1. Kept(n) = n /\ Kept(n + 1) = n + 1 BY <1>0, <1>1, <1>7 DEF Kept
  <2>2. Erase(c) = c BY <1>0, <1>1, <1>3, <1>6, <1>7, <2>1 DEF Erase
  <2>3. ASSUME NEW i \in 1 .. Len(c) PROVE c[i] = a[i]
    <3>1. Len(b) = n /\ Len(c) = n + 1 BY <1>3, <1>6, <2>1
    <3>2. a[i] = g[i]
      <4>1. i \in 1 .. Kept(n + 1) /\ (n + 1) - Kept(n + 1) + i = i BY <1>1, <2>1, <3>1
      <4> QED BY <1>5, <4>1
    <3>3. CASE i = n + 1 BY <1>1, <1>6, <3>1, <3>2, <3>3
    <3>4. CASE i # n + 1
      <4>1. i \in 1 .. n /\ n - Kept(n) + i = i BY <1>1, <2>1, <3>1, <3>4
      <4> QED BY <1>1, <1>3, <1>6, <2>1, <3>1, <3>2, <4>1
    <3> QED BY <3>3, <3>4
  <2>4. Len(c) = Len(a) BY <1>3, <1>5, <1>6, <2>1
  <2>5. c = a BY <1>5, <1>6, <2>3, <2>4, SeqEqual
  <2> QED BY <2>2, <2>5 DEF a, c, b, g, n
<1>8. CASE ~(n < MaxLogs)
  <2>1. Kept(n) = MaxLogs /\ Kept(n + 1) = MaxLogs BY <1>0, <1>1, <1>8 DEF Kept
  <2> DEFINE t == Tail(c)
  <2>2. Erase(c) = t BY <1>0, <1>3, <1>6, <2>1 DEF Erase
  <2>3. t \in Seq(S) /\ Len(t) = MaxLogs /\ \A i \in 1 .. MaxLogs : t[i] = c[i + 1]
    BY <1>0, <1>3, <1>6, <2>1, HeadTailProperties
  <2> HIDE DEF t
  <2>4. ASSUME NEW i \in 1 .. Len(t) PROVE t[i] = a[i]
    <3>1. i \in 1 .. MaxLogs /\ Len(b) = MaxLogs BY <1>3, <2>1, <2>3
    <3>2. a[i] = g[n + 1 - MaxLogs + i]
      <4>1. (n + 1) - Kept(n + 1) + i = n + 1 - MaxLogs + i BY <1>0, <1>1, <2>1
      <4> QED BY <1>5, <2>1, <3>1, <4>1
    <3>3. CASE i = MaxLogs
      <4>1. n + 1 - MaxLogs + i = n + 1 BY <1>0, <1>1, <3>3
      <4> QED BY <1>1, <1>6, <2>3, <3>1, <3>2, <3>3, <4>1
    <3>4. CASE i # MaxLogs
      <4>1. /\ i + 1 \in 1 .. MaxLogs
            /\ n - MaxLogs + (i + 1) = n + 1 - MaxLogs + i
            /\ n + 1 - MaxLogs + i \in 1 .. n
        BY <1>0, <1>1, <1>8, <3>1, <3>4
      <4>2. c[i + 1] = h[n + 1 - MaxLogs + i] BY <1>3, <1>6, <2>1, <3>1, <4>1
      <4> QED BY <1>1, <2>3, <3>1, <3>2, <4>1, <4>2
    <3> QED BY <3>3, <3>4
  <2>5. Len(t) = Len(a) BY <1>5, <2>1, <2>3
  <2>6. t = a BY <1>5, <2>3, <2>4, <2>5, SeqEqual
  <2> QED BY <2>2, <2>6 DEF a, c, b, g, n
<1> QED BY <1>7, <1>8

(* Logger::get_recent_logs answers with the newest messages at that        *)
(* moment, in order and without a gap, however many threads log and        *)
(* whatever the buffer's capacity.                                         *)
THEOREM LogsAreNewestHolds == LogSpec => []LogsAreNewest
<1>1. LogInit => LogInv
  <2> SUFFICES ASSUME LogInit PROVE LogInv
    OBVIOUS
  <2>1. history = <<>> /\ buffer = <<>> /\ answered = <<>> /\ atAnswer = 0
    BY DEF LogInit
  <2>2. history \in Seq(Message) /\ Len(history) = 0 BY <2>1, EmptySeq
  <2>3. Newest(history, 0) = <<>>
    <3>0. 0 \in 0 .. Len(history) BY <2>2
    <3>1. Newest(history, 0) \in Seq(Message) /\ Len(Newest(history, 0)) = Kept(0)
      BY <2>2, <3>0, NewestProperties, ZenonT(60)
    <3>2. Kept(0) = 0 BY LogAssumption DEF Kept
    <3> QED BY <3>1, <3>2, EmptySeq
  <2> QED BY <2>1, <2>2, <2>3 DEF LogInit, LogInv
<1>2. LogInv /\ [LogNext]_logs => LogInv'
  <2> SUFFICES ASSUME LogInv, [LogNext]_logs PROVE LogInv'
    OBVIOUS
  <2>0. Len(history) \in Nat BY LenProperties DEF LogInv
  <2>1. ASSUME NEW t \in Loggers, NEW level \in Levels, should_log(t, level)
        PROVE  LogInv'
    BY <2>1 DEF should_log, LogInv
  <2>2. ASSUME NEW t \in Loggers, log(t) PROVE LogInv'
    <3> DEFINE message == [level |-> pending[t], by |-> t, nr |-> Len(history) + 1]
    <3>1. message \in Message BY <2>0 DEF LogInv, Message
    <3>2. /\ buffer' = Erase(Append(buffer, message))
          /\ history' = Append(history, message)
          /\ pending' = [pending EXCEPT ![t] = Idle]
          /\ UNCHANGED <<answered, atAnswer>>
      BY <2>2 DEF log
    <3> HIDE DEF message
    <3>3. history' \in Seq(Message) /\ Len(history') = Len(history) + 1
      BY <3>1, <3>2, AppendProperties DEF LogInv
    <3>4. buffer' = Newest(history', Len(history'))
      BY <3>1, <3>2, <3>3, NewestAppend DEF LogInv
    <3>5. answered' = Newest(history', atAnswer')
      BY <3>1, <3>2, NewestOfLonger DEF LogInv
    <3>6. atAnswer' \in 0 .. Len(history') BY <2>0, <3>2, <3>3 DEF LogInv
    <3>7. pending' \in [Loggers -> Levels \cup {Idle}] BY <3>2 DEF LogInv
    <3> QED BY <3>3, <3>4, <3>5, <3>6, <3>7 DEF LogInv
  <2>3. CASE get_recent_logs
    <3>1. Len(buffer) = Kept(Len(history))
      BY <2>0, NewestProperties DEF LogInv
    <3>2. Len(buffer) <= MaxLogs BY <2>0, <3>1, LogAssumption DEF Kept
    <3>3. answered' = buffer
      BY <2>0, <2>3, <3>1, <3>2, LogAssumption DEF get_recent_logs, Kept
    <3> QED BY <2>0, <2>3, <3>3 DEF get_recent_logs, LogInv
  <2>4. CASE UNCHANGED logs
    BY <2>4 DEF logs, LogInv
  <2> QED BY <2>1, <2>2, <2>3, <2>4 DEF LogNext
<1>3. LogInv => LogsAreNewest
  BY DEF LogInv, LogsAreNewest, Newest, Kept
<1> QED BY <1>1, <1>2, <1>3, PTL DEF LogSpec

-----------------------------------------------------------------------------
(* A version is the numbers parse_version returns. *)
Version == Seq(Int)

(* A set of naturals that is not empty has a least element. *)
LEMMA LeastNatural ==
    ASSUME NEW T, T \subseteq Nat, T # {}
    PROVE  \E i \in T : \A j \in T : i <= j
<1>1. PICK i \in T : \A j \in T : ~(<<j, i>> \in OpToRel(<, Nat))
  BY NatLessThanWellFounded, WFMin, ZenonT(60)
<1>2. \A j \in T : ~(j < i)
  BY <1>1, ZenonT(60) DEF OpToRel
<1> QED BY <1>2

(* The parts in which two versions differ, one that is missing being 0. *)
Differ(a, b) == {i \in Nat \ {0} : PartOf(a, i) # PartOf(b, i)}

(* The first part in which they differ is smaller. *)
Precedes(a, b) ==
    \E i \in Differ(a, b) :
        PartOf(a, i) < PartOf(b, i) /\ \A j \in Differ(a, b) : i <= j

LEMMA PartType ==
    ASSUME NEW a \in Version, NEW i \in Nat \ {0}
    PROVE  PartOf(a, i) \in Int
<1>1. CASE i <= Len(a)
  <2>1. i \in 1 .. Len(a) BY <1>1, LenProperties DEF Version
  <2> QED BY <1>1, <2>1, ElementOfSeq DEF PartOf, Version
<1> QED BY <1>1 DEF PartOf

(* a comes before b exactly when the first part in which they differ is    *)
(* smaller; there is none behind the parts they have.                      *)
LEMMA BeforeIs ==
    ASSUME NEW a \in Version, NEW b \in Version
    PROVE  Before(a, b) <=> Precedes(a, b)
<1>1. Len(a) \in Nat /\ Len(b) \in Nat BY LenProperties DEF Version
<1>2. ASSUME Before(a, b) PROVE Precedes(a, b)
  <2>1. PICK i \in 1 .. Len(a) + Len(b) :
          PartOf(a, i) < PartOf(b, i) /\ \A j \in 1 .. i - 1 : PartOf(a, j) = PartOf(b, j)
    BY <1>2 DEF Before
  <2>2. i \in Nat \ {0} BY <1>1, <2>1
  <2>3. PartOf(a, i) \in Int /\ PartOf(b, i) \in Int BY <2>2, PartType
  <2>4. i \in Differ(a, b) BY <2>1, <2>2, <2>3 DEF Differ
  <2>5. \A j \in Differ(a, b) : i <= j BY <2>1, <2>2 DEF Differ
  <2> QED BY <2>1, <2>4, <2>5 DEF Precedes
<1>3. ASSUME Precedes(a, b) PROVE Before(a, b)
  <2>1. PICK i \in Differ(a, b) :
          PartOf(a, i) < PartOf(b, i) /\ \A j \in Differ(a, b) : i <= j
    BY <1>3 DEF Precedes
  <2>2. i \in Nat \ {0} /\ PartOf(a, i) # PartOf(b, i) BY <2>1 DEF Differ
  <2>3. i \in 1 .. Len(a) + Len(b) BY <1>1, <2>2 DEF PartOf
  <2>4. \A j \in 1 .. i - 1 : PartOf(a, j) = PartOf(b, j) BY <2>1, <2>2 DEF Differ
  <2> QED BY <2>1, <2>3, <2>4 DEF Before
<1> QED BY <1>2, <1>3

(* compare_versions looks at as many parts as the longer version has, and  *)
(* that is every part in which the two can differ.                         *)
LEMMA DifferCompared ==
    ASSUME NEW a \in Version, NEW b \in Version
    PROVE  {i \in ComparedParts(a, b) : PartOf(a, i) # PartOf(b, i)} = Differ(a, b)
<1>1. Len(a) \in Nat /\ Len(b) \in Nat BY LenProperties DEF Version
<1>2. ComparedParts(a, b) \subseteq Nat \ {0} BY <1>1 DEF ComparedParts
<1>3. \A i \in Nat \ {0} : i \notin ComparedParts(a, b)
                               => PartOf(a, i) = 0 /\ PartOf(b, i) = 0
  BY <1>1 DEF ComparedParts, PartOf
<1> QED BY <1>2, <1>3 DEF Differ

(* What compare_versions returns. *)
LEMMA CompareMeans ==
    ASSUME NEW a \in Version, NEW b \in Version
    PROVE  /\ compare_versions(a, b) \in {-1, 0, 1}
           /\ compare_versions(a, b) = 0 <=> Differ(a, b) = {}
           /\ compare_versions(a, b) = -1 <=> Precedes(a, b)
           /\ compare_versions(a, b) = 1 <=> Precedes(b, a)
<1> DEFINE D == Differ(a, b)
           first == CHOOSE i \in D : \A j \in D : i <= j
<1>1. compare_versions(a, b) = IF D = {} THEN 0
                               ELSE IF PartOf(a, first) < PartOf(b, first) THEN -1 ELSE 1
  BY DifferCompared, ZenonT(60) DEF compare_versions
<1>2. Differ(b, a) = D BY DEF Differ
<1>3. CASE D = {}
  BY <1>1, <1>2, <1>3 DEF Precedes
<1>4. CASE D # {}
  <2>1. D \subseteq Nat BY DEF Differ
  <2>2. \E i \in D : \A j \in D : i <= j BY <1>4, <2>1, LeastNatural
  <2>3. first \in D /\ \A j \in D : first <= j BY <2>2
  <2> HIDE DEF first
  <2>4. \A i \in D : (\A j \in D : i <= j) => i = first
    BY <2>1, <2>3
  <2>5. /\ PartOf(a, first) \in Int /\ PartOf(b, first) \in Int
        /\ PartOf(a, first) # PartOf(b, first)
    BY <2>3, PartType DEF Differ
  <2> HIDE DEF D
  <2>6. Precedes(a, b) <=> PartOf(a, first) < PartOf(b, first)
    BY <2>3, <2>4 DEF Precedes, D
  <2>7. Precedes(b, a) <=> PartOf(b, first) < PartOf(a, first)
    BY <1>2, <2>3, <2>4 DEF Precedes, D
  <2> QED BY <1>1, <1>4, <2>5, <2>6, <2>7 DEF D
<1> QED BY <1>3, <1>4

(* Between two versions of which one comes before the other, every third   *)
(* one comes after the first or before the second.                         *)
LEMMA PrecedesSplits ==
    ASSUME NEW a \in Version, NEW b \in Version, NEW c \in Version, Precedes(a, c)
    PROVE  Precedes(a, b) \/ Precedes(b, c)
<1> DEFINE D == Differ(a, b) \cup Differ(b, c)
<1>1. PICK i \in Differ(a, c) :
        PartOf(a, i) < PartOf(c, i) /\ \A j \in Differ(a, c) : i <= j
  BY DEF Precedes
<1>2. i \in Nat \ {0} /\ PartOf(a, i) # PartOf(c, i) BY <1>1 DEF Differ
<1>3. D \subseteq Nat /\ i \in D BY <1>2 DEF Differ
<1>4. PICK k \in D : \A j \in D : k <= j
  BY <1>3, LeastNatural
<1>5. k \in Nat \ {0} /\ k <= i BY <1>3, <1>4 DEF Differ
<1>6. PartOf(a, k) \in Int /\ PartOf(b, k) \in Int /\ PartOf(c, k) \in Int
  BY <1>5, PartType
<1>7. PartOf(a, k) # PartOf(b, k) \/ PartOf(b, k) # PartOf(c, k)
  BY <1>4 DEF Differ
<1>8. PartOf(a, k) <= PartOf(c, k)
  BY <1>1, <1>2, <1>5, <1>6 DEF Differ
<1>9. PartOf(a, k) < PartOf(b, k) \/ PartOf(b, k) < PartOf(c, k)
  BY <1>6, <1>7, <1>8
<1>10. PartOf(a, k) < PartOf(b, k) => Precedes(a, b)
  BY <1>4, <1>5, <1>6 DEF Precedes, Differ
<1>11. PartOf(b, k) < PartOf(c, k) => Precedes(b, c)
  BY <1>4, <1>5, <1>6 DEF Precedes, Differ
<1> QED BY <1>9, <1>10, <1>11

(* compare_versions finds the greater of two versions of any length,       *)
(* whatever their parts, a part that is missing being zero, so that        *)
(* checkUpdate offers the releases that come after the running version and *)
(* no other.  And it orders them: of two versions one is the newer or both *)
(* are equal, from either side, and a version at least as new as a second, *)
(* which is at least as new as a third, is at least as new as the third.   *)
(* So checkUpdate never offers each of two releases to the other, and no   *)
(* chain of updates leads back.                                            *)
THEOREM VersionsOrdered ==
    ASSUME NEW a \in Version, NEW b \in Version, NEW c \in Version
    PROVE  /\ compare_versions(a, b) > 0 <=> Before(b, a)
           /\ compare_versions(b, a) = -compare_versions(a, b)
           /\ compare_versions(a, b) = 0 <=>
                \A i \in Nat \ {0} : PartOf(a, i) = PartOf(b, i)
           /\ compare_versions(a, b) >= 0 /\ compare_versions(b, c) >= 0
                => compare_versions(a, c) >= 0
           /\ compare_versions(a, b) > 0 /\ compare_versions(b, c) >= 0
                => compare_versions(a, c) > 0
<1>1. Differ(a, b) = Differ(b, a) BY DEF Differ
<1>2. compare_versions(b, a) = -compare_versions(a, b)
  BY <1>1, CompareMeans
<1>3. compare_versions(a, b) = 0 <=> \A i \in Nat \ {0} : PartOf(a, i) = PartOf(b, i)
  BY CompareMeans DEF Differ
<1>4. Precedes(a, c) => Precedes(a, b) \/ Precedes(b, c)
  BY PrecedesSplits
<1>5. Precedes(b, a) => Precedes(b, c) \/ Precedes(c, a)
  BY PrecedesSplits
<1>6. /\ compare_versions(a, b) \in {-1, 0, 1}
      /\ compare_versions(a, b) = -1 <=> Precedes(a, b)
      /\ compare_versions(a, b) = 1 <=> Precedes(b, a)
  BY CompareMeans
<1>7. /\ compare_versions(b, c) \in {-1, 0, 1}
      /\ compare_versions(b, c) = -1 <=> Precedes(b, c)
  BY CompareMeans
<1>8. /\ compare_versions(a, c) \in {-1, 0, 1}
      /\ compare_versions(a, c) = -1 <=> Precedes(a, c)
      /\ compare_versions(a, c) = 1 <=> Precedes(c, a)
  BY CompareMeans
<1>9. compare_versions(a, b) >= 0 /\ compare_versions(b, c) >= 0
        => compare_versions(a, c) >= 0
  BY <1>4, <1>6, <1>7, <1>8
<1>10. compare_versions(a, b) > 0 /\ compare_versions(b, c) >= 0
        => compare_versions(a, c) > 0
  BY <1>5, <1>6, <1>7, <1>8
<1>11. compare_versions(a, b) > 0 <=> Before(b, a)
  BY <1>6, BeforeIs
<1> QED BY <1>2, <1>3, <1>9, <1>10, <1>11
=============================================================================
