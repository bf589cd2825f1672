---------------------------- MODULE DaemonProofs ----------------------------
(***************************************************************************)
(* Proofs about Daemon for every set of connections, sessions, windows,    *)
(* requests and every value of the limits: every state is well typed, the  *)
(* LRU list and the snapshot map always agree, snapshot ids are never      *)
(* reused, the baselines of persistent sessions only move forward, and the *)
(* eviction loop gives up the snapshot it has just stored only when every  *)
(* other stored snapshot is pinned and keeps the store within its limit.   *)
(*                                                                         *)
(* Most steps of the daemon do not touch the structures in question.  The  *)
(* lemmas NextStoreEffect and NextSessionEffect reduce a step to its       *)
(* effect on them; the invariants are then proved effect by effect.        *)
(***************************************************************************)
EXTENDS Daemon, TLAPS

\* Unless a leaf names Zenon it is one for SMT; the limit leaves a slow machine its time.
USE SMTT(60)

(***************************************************************************)
(* Facts about the operators the critical sections are built from.         *)
(***************************************************************************)

(* Storing a snapshot keeps the types of the store: the number given is a  *)
(* number of SnapIds and the counter stays above 0.                        *)
LEMMA StoreSnapshotType ==
    ASSUME NEW content \in Content, ServerStateTypeOK, StoreSnapshot(content)
    PROVE  /\ snap_counter \in SnapIds
           /\ snap_counter' \in Nat \ {NoSnap}
           /\ DOMAIN snaps' \subseteq SnapIds
           /\ snaps' \in [DOMAIN snaps' -> Content]
           /\ lru_order' \in Seq(SnapIds)
BY DEF ServerStateTypeOK, StoreSnapshot, NextNumber, NoSnap, Content

(* Taking an id out of a list leaves a list of ids. *)
LEMMA WithoutType ==
    ASSUME NEW list \in Seq(SnapIds), NEW s
    PROVE  Without(list, s) \in Seq(SnapIds)
<1> DEFINE i == CHOOSE k \in 1 .. Len(list) : list[k] = s
           n == IF Len(list) = 0 THEN 0 ELSE Len(list) - 1
<1>1. n \in Nat /\ 1 .. Len(list) - 1 = 1 .. n
  OBVIOUS
<1>2. \A k \in 1 .. n : k \in 1 .. Len(list) /\ k + 1 \in 1 .. Len(list)
  OBVIOUS
<1>3. \A k \in 1 .. n : (IF k < i THEN list[k] ELSE list[k + 1]) \in SnapIds
  BY <1>2
<1>4. Without(list, s) = [k \in 1 .. n |-> IF k < i THEN list[k] ELSE list[k + 1]]
  BY <1>1 DEF Without
<1>5. Without(list, s) \in [1 .. n -> SnapIds]
  BY <1>3, <1>4
<1> QED
  BY <1>1, <1>5

LEMMA EvictFrontType ==
    ASSUME ServerStateTypeOK, EvictFront
    PROVE  /\ snap_counter' \in Nat \ {NoSnap}
           /\ DOMAIN snaps' \subseteq SnapIds
           /\ snaps' \in [DOMAIN snaps' -> Content]
           /\ lru_order' \in Seq(SnapIds)
           /\ pinned_counts' \in [SnapIds -> Int]
BY LimitsAssumption DEF ServerStateTypeOK, EvictFront, OverLimit, Pinned

LEMMA RotateFrontType ==
    ASSUME ServerStateTypeOK, RotateFront
    PROVE  lru_order' \in Seq(SnapIds)
BY LimitsAssumption DEF ServerStateTypeOK, RotateFront, OverLimit, Pinned, Rotated

LEMMA WithSessionType ==
    ASSUME ServerStateTypeOK, NEW i \in Sessions, NEW ps \in PersistentSession
    PROVE  /\ DOMAIN WithSession(i, ps) \subseteq Sessions
           /\ WithSession(i, ps) \in [DOMAIN WithSession(i, ps) -> PersistentSession]
BY DEF ServerStateTypeOK, WithSession

LEMMA WithoutSessionsType ==
    ASSUME ServerStateTypeOK, NEW S
    PROVE  /\ DOMAIN WithoutSessions(S) \subseteq Sessions
           /\ WithoutSessions(S) \in [DOMAIN WithoutSessions(S) -> PersistentSession]
BY DEF ServerStateTypeOK, WithoutSessions

LEMMA DefaultSessionType == DefaultSession \in PersistentSession
BY DEF DefaultSession, PersistentSession, SnapRefs

(***************************************************************************)
(* Type correctness.                                                       *)
(***************************************************************************)

USE DEF shared, store, locals, control

LEMMA AdmitType ==
    ASSUME TypeOK, NEW c \in Conns, NEW r \in Requests,
           NEW cs \in ClientSession, Admit(c, r, cs)
    PROVE  TypeOK'
<1>1. r \in Request
  BY RequestsAssumption
<1>2. Bind(cs, r.session_id) \in ClientSession
  BY <1>1, ZenonT(60) DEF TypeOK, ServerStateTypeOK, Bind, ClientSession, Request,
              PersistentSession
<1>3. /\ DOMAIN sessions' \subseteq Sessions
      /\ sessions' \in [DOMAIN sessions' -> PersistentSession]
  BY <1>1, WithSessionType, DefaultSessionType
     DEF TypeOK, ServerStateTypeOK, Admit, OpenSession, Request
<1>4. EntryPoint(r.method) \in Steps
  BY DEF EntryPoint, Steps
<1>5. pc' \in [Conns -> Steps]
  BY <1>4 DEF TypeOK, HandlerTypeOK, Admit, Goto, Respond, Steps
<1>6. resp' \in [Conns -> Response]
  BY DEF TypeOK, HandlerTypeOK, Admit, Respond, Answer, Response, Statuses,
         SnapRefs
<1> QED
  BY <1>1, <1>2, <1>3, <1>5, <1>6, ZenonT(60)
     DEF TypeOK, ServerStateTypeOK, HandlerTypeOK, Admit, SnapRefs

LEMMA RefuseType ==
    ASSUME TypeOK, NEW c \in Conns, NEW r \in Request, NEW e \in Statuses,
           Refuse(c, r, e)
    PROVE  TypeOK'
BY DEF TypeOK, ServerStateTypeOK, HandlerTypeOK, Refuse, Respond, Goto, Answer,
       Response, SnapRefs, Steps

LEMMA NoRequestType == NoRequest \in Request
BY DEF NoRequest, Request, Methods, SnapRefs

LEMMA NewClientSessionType == NewClientSession \in ClientSession
BY DEF NewClientSession, ClientSession, SnapRefs

LEMMA CaptureForType ==
    ASSUME TypeOK, NEW c \in Conns, NEW here, NEW next \in Steps,
           CaptureFor(c, here, next)
    PROVE  TypeOK'
BY DEF TypeOK, ServerStateTypeOK, HandlerTypeOK, CaptureFor, Goto

LEMMA NextIterationType ==
    ASSUME HandlerTypeOK, NEW c \in Conns, NEW cs \in ClientSession,
           NEW p \in SnapRefs, NextIteration(c, cs, p),
           UNCHANGED <<config, world>>
    PROVE  HandlerTypeOK'
BY NoRequestType
   DEF HandlerTypeOK, NextIteration, Goto, Steps, NoResponse, Answer, Response,
       Statuses, SnapRefs, Content

LEMMA SubscribeType ==
    ASSUME TypeOK, NEW c \in Conns, Subscribe(c)
    PROVE  TypeOK'
<1>1. snap[c] \in Content /\ session[c] \in ClientSession
  BY DEF TypeOK, HandlerTypeOK
<1>2. /\ snap_counter \in SnapIds
      /\ snap_counter' \in Nat \ {NoSnap}
      /\ DOMAIN snaps' \subseteq SnapIds
      /\ snaps' \in [DOMAIN snaps' -> Content]
      /\ lru_order' \in Seq(SnapIds)
  BY <1>1, StoreSnapshotType DEF TypeOK, Subscribe
<1>3. [subscribed |-> TRUE, last_snap_id |-> snap_counter] \in PersistentSession
  BY <1>2 DEF PersistentSession, SnapRefs
<1>4. /\ DOMAIN sessions' \subseteq Sessions
      /\ sessions' \in [DOMAIN sessions' -> PersistentSession]
  <2>1. CASE session[c].id = NoSession
    BY <2>1 DEF TypeOK, ServerStateTypeOK, Subscribe
  <2>2. CASE session[c].id # NoSession
    BY <1>1, <1>3, <2>2, WithSessionType, ZenonT(60)
       DEF TypeOK, Subscribe, ClientSession
  <2> QED
    BY <2>1, <2>2
<1>5. session' \in [Conns -> ClientSession]
  BY <1>1, <1>2, ZenonT(60) DEF TypeOK, HandlerTypeOK, Subscribe, ClientSession, SnapRefs
<1>6. pc' \in [Conns -> Steps] /\ resp' \in [Conns -> Response]
  BY <1>2 DEF TypeOK, HandlerTypeOK, Subscribe, Respond, Goto, Steps, Response,
              Statuses, SnapRefs
<1> QED
  BY <1>2, <1>4, <1>5, <1>6, ZenonT(60)
     DEF TypeOK, ServerStateTypeOK, HandlerTypeOK, Subscribe

LEMMA UnsubscribeType ==
    ASSUME TypeOK, NEW c \in Conns, Unsubscribe(c)
    PROVE  TypeOK'
<1>1. session[c] \in ClientSession
  BY DEF TypeOK, HandlerTypeOK
<1>2. Unsubscribed(session[c]) \in ClientSession
  BY <1>1, ZenonT(60) DEF Unsubscribed, ClientSession, SnapRefs
<1>3. /\ DOMAIN sessions' \subseteq Sessions
      /\ sessions' \in [DOMAIN sessions' -> PersistentSession]
  <2>1. CASE session[c].id \notin DOMAIN sessions
    BY <2>1 DEF TypeOK, ServerStateTypeOK, Unsubscribe
  <2>2. CASE session[c].id \in DOMAIN sessions
    <3>1. sessions[session[c].id] \in PersistentSession
      BY <2>2 DEF TypeOK, ServerStateTypeOK
    <3>2. Unsubscribed(sessions[session[c].id]) \in PersistentSession
      BY <3>1, ZenonT(60) DEF Unsubscribed, PersistentSession, SnapRefs
    <3>3. session[c].id \in Sessions
      BY <2>2 DEF TypeOK, ServerStateTypeOK
    <3> QED
      BY <2>2, <3>2, <3>3, WithSessionType DEF TypeOK, Unsubscribe
  <2> QED
    BY <2>1, <2>2
<1>4. pc' \in [Conns -> Steps] /\ resp' \in [Conns -> Response]
  BY DEF TypeOK, HandlerTypeOK, Unsubscribe, Respond, Goto, Steps, Response,
         Statuses, SnapRefs, Answer
<1> QED
  BY <1>2, <1>3, <1>4, ZenonT(60)
     DEF TypeOK, ServerStateTypeOK, HandlerTypeOK, Unsubscribe

LEMMA TerminateType ==
    ASSUME TypeOK, NEW c \in Conns, Terminate(c)
    PROVE  TypeOK'
<1>1. session' \in [Conns -> ClientSession]
  BY DEF TypeOK, HandlerTypeOK, Terminate, ClientSession
<1>2. /\ DOMAIN sessions' \subseteq Sessions
      /\ sessions' \in [DOMAIN sessions' -> PersistentSession]
  BY WithoutSessionsType DEF TypeOK, Terminate
<1> QED
  BY <1>1, <1>2, ZenonT(60)
     DEF TypeOK, ServerStateTypeOK, HandlerTypeOK, Terminate, Goto, Steps

LEMMA StoreCapturedType ==
    ASSUME TypeOK, NEW c \in Conns, StoreCaptured(c)
    PROVE  TypeOK'
<1>1. snap[c] \in Content
  BY DEF TypeOK, HandlerTypeOK
<1>2. /\ snap_counter \in SnapIds
      /\ snap_counter' \in Nat \ {NoSnap}
      /\ DOMAIN snaps' \subseteq SnapIds
      /\ snaps' \in [DOMAIN snaps' -> Content]
      /\ lru_order' \in Seq(SnapIds)
  BY <1>1, StoreSnapshotType DEF TypeOK, StoreCaptured
<1>3. resp' \in [Conns -> Response]
  BY <1>2 DEF TypeOK, HandlerTypeOK, StoreCaptured, Response, Statuses, SnapRefs
<1> QED
  BY <1>2, <1>3
     DEF TypeOK, ServerStateTypeOK, HandlerTypeOK, StoreCaptured, Goto, Steps

LEMMA EvictStepType ==
    ASSUME TypeOK, NEW c \in Conns, EvictStep(c)
    PROVE  TypeOK'
<1>1. CASE EvictFront
  BY <1>1, EvictFrontType
     DEF TypeOK, ServerStateTypeOK, HandlerTypeOK, EvictStep
<1>2. CASE RotateFront
  BY <1>2, RotateFrontType
     DEF TypeOK, ServerStateTypeOK, HandlerTypeOK, EvictStep, RotateFront
<1> QED
  BY <1>1, <1>2 DEF EvictStep

LEMMA EvictDoneType ==
    ASSUME TypeOK, NEW c \in Conns, EvictDone(c)
    PROVE  TypeOK'
BY DEF TypeOK, ServerStateTypeOK, HandlerTypeOK, EvictDone, Goto, Steps

LEMMA LookupMissingType ==
    ASSUME TypeOK, NEW c \in Conns, LookupMissing(c)
    PROVE  TypeOK'
BY DEF TypeOK, ServerStateTypeOK, HandlerTypeOK, LookupMissing, Respond, Goto,
       Steps, Answer, Response, Statuses, SnapRefs

(* Copying and pinning a stored snapshot keeps every type but that of the  *)
(* LRU list, which the two transports treat differently.                   *)
LEMMA LookupFoundType ==
    ASSUME TypeOK, NEW c \in Conns, LookupFound(c), lru_order' \in Seq(SnapIds)
    PROVE  TypeOK'
<1>1. req[c].snapshot_id \in SnapIds
  BY DEF TypeOK, ServerStateTypeOK, LookupFound
<1>2. pinned_counts' \in [SnapIds -> Int]
  BY <1>1 DEF TypeOK, ServerStateTypeOK, LookupFound, PinSnapshot
<1>3. snap' \in [Conns -> Content]
  BY DEF TypeOK, ServerStateTypeOK, HandlerTypeOK, LookupFound, NamedSnapshot
<1> QED
  BY <1>1, <1>2, <1>3
     DEF TypeOK, ServerStateTypeOK, HandlerTypeOK, LookupFound, Goto, Steps,
         SnapRefs

LEMMA FindOldType ==
    ASSUME TypeOK, NEW c \in Conns, FindOld(c)
    PROVE  TypeOK'
<1>1. old' \in [Conns -> {Null} \cup Content]
  BY DEF TypeOK, ServerStateTypeOK, HandlerTypeOK, FindOld
<1> QED
  BY <1>1 DEF TypeOK, ServerStateTypeOK, HandlerTypeOK, FindOld, Goto, Steps

LEMMA CoreType ==
    ASSUME TypeOK, NEW c \in Conns,
           CoreAnswers(c) \/ CoreTimesOut(c) \/ CoreDrains(c)
    PROVE  TypeOK'
<1>1. \A m \in Methods : \A o : CoreStatus(m, o) \subseteq Statuses
  BY DEF CoreStatus, Statuses
<1>2. CASE CoreAnswers(c)
  <2>1. req[c].method \in Methods
    BY DEF TypeOK, HandlerTypeOK, Request
  <2>2. PICK s \in CoreStatus(req[c].method, old[c]) :
          /\ resp' = [resp EXCEPT ![c] = Answer(s)]
          /\ Goto(c, IF req[c].method = "events.poll" /\ s = "ok"
                     THEN "rebase" ELSE "send")
    BY <1>2, ZenonT(60) DEF CoreAnswers
  <2>3. Answer(s) \in Response
    BY <1>1, <2>1, <2>2 DEF Answer, Response, SnapRefs
  <2> QED
    BY <1>2, <2>2, <2>3
       DEF TypeOK, ServerStateTypeOK, HandlerTypeOK, CoreAnswers, Goto, Steps
<1>3. CASE CoreTimesOut(c)
  BY <1>3 DEF TypeOK, ServerStateTypeOK, HandlerTypeOK, CoreTimesOut, Goto,
              Steps, Answer, Response, Statuses, SnapRefs
<1>4. CASE CoreDrains(c)
  BY <1>4 DEF TypeOK, ServerStateTypeOK, HandlerTypeOK, CoreDrains, Goto, Steps
<1> QED
  BY <1>2, <1>3, <1>4

LEMMA RebaseType ==
    ASSUME TypeOK, NEW c \in Conns, Rebase(c)
    PROVE  TypeOK'
<1>1. snap[c] \in Content /\ session[c] \in ClientSession
  BY DEF TypeOK, HandlerTypeOK
<1>2. /\ snap_counter \in SnapIds
      /\ snap_counter' \in Nat \ {NoSnap}
      /\ DOMAIN snaps' \subseteq SnapIds
      /\ snaps' \in [DOMAIN snaps' -> Content]
      /\ lru_order' \in Seq(SnapIds)
  BY <1>1, StoreSnapshotType DEF TypeOK, Rebase
<1>3. SessionAt(session[c].id) \in PersistentSession
  BY DefaultSessionType DEF TypeOK, ServerStateTypeOK, SessionAt
<1>4. [SessionAt(session[c].id) EXCEPT !.last_snap_id = NewBaseline(c)]
         \in PersistentSession
  BY <1>2, <1>3 DEF PersistentSession, SnapRefs, NewBaseline
<1>5. /\ DOMAIN sessions' \subseteq Sessions
      /\ sessions' \in [DOMAIN sessions' -> PersistentSession]
  <2>1. CASE session[c].id = NoSession
    BY <2>1 DEF TypeOK, ServerStateTypeOK, Rebase
  <2>2. CASE session[c].id # NoSession
    BY <1>1, <1>4, <2>2, WithSessionType DEF TypeOK, Rebase, ClientSession
  <2> QED
    BY <2>1, <2>2
<1>6. session' \in [Conns -> ClientSession]
  BY <1>1, <1>2
     DEF TypeOK, HandlerTypeOK, Rebase, ClientSession, SnapRefs, NewBaseline
<1> QED
  BY <1>2, <1>5, <1>6, ZenonT(60)
     DEF TypeOK, ServerStateTypeOK, HandlerTypeOK, Rebase, Goto, Steps

LEMMA SendPinnedType ==
    ASSUME TypeOK, NEW c \in Conns, SendPinned(c)
    PROVE  TypeOK'
BY DEF TypeOK, ServerStateTypeOK, HandlerTypeOK, SendPinned, Goto, Steps

LEMMA SendUnpinnedType ==
    ASSUME TypeOK, NEW c \in Conns, NEW cs \in ClientSession,
           SendUnpinned(c, cs)
    PROVE  TypeOK'
BY NextIterationType
   DEF TypeOK, ServerStateTypeOK, SendUnpinned, SnapRefs

LEMMA UnpinSnapshotType ==
    ASSUME ServerStateTypeOK, NEW s \in SnapRefs, UnpinSnapshot(s)
    PROVE  pinned_counts' \in [SnapIds -> Int]
<1>1. CASE s \in SnapIds
  BY <1>1 DEF ServerStateTypeOK, UnpinSnapshot
<1>2. CASE s \notin SnapIds
  BY <1>2, ZenonT(60) DEF ServerStateTypeOK, UnpinSnapshot
<1> QED
  BY <1>1, <1>2

LEMMA UnpinType ==
    ASSUME TypeOK, NEW c \in Conns, NEW cs \in ClientSession,
           NEW p \in SnapRefs, Unpin(c, cs, p)
    PROVE  TypeOK'
<1>1. pinned_sid[c] \in SnapRefs
  BY DEF TypeOK, HandlerTypeOK
<1>2. pinned_counts' \in [SnapIds -> Int]
  BY <1>1, UnpinSnapshotType DEF TypeOK, Unpin
<1>3. HandlerTypeOK'
  BY NextIterationType DEF TypeOK, Unpin
<1> QED
  BY <1>2, <1>3 DEF TypeOK, ServerStateTypeOK, Unpin

LEMMA ServeStepType ==
    ASSUME TypeOK, NEW c \in Conns, ServeStep(c)
    PROVE  TypeOK'
<1>1. {"subscribing", "store", "old", "rebasing"} \subseteq Steps
  BY DEF Steps
<1>2. CASE \/ SubscribeCapture(c) \/ CaptureSnapshot(c)
           \/ CaptureCurrent(c) \/ RebaseCapture(c)
  BY <1>1, <1>2, CaptureForType
     DEF SubscribeCapture, CaptureSnapshot, CaptureCurrent, RebaseCapture
<1> QED
  BY <1>2, SubscribeType, UnsubscribeType, TerminateType, StoreCapturedType,
     EvictStepType, EvictDoneType, LookupMissingType, FindOldType, CoreType,
     RebaseType, SendPinnedType
     DEF ServeStep

LEMMA PipeNextType ==
    ASSUME TypeOK, NEW c \in PipeConns, PipeNext(c)
    PROVE  TypeOK'
<1>0. /\ c \in Conns
      /\ session[c] \in ClientSession
      /\ pinned_sid[c] \in SnapRefs
  BY DEF TypeOK, HandlerTypeOK, Conns
<1>1. CASE PipeAccept(c)
  BY <1>0, <1>1
     DEF TypeOK, ServerStateTypeOK, HandlerTypeOK, PipeAccept, Goto, Steps
<1>2. CASE PipeStart(c)
  BY <1>0, <1>2, NewClientSessionType
     DEF TypeOK, ServerStateTypeOK, HandlerTypeOK, PipeStart, Goto, Steps,
         SnapRefs
<1>3. ASSUME NEW r \in Requests, PipeUnauthorized(c, r)
      PROVE  TypeOK'
  BY <1>0, <1>3, RefuseType, RequestsAssumption DEF PipeUnauthorized, Statuses
<1>4. ASSUME NEW r \in Requests, PipeReceive(c, r)
      PROVE  TypeOK'
  BY <1>0, <1>4, AdmitType DEF PipeReceive
<1>5. CASE Malformed(c)
  BY <1>0, <1>5, RefuseType, NoRequestType DEF Malformed, Statuses
<1>6. CASE ServeStep(c)
  BY <1>0, <1>6, ServeStepType
<1>7. CASE PipeLookupFound(c)
  <2>1. /\ lru_order \in Seq(SnapIds)
        /\ req[c].snapshot_id \in SnapIds
    BY <1>7 DEF TypeOK, ServerStateTypeOK, PipeLookupFound, LookupFound
  <2>2. Without(lru_order, req[c].snapshot_id) \in Seq(SnapIds)
    BY <2>1, WithoutType
  <2> QED
    BY <1>0, <1>7, <2>1, <2>2, LookupFoundType DEF PipeLookupFound, TouchSnapshot
<1>8. CASE PipeSend(c)
  BY <1>0, <1>8, SendUnpinnedType DEF PipeSend
<1>9. CASE PipeUnpin(c)
  BY <1>0, <1>9, UnpinType DEF PipeUnpin
<1>10. CASE PipeDisconnect(c)
  <2>1. pinned_counts' \in [SnapIds -> Int]
    BY <1>0, <1>10, UnpinSnapshotType
       DEF TypeOK, ServerStateTypeOK, PipeDisconnect
  <2> QED
    BY <1>0, <1>10, <2>1, NewClientSessionType
       DEF TypeOK, ServerStateTypeOK, HandlerTypeOK, PipeDisconnect, ConnGuard,
           Goto, Steps, SnapRefs
<1> QED
  BY <1>1, <1>2, <1>3, <1>4, <1>5, <1>6, <1>7, <1>8, <1>9, <1>10
     DEF PipeNext, PipeServe

LEMMA TcpNextType ==
    ASSUME TypeOK, NEW c \in TcpConns, TcpNext(c)
    PROVE  TypeOK'
<1>0. c \in Conns
  BY DEF Conns
<1>1. CASE TcpAccept(c) \/ TcpDisconnect(c)
  BY <1>0, <1>1
     DEF TypeOK, ServerStateTypeOK, HandlerTypeOK, TcpAccept, TcpDisconnect,
         Goto, Steps
<1>2. ASSUME NEW r \in Requests, TcpTooManySessions(c, r)
      PROVE  TypeOK'
  BY <1>0, <1>2, RefuseType, RequestsAssumption DEF TcpTooManySessions, Statuses
<1>3. ASSUME NEW r \in Requests, TcpReceive(c, r)
      PROVE  TypeOK'
  BY <1>0, <1>3, AdmitType, NewClientSessionType DEF TcpReceive
<1>4. CASE Malformed(c)
  BY <1>0, <1>4, RefuseType, NoRequestType DEF Malformed, Statuses
<1>5. CASE ServeStep(c)
  BY <1>0, <1>5, ServeStepType
<1>6. CASE TcpLookupFound(c)
  BY <1>0, <1>6, LookupFoundType DEF TcpLookupFound, TypeOK, ServerStateTypeOK
<1>7. CASE TcpSend(c)
  BY <1>0, <1>7, SendUnpinnedType, NewClientSessionType DEF TcpSend
<1>8. CASE TcpUnpin(c)
  BY <1>0, <1>8, UnpinType, NewClientSessionType DEF TcpUnpin, SnapRefs
<1> QED
  BY <1>1, <1>2, <1>3, <1>4, <1>5, <1>6, <1>7, <1>8 DEF TcpNext, TcpServe

(* Every step of the daemon keeps the types. *)
LEMMA NextType == TypeOK /\ [Next]_vars => TypeOK'
<1> SUFFICES ASSUME TypeOK, [Next]_vars PROVE TypeOK'
  OBVIOUS
<1>1. CASE Cleanup
  BY <1>1, WithoutSessionsType
     DEF TypeOK, ServerStateTypeOK, HandlerTypeOK, Cleanup, CleanupSessions
<1>2. CASE ChangeWorld
  BY <1>2 DEF TypeOK, ServerStateTypeOK, HandlerTypeOK, ChangeWorld, Content
<1>3. CASE UNCHANGED vars
  BY <1>3 DEF TypeOK, ServerStateTypeOK, HandlerTypeOK, vars
<1> QED
  BY <1>1, <1>2, <1>3, PipeNextType, TcpNextType DEF Next

LEMMA InitType == Init => TypeOK
<1> SUFFICES ASSUME Init PROVE TypeOK
  OBVIOUS
<1>1. ServerStateTypeOK
  BY DEF Init, ServerStateInit, ServerStateTypeOK, FirstNumber, NoSnap
<1>2. HandlerTypeOK
  BY NoRequestType, NewClientSessionType, ConfigsAssumption
     DEF Init, HandlerInit, HandlerTypeOK, Steps, SnapRefs, Content,
         NoResponse, Answer, Response, Statuses
<1> QED
  BY <1>1, <1>2 DEF TypeOK

(* Type correctness of the daemon. *)
THEOREM TypeCorrect == Spec => []TypeOK
BY InitType, NextType, PTL DEF Spec

(***************************************************************************)
(* Lists without repetition.                                               *)
(***************************************************************************)
Elems(list) == {list[k] : k \in 1 .. Len(list)}

Distinct(list) ==
    \A j, k \in 1 .. Len(list) : list[j] = list[k] => j = k

LEMMA AppendElems ==
    ASSUME NEW S, NEW list \in Seq(S), NEW e \in S, Distinct(list),
           e \notin Elems(list)
    PROVE  /\ Elems(Append(list, e)) = Elems(list) \cup {e}
           /\ Distinct(Append(list, e))
<1> DEFINE l == Append(list, e)
<1>1. /\ Len(l) = Len(list) + 1
      /\ \A k \in 1 .. Len(list) : l[k] = list[k]
      /\ l[Len(list) + 1] = e
      /\ Len(list) \in Nat
  OBVIOUS
<1> HIDE DEF l
<1>2. \A k \in 1 .. Len(l) : k \in 1 .. Len(list) \/ k = Len(list) + 1
  BY <1>1
<1>3. \A k \in 1 .. Len(list) : k \in 1 .. Len(l)
  BY <1>1
<1>4. Len(list) + 1 \in 1 .. Len(l)
  BY <1>1
<1>5. Elems(l) = Elems(list) \cup {e}
  <2>1. ASSUME NEW x \in Elems(l) PROVE x \in Elems(list) \cup {e}
    BY <1>1, <1>2 DEF Elems
  <2>2. ASSUME NEW x \in Elems(list) PROVE x \in Elems(l)
    BY <1>1, <1>3 DEF Elems
  <2>3. e \in Elems(l)
    BY <1>1, <1>4 DEF Elems
  <2> QED
    BY <2>1, <2>2, <2>3
<1>6. Distinct(l)
  BY <1>1, <1>2 DEF Distinct, Elems
<1> QED
  BY <1>5, <1>6 DEF l

LEMMA TailElems ==
    ASSUME NEW S, NEW list \in Seq(S), Len(list) > 0, Distinct(list)
    PROVE  /\ Head(list) \in Elems(list)
           /\ Elems(Tail(list)) = Elems(list) \ {Head(list)}
           /\ Distinct(Tail(list))
<1> DEFINE l == Tail(list)
<1>1. /\ Len(l) = Len(list) - 1
      /\ \A k \in 1 .. Len(l) : l[k] = list[k + 1]
      /\ Head(list) = list[1]
      /\ Len(list) \in Nat /\ 1 \in 1 .. Len(list)
  OBVIOUS
<1> HIDE DEF l
<1>2. \A k \in 1 .. Len(l) : k + 1 \in 1 .. Len(list) /\ k + 1 # 1
  BY <1>1
<1>3. \A k \in 1 .. Len(list) : k # 1 => k - 1 \in 1 .. Len(l) /\ (k - 1) + 1 = k
  BY <1>1
<1>4. Elems(l) = Elems(list) \ {Head(list)}
  <2>1. ASSUME NEW x \in Elems(l) PROVE x \in Elems(list) /\ x # Head(list)
    BY <1>1, <1>2 DEF Elems, Distinct
  <2>2. ASSUME NEW x \in Elems(list), x # Head(list) PROVE x \in Elems(l)
    <3>1. PICK k \in 1 .. Len(list) : x = list[k]
      BY DEF Elems
    <3>2. k # 1
      BY <1>1, <2>2, <3>1
    <3>3. l[k - 1] = list[k]
      BY <1>1, <1>3, <3>2
    <3> QED
      BY <1>3, <3>1, <3>2, <3>3 DEF Elems
  <2> QED
    BY <2>1, <2>2
<1>5. Distinct(l)
  BY <1>1, <1>2 DEF Distinct
<1>6. Head(list) \in Elems(list)
  BY <1>1 DEF Elems
<1> QED
  BY <1>4, <1>5, <1>6 DEF l

LEMMA WithoutElems ==
    ASSUME NEW list \in Seq(SnapIds), Distinct(list), NEW s \in Elems(list)
    PROVE  /\ Elems(Without(list, s)) = Elems(list) \ {s}
           /\ Distinct(Without(list, s))
<1> DEFINE i == CHOOSE k \in 1 .. Len(list) : list[k] = s
           l == Without(list, s)
<1>1. i \in 1 .. Len(list) /\ list[i] = s
  BY DEF Elems
<1> HIDE DEF i
<1>2. Len(list) \in Nat
  OBVIOUS
<1>3. l = [k \in 1 .. Len(list) - 1 |-> IF k < i THEN list[k] ELSE list[k + 1]]
  BY DEF Without, i
<1>4. Len(l) = Len(list) - 1
  BY <1>1, <1>2, <1>3
<1> DEFINE from(k) == IF k < i THEN k ELSE k + 1
<1>5. \A k \in 1 .. Len(l) : /\ from(k) \in 1 .. Len(list)
                            /\ from(k) # i
                            /\ l[k] = list[from(k)]
  BY <1>1, <1>2, <1>3, <1>4
<1>6. \A j, k \in 1 .. Len(l) : from(j) = from(k) => j = k
  BY <1>1, <1>2, <1>4
<1>7. \A k \in 1 .. Len(list) : k # i => \E j \in 1 .. Len(l) : from(j) = k
  <2> SUFFICES ASSUME NEW k \in 1 .. Len(list), k # i
               PROVE  \E j \in 1 .. Len(l) : from(j) = k
    OBVIOUS
  <2>1. CASE k < i
    BY <1>1, <1>2, <1>4, <2>1
  <2>2. CASE ~(k < i)
    <3>1. k - 1 \in 1 .. Len(l) /\ from(k - 1) = k
      BY <1>1, <1>2, <1>4, <2>2
    <3> QED
      BY <3>1
  <2> QED
    BY <2>1, <2>2
<1> HIDE DEF l, from
<1>8. Elems(l) = Elems(list) \ {s}
  <2>1. ASSUME NEW x \in Elems(l) PROVE x \in Elems(list) /\ x # s
    <3>1. PICK k \in 1 .. Len(l) : x = l[k]
      BY DEF Elems
    <3> QED
      BY <1>1, <1>5, <3>1 DEF Elems, Distinct
  <2>2. ASSUME NEW x \in Elems(list), x # s PROVE x \in Elems(l)
    <3>1. PICK k \in 1 .. Len(list) : x = list[k]
      BY DEF Elems
    <3>2. PICK j \in 1 .. Len(l) : from(j) = k
      BY <1>1, <1>7, <2>2, <3>1
    <3> QED
      BY <1>5, <3>1, <3>2 DEF Elems
  <2> QED
    BY <2>1, <2>2
<1>9. Distinct(l)
  BY <1>5, <1>6 DEF Distinct
<1> QED
  BY <1>8, <1>9 DEF l

(***************************************************************************)
(* The snapshot store.                                                     *)
(***************************************************************************)

USE DEF shared, store, locals, control

(* All a step of the daemon can do to the numbers, the map and the list. *)
StoreEffect ==
    \/ UNCHANGED <<snap_counter, snaps, lru_order>>
    \/ \E x \in Content : StoreSnapshot(x)
    \/ /\ UNCHANGED <<snap_counter, snaps>>
       /\ \E s \in DOMAIN snaps : TouchSnapshot(s)
    \/ RotateFront
    \/ EvictFront

LEMMA ServeStepStoreEffect ==
    ASSUME TypeOK, NEW c \in Conns, ServeStep(c)
    PROVE  StoreEffect
<1>1. snap[c] \in Content
  BY DEF TypeOK, HandlerTypeOK
<1>2. CASE Subscribe(c) \/ StoreCaptured(c) \/ Rebase(c)
  BY <1>1, <1>2 DEF Subscribe, StoreCaptured, Rebase, StoreEffect
<1>3. CASE EvictStep(c)
  BY <1>3 DEF EvictStep, StoreEffect
<1>4. CASE \/ SubscribeCapture(c) \/ CaptureSnapshot(c)
           \/ CaptureCurrent(c) \/ RebaseCapture(c)
  BY <1>4, ZenonT(60) DEF SubscribeCapture, CaptureSnapshot, CaptureCurrent, RebaseCapture,
              CaptureFor, StoreEffect
<1>5. CASE \/ Unsubscribe(c) \/ Terminate(c) \/ EvictDone(c)
           \/ LookupMissing(c) \/ FindOld(c) \/ CoreAnswers(c)
           \/ CoreTimesOut(c) \/ CoreDrains(c) \/ SendPinned(c)
  BY <1>5, ZenonT(60) DEF Unsubscribe, Terminate, EvictDone, LookupMissing, FindOld,
              CoreAnswers, CoreTimesOut, CoreDrains, SendPinned, StoreEffect
<1> QED
  BY <1>2, <1>3, <1>4, <1>5 DEF ServeStep

LEMMA NextStoreEffect ==
    ASSUME TypeOK, [Next]_vars
    PROVE  StoreEffect
<1>1. ASSUME NEW c \in PipeConns, PipeNext(c) PROVE StoreEffect
  <2>1. CASE ServeStep(c)
    BY <2>1, ServeStepStoreEffect DEF Conns
  <2>2. CASE PipeLookupFound(c)
    BY <2>2, ZenonT(60) DEF PipeLookupFound, LookupFound, StoreEffect
  <2>3. CASE PipeSend(c) \/ PipeUnpin(c)
    BY <2>3, ZenonT(60) DEF PipeSend, PipeUnpin, SendUnpinned, Unpin, StoreEffect
  <2>4. CASE \E r \in Requests : PipeUnauthorized(c, r) \/ PipeReceive(c, r)
    BY <2>4 DEF PipeUnauthorized, PipeReceive, Refuse, Admit, StoreEffect
  <2>5. CASE \/ PipeAccept(c) \/ PipeStart(c) \/ Malformed(c)
             \/ PipeDisconnect(c)
    BY <2>5, ZenonT(60) DEF PipeAccept, PipeStart, Malformed, Refuse, PipeDisconnect,
                StoreEffect
  <2> QED
    BY <1>1, <2>1, <2>2, <2>3, <2>4, <2>5 DEF PipeNext, PipeServe
<1>2. ASSUME NEW c \in TcpConns, TcpNext(c) PROVE StoreEffect
  <2>1. CASE ServeStep(c)
    BY <2>1, ServeStepStoreEffect DEF Conns
  <2>2. CASE TcpLookupFound(c)
    BY <2>2, ZenonT(60) DEF TcpLookupFound, LookupFound, StoreEffect
  <2>3. CASE TcpSend(c) \/ TcpUnpin(c)
    BY <2>3, ZenonT(60) DEF TcpSend, TcpUnpin, SendUnpinned, Unpin, StoreEffect
  <2>4. CASE \E r \in Requests : TcpTooManySessions(c, r) \/ TcpReceive(c, r)
    BY <2>4 DEF TcpTooManySessions, TcpReceive, Refuse, Admit, StoreEffect
  <2>5. CASE TcpAccept(c) \/ Malformed(c) \/ TcpDisconnect(c)
    BY <2>5 DEF TcpAccept, Malformed, Refuse, TcpDisconnect, StoreEffect
  <2> QED
    BY <1>2, <2>1, <2>2, <2>3, <2>4, <2>5 DEF TcpNext, TcpServe
<1>3. CASE Cleanup
  BY <1>3, ZenonT(60) DEF Cleanup, CleanupSessions, StoreEffect
<1>4. CASE ChangeWorld
  BY <1>4 DEF ChangeWorld, StoreEffect
<1>5. CASE UNCHANGED vars
  BY <1>5 DEF vars, StoreEffect
<1> QED
  BY <1>1, <1>2, <1>3, <1>4, <1>5 DEF Next

(* LruEnumeratesStore is preserved by storing a snapshot only because the  *)
(* number it gets is new: every stored number is below the counter.        *)
StoreInv ==
    /\ LruEnumeratesStore
    /\ \A s \in DOMAIN snaps : s < snap_counter

LEMMA StoreInvElems ==
    ASSUME StoreInv
    PROVE  Elems(lru_order) = DOMAIN snaps /\ Distinct(lru_order)
BY DEF StoreInv, LruEnumeratesStore, Elems, Distinct

LEMMA StoreInvPreserved ==
    ASSUME TypeOK, StoreInv, StoreEffect
    PROVE  StoreInv'
<1>1. Elems(lru_order) = DOMAIN snaps /\ Distinct(lru_order)
  BY StoreInvElems
<1>2. /\ lru_order \in Seq(SnapIds) /\ snap_counter \in Nat
      /\ DOMAIN snaps \subseteq SnapIds /\ SnapIds \subseteq Nat
  BY SnapIdsAssumption DEF TypeOK, ServerStateTypeOK
<1>a. SUFFICES /\ Elems(lru_order') = DOMAIN snaps' /\ Distinct(lru_order')
               /\ \A s \in DOMAIN snaps' : s < snap_counter'
  BY <1>a DEF StoreInv, LruEnumeratesStore, Elems, Distinct
<1>3. CASE UNCHANGED <<snap_counter, snaps, lru_order>>
  BY <1>1, <1>3 DEF StoreInv
<1>4. ASSUME NEW x \in Content, StoreSnapshot(x)
      PROVE  /\ Elems(lru_order') = DOMAIN snaps' /\ Distinct(lru_order')
             /\ \A s \in DOMAIN snaps' : s < snap_counter'
  <2>1. /\ snap_counter \in SnapIds
        /\ lru_order' = Append(lru_order, snap_counter)
        /\ DOMAIN snaps' = DOMAIN snaps \cup {snap_counter}
        /\ snap_counter' = snap_counter + 1
    BY <1>4 DEF StoreSnapshot, NextNumber
  <2>2. snap_counter \notin Elems(lru_order)
    BY <1>1, <1>2 DEF StoreInv
  <2>3. Elems(lru_order') = DOMAIN snaps' /\ Distinct(lru_order')
    BY <1>1, <1>2, <2>1, <2>2, AppendElems
  <2>4. \A s \in DOMAIN snaps' : s < snap_counter'
    <3>1. \A s \in DOMAIN snaps : s \in Nat /\ s < snap_counter
      BY <1>2 DEF StoreInv
    <3>2. \A s \in DOMAIN snaps' : s \in DOMAIN snaps \/ s = snap_counter
      BY <2>1
    <3> QED
      BY <1>2, <2>1, <3>1, <3>2
  <2> QED
    BY <2>3, <2>4
<1>5. ASSUME UNCHANGED <<snap_counter, snaps>>,
             NEW s \in DOMAIN snaps, TouchSnapshot(s)
      PROVE  /\ Elems(lru_order') = DOMAIN snaps' /\ Distinct(lru_order')
             /\ \A t \in DOMAIN snaps' : t < snap_counter'
  <2> DEFINE l == Without(lru_order, s)
  <2>1. Elems(l) = DOMAIN snaps \ {s} /\ Distinct(l) /\ l \in Seq(SnapIds)
    BY <1>1, <1>2, WithoutElems, WithoutType
  <2>2. lru_order' = Append(l, s)
    BY <1>5 DEF TouchSnapshot
  <2> HIDE DEF l
  <2>3. s \in SnapIds /\ s \notin Elems(l)
    BY <1>2, <2>1
  <2>4. Elems(lru_order') = Elems(l) \cup {s} /\ Distinct(lru_order')
    BY <2>1, <2>2, <2>3, AppendElems
  <2> QED
    BY <1>5, <2>1, <2>4, ZenonT(60) DEF StoreInv
<1>6. CASE RotateFront
  <2> DEFINE l == Tail(lru_order)
             h == Head(lru_order)
  <2>1. Len(lru_order) > 0
    BY <1>2, <1>6, LimitsAssumption DEF RotateFront, OverLimit
  <2>2. /\ h \in Elems(lru_order)
        /\ Elems(l) = Elems(lru_order) \ {h} /\ Distinct(l)
    BY <1>1, <1>2, <2>1, TailElems
  <2>3. lru_order' = Append(l, h) /\ UNCHANGED <<snap_counter, snaps>>
    BY <1>6 DEF RotateFront, Rotated
  <2>4. l \in Seq(SnapIds) /\ h \in SnapIds
    BY <1>1, <1>2, <2>1, <2>2
  <2> HIDE DEF l, h
  <2>5. h \notin Elems(l)
    BY <2>2
  <2>6. Elems(lru_order') = Elems(l) \cup {h} /\ Distinct(lru_order')
    BY <2>2, <2>3, <2>4, <2>5, AppendElems
  <2> QED
    BY <1>1, <2>2, <2>3, <2>6, ZenonT(60) DEF StoreInv
<1>7. CASE EvictFront
  <2>1. Len(lru_order) > 0
    BY <1>2, <1>7, LimitsAssumption DEF EvictFront, OverLimit
  <2>2. /\ Elems(Tail(lru_order)) = Elems(lru_order) \ {Head(lru_order)}
        /\ Distinct(Tail(lru_order))
    BY <1>1, <1>2, <2>1, TailElems
  <2>3. /\ lru_order' = Tail(lru_order)
        /\ DOMAIN snaps' = DOMAIN snaps \ {Head(lru_order)}
        /\ snap_counter' = snap_counter
    BY <1>7 DEF EvictFront
  <2> QED
    BY <1>1, <2>2, <2>3 DEF StoreInv
<1> QED
  BY <1>3, <1>4, <1>5, <1>6, <1>7 DEF StoreEffect

(* The LRU list names every stored snapshot exactly once, at all times. *)
THEOREM LruAgreesWithStore == Spec => []LruEnumeratesStore
<1>1. Init => StoreInv
  BY DEF Init, ServerStateInit, StoreInv, LruEnumeratesStore
<1>2. TypeOK /\ StoreInv /\ [Next]_vars => StoreInv'
  BY NextStoreEffect, StoreInvPreserved
<1>3. StoreInv => LruEnumeratesStore
  BY DEF StoreInv
<1> QED
  BY <1>1, <1>2, <1>3, TypeCorrect, PTL DEF Spec

(* What is stored under a number never changes and a number is stored for  *)
(* the first time when it is given out.                                    *)
THEOREM IdsNeverReused == Spec => SnapshotIdsNeverReused
<1> DEFINE Kept == \A s \in DOMAIN snaps' :
                      IF s \in DOMAIN snaps THEN snaps'[s] = snaps[s]
                      ELSE s >= snap_counter /\ s < snap_counter'
<1>1. ASSUME TypeOK, StoreEffect PROVE Kept
  <2>1. snap_counter \in Nat
    BY <1>1 DEF TypeOK, ServerStateTypeOK
  <2>2. CASE \E x \in Content : StoreSnapshot(x)
    BY <2>1, <2>2 DEF StoreSnapshot, NextNumber
  <2>3. CASE UNCHANGED snaps
    BY <2>3
  <2>4. CASE EvictFront
    BY <2>4 DEF EvictFront
  <2> QED
    BY <1>1, <2>2, <2>3, <2>4 DEF StoreEffect, RotateFront
<1>2. TypeOK /\ [Next]_vars => [Kept]_vars
  BY <1>1, NextStoreEffect
<1> QED
  BY <1>2, TypeCorrect, PTL DEF Spec, SnapshotIdsNeverReused

(***************************************************************************)
(* Persistent sessions.                                                    *)
(***************************************************************************)

(* All a step of the daemon can do to the sessions: nothing, open one, put *)
(* a new snapshot down as the baseline of one, unsubscribe one, or drop    *)
(* some.                                                                   *)
SessionEffect ==
    \/ UNCHANGED sessions
    \/ \E i \in Sessions \ DOMAIN sessions :
          sessions' = WithSession(i, DefaultSession)
    \/ /\ snap_counter' = snap_counter + 1
       /\ \E i \in Sessions, b \in BOOLEAN :
             sessions' = WithSession(i, [last_snap_id |-> snap_counter,
                                         subscribed |-> b])
    \/ \E i \in DOMAIN sessions :
          sessions' = WithSession(i, Unsubscribed(sessions[i]))
    \/ \E S : sessions' = WithoutSessions(S)

LEMMA ServeStepSessionEffect ==
    ASSUME TypeOK, NEW c \in Conns, ServeStep(c)
    PROVE  SessionEffect
<1>1. session[c].id \in Sessions \cup {NoSession}
  BY DEF TypeOK, HandlerTypeOK, ClientSession
<1>2. CASE Subscribe(c)
  <2>1. CASE session[c].id = NoSession
    BY <1>2, <2>1 DEF Subscribe, SessionEffect
  <2>2. CASE session[c].id # NoSession
    <3>1. /\ snap_counter' = snap_counter + 1
          /\ session[c].id \in Sessions
          /\ sessions' = WithSession(session[c].id,
                                     [last_snap_id |-> snap_counter,
                                      subscribed |-> TRUE])
      BY <1>1, <1>2, <2>2 DEF Subscribe, StoreSnapshot, NextNumber
    <3> QED
      BY <3>1, ZenonT(60) DEF SessionEffect
  <2> QED
    BY <2>1, <2>2
<1>3. CASE Rebase(c)
  <2>1. CASE session[c].id = NoSession
    BY <1>3, <2>1 DEF Rebase, SessionEffect
  <2>2. CASE session[c].id # NoSession
    <3> DEFINE ps == SessionAt(session[c].id)
    <3>1. ps \in PersistentSession
      BY DefaultSessionType DEF TypeOK, ServerStateTypeOK, SessionAt
    <3>2. [ps EXCEPT !.last_snap_id = snap_counter] =
             [last_snap_id |-> snap_counter, subscribed |-> ps.subscribed]
      BY <3>1 DEF PersistentSession
    <3>3. ps.subscribed \in BOOLEAN
      BY <3>1 DEF PersistentSession
    <3>4. /\ snap_counter' = snap_counter + 1
          /\ session[c].id \in Sessions
          /\ sessions' = WithSession(session[c].id,
                             [ps EXCEPT !.last_snap_id = snap_counter])
      BY <1>1, <1>3, <2>2 DEF Rebase, StoreSnapshot, NextNumber, NewBaseline
    <3> HIDE DEF ps
    <3> QED
      BY <3>2, <3>3, <3>4 DEF SessionEffect
  <2> QED
    BY <2>1, <2>2
<1>4. CASE Unsubscribe(c)
  BY <1>4, ZenonT(60) DEF Unsubscribe, SessionEffect
<1>5. CASE Terminate(c)
  BY <1>5 DEF Terminate, SessionEffect
<1>6. CASE \/ SubscribeCapture(c) \/ CaptureSnapshot(c)
           \/ CaptureCurrent(c) \/ RebaseCapture(c)
  BY <1>6, ZenonT(60) DEF SubscribeCapture, CaptureSnapshot, CaptureCurrent, RebaseCapture,
              CaptureFor, SessionEffect
<1>7. CASE \/ StoreCaptured(c) \/ EvictStep(c) \/ EvictDone(c)
           \/ LookupMissing(c) \/ FindOld(c) \/ CoreAnswers(c)
           \/ CoreTimesOut(c) \/ CoreDrains(c) \/ SendPinned(c)
  BY <1>7, ZenonT(60) DEF StoreCaptured, EvictStep, EvictDone, LookupMissing, FindOld,
              CoreAnswers, CoreTimesOut, CoreDrains, SendPinned, SessionEffect
<1> QED
  BY <1>2, <1>3, <1>4, <1>5, <1>6, <1>7 DEF ServeStep

LEMMA AdmitSessionEffect ==
    ASSUME NEW c \in Conns, NEW r \in Requests, NEW cs, Admit(c, r, cs)
    PROVE  SessionEffect
<1>1. r.session_id \in Sessions \cup {NoSession}
  BY RequestsAssumption DEF Request
<1> QED
  BY <1>1, ZenonT(60) DEF Admit, OpenSession, SessionEffect

LEMMA NextSessionEffect ==
    ASSUME TypeOK, [Next]_vars
    PROVE  SessionEffect
<1>1. ASSUME NEW c \in PipeConns, PipeNext(c) PROVE SessionEffect
  <2>1. CASE ServeStep(c)
    BY <2>1, ServeStepSessionEffect DEF Conns
  <2>2. CASE PipeLookupFound(c) \/ PipeSend(c) \/ PipeUnpin(c)
    BY <2>2, ZenonT(60) DEF PipeLookupFound, LookupFound, PipeSend, PipeUnpin, SendUnpinned,
                Unpin, SessionEffect
  <2>3. ASSUME NEW r \in Requests, PipeReceive(c, r) PROVE SessionEffect
    BY <2>3, AdmitSessionEffect DEF PipeReceive, Conns
  <2>4. CASE \/ PipeAccept(c) \/ PipeStart(c) \/ Malformed(c)
             \/ PipeDisconnect(c)
             \/ \E r \in Requests : PipeUnauthorized(c, r)
    BY <2>4, ZenonT(60) DEF PipeAccept, PipeStart, Malformed, Refuse, PipeDisconnect,
                PipeUnauthorized, SessionEffect
  <2> QED
    BY <1>1, <2>1, <2>2, <2>3, <2>4 DEF PipeNext, PipeServe
<1>2. ASSUME NEW c \in TcpConns, TcpNext(c) PROVE SessionEffect
  <2>1. CASE ServeStep(c)
    BY <2>1, ServeStepSessionEffect DEF Conns
  <2>2. CASE TcpLookupFound(c) \/ TcpSend(c) \/ TcpUnpin(c)
    BY <2>2, ZenonT(60) DEF TcpLookupFound, LookupFound, TcpSend, TcpUnpin, SendUnpinned,
                Unpin, SessionEffect
  <2>3. ASSUME NEW r \in Requests, TcpReceive(c, r) PROVE SessionEffect
    BY <2>3, AdmitSessionEffect DEF TcpReceive, Conns
  <2>4. CASE \/ TcpAccept(c) \/ Malformed(c) \/ TcpDisconnect(c)
             \/ \E r \in Requests : TcpTooManySessions(c, r)
    BY <2>4, ZenonT(60) DEF TcpAccept, Malformed, Refuse, TcpDisconnect,
                TcpTooManySessions, SessionEffect
  <2> QED
    BY <1>2, <2>1, <2>2, <2>3, <2>4 DEF TcpNext, TcpServe
<1>3. CASE Cleanup
  BY <1>3, ZenonT(60) DEF Cleanup, CleanupSessions, SessionEffect
<1>4. CASE ChangeWorld
  BY <1>4 DEF ChangeWorld, SessionEffect
<1>5. CASE UNCHANGED vars
  BY <1>5 DEF vars, SessionEffect
<1> QED
  BY <1>1, <1>2, <1>3, <1>4, <1>5 DEF Next

(* The counter never goes back. *)
LEMMA CounterGrows ==
    ASSUME TypeOK, StoreEffect
    PROVE  snap_counter \in Nat /\ snap_counter' \in Nat /\ snap_counter' >= snap_counter
<1>1. snap_counter \in Nat
  BY DEF TypeOK, ServerStateTypeOK
<1>2. snap_counter' \in {snap_counter, snap_counter + 1}
  BY DEF StoreEffect, StoreSnapshot, NextNumber, RotateFront, EvictFront
<1> QED
  BY <1>1, <1>2

(* Every baseline on record was issued, whether or not its session is      *)
(* subscribed: what a poll that re-creates a session relies on.            *)
SessionInv ==
    \A i \in DOMAIN sessions :
        /\ sessions[i].last_snap_id < snap_counter
        /\ sessions[i].subscribed => sessions[i].last_snap_id # NoSnap

LEMMA SessionInvPreserved ==
    ASSUME TypeOK, SessionInv, StoreEffect, SessionEffect
    PROVE  SessionInv'
<1>1. snap_counter \in Nat \ {0} /\ snap_counter' \in Nat /\ snap_counter' >= snap_counter
  BY CounterGrows DEF TypeOK, ServerStateTypeOK, NoSnap
<1>2. \A i \in DOMAIN sessions : /\ sessions[i].last_snap_id \in Nat
                                 /\ sessions[i].last_snap_id < snap_counter'
                                 /\ sessions[i] \in PersistentSession
  <2>1. \A n \in SnapRefs : n \in Nat
    BY SnapIdsAssumption DEF SnapRefs, NoSnap
  <2> QED
    BY <1>1, <2>1 DEF SessionInv, TypeOK, ServerStateTypeOK, PersistentSession
<1> DEFINE Good(ps) == /\ ps.last_snap_id < snap_counter'
                       /\ ps.subscribed => ps.last_snap_id # NoSnap
<1>3. \A i \in DOMAIN sessions : Good(sessions[i])
  BY <1>2 DEF SessionInv
<1>4. ASSUME NEW i, NEW ps, Good(ps), sessions' = WithSession(i, ps)
      PROVE  SessionInv'
  BY <1>3, <1>4 DEF SessionInv, WithSession
<1>5. CASE UNCHANGED sessions
  BY <1>3, <1>5 DEF SessionInv
<1>6. CASE \E i \in Sessions \ DOMAIN sessions :
              sessions' = WithSession(i, DefaultSession)
  <2>1. Good(DefaultSession)
    BY <1>1 DEF DefaultSession, NoSnap
  <2> QED
    BY <1>4, <1>6, <2>1
<1>7. ASSUME NEW i \in Sessions, NEW b \in BOOLEAN,
             snap_counter' = snap_counter + 1,
             sessions' = WithSession(i, [last_snap_id |-> snap_counter,
                                         subscribed |-> b])
      PROVE  SessionInv'
  <2>1. Good([last_snap_id |-> snap_counter, subscribed |-> b])
    BY <1>1, <1>7 DEF NoSnap
  <2> QED
    BY <1>4, <1>7, <2>1
<1>8. ASSUME NEW i \in DOMAIN sessions,
             sessions' = WithSession(i, Unsubscribed(sessions[i]))
      PROVE  SessionInv'
  <2>1. Good(Unsubscribed(sessions[i]))
    BY <1>1, <1>2 DEF Unsubscribed, NoSnap, PersistentSession
  <2> QED
    BY <1>4, <1>8, <2>1
<1>9. ASSUME NEW S, sessions' = WithoutSessions(S) PROVE SessionInv'
  BY <1>3, <1>9 DEF SessionInv, WithoutSessions
<1> QED
  BY <1>5, <1>6, <1>7, <1>8, <1>9, ZenonT(60) DEF SessionEffect

(* A subscribed session always has a baseline that was issued. *)
THEOREM SubscribedSessionsHaveBaseline == Spec => []SubscribedHasBaseline
<1>1. Init => SessionInv
  BY DEF Init, ServerStateInit, SessionInv
<1>2. TypeOK /\ SessionInv /\ [Next]_vars => SessionInv'
  BY NextStoreEffect, NextSessionEffect, SessionInvPreserved
<1>3. TypeOK /\ SessionInv => SubscribedHasBaseline
  <2> SUFFICES ASSUME TypeOK, SessionInv, NEW i \in DOMAIN sessions,
                      sessions[i].subscribed
               PROVE  sessions[i].last_snap_id \in 1 .. snap_counter - 1
    BY DEF SubscribedHasBaseline
  <2>1. sessions[i].last_snap_id \in Nat /\ snap_counter \in Nat
    <3>1. \A n \in SnapRefs : n \in Nat
      BY SnapIdsAssumption DEF SnapRefs, NoSnap
    <3> QED
      BY <3>1 DEF TypeOK, ServerStateTypeOK, PersistentSession
  <2> QED
    BY <2>1 DEF SessionInv, NoSnap
<1> QED
  BY <1>1, <1>2, <1>3, TypeCorrect, PTL DEF Spec

(* A session's baseline is only ever replaced by a newer one or dropped. *)
THEOREM BaselinesOnlyAdvance == Spec => BaselinesAdvance
<1> DEFINE Forward ==
             \A i \in DOMAIN sessions \cap DOMAIN sessions' :
                \/ sessions'[i].last_snap_id \in {sessions[i].last_snap_id, NoSnap}
                \/ sessions'[i].last_snap_id > sessions[i].last_snap_id
<1>1. ASSUME TypeOK, SessionInv, SessionEffect PROVE Forward
  <2>1. \A i \in DOMAIN sessions : sessions[i].last_snap_id \in Nat
                                /\ sessions[i] \in PersistentSession
    <3>1. \A n \in SnapRefs : n \in Nat
      BY SnapIdsAssumption DEF SnapRefs, NoSnap
    <3> QED
      BY <1>1, <3>1 DEF TypeOK, ServerStateTypeOK, PersistentSession
  <2>2. snap_counter \in Nat
    BY <1>1 DEF TypeOK, ServerStateTypeOK
  <2>3. CASE UNCHANGED sessions
    BY <2>3
  <2>4. CASE \E i \in Sessions \ DOMAIN sessions :
                sessions' = WithSession(i, DefaultSession)
    BY <2>4 DEF WithSession
  <2>5. ASSUME NEW i \in Sessions, NEW b \in BOOLEAN,
               sessions' = WithSession(i, [last_snap_id |-> snap_counter,
                                           subscribed |-> b])
        PROVE  Forward
    BY <1>1, <2>1, <2>2, <2>5, ZenonT(60) DEF WithSession, SessionInv
  <2>6. ASSUME NEW i \in DOMAIN sessions,
               sessions' = WithSession(i, Unsubscribed(sessions[i]))
        PROVE  Forward
    <3>1. Unsubscribed(sessions[i]).last_snap_id = NoSnap
      BY <2>1 DEF Unsubscribed, PersistentSession
    <3> QED
      BY <2>6, <3>1 DEF WithSession
  <2>7. ASSUME NEW S, sessions' = WithoutSessions(S) PROVE Forward
    BY <2>7 DEF WithoutSessions
  <2> QED
    BY <1>1, <2>3, <2>4, <2>5, <2>6, <2>7, ZenonT(60) DEF SessionEffect
<1>2. TypeOK /\ SessionInv /\ [Next]_vars => [Forward]_vars
  BY <1>1, NextSessionEffect
<1>3. Init => SessionInv
  BY DEF Init, ServerStateInit, SessionInv
<1>4. TypeOK /\ SessionInv /\ [Next]_vars => SessionInv'
  BY NextStoreEffect, NextSessionEffect, SessionInvPreserved
<1> QED
  BY <1>2, <1>3, <1>4, TypeCorrect, PTL DEF Spec, BaselinesAdvance

(***************************************************************************)
(* The eviction loop.                                                      *)
(***************************************************************************)

(* Only the thread that holds the mutex is in the loop. *)
LoopLocked == \A c \in Conns : pc[c] = "evict" => mu = c

(* The captured snapshot was queued last, so what stands behind it now is  *)
(* what the loop has moved there because it was pinned.                    *)
BehindPinned(list, sid) ==
    \A j, k \in 1 .. Len(list) : j < k /\ list[j] = sid => Pinned(list[k])

LoopInv ==
    /\ LoopLocked
    /\ \A c \in Conns : pc[c] = "evict"
                           => BehindPinned(lru_order, resp[c].snapshot_id)

(* A step of thread c outside the loop, seen from the loops in progress. *)
Quiet ==
    \A d \in Conns : pc'[d] = "evict" =>
        /\ pc[d] = "evict"
        /\ UNCHANGED <<mu, lru_order, pinned_counts, resp[d]>>

(* The loop begins, iterates, or is not touched. *)
LoopEffect ==
    \/ \E c \in Conns : StoreCaptured(c)
    \/ \E c \in Conns : EvictStep(c)
    \/ Quiet

LEMMA GotoQuiet ==
    ASSUME TypeOK, LoopLocked, NEW c \in Conns, NEW l, Goto(c, l), l # "evict",
           \A d \in Conns \ {c} : resp'[d] = resp[d],
           mu \in {Nobody, c} \/ UNCHANGED <<mu, lru_order, pinned_counts>>
    PROVE  Quiet
BY ConnsAssumption DEF TypeOK, HandlerTypeOK, LoopLocked, Goto, Quiet

LEMMA ServeStepLoopEffect ==
    ASSUME TypeOK, LoopLocked, NEW c \in Conns, ServeStep(c)
    PROVE  LoopEffect
<1> USE DEF TypeOK, HandlerTypeOK
<1>1. CASE StoreCaptured(c) \/ EvictStep(c)
  BY <1>1 DEF LoopEffect
<1>2. CASE Subscribe(c) \/ Rebase(c)
  BY <1>2, GotoQuiet DEF Subscribe, Rebase, Respond, LoopEffect
<1>3. CASE \/ SubscribeCapture(c) \/ CaptureSnapshot(c)
           \/ CaptureCurrent(c) \/ RebaseCapture(c)
  BY <1>3, GotoQuiet DEF SubscribeCapture, CaptureSnapshot, CaptureCurrent,
                         RebaseCapture, CaptureFor, LoopEffect
<1>4. CASE Unsubscribe(c) \/ Terminate(c) \/ LookupMissing(c) \/ FindOld(c)
  BY <1>4, GotoQuiet DEF Unsubscribe, Terminate, LookupMissing, FindOld,
                         Respond, LoopEffect
<1>5. CASE EvictDone(c)
  <2>1. mu = c
    BY <1>5 DEF EvictDone, LoopLocked
  <2> QED
    BY <1>5, <2>1, GotoQuiet DEF EvictDone, LoopEffect
<1>6. CASE CoreAnswers(c)
  <2>1. PICK l \in {"rebase", "send"} : Goto(c, l)
    BY <1>6 DEF CoreAnswers
  <2> QED
    BY <1>6, <2>1, GotoQuiet DEF CoreAnswers, LoopEffect
<1>7. CASE CoreTimesOut(c) \/ CoreDrains(c) \/ SendPinned(c)
  BY <1>7, GotoQuiet DEF CoreTimesOut, CoreDrains, SendPinned, LoopEffect
<1> QED
  BY <1>1, <1>2, <1>3, <1>4, <1>5, <1>6, <1>7 DEF ServeStep

LEMMA AdmitQuiet ==
    ASSUME TypeOK, LoopLocked, NEW c \in Conns, NEW r, NEW cs,
           Admit(c, r, cs) \/ \E e \in Statuses : Refuse(c, r, e)
    PROVE  Quiet
<1>1. PICK l : Goto(c, l) /\ l # "evict"
  BY DEF Admit, Refuse, Respond, EntryPoint
<1>2. \A d \in Conns \ {c} : resp'[d] = resp[d]
  BY DEF Admit, Refuse, Respond, TypeOK, HandlerTypeOK
<1>3. UNCHANGED <<mu, lru_order, pinned_counts>>
  BY ZenonT(60) DEF Admit, Refuse, Respond
<1> QED
  BY <1>1, <1>2, <1>3, GotoQuiet, ZenonT(60)

LEMMA NextLoopEffect ==
    ASSUME TypeOK, LoopLocked, [Next]_vars
    PROVE  LoopEffect
<1> USE DEF TypeOK, HandlerTypeOK
<1>1. ASSUME NEW c \in PipeConns, PipeNext(c) PROVE LoopEffect
  <2> c \in Conns
    BY DEF Conns
  <2>1. CASE ServeStep(c)
    BY <2>1, ServeStepLoopEffect
  <2>2. CASE PipeLookupFound(c)
    BY <2>2, GotoQuiet, ZenonT(60) DEF PipeLookupFound, LookupFound, LoopEffect
  <2>3. CASE PipeSend(c) \/ PipeUnpin(c)
    BY <2>3, GotoQuiet DEF PipeSend, PipeUnpin, SendUnpinned, Unpin,
                           NextIteration, LoopEffect
  <2>4. CASE \E r \in Requests : PipeUnauthorized(c, r) \/ PipeReceive(c, r)
    BY <2>4, AdmitQuiet DEF PipeUnauthorized, PipeReceive, Statuses, LoopEffect
  <2>5. CASE Malformed(c)
    BY <2>5, AdmitQuiet DEF Malformed, Statuses, LoopEffect
  <2>6. CASE PipeAccept(c) \/ PipeStart(c) \/ PipeDisconnect(c)
    BY <2>6, GotoQuiet, ZenonT(60) DEF PipeAccept, PipeStart, PipeDisconnect, LoopEffect
  <2> QED
    BY <1>1, <2>1, <2>2, <2>3, <2>4, <2>5, <2>6 DEF PipeNext, PipeServe
<1>2. ASSUME NEW c \in TcpConns, TcpNext(c) PROVE LoopEffect
  <2> c \in Conns
    BY DEF Conns
  <2>1. CASE ServeStep(c)
    BY <2>1, ServeStepLoopEffect
  <2>2. CASE TcpLookupFound(c)
    BY <2>2, GotoQuiet, ZenonT(60) DEF TcpLookupFound, LookupFound, LoopEffect
  <2>3. CASE TcpSend(c) \/ TcpUnpin(c)
    BY <2>3, GotoQuiet DEF TcpSend, TcpUnpin, SendUnpinned, Unpin,
                           NextIteration, LoopEffect
  <2>4. CASE \E r \in Requests : TcpTooManySessions(c, r) \/ TcpReceive(c, r)
    BY <2>4, AdmitQuiet DEF TcpTooManySessions, TcpReceive, Statuses, LoopEffect
  <2>5. CASE Malformed(c)
    BY <2>5, AdmitQuiet DEF Malformed, Statuses, LoopEffect
  <2>6. CASE TcpAccept(c) \/ TcpDisconnect(c)
    BY <2>6, GotoQuiet DEF TcpAccept, TcpDisconnect, LoopEffect
  <2> QED
    BY <1>2, <2>1, <2>2, <2>3, <2>4, <2>5, <2>6 DEF TcpNext, TcpServe
<1>3. CASE Cleanup \/ ChangeWorld \/ UNCHANGED vars
  BY <1>3, ZenonT(60) DEF Cleanup, CleanupSessions, ChangeWorld, vars, Quiet, LoopEffect
<1> QED
  BY <1>1, <1>2, <1>3 DEF Next

(* No two positions hold the same id, so putting a pinned front behind, or *)
(* dropping the front, keeps what is behind sid pinned.                    *)
LEMMA RotateBehind ==
    ASSUME TypeOK, StoreInv, NEW sid, BehindPinned(lru_order, sid), RotateFront
    PROVE  BehindPinned(lru_order, sid)'
<1>1. /\ lru_order \in Seq(SnapIds) /\ Len(lru_order) \in Nat
      /\ Len(lru_order) > 0
  BY LimitsAssumption
     DEF TypeOK, ServerStateTypeOK, RotateFront, OverLimit
<1> DEFINE l == lru_order'
           n == Len(lru_order)
<1>2. /\ Len(l) = n
      /\ \A k \in 1 .. n - 1 : l[k] = lru_order[k + 1]
      /\ l[n] = lru_order[1]
      /\ Pinned(lru_order[1])
  <2>1. /\ lru_order' = Append(Tail(lru_order), Head(lru_order))
        /\ Pinned(Head(lru_order))
    BY ZenonT(60) DEF RotateFront, Rotated
  <2>2. Head(lru_order) = lru_order[1] BY <1>1
  <2>3. Pinned(lru_order[1]) BY <2>1, <2>2, ZenonT(60)
  <2>4. Len(l) = n BY <1>1, <2>1
  <2>5. l[n] = lru_order[1] BY <1>1, <2>1, <2>2
  <2>6. \A k \in 1 .. n - 1 : l[k] = lru_order[k + 1] BY <1>1, <2>1
  <2> QED BY <2>3, <2>4, <2>5, <2>6, ZenonT(60)
<1>3. \A s : Pinned(s)' <=> Pinned(s)
  BY DEF RotateFront, Pinned
<1> SUFFICES ASSUME NEW j \in 1 .. n, NEW k \in 1 .. n, j < k, l[j] = sid
             PROVE  Pinned(l[k])
  BY <1>2, <1>3 DEF BehindPinned
<1>4. CASE k = n
  BY <1>2, <1>4
<1>5. CASE k # n
  <2>1. /\ j + 1 \in 1 .. n /\ k + 1 \in 1 .. n /\ j + 1 < k + 1
        /\ j \in 1 .. n - 1 /\ k \in 1 .. n - 1
    BY <1>1, <1>5
  <2>2. lru_order[j + 1] = sid /\ l[k] = lru_order[k + 1]
    BY <1>2, <2>1
  <2> QED
    BY <2>1, <2>2 DEF BehindPinned
<1> QED
  BY <1>4, <1>5

LEMMA EvictBehind ==
    ASSUME TypeOK, StoreInv, NEW sid, BehindPinned(lru_order, sid), EvictFront
    PROVE  BehindPinned(lru_order, sid)'
<1>1. /\ lru_order \in Seq(SnapIds) /\ Len(lru_order) \in Nat
      /\ Len(lru_order) > 0
      /\ pinned_counts \in [SnapIds -> Int]
  BY LimitsAssumption
     DEF TypeOK, ServerStateTypeOK, EvictFront, OverLimit
<1> DEFINE l == lru_order'
           n == Len(lru_order)
<1>2. /\ Len(l) = n - 1
      /\ \A k \in 1 .. n - 1 : l[k] = lru_order[k + 1]
      /\ pinned_counts' = [pinned_counts EXCEPT ![lru_order[1]] = 0]
  BY <1>1 DEF EvictFront
<1> SUFFICES ASSUME NEW j \in 1 .. n - 1, NEW k \in 1 .. n - 1, j < k, l[j] = sid
             PROVE  pinned_counts'[l[k]] > 0
  BY <1>2 DEF BehindPinned, Pinned
<1>3. /\ j + 1 \in 1 .. n /\ k + 1 \in 1 .. n /\ j + 1 < k + 1
      /\ k + 1 # 1 /\ 1 \in 1 .. n
  BY <1>1
<1>4. lru_order[j + 1] = sid /\ l[k] = lru_order[k + 1]
  BY <1>2
<1>5. Pinned(lru_order[k + 1])
  BY <1>3, <1>4 DEF BehindPinned
<1>6. /\ lru_order[k + 1] # lru_order[1]
      /\ lru_order[k + 1] \in SnapIds /\ lru_order[1] \in SnapIds
  BY <1>1, <1>3 DEF StoreInv, LruEnumeratesStore
<1>7. pinned_counts'[lru_order[k + 1]] = pinned_counts[lru_order[k + 1]]
  BY <1>1, <1>2, <1>6
<1> QED
  BY <1>4, <1>5, <1>7 DEF Pinned

LEMMA LoopInvPreserved ==
    ASSUME TypeOK, StoreInv, LoopInv, [Next]_vars
    PROVE  LoopInv'
<1>1. LoopEffect
  BY NextLoopEffect DEF LoopInv
<1>2. ASSUME NEW c \in Conns, StoreCaptured(c) PROVE LoopInv'
  <2>1. \A d \in Conns : pc[d] # "evict"
    BY <1>2, ConnsAssumption DEF LoopInv, LoopLocked, StoreCaptured
  <2>2. \A d \in Conns : pc'[d] = "evict" => d = c
    BY <1>2, <2>1 DEF StoreCaptured, Goto, TypeOK, HandlerTypeOK
  <2>3. mu' = c /\ resp'[c].snapshot_id = snap_counter
    BY <1>2 DEF StoreCaptured, TypeOK, HandlerTypeOK
  <2>4. BehindPinned(lru_order, resp[c].snapshot_id)'
    <3>1. /\ lru_order' = Append(lru_order, snap_counter)
          /\ lru_order \in Seq(SnapIds) /\ snap_counter \in SnapIds
          /\ Len(lru_order) \in Nat
      BY <1>2 DEF StoreCaptured, StoreSnapshot, TypeOK, ServerStateTypeOK
    <3>2. \A k \in 1 .. Len(lru_order) : lru_order[k] # snap_counter
      <4>1. \A k \in 1 .. Len(lru_order) : lru_order[k] \in DOMAIN snaps
        BY DEF StoreInv, LruEnumeratesStore
      <4> QED
        BY <3>1, <4>1, SnapIdsAssumption DEF StoreInv
    <3>3. /\ Len(lru_order') = Len(lru_order) + 1
          /\ \A k \in 1 .. Len(lru_order) : lru_order'[k] = lru_order[k]
      BY <3>1
    <3>4. \A j, k \in 1 .. Len(lru_order') : j < k => j \in 1 .. Len(lru_order)
      BY <3>1, <3>3
    <3>5. \A j, k \in 1 .. Len(lru_order') : j < k => lru_order'[j] # snap_counter
      BY <3>2, <3>3, <3>4
    <3> QED
      BY <2>3, <3>5 DEF BehindPinned
  <2> QED
    BY <2>2, <2>3, <2>4 DEF LoopInv, LoopLocked
<1>3. ASSUME NEW c \in Conns, EvictStep(c) PROVE LoopInv'
  <2>1. UNCHANGED <<pc, mu, resp>>
    BY <1>3 DEF EvictStep
  <2>2. CASE RotateFront
    BY <2>1, <2>2, RotateBehind DEF LoopInv, LoopLocked
  <2>3. CASE EvictFront
    BY <2>1, <2>3, EvictBehind DEF LoopInv, LoopLocked
  <2> QED
    BY <1>3, <2>2, <2>3 DEF EvictStep
<1>4. CASE Quiet
  BY <1>4, ZenonT(60) DEF Quiet, LoopInv, LoopLocked, BehindPinned, Pinned
<1> QED
  BY <1>1, <1>2, <1>3, <1>4 DEF LoopEffect

(* The snapshot a capture is about to answer with is erased by its own     *)
(* eviction loop only while every other stored snapshot is pinned by a     *)
(* request in progress.                                                    *)
THEOREM CapturedEvictedLastHolds == Spec => CapturedEvictedLast
<1> DEFINE Last == \A c \in Conns :
                      LET sid == resp[c].snapshot_id
                      IN  pc[c] = "evict" /\ sid \in DOMAIN snaps \ DOMAIN snaps'
                             => \A s \in DOMAIN snaps \ {sid} : Pinned(s)
<1>1. Init => StoreInv /\ LoopInv
  BY DEF Init, ServerStateInit, HandlerInit, StoreInv, LruEnumeratesStore,
         LoopInv, LoopLocked
<1>2. TypeOK /\ StoreInv /\ [Next]_vars => StoreInv'
  BY NextStoreEffect, StoreInvPreserved
<1>3. TypeOK /\ StoreInv /\ LoopInv /\ [Next]_vars => LoopInv'
  BY LoopInvPreserved
<1>4. ASSUME TypeOK, StoreInv, LoopInv, [Next]_vars PROVE [Last]_vars
  <2> SUFFICES ASSUME NEW c \in Conns, pc[c] = "evict",
                      resp[c].snapshot_id \in DOMAIN snaps \ DOMAIN snaps',
                      NEW s \in DOMAIN snaps \ {resp[c].snapshot_id}
               PROVE  Pinned(s)
    OBVIOUS
  <2>1. EvictFront
    BY <1>4, NextStoreEffect DEF StoreEffect, StoreSnapshot, RotateFront
  <2>2. /\ lru_order \in Seq(SnapIds) /\ Len(lru_order) \in Nat
        /\ Len(lru_order) > 0
    BY <1>4, <2>1, LimitsAssumption
       DEF TypeOK, ServerStateTypeOK, EvictFront, OverLimit
  <2>3. lru_order[1] = resp[c].snapshot_id /\ 1 \in 1 .. Len(lru_order)
    BY <2>1, <2>2 DEF EvictFront
  <2>4. PICK k \in 1 .. Len(lru_order) : lru_order[k] = s
    BY <1>4 DEF StoreInv, LruEnumeratesStore
  <2>5. 1 < k
    BY <2>2, <2>3, <2>4
  <2>6. BehindPinned(lru_order, resp[c].snapshot_id)
    BY <1>4, ZenonT(60) DEF LoopInv
  <2> QED
    BY <2>3, <2>4, <2>5, <2>6, ZenonT(60) DEF BehindPinned
<1> QED
  BY <1>1, <1>2, <1>3, <1>4, TypeCorrect, PTL DEF Spec, CapturedEvictedLast
=============================================================================
