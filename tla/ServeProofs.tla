---------------------------- MODULE ServeProofs ----------------------------
(***************************************************************************)
(* A request that names a snapshot is answered from that snapshot, and     *)
(* active_connections counts the pipe threads that run, for every instance *)
(* of Daemon.                                                              *)
(***************************************************************************)
EXTENDS PinProofs

\* Unless a leaf names Zenon it is one for SMT; the limit leaves a slow machine its time.
USE SMTT(60) DEF shared, store, locals, control

(***************************************************************************)
(* The named snapshot.                                                     *)
(***************************************************************************)
Serving == {"old", "core", "drain", "rebase"}

(* A pinned number was given out: a snapshot stored later has another.     *)
ServedInv ==
    /\ \A c \in Conns : pinned_sid[c] < snap_counter
    /\ NamedSnapshotServed

(* All a step of the daemon can do to the copies threads work on. *)
ServedEffect ==
    \A d \in Conns :
        /\ pinned_sid'[d] \in {pinned_sid[d], NoSnap} \cup DOMAIN snaps
        /\ pc'[d] \in Serving =>
              \/ pc[d] \in Serving /\ UNCHANGED <<snap[d], pinned_sid[d]>>
              \/ pinned_sid'[d] = NoSnap
              \/ /\ pinned_sid'[d] \in DOMAIN snaps
                 /\ snap'[d] = snaps[pinned_sid'[d]]

LEMMA GotoServed ==
    ASSUME TypeOK, NEW c \in Conns, NEW l, Goto(c, l),
           \A d \in Conns \ {c} : UNCHANGED <<snap[d], pinned_sid[d]>>,
           \/ pinned_sid'[c] = NoSnap
           \/ /\ pinned_sid'[c] = pinned_sid[c]
              /\ l \in Serving => pc[c] \in Serving /\ snap'[c] = snap[c]
           \/ /\ pinned_sid'[c] \in DOMAIN snaps
              /\ snap'[c] = snaps[pinned_sid'[c]]
    PROVE  ServedEffect
<1> SUFFICES ASSUME NEW d \in Conns
             PROVE  /\ pinned_sid'[d] \in {pinned_sid[d], NoSnap} \cup DOMAIN snaps
                    /\ pc'[d] \in Serving =>
                          \/ pc[d] \in Serving /\ UNCHANGED <<snap[d], pinned_sid[d]>>
                          \/ pinned_sid'[d] = NoSnap
                          \/ /\ pinned_sid'[d] \in DOMAIN snaps
                             /\ snap'[d] = snaps[pinned_sid'[d]]
  BY DEF ServedEffect
<1>1. CASE d = c
  BY <1>1 DEF Goto, TypeOK, HandlerTypeOK
<1>2. CASE d # c
  BY <1>2 DEF Goto, TypeOK, HandlerTypeOK
<1> QED
  BY <1>1, <1>2

LEMMA ServeStepServed ==
    ASSUME TypeOK, LocalInv, NEW c \in Conns, ServeStep(c)
    PROVE  ServedEffect
<1>1. CASE \/ SubscribeCapture(c) \/ CaptureSnapshot(c) \/ RebaseCapture(c)
  BY <1>1, GotoServed
     DEF SubscribeCapture, CaptureSnapshot, RebaseCapture, CaptureFor, Serving,
         TypeOK, HandlerTypeOK
<1>2. CASE CaptureCurrent(c)
  <2>1. pinned_sid[c] = NoSnap
    BY <1>2 DEF CaptureCurrent, CaptureFor, LocalInv, BeforePin
  <2> QED
    BY <1>2, <2>1, GotoServed
       DEF CaptureCurrent, CaptureFor, TypeOK, HandlerTypeOK
<1>3. CASE \/ Subscribe(c) \/ Unsubscribe(c) \/ Terminate(c)
           \/ StoreCaptured(c) \/ EvictDone(c) \/ LookupMissing(c)
  BY <1>3, GotoServed
     DEF Subscribe, Unsubscribe, Terminate, StoreCaptured, EvictDone,
         LookupMissing, Respond, Serving
<1>4. CASE \/ FindOld(c) \/ CoreTimesOut(c) \/ CoreDrains(c) \/ Rebase(c)
           \/ SendPinned(c)
  BY <1>4, GotoServed
     DEF FindOld, CoreTimesOut, CoreDrains, Rebase, SendPinned, Serving
<1>5. CASE CoreAnswers(c)
  <2>1. PICK l \in {"rebase", "send"} : Goto(c, l)
    BY <1>5 DEF CoreAnswers
  <2> QED
    BY <1>5, <2>1, GotoServed DEF CoreAnswers, Serving
<1>6. CASE EvictStep(c)
  BY <1>6 DEF EvictStep, ServedEffect
<1> QED
  BY <1>1, <1>2, <1>3, <1>4, <1>5, <1>6 DEF ServeStep

LEMMA RequestServed ==
    ASSUME TypeOK, NEW c \in Conns, NEW r, NEW cs, NEW e, NEW p,
           \/ Admit(c, r, cs) \/ Refuse(c, r, e) \/ LookupFound(c)
           \/ SendUnpinned(c, cs)
           \/ Unpin(c, cs, p) /\ p \in {NoSnap, pinned_sid[c]}
    PROVE  ServedEffect
<1> USE DEF TypeOK, HandlerTypeOK
<1>1. CASE Admit(c, r, cs)
  <2>1. PICK l : Goto(c, l)
    BY <1>1 DEF Admit, Respond
  <2> QED
    BY <1>1, <2>1, GotoServed, ZenonT(60) DEF Admit
<1>2. CASE Refuse(c, r, e)
  BY <1>2, GotoServed DEF Refuse, Respond
<1>3. CASE LookupFound(c)
  BY <1>3, GotoServed, ZenonT(60) DEF LookupFound, NamedSnapshot
<1>4. CASE SendUnpinned(c, cs)
  BY <1>4, GotoServed, ZenonT(60) DEF SendUnpinned, NextIteration
<1>5. CASE Unpin(c, cs, p) /\ p \in {NoSnap, pinned_sid[c]}
  BY <1>5, GotoServed, ZenonT(60) DEF Unpin, NextIteration, Serving
<1> QED
  BY <1>1, <1>2, <1>3, <1>4, <1>5

LEMMA NextServed ==
    ASSUME TypeOK, LocalInv, [Next]_vars
    PROVE  ServedEffect
<1>1. ASSUME NEW c \in PipeConns, PipeNext(c) PROVE ServedEffect
  <2>0. c \in Conns
    BY DEF Conns
  <2>1. CASE ServeStep(c)
    BY <2>0, <2>1, ServeStepServed
  <2>2. CASE \/ PipeLookupFound(c) \/ PipeSend(c) \/ PipeUnpin(c) \/ Malformed(c)
             \/ \E r \in Requests : PipeUnauthorized(c, r) \/ PipeReceive(c, r)
    BY <2>0, <2>2, RequestServed
       DEF PipeLookupFound, PipeSend, PipeUnpin, Malformed, PipeUnauthorized,
           PipeReceive
  <2>3. CASE PipeAccept(c) \/ PipeStart(c) \/ PipeDisconnect(c)
    BY <2>0, <2>3, GotoServed, ZenonT(60)
       DEF PipeAccept, PipeStart, PipeDisconnect, Serving, TypeOK, HandlerTypeOK
  <2> QED
    BY <1>1, <2>1, <2>2, <2>3 DEF PipeNext, PipeServe
<1>2. ASSUME NEW c \in TcpConns, TcpNext(c) PROVE ServedEffect
  <2>0. c \in Conns
    BY DEF Conns
  <2>1. CASE ServeStep(c)
    BY <2>0, <2>1, ServeStepServed
  <2>2. CASE \/ TcpLookupFound(c) \/ TcpSend(c) \/ TcpUnpin(c) \/ Malformed(c)
             \/ \E r \in Requests : TcpTooManySessions(c, r) \/ TcpReceive(c, r)
    BY <2>0, <2>2, RequestServed
       DEF TcpLookupFound, TcpSend, TcpUnpin, Malformed, TcpTooManySessions,
           TcpReceive
  <2>3. CASE TcpAccept(c) \/ TcpDisconnect(c)
    BY <2>0, <2>3, GotoServed DEF TcpAccept, TcpDisconnect, Serving
  <2> QED
    BY <1>2, <2>1, <2>2, <2>3 DEF TcpNext, TcpServe
<1>3. CASE Cleanup \/ ChangeWorld \/ UNCHANGED vars
  BY <1>3 DEF Cleanup, ChangeWorld, vars, ServedEffect
<1> QED
  BY <1>1, <1>2, <1>3 DEF Next

LEMMA ServedInvPreserved ==
    ASSUME TypeOK, TypeOK', StoreInv, LocalInv, ServedInv, [Next]_vars
    PROVE  ServedInv'
<1>1. ServedEffect /\ StoreEffect
  BY NextServed, NextStoreEffect
<1>2. /\ snap_counter \in Nat /\ snap_counter' \in Nat
      /\ snap_counter' >= snap_counter
      /\ DOMAIN snaps \subseteq Nat \ {NoSnap}
      /\ NoSnap \notin DOMAIN snaps'
      /\ NoSnap < snap_counter
  <2>1. /\ snap_counter \in Nat \ {NoSnap} /\ snap_counter' \in Nat
        /\ DOMAIN snaps \subseteq SnapIds /\ DOMAIN snaps' \subseteq SnapIds
    BY DEF TypeOK, ServerStateTypeOK
  <2>2. snap_counter' = snap_counter \/ snap_counter' = snap_counter + 1
    BY <1>1 DEF StoreEffect, StoreSnapshot, NextNumber, RotateFront, EvictFront
  <2>3. SnapIds \subseteq Nat \ {NoSnap} /\ NoSnap = 0
    BY SnapIdsAssumption DEF NoSnap
  <2>4. snap_counter' >= snap_counter /\ NoSnap < snap_counter
    BY <2>1, <2>2, <2>3
  <2>5. DOMAIN snaps \subseteq Nat \ {NoSnap} /\ NoSnap \notin DOMAIN snaps'
    BY <2>1, <2>3, ZenonT(60)
  <2> QED
    BY <2>1, <2>4, <2>5
<1>3. \A s \in DOMAIN snaps' : s < snap_counter =>
          s \in DOMAIN snaps /\ snaps'[s] = snaps[s]
  <2>1. CASE \E x \in Content : StoreSnapshot(x)
    BY <1>2, <2>1 DEF StoreSnapshot
  <2>2. CASE UNCHANGED snaps
    BY <2>2
  <2>3. CASE EvictFront
    BY <2>3 DEF EvictFront
  <2> QED
    BY <1>1, <2>1, <2>2, <2>3 DEF StoreEffect, RotateFront
<1> SUFFICES ASSUME NEW d \in Conns
             PROVE  /\ pinned_sid'[d] < snap_counter'
                    /\ pc'[d] \in Serving /\ pinned_sid'[d] \in DOMAIN snaps'
                          => snap'[d] = snaps'[pinned_sid'[d]]
  BY DEF ServedInv, NamedSnapshotServed, Serving
<1>4. pinned_sid[d] \in Nat /\ pinned_sid'[d] \in Nat
  <2>1. pinned_sid[d] \in SnapRefs /\ pinned_sid'[d] \in SnapRefs
    BY DEF TypeOK, HandlerTypeOK
  <2>2. SnapRefs \subseteq Nat
    BY SnapIdsAssumption DEF SnapRefs, NoSnap
  <2> QED
    BY <2>1, <2>2, ZenonT(60)
<1>5. pinned_sid'[d] < snap_counter
  <2>1. \A s \in DOMAIN snaps : s < snap_counter
    BY DEF StoreInv
  <2>2. pinned_sid'[d] \in {pinned_sid[d], NoSnap} \cup DOMAIN snaps
    BY <1>1 DEF ServedEffect
  <2> QED
    BY <1>2, <2>1, <2>2 DEF ServedInv
<1>6. ASSUME pc'[d] \in Serving, pinned_sid'[d] \in DOMAIN snaps'
      PROVE  snap'[d] = snaps'[pinned_sid'[d]]
  <2>1. /\ pinned_sid'[d] \in DOMAIN snaps
        /\ snaps'[pinned_sid'[d]] = snaps[pinned_sid'[d]]
        /\ pinned_sid'[d] # NoSnap
    BY <1>2, <1>3, <1>5, <1>6
  <2>2. CASE pc[d] \in Serving /\ UNCHANGED <<snap[d], pinned_sid[d]>>
    BY <2>1, <2>2 DEF ServedInv, NamedSnapshotServed, Serving
  <2>3. CASE snap'[d] = snaps[pinned_sid'[d]]
    BY <2>1, <2>3
  <2> QED
    BY <1>1, <1>6, <2>1, <2>2, <2>3 DEF ServedEffect
<1> QED
  BY <1>2, <1>4, <1>5, <1>6

(* A request that names a snapshot works on that snapshot, whatever other  *)
(* threads capture and evict while it does.                                *)
THEOREM NamedSnapshotServedHolds == Spec => []NamedSnapshotServed
<1>1. Init => StoreInv /\ LocalInv /\ ServedInv
  <2>1. Init => StoreInv
    BY DEF Init, ServerStateInit, StoreInv, LruEnumeratesStore
  <2>2. Init => ServedInv
    BY DEF Init, ServerStateInit, HandlerInit, ServedInv, NamedSnapshotServed,
           NoSnap, FirstNumber
  <2> QED
    BY <2>1, <2>2, LocalInvInit
<1>2. TypeOK /\ StoreInv /\ [Next]_vars => StoreInv'
  BY NextStoreEffect, StoreInvPreserved
<1>3. TypeOK /\ TypeOK' /\ StoreInv /\ LocalInv /\ ServedInv /\ [Next]_vars
        => ServedInv'
  BY ServedInvPreserved
<1>4. ServedInv => NamedSnapshotServed
  BY DEF ServedInv
<1> QED
  BY <1>1, <1>2, <1>3, <1>4, LocalInvPreserved, TypeCorrect, PTL DEF Spec

(***************************************************************************)
(* The connection count.                                                   *)
(***************************************************************************)
Uncounted == {"closed", "accepted"}

Counted == {c \in PipeConns : pc[c] \notin Uncounted}

(* All a step of the daemon can do to the count and to what it counts. *)
CountEffect ==
    \/ Counted' = Counted /\ UNCHANGED active_connections
    \/ \E c \in PipeConns \ Counted :
          /\ Counted' = Counted \cup {c}
          /\ active_connections' = active_connections + 1
    \/ \E c \in Counted : /\ Counted' = Counted \ {c}
                          /\ active_connections' = active_connections - 1

LEMMA GotoCounted ==
    ASSUME TypeOK, NEW c \in Conns, NEW l, Goto(c, l),
           UNCHANGED active_connections,
           \/ c \notin PipeConns
           \/ pc[c] \in Uncounted <=> l \in Uncounted
    PROVE  CountEffect
<1>1. \A d \in PipeConns : pc'[d] \in Uncounted <=> pc[d] \in Uncounted
  BY DEF Goto, Conns, TypeOK, HandlerTypeOK
<1> QED
  BY <1>1 DEF CountEffect, Counted

LEMMA ServeStepCounted ==
    ASSUME TypeOK, NEW c \in Conns, ServeStep(c)
    PROVE  CountEffect
<1>1. CASE \/ SubscribeCapture(c) \/ CaptureSnapshot(c)
           \/ CaptureCurrent(c) \/ RebaseCapture(c)
  BY <1>1, GotoCounted, ZenonT(60)
     DEF SubscribeCapture, CaptureSnapshot, CaptureCurrent, RebaseCapture,
         CaptureFor, Uncounted
<1>2. CASE \/ Subscribe(c) \/ Unsubscribe(c) \/ Terminate(c)
           \/ StoreCaptured(c) \/ EvictDone(c) \/ LookupMissing(c)
  BY <1>2, GotoCounted, ZenonT(60)
     DEF Subscribe, Unsubscribe, Terminate, StoreCaptured, EvictDone,
         LookupMissing, Respond, Uncounted
<1>3. CASE \/ FindOld(c) \/ CoreTimesOut(c) \/ CoreDrains(c) \/ Rebase(c)
           \/ SendPinned(c)
  BY <1>3, GotoCounted
     DEF FindOld, CoreTimesOut, CoreDrains, Rebase, SendPinned, Uncounted
<1>4. CASE CoreAnswers(c)
  <2>1. PICK l \in {"rebase", "send"} : Goto(c, l)
    BY <1>4 DEF CoreAnswers
  <2> QED
    BY <1>4, <2>1, GotoCounted, ZenonT(60) DEF CoreAnswers, Uncounted
<1>5. CASE EvictStep(c)
  BY <1>5 DEF EvictStep, CountEffect, Counted
<1> QED
  BY <1>1, <1>2, <1>3, <1>4, <1>5 DEF ServeStep

LEMMA RequestCounted ==
    ASSUME TypeOK, NEW c \in Conns, NEW r, NEW cs, NEW e, NEW p,
           \/ Admit(c, r, cs) \/ Refuse(c, r, e) \/ LookupFound(c)
           \/ SendUnpinned(c, cs) \/ Unpin(c, cs, p)
    PROVE  CountEffect
<1>1. CASE Admit(c, r, cs)
  <2>1. PICK l : Goto(c, l) /\ l \notin Uncounted
    BY <1>1 DEF Admit, Respond, EntryPoint, Uncounted
  <2> QED
    BY <1>1, <2>1, GotoCounted, ZenonT(60) DEF Admit, Uncounted
<1>2. CASE Refuse(c, r, e) \/ LookupFound(c)
  BY <1>2, GotoCounted, ZenonT(60) DEF Refuse, Respond, LookupFound, Uncounted
<1>3. CASE SendUnpinned(c, cs) \/ Unpin(c, cs, p)
  BY <1>3, GotoCounted, ZenonT(60) DEF SendUnpinned, Unpin, NextIteration, Uncounted
<1> QED
  BY <1>1, <1>2, <1>3

LEMMA NextCounted ==
    ASSUME TypeOK, [Next]_vars
    PROVE  CountEffect
<1>1. ASSUME NEW c \in PipeConns, PipeNext(c) PROVE CountEffect
  <2>0. c \in Conns
    BY DEF Conns
  <2>1. CASE ServeStep(c)
    BY <2>0, <2>1, ServeStepCounted
  <2>2. CASE \/ PipeLookupFound(c) \/ PipeSend(c) \/ PipeUnpin(c) \/ Malformed(c)
             \/ \E r \in Requests : PipeUnauthorized(c, r) \/ PipeReceive(c, r)
    BY <2>0, <2>2, RequestCounted, ZenonT(60)
       DEF PipeLookupFound, PipeSend, PipeUnpin, Malformed, PipeUnauthorized,
           PipeReceive
  <2>3. CASE PipeAccept(c)
    BY <2>0, <2>3, GotoCounted DEF PipeAccept, Uncounted
  <2>4. CASE PipeStart(c)
    <3>1. c \notin Counted /\ Counted' = Counted \cup {c}
      BY <2>0, <2>4 DEF PipeStart, Goto, Counted, Uncounted, Conns, TypeOK,
                        HandlerTypeOK
    <3> QED
      BY <2>4, <3>1 DEF PipeStart, CountEffect
  <2>5. CASE PipeDisconnect(c)
    <3>1. c \in Counted /\ Counted' = Counted \ {c}
      BY <2>0, <2>5, ZenonT(60) DEF PipeDisconnect, Goto, Counted, Uncounted, Conns, TypeOK,
                        HandlerTypeOK
    <3> QED
      BY <2>5, <3>1 DEF PipeDisconnect, ConnGuard, CountEffect
  <2> QED
    BY <1>1, <2>1, <2>2, <2>3, <2>4, <2>5 DEF PipeNext, PipeServe
<1>2. ASSUME NEW c \in TcpConns, TcpNext(c) PROVE CountEffect
  <2>0. c \in Conns /\ c \notin PipeConns
    BY ConnsAssumption DEF Conns
  <2>1. CASE ServeStep(c)
    BY <2>0, <2>1, ServeStepCounted
  <2>2. CASE \/ TcpLookupFound(c) \/ TcpSend(c) \/ TcpUnpin(c) \/ Malformed(c)
             \/ \E r \in Requests : TcpTooManySessions(c, r) \/ TcpReceive(c, r)
    BY <2>0, <2>2, RequestCounted
       DEF TcpLookupFound, TcpSend, TcpUnpin, Malformed, TcpTooManySessions,
           TcpReceive
  <2>3. CASE TcpAccept(c) \/ TcpDisconnect(c)
    BY <2>0, <2>3, GotoCounted DEF TcpAccept, TcpDisconnect
  <2> QED
    BY <1>2, <2>1, <2>2, <2>3 DEF TcpNext, TcpServe
<1>3. CASE Cleanup \/ ChangeWorld \/ UNCHANGED vars
  BY <1>3 DEF Cleanup, CleanupSessions, ChangeWorld, vars, CountEffect, Counted
<1> QED
  BY <1>1, <1>2, <1>3 DEF Next

(* However many pipe clients connect and leave, and however their accepts  *)
(* race, active_connections is the number of pipe threads that have        *)
(* started and not ended.                                                  *)
THEOREM ActiveConnectionsExactHolds == Spec => []ActiveConnectionsExact
<1>1. ActiveConnectionsExact <=> active_connections = Cardinality(Counted)
  BY DEF ActiveConnectionsExact, Counted, Uncounted
<1>2. IsFiniteSet(Counted) /\ Cardinality(Counted) \in Nat
  <2>1. Counted \subseteq Conns
    BY DEF Counted, Conns
  <2>2. IsFiniteSet(Counted)
    BY <2>1, ConnsAssumption, FS_Subset
  <2> QED
    BY <2>2, FS_CardinalityType
<1>3. Init => ActiveConnectionsExact
  <2> SUFFICES ASSUME Init PROVE active_connections = Cardinality(Counted)
    BY <1>1
  <2>1. Counted = {}
    BY DEF Init, HandlerInit, Counted, Uncounted, Conns
  <2> QED
    BY <2>1, FS_EmptySet DEF Init, ServerStateInit
<1>4. TypeOK /\ ActiveConnectionsExact /\ [Next]_vars => ActiveConnectionsExact'
  <2> SUFFICES ASSUME TypeOK, ActiveConnectionsExact, [Next]_vars
               PROVE  active_connections' = Cardinality(Counted')
    BY DEF ActiveConnectionsExact, Counted, Uncounted
  <2>1. CASE Counted' = Counted /\ UNCHANGED active_connections
    BY <1>1, <2>1
  <2>2. ASSUME NEW c \in PipeConns \ Counted, Counted' = Counted \cup {c},
               active_connections' = active_connections + 1
        PROVE  active_connections' = Cardinality(Counted')
    BY <1>1, <1>2, <2>2, FS_AddElement
  <2>3. ASSUME NEW c \in Counted, Counted' = Counted \ {c},
               active_connections' = active_connections - 1
        PROVE  active_connections' = Cardinality(Counted')
    BY <1>1, <1>2, <2>3, FS_RemoveElement
  <2> QED
    BY <2>1, <2>2, <2>3, NextCounted DEF CountEffect
<1> QED
  BY <1>3, <1>4, TypeCorrect, PTL DEF Spec
=============================================================================
