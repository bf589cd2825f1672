----------------------------- MODULE PinProofs -----------------------------
(***************************************************************************)
(* Pins: they never leak, whatever the transport; and when all connections *)
(* are TCP connections they count exactly the requests that hold them, a   *)
(* held snapshot is never evicted, and the store implements                *)
(* SnapshotLeases.                                                         *)
(***************************************************************************)
EXTENDS DaemonProofs, FiniteSetTheorems

\* Unless a leaf names Zenon it is one for SMT; the limit leaves a slow machine its time.
USE SMTT(60) DEF shared, store, locals, control

(* Where a request is before it can have pinned anything. *)
BeforePin == {"subscribe", "subscribing", "unsubscribe", "terminate",
              "capture", "store", "evict", "lookup"}

(* pinned_sid is empty until the lookup and set when a pin is given back:  *)
(* without it a step could overwrite or return a pin it does not have.     *)
LocalInv ==
    \A c \in Conns : /\ pc[c] \in BeforePin => pinned_sid[c] = NoSnap
                     /\ pc[c] = "unpin" => pinned_sid[c] # NoSnap

Idle == {"closed", "accepted", "reading"}

(* A step within a request that leaves pinned_sid alone. *)
LEMMA GotoLease ==
    ASSUME TypeOK, NEW c \in Conns, NEW l, Goto(c, l), UNCHANGED pinned_sid,
           \/ Busy(c) /\ l \notin Idle
           \/ ~Busy(c) /\ l \in Idle
    PROVE  Lease' = Lease
<1>1. \A d \in Conns : Busy(d)' = Busy(d)
  <2> SUFFICES ASSUME NEW d \in Conns PROVE Busy(d)' = Busy(d)
    OBVIOUS
  <2>1. CASE d = c
    BY <2>1 DEF TypeOK, HandlerTypeOK, Goto, Busy, Idle
  <2>2. CASE d # c
    BY <2>2 DEF TypeOK, HandlerTypeOK, Goto, Busy
  <2> QED
    BY <2>1, <2>2
<1> QED
  BY <1>1 DEF Lease

(* A step between requests, or one that holds no pin on either side. *)
LEMMA NoLeaseStep ==
    ASSUME TypeOK, NEW c \in Conns, NEW l, NEW p, Goto(c, l),
           pinned_sid' = [pinned_sid EXCEPT ![c] = p],
           ~Busy(c) \/ pinned_sid[c] = NoSnap,
           l \in Idle \/ p = NoSnap
    PROVE  Lease' = Lease
<1> SUFFICES ASSUME NEW d \in Conns
             PROVE  (IF Busy(d) THEN pinned_sid[d] ELSE NoSnap)' =
                    (IF Busy(d) THEN pinned_sid[d] ELSE NoSnap)
  BY DEF Lease
<1>1. CASE d = c
  BY <1>1 DEF TypeOK, HandlerTypeOK, Goto, Busy, Idle
<1>2. CASE d # c
  BY <1>2 DEF TypeOK, HandlerTypeOK, Goto, Busy
<1> QED
  BY <1>1, <1>2

(* All a step of the daemon can do to pins and leases. *)
LeaseEffect ==
    \/ /\ Lease' = Lease /\ UNCHANGED pinned_counts
       /\ \/ UNCHANGED <<snap_counter, snaps>>
          \/ \E x \in Content : StoreSnapshot(x)
    \/ /\ UNCHANGED <<snap_counter, snaps>>
       /\ \E c \in Conns, s \in DOMAIN snaps :
             /\ Lease[c] = NoSnap
             /\ Lease' = [Lease EXCEPT ![c] = s]
             /\ PinSnapshot(s)
    \/ /\ UNCHANGED <<snap_counter, snaps>>
       /\ \E c \in Conns : /\ Lease[c] # NoSnap
                           /\ Lease' = [Lease EXCEPT ![c] = NoSnap]
                           /\ UnpinSnapshot(Lease[c])
    \/ Lease' = Lease /\ EvictFront
    \/ /\ PipeConns # {}
       /\ Lease' = Lease /\ UNCHANGED <<snap_counter, snaps>>
       /\ \E s \in SnapRefs \ {NoSnap} : UnpinSnapshot(s)

LEMMA ServeStepLeaseEffect ==
    ASSUME TypeOK, NEW c \in Conns, ServeStep(c)
    PROVE  LeaseEffect
<1>1. snap[c] \in Content
  BY DEF TypeOK, HandlerTypeOK
<1>2. CASE Subscribe(c) \/ StoreCaptured(c) \/ Rebase(c)
  <2>1. Lease' = Lease
    BY <1>2, GotoLease DEF Subscribe, StoreCaptured, Rebase, Respond, Busy, Idle
  <2> QED
    BY <1>1, <1>2, <2>1 DEF Subscribe, StoreCaptured, Rebase, LeaseEffect
<1>3. CASE EvictStep(c)
  <2>1. Lease' = Lease
    BY <1>3 DEF EvictStep, Lease, Busy
  <2> QED
    BY <1>3, <2>1 DEF EvictStep, RotateFront, LeaseEffect
<1>4. CASE \/ SubscribeCapture(c) \/ CaptureSnapshot(c)
           \/ CaptureCurrent(c) \/ RebaseCapture(c)
  <2>1. Lease' = Lease
    BY <1>4, GotoLease
       DEF SubscribeCapture, CaptureSnapshot, CaptureCurrent, RebaseCapture,
           CaptureFor, Busy, Idle
  <2> QED
    BY <1>4, <2>1
       DEF SubscribeCapture, CaptureSnapshot, CaptureCurrent, RebaseCapture,
           CaptureFor, LeaseEffect
<1>5. CASE \/ Unsubscribe(c) \/ Terminate(c) \/ EvictDone(c)
           \/ LookupMissing(c) \/ FindOld(c)
           \/ CoreTimesOut(c) \/ CoreDrains(c) \/ SendPinned(c)
  <2>1. Lease' = Lease
    BY <1>5, GotoLease
       DEF Unsubscribe, Terminate, EvictDone, LookupMissing, FindOld,
           CoreTimesOut, CoreDrains, SendPinned, Respond, Busy, Idle
  <2> QED
    BY <1>5, <2>1
       DEF Unsubscribe, Terminate, EvictDone, LookupMissing, FindOld,
           CoreTimesOut, CoreDrains, SendPinned, LeaseEffect
<1>6. CASE CoreAnswers(c)
  <2>1. PICK l \in {"rebase", "send"} : Goto(c, l)
    BY <1>6 DEF CoreAnswers
  <2>2. Lease' = Lease
    BY <1>6, <2>1, GotoLease DEF CoreAnswers, Busy, Idle
  <2> QED
    BY <1>6, <2>2 DEF CoreAnswers, LeaseEffect
<1> QED
  BY <1>2, <1>3, <1>4, <1>5, <1>6 DEF ServeStep

LEMMA LookupFoundLeaseEffect ==
    ASSUME TypeOK, LocalInv, NEW c \in Conns, LookupFound(c)
    PROVE  LeaseEffect
<1> DEFINE s == req[c].snapshot_id
<1>1. pc[c] = "lookup" /\ s \in DOMAIN snaps
  BY DEF LookupFound
<1>2. Lease[c] = NoSnap
  BY <1>1 DEF LocalInv, BeforePin, Lease
<1>3. Lease' = [Lease EXCEPT ![c] = s]
  <2> SUFFICES ASSUME NEW d \in Conns
               PROVE  (IF Busy(d) THEN pinned_sid[d] ELSE NoSnap)' =
                      IF d = c THEN s ELSE IF Busy(d) THEN pinned_sid[d] ELSE NoSnap
    BY ZenonT(60) DEF Lease
  <2> QED
    BY DEF LookupFound, Goto, Busy, TypeOK, HandlerTypeOK
<1> QED
  BY <1>1, <1>2, <1>3, ZenonT(60) DEF LookupFound, LeaseEffect

LEMMA UnpinLeaseEffect ==
    ASSUME TypeOK, LocalInv, NEW c \in Conns, NEW cs, NEW p, Unpin(c, cs, p)
    PROVE  LeaseEffect
<1>1. pc[c] = "unpin" /\ pinned_sid[c] # NoSnap
  BY DEF Unpin, LocalInv
<1>2. Lease[c] = pinned_sid[c]
  BY <1>1 DEF Lease, Busy
<1>3. Lease' = [Lease EXCEPT ![c] = NoSnap]
  <2> SUFFICES ASSUME NEW d \in Conns
               PROVE  (IF Busy(d) THEN pinned_sid[d] ELSE NoSnap)' =
                      IF d = c THEN NoSnap
                      ELSE IF Busy(d) THEN pinned_sid[d] ELSE NoSnap
    BY ZenonT(60) DEF Lease
  <2> QED
    BY DEF Unpin, NextIteration, Goto, Busy, TypeOK, HandlerTypeOK
<1> QED
  BY <1>1, <1>2, <1>3, ZenonT(60) DEF Unpin, LeaseEffect

(* Taking a request in, refusing one and answering one that pinned nothing *)
(* leave the leases and the store alone.                                   *)
LEMMA ReceiveLeaseEffect ==
    ASSUME TypeOK, NEW c \in Conns, NEW r, NEW cs, NEW e,
           Admit(c, r, cs) \/ Refuse(c, r, e) \/ SendUnpinned(c, cs)
    PROVE  LeaseEffect
<1>1. CASE Admit(c, r, cs)
  <2>1. \E l : Goto(c, l)
    BY <1>1 DEF Admit, Respond
  <2>2. Lease' = Lease
    BY <1>1, <2>1, NoLeaseStep, ZenonT(60) DEF Admit, Busy
  <2> QED
    BY <1>1, <2>2 DEF Admit, LeaseEffect
<1>2. CASE Refuse(c, r, e)
  <2>1. Lease' = Lease
    BY <1>2, NoLeaseStep, ZenonT(60) DEF Refuse, Respond, Busy
  <2> QED
    BY <1>2, <2>1 DEF Refuse, LeaseEffect
<1>3. CASE SendUnpinned(c, cs)
  <2>1. Lease' = Lease
    BY <1>3, NoLeaseStep, ZenonT(60) DEF SendUnpinned, MustUnpin, NextIteration
  <2> QED
    BY <1>3, <2>1 DEF SendUnpinned, LeaseEffect
<1> QED
  BY <1>1, <1>2, <1>3

LEMMA NextLeaseEffect ==
    ASSUME TypeOK, LocalInv, [Next]_vars
    PROVE  LeaseEffect
<1>1. ASSUME NEW c \in PipeConns, PipeNext(c) PROVE LeaseEffect
  <2>0. c \in Conns /\ PipeConns # {} /\ pinned_sid[c] \in SnapRefs
    BY DEF Conns, TypeOK, HandlerTypeOK
  <2>1. CASE ServeStep(c)
    BY <2>0, <2>1, ServeStepLeaseEffect
  <2>2. CASE PipeLookupFound(c)
    BY <2>0, <2>2, LookupFoundLeaseEffect DEF PipeLookupFound
  <2>3. CASE PipeUnpin(c)
    BY <2>0, <2>3, UnpinLeaseEffect DEF PipeUnpin
  <2>4. CASE \/ PipeSend(c) \/ Malformed(c)
             \/ \E r \in Requests : PipeUnauthorized(c, r) \/ PipeReceive(c, r)
    BY <2>0, <2>4, ReceiveLeaseEffect
       DEF PipeSend, Malformed, PipeUnauthorized, PipeReceive
  <2>5. CASE PipeAccept(c)
    <3>1. Lease' = Lease
      BY <2>0, <2>5, GotoLease DEF PipeAccept, Busy, Idle
    <3> QED
      BY <2>5, <3>1 DEF PipeAccept, LeaseEffect
  <2>6. CASE PipeStart(c)
    <3>1. Lease' = Lease
      BY <2>0, <2>6, NoLeaseStep, ZenonT(60) DEF PipeStart, Busy
    <3> QED
      BY <2>6, <3>1 DEF PipeStart, LeaseEffect
  <2>7. CASE PipeDisconnect(c)
    <3>1. Lease' = Lease
      BY <2>0, <2>7, NoLeaseStep, ZenonT(60) DEF PipeDisconnect, Busy
    <3> QED
      BY <2>0, <2>7, <3>1 DEF PipeDisconnect, LeaseEffect
  <2> QED
    BY <1>1, <2>1, <2>2, <2>3, <2>4, <2>5, <2>6, <2>7 DEF PipeNext, PipeServe
<1>2. ASSUME NEW c \in TcpConns, TcpNext(c) PROVE LeaseEffect
  <2>0. c \in Conns
    BY DEF Conns
  <2>1. CASE ServeStep(c)
    BY <2>0, <2>1, ServeStepLeaseEffect
  <2>2. CASE TcpLookupFound(c)
    BY <2>0, <2>2, LookupFoundLeaseEffect DEF TcpLookupFound
  <2>3. CASE TcpUnpin(c)
    BY <2>0, <2>3, UnpinLeaseEffect DEF TcpUnpin
  <2>4. CASE \/ TcpSend(c) \/ Malformed(c)
             \/ \E r \in Requests : TcpTooManySessions(c, r) \/ TcpReceive(c, r)
    BY <2>0, <2>4, ReceiveLeaseEffect
       DEF TcpSend, Malformed, TcpTooManySessions, TcpReceive
  <2>5. CASE TcpAccept(c) \/ TcpDisconnect(c)
    <3>1. Lease' = Lease
      BY <2>0, <2>5, GotoLease DEF TcpAccept, TcpDisconnect, Busy, Idle
    <3> QED
      BY <2>5, <3>1 DEF TcpAccept, TcpDisconnect, LeaseEffect
  <2> QED
    BY <1>2, <2>1, <2>2, <2>3, <2>4, <2>5 DEF TcpNext, TcpServe
<1>3. CASE Cleanup
  BY <1>3, ZenonT(60) DEF Cleanup, CleanupSessions, LeaseEffect, Lease, Busy
<1>4. CASE ChangeWorld
  BY <1>4, ZenonT(60) DEF ChangeWorld, LeaseEffect, Lease, Busy
<1>5. CASE UNCHANGED vars
  BY <1>5 DEF vars, LeaseEffect, Lease, Busy
<1> QED
  BY <1>1, <1>2, <1>3, <1>4, <1>5 DEF Next

(***************************************************************************)
(* LocalInv is inductive.                                                  *)
(***************************************************************************)

(* What one connection's step must leave behind for LocalInv. *)
LEMMA LocalInvStep ==
    ASSUME TypeOK, LocalInv, NEW c \in Conns, NEW l, NEW p, Goto(c, l),
           pinned_sid' = [pinned_sid EXCEPT ![c] = p],
           l \in BeforePin => p = NoSnap,
           l = "unpin" => p # NoSnap
    PROVE  LocalInv'
<1> SUFFICES ASSUME NEW d \in Conns
             PROVE  /\ pc'[d] \in BeforePin => pinned_sid'[d] = NoSnap
                    /\ pc'[d] = "unpin" => pinned_sid'[d] # NoSnap
  BY DEF LocalInv
<1> QED
  BY DEF LocalInv, Goto, TypeOK, HandlerTypeOK

LEMMA LocalInvGoto ==
    ASSUME TypeOK, LocalInv, NEW c \in Conns, NEW l, Goto(c, l),
           UNCHANGED pinned_sid,
           l \in BeforePin => pc[c] \in BeforePin,
           l = "unpin" => pinned_sid[c] # NoSnap
    PROVE  LocalInv'
<1>1. pinned_sid' = [pinned_sid EXCEPT ![c] = pinned_sid[c]]
  BY DEF TypeOK, HandlerTypeOK
<1>2. l \in BeforePin => pinned_sid[c] = NoSnap
  BY DEF LocalInv
<1> QED
  BY <1>1, <1>2, LocalInvStep, ZenonT(60)

LEMMA ServeStepLocalInv ==
    ASSUME TypeOK, LocalInv, NEW c \in Conns, ServeStep(c)
    PROVE  LocalInv'
<1>1. CASE \/ SubscribeCapture(c) \/ CaptureSnapshot(c)
           \/ CaptureCurrent(c) \/ RebaseCapture(c)
  BY <1>1, LocalInvGoto, ZenonT(60)
     DEF SubscribeCapture, CaptureSnapshot, CaptureCurrent, RebaseCapture,
         CaptureFor, BeforePin
<1>2. CASE \/ Subscribe(c) \/ Unsubscribe(c) \/ Terminate(c)
           \/ StoreCaptured(c) \/ EvictDone(c) \/ LookupMissing(c)
  BY <1>2, LocalInvGoto
     DEF Subscribe, Unsubscribe, Terminate, StoreCaptured, EvictDone,
         LookupMissing, Respond, BeforePin
<1>3. CASE \/ FindOld(c) \/ CoreTimesOut(c) \/ CoreDrains(c) \/ Rebase(c)
           \/ SendPinned(c)
  BY <1>3, LocalInvGoto
     DEF FindOld, CoreTimesOut, CoreDrains, Rebase, SendPinned, MustUnpin,
         BeforePin
<1>4. CASE CoreAnswers(c)
  <2>1. PICK l \in {"rebase", "send"} : Goto(c, l)
    BY <1>4, ZenonT(60) DEF CoreAnswers
  <2> QED
    BY <1>4, <2>1, LocalInvGoto, ZenonT(60) DEF CoreAnswers, BeforePin
<1>5. CASE EvictStep(c)
  BY <1>5 DEF EvictStep, LocalInv
<1> QED
  BY <1>1, <1>2, <1>3, <1>4, <1>5 DEF ServeStep

LEMMA RequestLocalInv ==
    ASSUME TypeOK, LocalInv, NEW c \in Conns, NEW r, NEW cs, NEW e, NEW p,
           \/ Admit(c, r, cs) \/ Refuse(c, r, e) \/ LookupFound(c)
           \/ SendUnpinned(c, cs) \/ Unpin(c, cs, p)
    PROVE  LocalInv'
<1>1. CASE Admit(c, r, cs)
  <2>1. PICK l : Goto(c, l) /\ l # "unpin"
    BY <1>1 DEF Admit, Respond, EntryPoint
  <2> QED
    BY <1>1, <2>1, LocalInvStep, ZenonT(60) DEF Admit
<1>2. CASE Refuse(c, r, e)
  BY <1>2, LocalInvStep, ZenonT(60) DEF Refuse, Respond, BeforePin
<1>3. CASE LookupFound(c)
  BY <1>3, LocalInvStep, ZenonT(60) DEF LookupFound, BeforePin
<1>4. CASE SendUnpinned(c, cs) \/ Unpin(c, cs, p)
  BY <1>4, LocalInvStep, ZenonT(60) DEF SendUnpinned, Unpin, NextIteration, BeforePin
<1> QED
  BY <1>1, <1>2, <1>3, <1>4

LEMMA LocalInvPreserved == TypeOK /\ LocalInv /\ [Next]_vars => LocalInv'
<1> SUFFICES ASSUME TypeOK, LocalInv, [Next]_vars PROVE LocalInv'
  OBVIOUS
<1>1. ASSUME NEW c \in PipeConns, PipeNext(c) PROVE LocalInv'
  <2>0. c \in Conns
    BY DEF Conns
  <2>1. CASE ServeStep(c)
    BY <2>0, <2>1, ServeStepLocalInv
  <2>2. CASE \/ PipeLookupFound(c) \/ PipeSend(c) \/ PipeUnpin(c) \/ Malformed(c)
             \/ \E r \in Requests : PipeUnauthorized(c, r) \/ PipeReceive(c, r)
    BY <2>0, <2>2, RequestLocalInv
       DEF PipeLookupFound, PipeSend, PipeUnpin, Malformed, PipeUnauthorized,
           PipeReceive
  <2>3. CASE PipeAccept(c)
    BY <2>0, <2>3, LocalInvGoto DEF PipeAccept, BeforePin
  <2>4. CASE PipeStart(c) \/ PipeDisconnect(c)
    BY <2>0, <2>4, LocalInvStep DEF PipeStart, PipeDisconnect, BeforePin
  <2> QED
    BY <1>1, <2>1, <2>2, <2>3, <2>4 DEF PipeNext, PipeServe
<1>2. ASSUME NEW c \in TcpConns, TcpNext(c) PROVE LocalInv'
  <2>0. c \in Conns
    BY DEF Conns
  <2>1. CASE ServeStep(c)
    BY <2>0, <2>1, ServeStepLocalInv
  <2>2. CASE \/ TcpLookupFound(c) \/ TcpSend(c) \/ TcpUnpin(c) \/ Malformed(c)
             \/ \E r \in Requests : TcpTooManySessions(c, r) \/ TcpReceive(c, r)
    BY <2>0, <2>2, RequestLocalInv
       DEF TcpLookupFound, TcpSend, TcpUnpin, Malformed, TcpTooManySessions,
           TcpReceive
  <2>3. CASE TcpAccept(c) \/ TcpDisconnect(c)
    BY <2>0, <2>3, LocalInvGoto DEF TcpAccept, TcpDisconnect, BeforePin
  <2> QED
    BY <1>2, <2>1, <2>2, <2>3 DEF TcpNext, TcpServe
<1>3. CASE Cleanup \/ ChangeWorld
  BY <1>3 DEF Cleanup, ChangeWorld, LocalInv
<1>4. CASE UNCHANGED vars
  BY <1>4 DEF vars, LocalInv
<1> QED
  BY <1>1, <1>2, <1>3, <1>4 DEF Next

LEMMA LocalInvInit == Init => LocalInv
BY DEF Init, HandlerInit, LocalInv, BeforePin

(***************************************************************************)
(* Counting holders.                                                       *)
(***************************************************************************)

LEMMA HoldersLease ==
    ASSUME NEW s \in SnapIds
    PROVE  /\ Holders(s) = {c \in Conns : Lease[c] = s}
           /\ Holders(s)' = {c \in Conns : Lease'[c] = s}
           /\ s # NoSnap
BY SnapIdsAssumption DEF Holders, Lease, NoSnap

LEMMA HoldersFinite ==
    ASSUME NEW s
    PROVE  IsFiniteSet(Holders(s)) /\ Cardinality(Holders(s)) \in Nat
<1>1. Holders(s) \subseteq Conns
  BY DEF Holders
<1>2. IsFiniteSet(Holders(s))
  BY <1>1, ConnsAssumption, FS_Subset
<1> QED
  BY <1>2, FS_CardinalityType

LEMMA PinCount ==
    ASSUME NEW c \in Conns, NEW s \in SnapIds, NEW t \in SnapIds,
           Lease[c] = NoSnap, Lease' = [Lease EXCEPT ![c] = s]
    PROVE  Cardinality(Holders(t)') =
             Cardinality(Holders(t)) + (IF t = s THEN 1 ELSE 0)
<1>0. Cardinality(Holders(t)) \in Nat /\ IsFiniteSet(Holders(t))
  BY HoldersFinite
<1>1. Lease = [d \in Conns |-> Lease[d]]
  BY ZenonT(60) DEF Lease
<1>2. CASE t = s
  <2>1. Holders(t)' = Holders(t) \cup {c} /\ c \notin Holders(t)
    BY <1>1, <1>2, HoldersLease
  <2> QED
    BY <1>0, <1>2, <2>1, FS_AddElement
<1>3. CASE t # s
  <2>1. Holders(t)' = Holders(t)
    BY <1>1, <1>3, HoldersLease
  <2> QED
    BY <1>0, <1>3, <2>1
<1> QED
  BY <1>2, <1>3

LEMMA UnpinCount ==
    ASSUME NEW c \in Conns, NEW t \in SnapIds,
           Lease[c] # NoSnap, Lease' = [Lease EXCEPT ![c] = NoSnap]
    PROVE  Cardinality(Holders(t)') =
             Cardinality(Holders(t)) - (IF t = Lease[c] THEN 1 ELSE 0)
<1>0. Cardinality(Holders(t)) \in Nat /\ IsFiniteSet(Holders(t))
  BY HoldersFinite
<1>1. Lease = [d \in Conns |-> Lease[d]]
  BY DEF Lease
<1>2. CASE t = Lease[c]
  <2>1. Holders(t)' = Holders(t) \ {c} /\ c \in Holders(t)
    BY <1>1, <1>2, HoldersLease
  <2> QED
    BY <1>0, <1>2, <2>1, FS_RemoveElement
<1>3. CASE t # Lease[c]
  <2>1. Holders(t)' = Holders(t)
    BY <1>1, <1>3, HoldersLease
  <2> QED
    BY <1>0, <1>3, <2>1
<1> QED
  BY <1>2, <1>3

LEMMA LeaseType ==
    ASSUME TypeOK, NEW c \in Conns
    PROVE  Lease[c] \in SnapIds \cup {NoSnap}
BY DEF TypeOK, HandlerTypeOK, Lease, SnapRefs

LEMMA SameLeaseSameHolders ==
    ASSUME Lease' = Lease, NEW t \in SnapIds
    PROVE  Cardinality(Holders(t)') = Cardinality(Holders(t))
BY HoldersLease

LEMMA PinsNeverLeakPreserved ==
    ASSUME TypeOK, PinsNeverLeak, LeaseEffect
    PROVE  PinsNeverLeak'
<1> SUFFICES ASSUME NEW t \in SnapIds
             PROVE  pinned_counts'[t] <= Cardinality(Holders(t)')
  BY DEF PinsNeverLeak
<1>0. /\ pinned_counts \in [SnapIds -> Int]
      /\ pinned_counts[t] \in Int
      /\ pinned_counts[t] <= Cardinality(Holders(t))
      /\ Cardinality(Holders(t)) \in Nat
  BY HoldersFinite, ZenonT(60) DEF TypeOK, ServerStateTypeOK, PinsNeverLeak
<1>1. CASE Lease' = Lease /\ UNCHANGED pinned_counts
  BY <1>0, <1>1, SameLeaseSameHolders
<1>2. ASSUME NEW c \in Conns, NEW s \in DOMAIN snaps, Lease[c] = NoSnap,
             Lease' = [Lease EXCEPT ![c] = s], PinSnapshot(s)
      PROVE  pinned_counts'[t] <= Cardinality(Holders(t)')
  <2>1. s \in SnapIds
    BY DEF TypeOK, ServerStateTypeOK
  <2>2. pinned_counts'[t] = pinned_counts[t] + (IF t = s THEN 1 ELSE 0)
    BY <1>0, <1>2, <2>1 DEF PinSnapshot
  <2>3. Cardinality(Holders(t)') =
          Cardinality(Holders(t)) + (IF t = s THEN 1 ELSE 0)
    BY <1>2, <2>1, PinCount, ZenonT(60)
  <2> QED
    BY <1>0, <2>2, <2>3
<1>3. ASSUME NEW c \in Conns, Lease[c] # NoSnap,
             Lease' = [Lease EXCEPT ![c] = NoSnap], UnpinSnapshot(Lease[c])
      PROVE  pinned_counts'[t] <= Cardinality(Holders(t)')
  <2>1. pinned_counts'[t] = pinned_counts[t] - (IF t = Lease[c] THEN 1 ELSE 0)
    BY <1>0, <1>3 DEF UnpinSnapshot
  <2>2. Cardinality(Holders(t)') =
          Cardinality(Holders(t)) - (IF t = Lease[c] THEN 1 ELSE 0)
    BY <1>3, UnpinCount, ZenonT(60)
  <2> QED
    BY <1>0, <2>1, <2>2
<1>4. CASE Lease' = Lease /\ EvictFront
  <2>1. pinned_counts'[t] \in {pinned_counts[t], 0}
    BY <1>0, <1>4 DEF EvictFront
  <2> QED
    BY <1>0, <1>4, <2>1, SameLeaseSameHolders
<1>5. ASSUME Lease' = Lease, NEW s, UnpinSnapshot(s)
      PROVE  pinned_counts'[t] <= Cardinality(Holders(t)')
  <2>1. pinned_counts'[t] \in {pinned_counts[t], pinned_counts[t] - 1}
    BY <1>0, <1>5 DEF UnpinSnapshot
  <2> QED
    BY <1>0, <1>5, <2>1, SameLeaseSameHolders
<1> QED
  BY <1>1, <1>2, <1>3, <1>4, <1>5 DEF LeaseEffect

(* No path through a request leaves a pin behind. *)
THEOREM NoPinLeaks == Spec => []PinsNeverLeak
<1>1. Init => PinsNeverLeak
  <2> SUFFICES ASSUME Init, NEW s \in SnapIds
               PROVE  pinned_counts[s] <= Cardinality(Holders(s))
    BY DEF PinsNeverLeak
  <2>1. pinned_counts[s] = 0
    BY DEF Init, ServerStateInit
  <2> QED
    BY <2>1, HoldersFinite
<1>2. TypeOK /\ LocalInv /\ PinsNeverLeak /\ [Next]_vars => PinsNeverLeak'
  BY NextLeaseEffect, PinsNeverLeakPreserved
<1> QED
  BY <1>1, <1>2, LocalInvInit, LocalInvPreserved, TypeCorrect, PTL DEF Spec

(***************************************************************************)
(* TCP connections only: pins protect.                                     *)
(***************************************************************************)

(* A held snapshot survives an eviction because its count is the number of *)
(* its holders, so the two statements are proved together.                 *)
PinInv == PinsExact /\ HeldSnapshotsStay

LEMMA HeldIsLeased ==
    /\ HeldSnapshotsStay <=>
         \A c \in Conns : Lease[c] # NoSnap => Lease[c] \in DOMAIN snaps
    /\ HeldSnapshotsStay' <=>
         \A c \in Conns : Lease'[c] # NoSnap => Lease'[c] \in DOMAIN snaps'
BY ZenonT(60) DEF HeldSnapshotsStay, Lease

(* The front of the list is evicted only if nobody holds it. *)
LEMMA EvictedIsFree ==
    ASSUME TypeOK, PinsExact, EvictFront
    PROVE  /\ Head(lru_order) \in SnapIds
           /\ \A c \in Conns : Lease[c] # Head(lru_order)
<1> DEFINE h == Head(lru_order)
<1>1. h \in SnapIds
  BY LimitsAssumption DEF TypeOK, ServerStateTypeOK, EvictFront, OverLimit
<1>2. pinned_counts[h] \in Int /\ ~(pinned_counts[h] > 0)
  BY <1>1 DEF EvictFront, Pinned, TypeOK, ServerStateTypeOK
<1> HIDE DEF h
<1>3. Cardinality(Holders(h)) = 0
  BY <1>1, <1>2, HoldersFinite DEF PinsExact
<1>4. Holders(h) = {}
  BY <1>3, HoldersFinite, FS_EmptySet
<1>5. \A c \in Conns : Lease[c] # h
  BY <1>1, <1>4, HoldersLease
<1> QED
  BY <1>1, <1>5 DEF h

LEMMA PinInvPreserved ==
    ASSUME TypeOK, PinInv, LeaseEffect, PipeConns = {}
    PROVE  PinInv'
<1> DEFINE Held == \A c \in Conns : Lease'[c] # NoSnap => Lease'[c] \in DOMAIN snaps'
<1>0. /\ \A c \in Conns : Lease[c] # NoSnap => Lease[c] \in DOMAIN snaps
      /\ Lease = [d \in Conns |-> Lease[d]]
      /\ pinned_counts \in [SnapIds -> Int]
      /\ \A t \in SnapIds : /\ pinned_counts[t] \in Int
                             /\ pinned_counts[t] = Cardinality(Holders(t))
  BY HeldIsLeased DEF PinInv, PinsExact, TypeOK, ServerStateTypeOK, Lease
<1>1. SUFFICES /\ \A t \in SnapIds : pinned_counts'[t] = Cardinality(Holders(t)')
               /\ Held
  BY <1>1, HeldIsLeased DEF PinInv, PinsExact
<1> HIDE DEF Held
<1>2. CASE /\ Lease' = Lease /\ UNCHANGED pinned_counts
           /\ \/ UNCHANGED <<snap_counter, snaps>>
              \/ \E x \in Content : StoreSnapshot(x)
  BY <1>0, <1>2, SameLeaseSameHolders DEF StoreSnapshot, Held
<1>3. ASSUME UNCHANGED <<snap_counter, snaps>>,
             NEW c \in Conns, NEW s \in DOMAIN snaps, Lease[c] = NoSnap,
             Lease' = [Lease EXCEPT ![c] = s], PinSnapshot(s)
      PROVE  /\ \A t \in SnapIds : pinned_counts'[t] = Cardinality(Holders(t)')
             /\ Held
  <2>1. s \in SnapIds
    BY DEF TypeOK, ServerStateTypeOK
  <2>2. ASSUME NEW t \in SnapIds
        PROVE  pinned_counts'[t] = Cardinality(Holders(t)')
    <3>1. pinned_counts'[t] = pinned_counts[t] + (IF t = s THEN 1 ELSE 0)
      BY <1>0, <1>3, <2>1 DEF PinSnapshot
    <3>2. Cardinality(Holders(t)') =
            Cardinality(Holders(t)) + (IF t = s THEN 1 ELSE 0)
      BY <1>3, <2>1, PinCount, ZenonT(60)
    <3> QED
      BY <1>0, <3>1, <3>2
  <2>3. Held
    BY <1>0, <1>3 DEF Held
  <2> QED
    BY <2>2, <2>3
<1>4. ASSUME UNCHANGED <<snap_counter, snaps>>,
             NEW c \in Conns, Lease[c] # NoSnap,
             Lease' = [Lease EXCEPT ![c] = NoSnap], UnpinSnapshot(Lease[c])
      PROVE  /\ \A t \in SnapIds : pinned_counts'[t] = Cardinality(Holders(t)')
             /\ Held
  <2>1. ASSUME NEW t \in SnapIds
        PROVE  pinned_counts'[t] = Cardinality(Holders(t)')
    <3>1. pinned_counts'[t] = pinned_counts[t] - (IF t = Lease[c] THEN 1 ELSE 0)
      BY <1>0, <1>4 DEF UnpinSnapshot
    <3>2. Cardinality(Holders(t)') =
            Cardinality(Holders(t)) - (IF t = Lease[c] THEN 1 ELSE 0)
      BY <1>4, UnpinCount, ZenonT(60)
    <3> QED
      BY <1>0, <3>1, <3>2
  <2>2. Held
    BY <1>0, <1>4 DEF Held
  <2> QED
    BY <2>1, <2>2
<1>5. CASE Lease' = Lease /\ EvictFront
  <2> DEFINE h == Head(lru_order)
  <2>1. h \in SnapIds /\ \A c \in Conns : Lease[c] # h
    BY <1>5, EvictedIsFree DEF PinInv
  <2>2. Holders(h) = {}
    BY <2>1, HoldersLease
  <2>3. Cardinality(Holders(h)) = 0
    BY <2>2, FS_EmptySet
  <2>4. /\ pinned_counts' = [pinned_counts EXCEPT ![h] = 0]
        /\ DOMAIN snaps' = DOMAIN snaps \ {h}
    BY <1>5 DEF EvictFront
  <2> HIDE DEF h
  <2>5. \A t \in SnapIds : pinned_counts'[t] = Cardinality(Holders(t)')
    BY <1>0, <1>5, <2>1, <2>3, <2>4, SameLeaseSameHolders
  <2>6. Held
    BY <1>0, <1>5, <2>1, <2>4 DEF Held
  <2> QED
    BY <2>5, <2>6
<1> QED
  BY <1>2, <1>3, <1>4, <1>5, ZenonT(60) DEF LeaseEffect

LEMMA PinInvInit == Init => PinInv
<1> SUFFICES ASSUME Init PROVE PinInv
  OBVIOUS
<1>1. \A c \in Conns : Lease[c] = NoSnap
  BY DEF Init, HandlerInit, Lease
<1>2. ASSUME NEW s \in SnapIds PROVE pinned_counts[s] = Cardinality(Holders(s))
  <2>1. Holders(s) = {}
    BY <1>1, HoldersLease
  <2> QED
    BY <2>1, FS_EmptySet DEF Init, ServerStateInit
<1> QED
  BY <1>1, <1>2, HeldIsLeased DEF PinInv, PinsExact

(* Over TCP the pins on a snapshot are exactly the requests that hold it. *)
THEOREM TcpPinsExact ==
    ASSUME PipeConns = {}
    PROVE  Spec => []PinsExact
<1>1. TypeOK /\ LocalInv /\ PinInv /\ [Next]_vars => PinInv'
  BY NextLeaseEffect, PinInvPreserved
<1>2. PinInv => PinsExact
  BY DEF PinInv
<1> QED
  BY <1>1, <1>2, PinInvInit, LocalInvInit, LocalInvPreserved, TypeCorrect, PTL
     DEF Spec

(* Over TCP the snapshot a request works on is never evicted under it. *)
THEOREM TcpHeldSnapshotsStay ==
    ASSUME PipeConns = {}
    PROVE  Spec => []HeldSnapshotsStay
<1>1. TypeOK /\ LocalInv /\ PinInv /\ [Next]_vars => PinInv'
  BY NextLeaseEffect, PinInvPreserved
<1>2. PinInv => HeldSnapshotsStay
  BY DEF PinInv
<1> QED
  BY <1>1, <1>2, PinInvInit, LocalInvInit, LocalInvPreserved, TypeCorrect, PTL
     DEF Spec

(***************************************************************************)
(* TCP connections only: the store implements SnapshotLeases.              *)
(***************************************************************************)

LEMMA LeasesInitRefined == Init => Leases!LeasesInit
BY DEF Init, ServerStateInit, HandlerInit, FirstNumber, Lease,
       Leases!LeasesInit, Leases!NoLease, NoSnap

LEMMA LeasesStepRefined ==
    ASSUME TypeOK, StoreInv, PinInv, LeaseEffect, PipeConns = {}
    PROVE  [Leases!LeasesNext]_(Leases!leaseVars)
<1> USE DEF Leases!LeasesNext, Leases!leaseVars, Leases!NoLease, NoSnap
<1>0. snap_counter \in Nat /\ DOMAIN snaps \subseteq SnapIds
  BY DEF TypeOK, ServerStateTypeOK
<1>1. CASE Lease' = Lease /\ UNCHANGED <<snap_counter, snaps>>
  BY <1>1
<1>2. ASSUME Lease' = Lease, NEW x \in Content, StoreSnapshot(x)
      PROVE  Leases!LeasesNext
  <2>1. snap_counter \notin DOMAIN snaps
    BY <1>0 DEF StoreInv
  <2>2. snaps' = [n \in DOMAIN snaps \cup {snap_counter} |->
                    IF n = snap_counter THEN x ELSE snaps[n]]
    BY <1>2, <2>1 DEF StoreSnapshot
  <2>3. Leases!Issue(x)
    BY <1>2, <2>2 DEF Leases!Issue, StoreSnapshot, NextNumber
  <2> QED
    BY <2>3
<1>3. ASSUME UNCHANGED <<snap_counter, snaps>>,
             NEW c \in Conns, NEW s \in DOMAIN snaps, Lease[c] = NoSnap,
             Lease' = [Lease EXCEPT ![c] = s]
      PROVE  Leases!LeasesNext
  <2>1. Leases!Acquire(c, s)
    BY <1>3 DEF Leases!Acquire
  <2> QED
    BY <1>0, <2>1
<1>4. ASSUME UNCHANGED <<snap_counter, snaps>>,
             NEW c \in Conns, Lease[c] # NoSnap,
             Lease' = [Lease EXCEPT ![c] = NoSnap]
      PROVE  Leases!LeasesNext
  <2>1. Leases!Release(c)
    BY <1>4 DEF Leases!Release
  <2> QED
    BY <2>1
<1>5. CASE Lease' = Lease /\ EvictFront
  <2> DEFINE h == Head(lru_order)
  <2>1. h \in SnapIds /\ \A c \in Conns : Lease[c] # h
    BY <1>5, EvictedIsFree DEF PinInv
  <2>2. h \in DOMAIN snaps
    <3>1. Len(lru_order) > 0 /\ lru_order \in Seq(SnapIds)
      BY <1>5, LimitsAssumption
         DEF EvictFront, OverLimit, TypeOK, ServerStateTypeOK
    <3> QED
      BY <3>1, StoreInvElems, TailElems
  <2>3. Leases!Discard(h)
    BY <1>5, <2>1, <2>2 DEF Leases!Discard, EvictFront
  <2> QED
    BY <2>1, <2>3
<1> QED
  BY <1>1, <1>2, <1>3, <1>4, <1>5, ZenonT(60) DEF LeaseEffect

(* Over TCP every behaviour of the daemon is, seen through the stored      *)
(* snapshots, the counter and the pins of the requests in progress, a      *)
(* behaviour of the abstract lease store.                                  *)
THEOREM TcpImplementsLeases ==
    ASSUME PipeConns = {}
    PROVE  Spec => ImplementsLeases
<1>1. TypeOK /\ LocalInv /\ PinInv /\ [Next]_vars => PinInv'
  BY NextLeaseEffect, PinInvPreserved
<1>2. Init => StoreInv
  BY DEF Init, ServerStateInit, StoreInv, LruEnumeratesStore
<1>3. TypeOK /\ StoreInv /\ [Next]_vars => StoreInv'
  BY NextStoreEffect, StoreInvPreserved
<1>4. TypeOK /\ StoreInv /\ LocalInv /\ PinInv /\ [Next]_vars
        => [Leases!LeasesNext]_(Leases!leaseVars)
  BY NextLeaseEffect, LeasesStepRefined
<1> QED
  BY <1>1, <1>2, <1>3, <1>4, LeasesInitRefined, PinInvInit, LocalInvInit,
     LocalInvPreserved, TypeCorrect, PTL
     DEF Spec, ImplementsLeases, Leases!LeasesSpec
=============================================================================
