------------------------------- MODULE Daemon -------------------------------
(***************************************************************************)
(* wininspectd while it runs: the pipe threads, the TCP threads and the    *)
(* session cleanup thread over one ServerState, with clients that send any *)
(* request of Requests at any time and windows that come and go.           *)
(***************************************************************************)
EXTENDS PipeHandler, TcpHandler

Init == ServerStateInit /\ HandlerInit

(* A window is created or destroyed, by an application or by a request. *)
ChangeWorld ==
    /\ \E w \in Windows : world' = (world \cup {w}) \ (world \cap {w})
    /\ UNCHANGED <<shared, control, locals>>

Cleanup == CleanupSessions /\ UNCHANGED <<control, world, locals>>

PipeNext(c) ==
    \/ PipeAccept(c)
    \/ PipeStart(c)
    \/ \E r \in Requests : PipeUnauthorized(c, r) \/ PipeReceive(c, r)
    \/ Malformed(c)
    \/ PipeServe(c)
    \/ PipeDisconnect(c)

TcpNext(c) ==
    \/ TcpAccept(c)
    \/ \E r \in Requests : TcpTooManySessions(c, r) \/ TcpReceive(c, r)
    \/ Malformed(c)
    \/ TcpServe(c)
    \/ TcpDisconnect(c)

Next ==
    \/ \E c \in PipeConns : PipeNext(c)
    \/ \E c \in TcpConns : TcpNext(c)
    \/ Cleanup
    \/ ChangeWorld

Spec == Init /\ [][Next]_vars

(* The scheduler keeps running every thread that can run, and the core     *)
(* returns from every request.  Clients owe nothing.                       *)
Fairness ==
    /\ \A c \in PipeConns : WF_vars(PipeServe(c))
    /\ \A c \in TcpConns : WF_vars(TcpServe(c))

FairSpec == Spec /\ Fairness

(***************************************************************************)
(* Properties.                                                             *)
(***************************************************************************)

(* The shared state and the locals of every thread keep their C++ types; a *)
(* stored snapshot never has the number that stands for "no snapshot".     *)
TypeOK == ServerStateTypeOK /\ HandlerTypeOK

(* The LRU list and the snapshot map, two structures every handler updates *)
(* by hand, always agree: the list names each stored snapshot exactly once *)
(* and nothing else, so eviction can neither miss a snapshot nor look for  *)
(* one that is gone.                                                       *)
LruEnumeratesStore ==
    /\ {lru_order[k] : k \in 1 .. Len(lru_order)} = DOMAIN snaps
    /\ \A j, k \in 1 .. Len(lru_order) : lru_order[j] = lru_order[k] => j = k

(* A snapshot id means one snapshot for ever: what is stored under an id   *)
(* never changes, and an id that is not stored is stored again only if it  *)
(* was never given out.  A client that holds an id across other clients'   *)
(* captures and evictions gets that snapshot or E_BAD_SNAPSHOT.            *)
SnapshotIdsNeverReused ==
    [][\A s \in DOMAIN snaps' :
          IF s \in DOMAIN snaps THEN snaps'[s] = snaps[s]
                                ELSE s >= snap_counter /\ s < snap_counter']_vars

(* snapshot.capture gives up the snapshot it is about to answer with only  *)
(* when nothing else can go: whatever the pinned entries the eviction loop *)
(* moved behind it, the captured one is erased only while every other      *)
(* stored snapshot is pinned.                                              *)
CapturedEvictedLast ==
    [][\A c \in Conns :
          LET sid == resp[c].snapshot_id
          IN  pc[c] = "evict" /\ sid \in DOMAIN snaps \ DOMAIN snaps'
                 => \A s \in DOMAIN snaps \ {sid} : Pinned(s)]_vars

(* The connections whose request in progress pinned s. *)
Holders(s) == {c \in Conns : Busy(c) /\ pinned_sid[c] = s}

(* Pins do not leak: a snapshot counts at most as many pins as requests    *)
(* hold it, on every path out of a request (answer, error, timeout) and    *)
(* after a disconnect, so a snapshot nobody uses can be evicted.           *)
PinsNeverLeak == \A s \in SnapIds : pinned_counts[s] <= Cardinality(Holders(s))

(* A request that names a snapshot is answered from that snapshot: while   *)
(* the id is still stored, the copy the thread works on is what is stored. *)
NamedSnapshotServed ==
    \A c \in Conns :
        /\ pc[c] \in {"old", "core", "drain", "rebase"}
        /\ pinned_sid[c] \in DOMAIN snaps
        => snap[c] = snaps[pinned_sid[c]]

(* A session recorded as subscribed has a baseline that was really issued, *)
(* whatever mix of subscribe, unsubscribe, poll, terminate and TTL cleanup *)
(* its connections went through.                                           *)
SubscribedHasBaseline ==
    \A i \in DOMAIN sessions :
        sessions[i].subscribed => sessions[i].last_snap_id \in 1 .. snap_counter - 1

(* The baseline kept for a session moves to a newer id or is dropped: two  *)
(* connections that poll the same session cannot put an older id back.     *)
BaselinesAdvance ==
    [][\A i \in DOMAIN sessions \cap DOMAIN sessions' :
          \/ sessions'[i].last_snap_id \in {sessions[i].last_snap_id, NoSnap}
          \/ sessions'[i].last_snap_id > sessions[i].last_snap_id]_vars

(* active_connections counts exactly the pipe threads that have started    *)
(* and not ended, however many of them the accept loop let in before the   *)
(* first one counted itself.                                               *)
ActiveConnectionsExact ==
    active_connections =
        Cardinality({c \in PipeConns : pc[c] \notin {"closed", "accepted"}})

(* The pin protects: the snapshot a request in progress pinned is stored   *)
(* until the request gives the pin back.                                   *)
HeldSnapshotsStay ==
    \A c \in Conns : Busy(c) /\ pinned_sid[c] # NoSnap
                        => pinned_sid[c] \in DOMAIN snaps

(* The number of pins is the number of requests that hold them. *)
PinsExact == \A s \in SnapIds : pinned_counts[s] = Cardinality(Holders(s))

(* The lease a connection holds in the abstract store. *)
Lease == [c \in Conns |-> IF Busy(c) THEN pinned_sid[c] ELSE NoSnap]

Leases == INSTANCE SnapshotLeases
            WITH Clients <- Conns, Numbers <- SnapIds, Values <- Content,
                 issued <- snaps, next <- snap_counter, lease <- Lease

(* The store with its LRU list, pin counts and mutex implements the        *)
(* abstract one: every step of every thread issues one snapshot, takes or  *)
(* gives back one lease, discards one snapshot nobody holds, or changes    *)
(* nothing a client can see.                                               *)
ImplementsLeases == Leases!LeasesSpec

(* Outside the critical section of snapshot.capture no more than           *)
(* max_snapshots snapshots are stored, as ARCHITECTURE.md says of the      *)
(* store.  events.subscribe and events.poll store theirs without evicting. *)
StoreWithinLimit == mu = Nobody => Len(lru_order) <= max_snapshots

(* No more pipe connections than max_connections are served at a time, as  *)
(* formal/tla/README.md says.  The accept loop reads the count, and the    *)
(* thread it starts increments it later.                                   *)
ConnectionLimitEnforced == active_connections <= max_connections

(* No more persistent sessions than max_sessions exist. *)
SessionLimitEnforced == Cardinality(DOMAIN sessions) <= max_sessions

(* Every request a thread takes in is answered, and the thread returns to  *)
(* its client: the eviction loop ends, as long as requests pin no more     *)
(* than max_snapshots snapshots (with more it does not).                   *)
RequestsAnswered == \A c \in Conns : Busy(c) ~> pc[c] = "reading"
=============================================================================
