---------------------------- MODULE ServerState ----------------------------
(***************************************************************************)
(* The state every client thread of wininspectd shares (struct             *)
(* ServerState) and the operations the threads perform on it while they    *)
(* hold its mutex: storing a snapshot, the LRU list, the pin counts and    *)
(* the persistent sessions.  The operators below are the bodies of those   *)
(* critical sections; RequestHandler, PipeHandler and TcpHandler say when  *)
(* a thread enters them.                                                   *)
(*                                                                         *)
(* A snapshot is the set of top-level windows that existed when it was     *)
(* taken: that is all poll_events compares.  The id "s-<n>" is the number  *)
(* n and the empty string is NoSnap.                                       *)
(***************************************************************************)
EXTENDS Integers, Sequences, FiniteSets

CONSTANTS
    PipeConns,      \* connections over the named pipe
    TcpConns,       \* connections over TCP
    Nobody,         \* the mutex is free
    Windows,        \* top-level windows that may come and go
    Null,           \* the null old-snapshot pointer
    Sessions,       \* session_id strings clients use
    NoSession,      \* the empty session id
    SnapIds,        \* snapshot numbers the counter may reach (bound)
    PinFloor,       \* how far below zero disconnects take a count (bound)
    max_snapshots,  \* ServerState::max_snapshots
    max_sessions,   \* ServerState::max_sessions
    max_connections \* ServerState::max_connections

Conns == PipeConns \cup TcpConns

NoSnap == 0

ASSUME ConnsAssumption ==
    /\ PipeConns \cap TcpConns = {}
    /\ IsFiniteSet(Conns)
    /\ Nobody \notin Conns

ASSUME SnapIdsAssumption == SnapIds \subseteq Nat \ {NoSnap}

ASSUME LimitsAssumption ==
    /\ PinFloor \in Int
    /\ max_snapshots \in Nat
    /\ max_sessions \in Nat
    /\ max_connections \in Nat

ASSUME SentinelsAssumption ==
    /\ NoSession \notin Sessions
    /\ \A W \in SUBSET Windows : W # Null

VARIABLES
    mu,                 \* who holds ServerState::mu
    snap_counter,       \* next snapshot number
    snaps,              \* stored snapshots: number -> windows
    lru_order,          \* eviction order, front first
    pinned_counts,      \* number -> count; a missing entry counts 0
    sessions,           \* persistent sessions: id -> PersistentSession
    active_connections  \* pipe threads that counted themselves

store == <<snap_counter, snaps, lru_order, pinned_counts>>

Content == SUBSET Windows

SnapRefs == SnapIds \cup {NoSnap}

PersistentSession == [last_snap_id : SnapRefs, subscribed : BOOLEAN]

(* What sessions[id] creates for an id that is not there. *)
DefaultSession == [last_snap_id |-> NoSnap, subscribed |-> FALSE]

ServerStateTypeOK ==
    /\ mu \in Conns \cup {Nobody}
    /\ snap_counter \in Nat \ {NoSnap}
    /\ DOMAIN snaps \subseteq SnapIds
    /\ snaps \in [DOMAIN snaps -> Content]
    /\ lru_order \in Seq(SnapIds)
    /\ pinned_counts \in [SnapIds -> Int]
    /\ DOMAIN sessions \subseteq Sessions
    /\ sessions \in [DOMAIN sessions -> PersistentSession]
    /\ active_connections \in Int

(* An operator named ...Slip is a wrong version of the one it precedes,    *)
(* there to see that a property notices the mistake.                       *)

(* Numbering starts at the number that stands for no snapshot. *)
FirstNumberSlip == 0

FirstNumber == 1

ServerStateInit ==
    /\ mu = Nobody
    /\ snap_counter = FirstNumber
    /\ snaps = [s \in {} |-> {}]
    /\ lru_order = <<>>
    /\ pinned_counts = [s \in SnapIds |-> 0]
    /\ sessions = [i \in {} |-> DefaultSession]
    /\ active_connections = 0

(***************************************************************************)
(* Critical sections on the snapshot store.                                *)
(***************************************************************************)

(* The increment is lost. *)
NextNumberSlip == snap_counter

NextNumber == snap_counter + 1

(* Queued as the next to go. *)
StoreSnapshotSlip(content) ==
    /\ snap_counter \in SnapIds
    /\ snaps' = [s \in DOMAIN snaps \cup {snap_counter} |->
                    IF s \in DOMAIN snaps THEN snaps[s] ELSE content]
    /\ lru_order' = <<snap_counter>> \o lru_order
    /\ snap_counter' = NextNumber

(* Number the snapshot, emplace it and queue it as most recently used.     *)
(* emplace keeps an entry that is already there.                           *)
StoreSnapshot(content) ==
    /\ snap_counter \in SnapIds
    /\ snaps' = [s \in DOMAIN snaps \cup {snap_counter} |->
                    IF s \in DOMAIN snaps THEN snaps[s] ELSE content]
    /\ lru_order' = Append(lru_order, snap_counter)
    /\ snap_counter' = NextNumber

(* list::remove.  The list never repeats an id (LruEnumeratesStore), so    *)
(* one position is all there is to delete.                                 *)
Without(list, s) ==
    LET i == CHOOSE k \in 1 .. Len(list) : list[k] = s
    IN  [k \in 1 .. Len(list) - 1 |-> IF k < i THEN list[k] ELSE list[k + 1]]

(* The count is not incremented. *)
PinSnapshotSlip(s) == UNCHANGED pinned_counts

(* Pin s for the request in progress. *)
PinSnapshot(s) ==
    pinned_counts' = [pinned_counts EXCEPT ![s] = @ + 1]

(* Queued again without being taken out of the list. *)
TouchSnapshotSlip(s) == lru_order' = Append(lru_order, s)

(* The pipe server also makes s the most recently used. *)
TouchSnapshot(s) ==
    lru_order' = Append(Without(lru_order, s), s)

UnpinSnapshot(s) ==
    pinned_counts' = [pinned_counts EXCEPT ![s] = @ - 1]

OverLimit == Len(lru_order) > max_snapshots

(* The pin is not looked at. *)
PinnedSlip(s) == FALSE

Pinned(s) == pinned_counts[s] > 0

(* The pinned front stays at the front. *)
RotatedSlip == lru_order

Rotated == Append(Tail(lru_order), Head(lru_order))

(* One iteration of the eviction loop whose front is pinned. *)
RotateFront ==
    /\ OverLimit
    /\ Pinned(Head(lru_order))
    /\ lru_order' = Rotated
    /\ UNCHANGED <<snap_counter, snaps, pinned_counts>>

(* One iteration of the eviction loop that evicts the front. *)
EvictFront ==
    /\ OverLimit
    /\ ~Pinned(Head(lru_order))
    /\ lru_order' = Tail(lru_order)
    /\ snaps' = [s \in DOMAIN snaps \ {Head(lru_order)} |-> snaps[s]]
    /\ pinned_counts' = [pinned_counts EXCEPT ![Head(lru_order)] = 0]
    /\ UNCHANGED snap_counter

(***************************************************************************)
(* Critical sections on the persistent sessions.                           *)
(***************************************************************************)

(* sessions[i], which creates a default entry when there is none. *)
SessionAt(i) == IF i \in DOMAIN sessions THEN sessions[i] ELSE DefaultSession

WithSession(i, ps) ==
    [j \in DOMAIN sessions \cup {i} |-> IF j = i THEN ps ELSE sessions[j]]

WithoutSessions(S) == [j \in DOMAIN sessions \ S |-> sessions[j]]

(* The cleanup thread drops every session idle for longer than the TTL.    *)
(* Time is abstracted: any set of sessions may have been idle that long.   *)
CleanupSessions ==
    /\ mu = Nobody
    /\ \E S \in SUBSET (DOMAIN sessions) \ {{}} : sessions' = WithoutSessions(S)
    /\ UNCHANGED <<mu, store, active_connections>>
=============================================================================
