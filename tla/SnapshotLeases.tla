--------------------------- MODULE SnapshotLeases ---------------------------
(***************************************************************************)
(* What the snapshot store promises its clients, without the LRU list, the *)
(* pin counts, the mutex or the request loop: snapshots are issued under   *)
(* increasing numbers, a client may hold a lease on one issued snapshot,   *)
(* and only snapshots nobody holds are ever discarded.                     *)
(***************************************************************************)
EXTENDS Naturals

CONSTANTS Clients, Numbers, Values

VARIABLES issued, next, lease

leaseVars == <<issued, next, lease>>

NoLease == 0

LeasesInit ==
    /\ issued = [n \in {} |-> {}]
    /\ next = 1
    /\ lease = [c \in Clients |-> NoLease]

Issue(v) ==
    /\ next \in Numbers
    /\ issued' = [n \in DOMAIN issued \cup {next} |->
                     IF n = next THEN v ELSE issued[n]]
    /\ next' = next + 1
    /\ UNCHANGED lease

Acquire(c, n) ==
    /\ lease[c] = NoLease
    /\ n \in DOMAIN issued
    /\ lease' = [lease EXCEPT ![c] = n]
    /\ UNCHANGED <<issued, next>>

Release(c) ==
    /\ lease[c] # NoLease
    /\ lease' = [lease EXCEPT ![c] = NoLease]
    /\ UNCHANGED <<issued, next>>

Discard(n) ==
    /\ n \in DOMAIN issued
    /\ \A c \in Clients : lease[c] # n
    /\ issued' = [m \in DOMAIN issued \ {n} |-> issued[m]]
    /\ UNCHANGED <<next, lease>>

LeasesNext ==
    \/ \E v \in Values : Issue(v)
    \/ \E c \in Clients : Release(c) \/ \E n \in Numbers : Acquire(c, n)
    \/ \E n \in Numbers : Discard(n)

LeasesSpec == LeasesInit /\ [][LeasesNext]_leaseVars
=============================================================================
