---------------------------- MODULE PipeHandler ----------------------------
(***************************************************************************)
(* Named-pipe connections: run_server accepts, handle_client serves.  What *)
(* is particular to the pipe: the connection limit, the authentication     *)
(* gate, a ClientSession and a pinned_sid that live as long as the         *)
(* connection, the LRU touch, and an unpin when the client goes away.      *)
(***************************************************************************)
EXTENDS RequestHandler

(* The accept loop compares the count with the limit; the thread it starts *)
(* increments the count later.  A connection over the limit is dropped,    *)
(* which leaves it closed.                                                 *)
PipeAccept(c) ==
    /\ pc[c] = "closed"
    /\ active_connections < max_connections
    /\ Goto(c, "accepted")
    /\ UNCHANGED <<shared, config, world, locals>>

PipeStart(c) ==
    /\ pc[c] = "accepted"
    /\ active_connections' = active_connections + 1
    /\ session' = [session EXCEPT ![c] = NewClientSession]
    /\ pinned_sid' = [pinned_sid EXCEPT ![c] = NoSnap]
    /\ Goto(c, "reading")
    /\ UNCHANGED <<mu, store, sessions, config, world, req, snap, old, resp>>

(* config.require_auth stands for --require-auth or configured keys:       *)
(* either way nothing authenticates a pipe client later, so the            *)
(* configuration decides.                                                  *)
Authorized(r) == ~config.require_auth \/ r.method = "hello"

PipeUnauthorized(c, r) == ~Authorized(r) /\ Refuse(c, r, "E_UNAUTHORIZED")

PipeReceive(c, r) == Authorized(r) /\ Admit(c, r, session[c])

PipeLookupFound(c) ==
    /\ LookupFound(c)
    /\ TouchSnapshot(req[c].snapshot_id)

PipeSend(c) == SendUnpinned(c, session[c])

(* pinned_sid keeps its value until the next request is read. *)
PipeUnpin(c) == Unpin(c, session[c], pinned_sid[c])

(* The count is not decremented. *)
ConnGuardSlip == active_connections

ConnGuard == active_connections - 1

(* The read fails: the client is gone.  The last pinned_sid is unpinned    *)
(* and ConnGuard takes the connection off the count.                       *)
PipeDisconnect(c) ==
    /\ pc[c] = "reading"
    /\ IF pinned_sid[c] = NoSnap THEN UNCHANGED pinned_counts
       ELSE /\ mu = Nobody
            /\ pinned_counts[pinned_sid[c]] > PinFloor
            /\ UnpinSnapshot(pinned_sid[c])
    /\ active_connections' = ConnGuard
    /\ session' = [session EXCEPT ![c] = NewClientSession]
    /\ pinned_sid' = [pinned_sid EXCEPT ![c] = NoSnap]
    /\ Goto(c, "closed")
    /\ UNCHANGED <<mu, snap_counter, snaps, lru_order, sessions, config, world,
                   req, snap, old, resp>>

(* What the thread does on its own, without waiting for its client. *)
PipeServe(c) == ServeStep(c) \/ PipeLookupFound(c) \/ PipeSend(c) \/ PipeUnpin(c)
=============================================================================
