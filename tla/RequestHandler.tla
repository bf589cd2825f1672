--------------------------- MODULE RequestHandler ---------------------------
(***************************************************************************)
(* One client thread serving one connection, step by step.  handle_client  *)
(* (named pipe) and handle_socket_client (TCP) are two copies of the same  *)
(* loop; the steps they share are here, PipeHandler and TcpHandler add     *)
(* those in which they differ.  A step is either thread-local work or one  *)
(* whole critical section of ServerState::mu, so it needs mu = Nobody;     *)
(* only the eviction loop keeps the mutex for several steps.               *)
(***************************************************************************)
EXTENDS ServerState

CONSTANTS
    Requests,   \* the requests clients send in this instance
    Configs     \* command lines: [require_auth, read_only : BOOLEAN]

VARIABLES
    config,     \* the command line, fixed at start
    world,      \* the top-level windows that exist now
    pc,         \* where each connection's thread is
    req,        \* the request being served
    session,    \* the thread's ClientSession
    pinned_sid, \* the snapshot this request pinned
    snap,       \* the snapshot this request works on
    old,        \* the snapshot events.poll compares with, or Null
    resp        \* the answer being prepared

control == <<config, pc>>
locals  == <<req, session, pinned_sid, snap, old, resp>>
shared  == <<mu, store, sessions, active_connections>>
vars    == <<mu, snap_counter, snaps, lru_order, pinned_counts, sessions,
             active_connections, config, world, pc, req, session, pinned_sid,
             snap, old, resp>>

(* reg.write stands for the methods read-only mode refuses, window.query   *)
(* for all the others the handlers pass to the core.  What those do to the *)
(* windows is part of ChangeWorld (Daemon).                                *)
Methods == {"events.subscribe", "events.unsubscribe", "events.poll",
            "session.terminate", "snapshot.capture", "window.query",
            "reg.write", "hello"}

Request == [method : Methods, session_id : Sessions \cup {NoSession},
            snapshot_id : SnapRefs, old_snapshot_id : SnapRefs]

NoRequest == [method |-> "hello", session_id |-> NoSession,
              snapshot_id |-> NoSnap, old_snapshot_id |-> NoSnap]

ASSUME RequestsAssumption == Requests \subseteq Request

ASSUME ConfigsAssumption ==
    Configs \subseteq [require_auth : BOOLEAN, read_only : BOOLEAN]

ClientSession == [id : Sessions \cup {NoSession}, last_snap_id : SnapRefs,
                  subscribed : BOOLEAN]

NewClientSession == [id |-> NoSession, last_snap_id |-> NoSnap,
                     subscribed |-> FALSE]

Statuses == {"none", "ok", "E_UNAUTHORIZED", "E_TOO_MANY_SESSIONS",
             "E_ACCESS_DENIED", "E_BAD_SNAPSHOT", "E_TIMEOUT",
             "E_BAD_REQUEST", "E_BAD_METHOD"}

Response == [status : Statuses, snapshot_id : SnapRefs]

Answer(status) == [status |-> status, snapshot_id |-> NoSnap]

NoResponse == Answer("none")

Steps == {"closed", "accepted", "reading", "subscribe", "subscribing",
          "unsubscribe", "terminate", "capture", "store", "evict", "lookup",
          "old", "core", "drain", "rebase", "rebasing", "send", "unpin"}

(* Some thread is serving a request for c. *)
Busy(c) == pc[c] \notin {"closed", "accepted", "reading"}

HandlerTypeOK ==
    /\ config \in [require_auth : BOOLEAN, read_only : BOOLEAN]
    /\ world \in Content
    /\ pc \in [Conns -> Steps]
    /\ req \in [Conns -> Request]
    /\ session \in [Conns -> ClientSession]
    /\ pinned_sid \in [Conns -> SnapRefs]
    /\ snap \in [Conns -> Content]
    /\ old \in [Conns -> {Null} \cup Content]
    /\ resp \in [Conns -> Response]

HandlerInit ==
    /\ config \in Configs
    /\ world \in Content
    /\ pc = [c \in Conns |-> "closed"]
    /\ req = [c \in Conns |-> NoRequest]
    /\ session = [c \in Conns |-> NewClientSession]
    /\ pinned_sid = [c \in Conns |-> NoSnap]
    /\ snap = [c \in Conns |-> {}]
    /\ old = [c \in Conns |-> Null]
    /\ resp = [c \in Conns |-> NoResponse]

Goto(c, step) == pc' = [pc EXCEPT ![c] = step]

Respond(c, r) == resp' = [resp EXCEPT ![c] = r] /\ Goto(c, "send")

(* Bound: a request that may store a snapshot is accepted only while every *)
(* request in progress can still be given a number of SnapIds.             *)
StoringMethods == {"events.subscribe", "events.poll", "snapshot.capture"}

Room(r) ==
    r.method \in StoringMethods =>
        snap_counter + Cardinality({c \in Conns : Busy(c)
                                      /\ req[c].method \in StoringMethods})
            \in SnapIds

(***************************************************************************)
(* Taking a request in.                                                    *)
(***************************************************************************)

(* The ClientSession after the session_id parameter i has been looked at.  *)
(* For an id the server does not know only the id is set.                  *)
Bind(cs, i) ==
    IF i = NoSession THEN cs
    ELSE IF i \in DOMAIN sessions
         THEN [id |-> i, last_snap_id |-> sessions[i].last_snap_id,
               subscribed |-> sessions[i].subscribed]
         ELSE [cs EXCEPT !.id = i]

OpenSession(i) ==
    sessions' = IF i = NoSession \/ i \in DOMAIN sessions THEN sessions
                ELSE WithSession(i, DefaultSession)

ReadOnlyRefuses(m) == config.read_only /\ m = "reg.write"

EntryPoint(m) ==
    CASE m = "events.subscribe"   -> "subscribe"
      [] m = "events.unsubscribe" -> "unsubscribe"
      [] m = "session.terminate"  -> "terminate"
      [] m = "snapshot.capture"   -> "capture"
      [] OTHER                    -> "lookup"

(* Read, parse, bind the session cs and route r to the code for its method. *)
Admit(c, r, cs) ==
    /\ pc[c] = "reading"
    /\ Room(r)
    /\ r.session_id # NoSession => mu = Nobody
    /\ req' = [req EXCEPT ![c] = r]
    /\ session' = [session EXCEPT ![c] = Bind(cs, r.session_id)]
    /\ OpenSession(r.session_id)
    /\ pinned_sid' = [pinned_sid EXCEPT ![c] = NoSnap]
    /\ IF ReadOnlyRefuses(r.method)
       THEN Respond(c, Answer("E_ACCESS_DENIED"))
       ELSE Goto(c, EntryPoint(r.method)) /\ UNCHANGED resp
    /\ UNCHANGED <<mu, store, active_connections, config, world, snap, old>>

(* Read a request and refuse it with status e before it has any effect. *)
Refuse(c, r, e) ==
    /\ pc[c] = "reading"
    /\ req' = [req EXCEPT ![c] = r]
    /\ pinned_sid' = [pinned_sid EXCEPT ![c] = NoSnap]
    /\ Respond(c, Answer(e))
    /\ UNCHANGED <<shared, config, world, session, snap, old>>

(* A frame parse_request_json cannot parse. *)
Malformed(c) == Refuse(c, NoRequest, "E_BAD_REQUEST")

(***************************************************************************)
(* events.subscribe, events.unsubscribe and session.terminate.             *)
(***************************************************************************)

(* backend->capture_snapshot(), before the mutex is taken. *)
CaptureFor(c, here, next) ==
    /\ pc[c] = here
    /\ snap' = [snap EXCEPT ![c] = world]
    /\ Goto(c, next)
    /\ UNCHANGED <<shared, config, world, req, session, pinned_sid, old, resp>>

SubscribeCapture(c) == CaptureFor(c, "subscribe", "subscribing")

Subscribe(c) ==
    /\ pc[c] = "subscribing"
    /\ mu = Nobody
    /\ StoreSnapshot(snap[c])
    /\ session' = [session EXCEPT ![c].subscribed = TRUE,
                                  ![c].last_snap_id = snap_counter]
    /\ sessions' = IF session[c].id = NoSession THEN sessions
                   ELSE WithSession(session[c].id,
                                    [subscribed |-> TRUE,
                                     last_snap_id |-> snap_counter])
    /\ Respond(c, [status |-> "ok", snapshot_id |-> snap_counter])
    /\ UNCHANGED <<mu, pinned_counts, active_connections, config, world, req,
                   pinned_sid, snap, old>>

(* The flag is not reset. *)
UnsubscribedSlip(ps) == [ps EXCEPT !.last_snap_id = NoSnap]

Unsubscribed(ps) == [ps EXCEPT !.last_snap_id = NoSnap, !.subscribed = FALSE]

Unsubscribe(c) ==
    /\ pc[c] = "unsubscribe"
    /\ session[c].id # NoSession => mu = Nobody
    /\ session' = [session EXCEPT ![c] = Unsubscribed(@)]
    /\ sessions' = IF session[c].id \in DOMAIN sessions
                   THEN WithSession(session[c].id,
                                    Unsubscribed(sessions[session[c].id]))
                   ELSE sessions
    /\ Respond(c, Answer("ok"))
    /\ UNCHANGED <<mu, store, active_connections, config, world, req,
                   pinned_sid, snap, old>>

(* The request then goes on to the core like any other. *)
Terminate(c) ==
    /\ pc[c] = "terminate"
    /\ session[c].id # NoSession => mu = Nobody
    /\ session' = [session EXCEPT ![c].id = NoSession]
    /\ sessions' = WithoutSessions({session[c].id})
    /\ Goto(c, "lookup")
    /\ UNCHANGED <<mu, store, active_connections, config, world, req,
                   pinned_sid, snap, old, resp>>

(***************************************************************************)
(* snapshot.capture.                                                       *)
(***************************************************************************)
CaptureSnapshot(c) == CaptureFor(c, "capture", "store")

(* Lock, store, and keep the mutex for the eviction loop. *)
StoreCaptured(c) ==
    /\ pc[c] = "store"
    /\ mu = Nobody
    /\ mu' = c
    /\ StoreSnapshot(snap[c])
    /\ resp' = [resp EXCEPT ![c] = [status |-> "ok",
                                    snapshot_id |-> snap_counter]]
    /\ Goto(c, "evict")
    /\ UNCHANGED <<pinned_counts, sessions, active_connections, config, world,
                   req, session, pinned_sid, snap, old>>

EvictStep(c) ==
    /\ pc[c] = "evict"
    /\ EvictFront \/ RotateFront
    /\ UNCHANGED <<mu, sessions, active_connections, control, world, locals>>

EvictDone(c) ==
    /\ pc[c] = "evict"
    /\ ~OverLimit
    /\ mu' = Nobody
    /\ Goto(c, "send")
    /\ UNCHANGED <<store, sessions, active_connections, config, world, locals>>

(***************************************************************************)
(* Every other method.                                                     *)
(***************************************************************************)
CaptureCurrent(c) ==
    /\ req[c].snapshot_id = NoSnap
    /\ CaptureFor(c, "lookup", "old")

LookupMissing(c) ==
    /\ pc[c] = "lookup"
    /\ req[c].snapshot_id \notin DOMAIN snaps \cup {NoSnap}
    /\ mu = Nobody
    /\ Respond(c, Answer("E_BAD_SNAPSHOT"))
    /\ UNCHANGED <<shared, config, world, req, session, pinned_sid, snap, old>>

(* The request works on the windows of now. *)
NamedSnapshotSlip(c) == world

NamedSnapshot(c) == snaps[req[c].snapshot_id]

(* Copy and pin the snapshot the request names. *)
LookupFound(c) ==
    /\ pc[c] = "lookup"
    /\ req[c].snapshot_id \in DOMAIN snaps
    /\ mu = Nobody
    /\ PinSnapshot(req[c].snapshot_id)
    /\ pinned_sid' = [pinned_sid EXCEPT ![c] = req[c].snapshot_id]
    /\ snap' = [snap EXCEPT ![c] = NamedSnapshot(c)]
    /\ Goto(c, "old")
    /\ UNCHANGED <<mu, snap_counter, snaps, sessions, active_connections,
                   config, world, req, session, old, resp>>

(* The id of the snapshot to compare with: the parameter, or the session's *)
(* last one for events.poll.                                               *)
OldId(c) ==
    IF req[c].old_snapshot_id # NoSnap THEN req[c].old_snapshot_id
    ELSE IF req[c].method = "events.poll" THEN session[c].last_snap_id
    ELSE NoSnap

FindOld(c) ==
    /\ pc[c] = "old"
    /\ OldId(c) # NoSnap => mu = Nobody
    /\ old' = [old EXCEPT ![c] = IF OldId(c) \in DOMAIN snaps
                                 THEN snaps[OldId(c)] ELSE Null]
    /\ Goto(c, "core")
    /\ UNCHANGED <<shared, config, world, req, session, pinned_sid, snap, resp>>

(* What CoreEngine::handle may answer. *)
CoreStatus(m, o) ==
    CASE m = "events.poll"       -> {IF o = Null THEN "E_BAD_REQUEST" ELSE "ok"}
      [] m = "session.terminate" -> {"ok"}
      [] m = "hello"             -> {"E_BAD_METHOD"}
      [] OTHER                   -> {"ok", "E_BAD_REQUEST"}

(* The core answers within request_timeout_ms. *)
CoreAnswers(c) ==
    /\ pc[c] = "core"
    /\ \E s \in CoreStatus(req[c].method, old[c]) :
          /\ resp' = [resp EXCEPT ![c] = Answer(s)]
          /\ Goto(c, IF req[c].method = "events.poll" /\ s = "ok"
                     THEN "rebase" ELSE "send")
    /\ UNCHANGED <<shared, config, world, req, session, pinned_sid, snap, old>>

(* wait_for gives up first; the future's destructor still waits. *)
CoreTimesOut(c) ==
    /\ pc[c] = "core"
    /\ resp' = [resp EXCEPT ![c] = Answer("E_TIMEOUT")]
    /\ Goto(c, "drain")
    /\ UNCHANGED <<shared, config, world, req, session, pinned_sid, snap, old>>

CoreDrains(c) ==
    /\ pc[c] = "drain"
    /\ Goto(c, "send")
    /\ UNCHANGED <<shared, config, world, locals>>

(* After a successful poll: a second capture becomes the new baseline. *)
RebaseCapture(c) == CaptureFor(c, "rebase", "rebasing")

(* The baseline the thread read when the request came in is put back. *)
NewBaselineSlip(c) == session[c].last_snap_id

NewBaseline(c) == snap_counter

Rebase(c) ==
    /\ pc[c] = "rebasing"
    /\ mu = Nobody
    /\ StoreSnapshot(snap[c])
    /\ session' = [session EXCEPT ![c].last_snap_id = NewBaseline(c)]
    /\ sessions' = IF session[c].id = NoSession THEN sessions
                   ELSE WithSession(session[c].id,
                                    [SessionAt(session[c].id) EXCEPT
                                       !.last_snap_id = NewBaseline(c)])
    /\ Goto(c, "send")
    /\ UNCHANGED <<mu, pinned_counts, active_connections, config, world, req,
                   pinned_sid, snap, old, resp>>

(***************************************************************************)
(* Sending the answer and going back to the top of the loop.  The locals   *)
(* of the iteration go out of scope, among them cs, p: what is left of the *)
(* ClientSession and of pinned_sid.                                        *)
(***************************************************************************)
NextIteration(c, cs, p) ==
    /\ req' = [req EXCEPT ![c] = NoRequest]
    /\ session' = [session EXCEPT ![c] = cs]
    /\ pinned_sid' = [pinned_sid EXCEPT ![c] = p]
    /\ snap' = [snap EXCEPT ![c] = {}]
    /\ old' = [old EXCEPT ![c] = Null]
    /\ resp' = [resp EXCEPT ![c] = NoResponse]
    /\ Goto(c, "reading")

(* A request that timed out skips the unpin. *)
MustUnpinSlip(c) == pinned_sid[c] # NoSnap /\ resp[c].status # "E_TIMEOUT"

MustUnpin(c) == pinned_sid[c] # NoSnap

(* Send, with a pin to give back. *)
SendPinned(c) ==
    /\ pc[c] = "send"
    /\ MustUnpin(c)
    /\ Goto(c, "unpin")
    /\ UNCHANGED <<shared, config, world, locals>>

(* Send, with nothing pinned. *)
SendUnpinned(c, cs) ==
    /\ pc[c] = "send"
    /\ ~MustUnpin(c)
    /\ NextIteration(c, cs, NoSnap)
    /\ UNCHANGED <<shared, config, world>>

Unpin(c, cs, p) ==
    /\ pc[c] = "unpin"
    /\ mu = Nobody
    /\ UnpinSnapshot(pinned_sid[c])
    /\ NextIteration(c, cs, p)
    /\ UNCHANGED <<mu, snap_counter, snaps, lru_order, sessions,
                   active_connections, config, world>>

(* The steps both transports take between reading and sending, apart from  *)
(* LookupFound.                                                            *)
ServeStep(c) ==
    \/ SubscribeCapture(c) \/ Subscribe(c) \/ Unsubscribe(c) \/ Terminate(c)
    \/ CaptureSnapshot(c) \/ StoreCaptured(c) \/ EvictStep(c) \/ EvictDone(c)
    \/ CaptureCurrent(c) \/ LookupMissing(c) \/ FindOld(c)
    \/ CoreAnswers(c) \/ CoreTimesOut(c) \/ CoreDrains(c)
    \/ RebaseCapture(c) \/ Rebase(c) \/ SendPinned(c)
=============================================================================
