------------------------------ MODULE MCDaemon ------------------------------
(***************************************************************************)
(* Instances of Daemon for TLC: the sets of requests the configurations    *)
(* choose from.                                                            *)
(***************************************************************************)
EXTENDS Daemon

Req(m, i, s, o) == [method |-> m, session_id |-> i, snapshot_id |-> s,
                    old_snapshot_id |-> o]

Plain(m) == Req(m, NoSession, NoSnap, NoSnap)

InSession(m) == {Req(m, i, NoSnap, NoSnap) : i \in Sessions}

Query(s) == Req("window.query", NoSession, s, NoSnap)

MinusOne == -1

Two == 1 .. 2

Three == 1 .. 3

OpenConfig == {[require_auth |-> FALSE, read_only |-> FALSE]}

StrictConfigs == OpenConfig \cup {[require_auth |-> TRUE, read_only |-> TRUE]}

(* The snapshot store: capture, baselines and queries of stored snapshots. *)
StoreRequests ==
    {Plain("snapshot.capture"), Plain("events.subscribe"), Query(1), Query(2)}

(* Pins: captures that evict and queries that pin. *)
PinRequests == {Plain("snapshot.capture"), Query(1), Query(2)}

(* Sessions: everything that reads or writes a PersistentSession, and the  *)
(* requests the handlers refuse.  One session is subscribed, polled and    *)
(* ended; the others are only opened.                                      *)
Main == CHOOSE i \in Sessions : TRUE

SessionRequests ==
    {Plain("reg.write"), Req("events.poll", NoSession, NoSnap, 1)}
        \cup {Req("hello", i, NoSnap, NoSnap) : i \in Sessions \ {Main}}
        \cup {Req(m, Main, NoSnap, NoSnap) :
                 m \in {"events.subscribe", "events.poll",
                        "events.unsubscribe", "session.terminate"}}

(* Every way through the TCP handler: the store with queries of one        *)
(* snapshot, a poll that names its old snapshot, and sessions that come,   *)
(* go and are too many.                                                    *)
LeaseRequests ==
    {Plain("snapshot.capture"), Plain("events.subscribe"), Query(1),
     Req("events.poll", NoSession, NoSnap, 1), Plain("events.unsubscribe")}
        \cup InSession("session.terminate")
=============================================================================
