---------------------------- MODULE MCEventFeed ----------------------------
(***************************************************************************)
(* EventFeed for TLC: one subscriber on the pipe that polls its session.   *)
(***************************************************************************)
EXTENDS EventFeed

Ids == 1 .. 3

MinusOne == -1

OpenConfig == {[require_auth |-> FALSE, read_only |-> FALSE]}

SubscriberRequests ==
    {[method |-> m, session_id |-> NoSession, snapshot_id |-> NoSnap,
      old_snapshot_id |-> NoSnap] : m \in {"events.subscribe", "events.poll"}}
=============================================================================
