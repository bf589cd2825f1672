----------------------------- MODULE EventFeed -----------------------------
(***************************************************************************)
(* The daemon together with what a subscriber makes of its answers: view   *)
(* is the set of windows a client on each connection believes in, starting *)
(* from the baseline of its subscription and applying the events of every  *)
(* poll.  It is a history variable: no step of the daemon depends on it.   *)
(***************************************************************************)
EXTENDS Daemon

VARIABLE view

feedVars == <<vars, view>>

(* poll_events: windows of one snapshot that the other lacks. *)
Created(c)   == snap[c] \ old[c]
Destroyed(c) == old[c] \ snap[c]

ViewUpdate(c) ==
    IF pc[c] = "subscribing" /\ pc'[c] = "send" THEN snap[c]
    ELSE IF pc[c] = "core" /\ pc'[c] = "rebase"
         THEN (view[c] \ Destroyed(c)) \cup Created(c)
         ELSE view[c]

FeedInit == Init /\ view = [c \in Conns |-> {}]

FeedNext == Next /\ view' = [c \in Conns |-> ViewUpdate(c)]

FeedSpec == FeedInit /\ [][FeedNext]_feedVars

(* No events are missed: a subscriber that applied the events of all its   *)
(* polls sees the windows that existed when the daemon served the last one.*)
NoEventsMissed ==
    \A c \in Conns : pc[c] = "rebase" /\ session[c].subscribed
                        => view[c] = snap[c]
=============================================================================
