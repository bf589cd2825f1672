------------------------------ MODULE MCServer ------------------------------
(***************************************************************************)
(* One instance of Daemon for several kinds of use: which connections are  *)
(* made, what is sent over them and whether windows come and go is chosen  *)
(* at the start.                                                           *)
(***************************************************************************)
EXTENDS MCDaemon

VARIABLE use

StoreUses == {"query1", "query2", "subscribe"}

Uses == StoreUses \cup {"sessions", "pipes"}

AllRequests == StoreRequests \cup SessionRequests

(* Captures and two of the other three requests on the store (a use is     *)
(* named after the one left out), a shared session, or pipe clients that   *)
(* come and go.                                                            *)
Sent ==
    [u \in Uses |->
        {NoRequest} \cup
        CASE u = "subscribe" -> StoreRequests \ {Plain("events.subscribe")}
          [] u = "query1" -> StoreRequests \ {Query(1)}
          [] u = "query2" -> StoreRequests \ {Query(2)}
          [] u = "sessions" -> SessionRequests
          [] u = "pipes" -> {Plain("snapshot.capture")}]

(* One client on each transport, or pipe clients that race for a place. *)
Connecting ==
    [u \in Uses |-> IF u = "pipes" THEN PipeConns
                    ELSE {CHOOSE c \in PipeConns : TRUE} \cup TcpConns]

InUse ==
    /\ \A c \in Conns : IF c \in Connecting[use] THEN req[c] \in Sent[use]
                        ELSE pc[c] = "closed"
    /\ world = {} \/ use \in StoreUses
    /\ config \in OpenConfig \/ use = "sessions"

ServerInit == use \in Uses /\ Init /\ InUse

ServerNext == Next /\ UNCHANGED use /\ InUse'

ServerSpec == ServerInit /\ [][ServerNext]_<<vars, use>>
=============================================================================
