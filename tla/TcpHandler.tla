----------------------------- MODULE TcpHandler -----------------------------
(***************************************************************************)
(* TCP connections: TcpServer::start accepts, handle_socket_client serves. *)
(* What is particular to TCP: no connection limit, the session limit, and  *)
(* a ClientSession and a pinned_sid that live for one request only.  The   *)
(* handshake that precedes the first request is taken as done.             *)
(***************************************************************************)
EXTENDS RequestHandler

TcpAccept(c) ==
    /\ pc[c] = "closed"
    /\ Goto(c, "reading")
    /\ UNCHANGED <<shared, config, world, locals>>

(* The limit holds back a session id that is not known yet. *)
SessionLimitRefuses(i) ==
    /\ i \notin DOMAIN sessions \cup {NoSession}
    /\ Cardinality(DOMAIN sessions) >= max_sessions

TcpTooManySessions(c, r) ==
    /\ SessionLimitRefuses(r.session_id)
    /\ mu = Nobody
    /\ Refuse(c, r, "E_TOO_MANY_SESSIONS")

TcpReceive(c, r) ==
    /\ ~SessionLimitRefuses(r.session_id)
    /\ Admit(c, r, NewClientSession)

(* Unlike the pipe server, no LRU touch. *)
TcpLookupFound(c) == LookupFound(c) /\ UNCHANGED lru_order

TcpSend(c) == SendUnpinned(c, NewClientSession)

TcpUnpin(c) == Unpin(c, NewClientSession, NoSnap)

TcpDisconnect(c) ==
    /\ pc[c] = "reading"
    /\ Goto(c, "closed")
    /\ UNCHANGED <<shared, config, world, locals>>

TcpServe(c) == ServeStep(c) \/ TcpLookupFound(c) \/ TcpSend(c) \/ TcpUnpin(c)
=============================================================================
