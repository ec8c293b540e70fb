---------------------------- MODULE TunnelServer ----------------------------
(***************************************************************************)
(* The control plane of the tunnel server: how clients are admitted, how   *)
(* their tunnel is set up and how it is torn down (tunnel/server.go:       *)
(* checkConnect, controlHandler, listenControl, addSession, deleteSession, *)
(* changeState; tunnel/control.go; proto handshake).                       *)
(*                                                                         *)
(* One element of Conns is one TCP connection to the control path together *)
(* with the goroutine that serves it: the HTTP handler checkConnect, which *)
(* calls controlHandler, and the goroutine listenControl it leaves behind. *)
(* The handler does nothing after it starts listenControl, so the two are  *)
(* one sequential process with one program counter.  A slot is reused for  *)
(* a new connection once its process ended and its tunnel is gone.         *)
(*                                                                         *)
(* Each mutex-protected region of the code is one step.  deleteSession     *)
(* holds sessionsMu over two critical sections of the virtual host storage *)
(* and so is two steps with the lock held in between.                      *)
(***************************************************************************)
EXTENDS VirtualHosts, Admission, Naturals

CONSTANTS
    Conns,          \* connection slots
    MayOverlap,     \* the identifiers whose client may open a connection while
                    \* the server still has an earlier one of its connections
    EmptyId,        \* the identifier of a request without the header
    Methods, Keys   \* what a request may use; the configured ones are Admission's

ASSUME ConnsAssumption == None \notin Conns /\ MayOverlap \subseteq Ids
ASSUME ConfigAssumption ==
    /\ ControlMethod \in Methods
    /\ SignatureKey \in Keys
    /\ AllowedClients \subseteq Ids
    /\ AllowedHosts \subseteq Hosts

VARIABLES
    sessions,    \* Server.sessions: identifier -> the connection carrying it
    controls,    \* Server.controls: identifier -> the connection whose stream it is
    sessionsMu,  \* the process that is inside deleteSession, or None
    states,      \* Server.states
    conn,        \* who owns the TCP connection, see ConnState
    ctl,         \* the control of the connection: "none", "open" or "closed"
    resp,        \* the HTTP status last written on the connection, 0 for none
    pc,          \* the operation the process performs next
    cid,         \* the identifier of the process, None when it is idle
    why,         \* why the process is ending
    hostId       \* deleteSession's local: the host it is about to delete

procVars == <<pc, cid, why, hostId>>
vars == <<mapping, sessions, controls, sessionsMu, states, conn, ctl, resp, procVars>>

\* "http": net/http owns it.  "tunnel": a yamux session runs on it.  "closed":
\* closed by either side.  "hijacked": taken from net/http, no session, open.
ConnState == {"http", "tunnel", "closed", "hijacked"}

ClientState == {"Unknown", "Connected", "Closed"}

PC == {"idle", "getHost", "getControl", "hijack", "addSession", "accept",
       "handshake", "addControl", "onConnect", "listen", "deleteControl",
       "deleteSession", "deleteHost", "finish"}

\* "none": the process is not ending.  "refused": controlHandler failed before
\* the hijack.  "duplicate": it found a control for the identifier.  "broken": it
\* failed between the hijack and addSession.  "abort": it failed after addSession.
\* "lost": listenControl lost the control stream.
Cause == {"none", "refused", "duplicate", "broken", "abort", "lost"}

Init ==
    /\ VHInit
    /\ sessions = [id \in Ids |-> None]
    /\ controls = [id \in Ids |-> None]
    /\ sessionsMu = None
    /\ states = [id \in Ids |-> "Unknown"]
    /\ conn = [c \in Conns |-> "closed"]
    /\ ctl = [c \in Conns |-> "none"]
    /\ resp = [c \in Conns |-> 0]
    /\ pc = [c \in Conns |-> "idle"]
    /\ cid = [c \in Conns |-> None]
    /\ why = [c \in Conns |-> "none"]
    /\ hostId = [c \in Conns |-> None]

At(c, label) == pc[c] = label
Goto(c, label) == pc' = [pc EXCEPT ![c] = label]

\* The process of c starts to end, for the given reason, at the given label.
End(c, cause, label) ==
    /\ Goto(c, label)
    /\ why' = [why EXCEPT ![c] = cause]

-----------------------------------------------------------------------------
(* checkConnect: admission of a control request.                           *)

\* A request as checkConnect reads it, see Admit.
ControlRequests ==
    [method : Methods, id : Ids, signature : Ids \X Keys,
     wellFormed : BOOLEAN, host : Hosts, rewrite : Rewrites]

\* Mutant: the host patterns are not consulted.
VerdictAnyHost(req) ==
    IF req.method # ControlMethod THEN 405
    ELSE IF ~checkIdentifier(req.id) THEN 403
    ELSE IF ~checkIdentifierSignature(req.id, SignatureKey, req.signature) THEN 403
    ELSE IF ~req.wellFormed THEN 400
    ELSE IF AddHostRefused(req.host, req.id) THEN 409
    ELSE 200

\* Mutant: a bad signature is answered with a status the protocol does not have.
VerdictUnauthorized(req) ==
    IF ~checkIdentifierSignature(req.id, SignatureKey, req.signature) THEN 401
    ELSE 200

\* The status checkConnect answers with before it calls controlHandler; 200
\* when it calls it.
Verdict(req) ==
    IF Admit(req) # 200 THEN Admit(req)
    ELSE IF AddHostRefused(req.host, req.id) THEN 409
    ELSE 200

\* A request arrives on c: on a new connection, or on the one net/http still owns.
Arrives(c, req) ==
    /\ At(c, "idle")
    /\ conn[c] # "tunnel"
    /\ req.id \in MayOverlap \/ \A d \in Conns : cid[d] # req.id
    /\ conn' = [conn EXCEPT ![c] = "http"]

RejectRequest(c, req) ==
    /\ Arrives(c, req)
    /\ Verdict(req) # 200
    /\ resp' = [resp EXCEPT ![c] = Verdict(req)]
    /\ UNCHANGED <<mapping, sessions, controls, sessionsMu, states, ctl, procVars>>

\* controlHandler repeats the signature check on the same header and the same
\* key, so it passes there as well.
AdmitRequest(c, req) ==
    /\ Arrives(c, req)
    /\ Verdict(req) = 200
    /\ AddHost(req.host, req.id, req.rewrite)
    /\ resp' = [resp EXCEPT ![c] = 0]
    /\ ctl' = [ctl EXCEPT ![c] = "none"]
    /\ cid' = [cid EXCEPT ![c] = req.id]
    /\ Goto(c, "getHost")
    /\ UNCHANGED <<sessions, controls, sessionsMu, states, why, hostId>>

-----------------------------------------------------------------------------
(* controlHandler: the tunnel is set up.                                   *)

\* s.getHost: the host may be gone again, deleted by another process.
CheckHostRegistered(c) ==
    /\ At(c, "getHost")
    /\ IF GetHost(cid[c]) = {None}
       THEN End(c, "refused", "finish")
       ELSE Goto(c, "getControl") /\ UNCHANGED why
    /\ UNCHANGED <<mapping, sessions, controls, sessionsMu, states, conn, ctl, resp, cid, hostId>>

\* s.getControl.  A control that exists is closed and torn down, and the new
\* connection is refused as well.
CheckNoControl(c) ==
    /\ At(c, "getControl")
    /\ LET ct == controls[cid[c]] IN
       IF ct = None
       THEN Goto(c, "hijack") /\ UNCHANGED <<ctl, why>>
       ELSE /\ ctl' = [ctl EXCEPT ![ct] = "closed"]
            /\ End(c, "duplicate", "deleteControl")
    /\ UNCHANGED <<mapping, sessions, controls, sessionsMu, states, conn, resp, cid, hostId>>

\* The ResponseWriter is no Hijacker, or Hijack fails.
HijackRefused(c) ==
    /\ At(c, "hijack")
    /\ End(c, "refused", "finish")
    /\ UNCHANGED <<mapping, sessions, controls, sessionsMu, states, conn, ctl, resp, cid, hostId>>

\* Writing the answer, SetDeadline or yamux.Server fails: the deferred cleanup
\* is not installed yet, so nothing closes the connection.
HijackBroken(c) ==
    /\ At(c, "hijack")
    /\ conn' = [conn EXCEPT ![c] = "hijacked"]
    /\ resp' = [resp EXCEPT ![c] = 200]
    /\ End(c, "broken", "finish")
    /\ UNCHANGED <<mapping, sessions, controls, sessionsMu, states, ctl, cid, hostId>>

\* Hijack, "200 Connected to Tunnel", yamux.Server.
StartSession(c) ==
    /\ At(c, "hijack")
    /\ conn' = [conn EXCEPT ![c] = "tunnel"]
    /\ resp' = [resp EXCEPT ![c] = 200]
    /\ Goto(c, "addSession")
    /\ UNCHANGED <<mapping, sessions, controls, sessionsMu, states, ctl, cid, why, hostId>>

addSession(c) ==
    /\ At(c, "addSession")
    /\ sessionsMu = None
    /\ sessions' = [sessions EXCEPT ![cid[c]] = c]
    /\ Goto(c, "accept")
    /\ UNCHANGED <<mapping, controls, sessionsMu, states, conn, ctl, resp, cid, why, hostId>>

\* session.Accept returns the stream the client opened.
AcceptStream(c) ==
    /\ At(c, "accept")
    /\ conn[c] = "tunnel"
    /\ Goto(c, "handshake")
    /\ UNCHANGED <<mapping, sessions, controls, sessionsMu, states, conn, ctl, resp, cid, why, hostId>>

\* The client's HandshakeRequest arrived and the response is written.
Handshake(c) ==
    /\ At(c, "handshake")
    /\ conn[c] = "tunnel"
    /\ Goto(c, "addControl")
    /\ UNCHANGED <<mapping, sessions, controls, sessionsMu, states, conn, ctl, resp, cid, why, hostId>>

\* Mutant: the deferred cleanup does not delete the session.
SetupFailsNoCleanup(c) ==
    /\ At(c, "accept") \/ At(c, "handshake")
    /\ End(c, "abort", "finish")
    /\ UNCHANGED <<mapping, sessions, controls, sessionsMu, states, conn, ctl, resp, cid, hostId>>

\* Accept fails or times out after defaultTimeout; or the stream ends, or carries
\* something else than the handshake.  The deferred cleanup closes the stream.
SetupFails(c) ==
    /\ At(c, "accept") \/ At(c, "handshake")
    /\ End(c, "abort", "deleteSession")
    /\ UNCHANGED <<mapping, sessions, controls, sessionsMu, states, conn, ctl, resp, cid, hostId>>

addControl(c) ==
    /\ At(c, "addControl")
    /\ controls' = [controls EXCEPT ![cid[c]] = c]
    /\ ctl' = [ctl EXCEPT ![c] = "open"]
    /\ Goto(c, "onConnect")
    /\ UNCHANGED <<mapping, sessions, sessionsMu, states, conn, resp, cid, why, hostId>>

-----------------------------------------------------------------------------
(* listenControl and the cleanup it shares with controlHandler.            *)

\* The callbacks and stateCh that go with a state change are left out.
changeState(id, state) == states' = [states EXCEPT ![id] = state]

onDisconnect(id) == changeState(id, "Closed")

onConnect(c) ==
    /\ At(c, "onConnect")
    /\ changeState(cid[c], "Connected")
    /\ Goto(c, "listen")
    /\ UNCHANGED <<mapping, sessions, controls, sessionsMu, conn, ctl, resp, cid, why, hostId>>

\* Decode fails and the control is closed; the cleanup follows.
StopListening(c) ==
    /\ At(c, "listen")
    /\ ctl' = [ctl EXCEPT ![c] = "closed"]
    /\ End(c, "lost", "deleteControl")
    /\ UNCHANGED <<mapping, sessions, controls, sessionsMu, states, conn, resp, cid, hostId>>

\* Decode fails once the control is closed or the session is gone ...
ListenFails(c) ==
    /\ ctl[c] = "closed" \/ conn[c] # "tunnel"
    /\ StopListening(c)

\* ... and on a live session, when the client closes only its control stream or what
\* it sends there does not decode.
ControlBroken(c) == StopListening(c)

\* Mutant: listenControl forgets to delete its control.
deleteControlSkipped(c) ==
    /\ At(c, "deleteControl")
    /\ Goto(c, "deleteSession")
    /\ UNCHANGED <<mapping, sessions, controls, sessionsMu, states, conn, ctl, resp, cid, why, hostId>>

\* Mutant: the whole registry is reset instead of one entry.
deleteControlAll(c) ==
    /\ At(c, "deleteControl")
    /\ controls' = [id \in Ids |-> None]
    /\ Goto(c, "deleteSession")
    /\ UNCHANGED <<mapping, sessions, sessionsMu, states, conn, ctl, resp, cid, why, hostId>>

\* By identifier: whatever control is registered for it now is forgotten.
deleteControl(c) ==
    /\ At(c, "deleteControl")
    /\ controls' = [controls EXCEPT ![cid[c]] = None]
    /\ Goto(c, "deleteSession")
    /\ UNCHANGED <<mapping, sessions, sessionsMu, states, conn, ctl, resp, cid, why, hostId>>

\* Mutant: the client's host is left in the storage.
deleteSessionKeepsHost(c) ==
    /\ At(c, "deleteSession")
    /\ sessionsMu = None
    /\ Goto(c, "finish")
    /\ IF sessions[cid[c]] = None
       THEN UNCHANGED <<sessions, conn>>
       ELSE /\ conn' = [conn EXCEPT ![sessions[cid[c]]] = "closed"]
            /\ sessions' = [sessions EXCEPT ![cid[c]] = None]
    /\ UNCHANGED <<mapping, controls, sessionsMu, states, ctl, resp, cid, why, hostId>>

\* deleteSession, up to GetVirtualHost: whatever session is registered for the
\* identifier now is closed, and its connection with it.
deleteSession(c) ==
    /\ At(c, "deleteSession")
    /\ sessionsMu = None
    /\ LET session == sessions[cid[c]] IN
       IF session = None
       THEN Goto(c, "finish") /\ UNCHANGED <<sessions, conn, sessionsMu, hostId>>
       ELSE /\ conn' = [conn EXCEPT ![session] = "closed"]
            /\ sessions' = [sessions EXCEPT ![cid[c]] = None]
            /\ \E h \in GetHost(cid[c]) :
                 IF h = None
                 THEN Goto(c, "finish") /\ UNCHANGED <<sessionsMu, hostId>>
                 ELSE /\ hostId' = [hostId EXCEPT ![c] = h]
                      /\ sessionsMu' = c
                      /\ Goto(c, "deleteHost")
    /\ UNCHANGED <<mapping, controls, states, ctl, resp, cid, why>>

\* Mutant: sessionsMu is not released.
deleteSessionHostLocked(c) ==
    /\ At(c, "deleteHost")
    /\ DeleteHost(hostId[c])
    /\ hostId' = [hostId EXCEPT ![c] = None]
    /\ Goto(c, "finish")
    /\ UNCHANGED <<sessions, controls, sessionsMu, states, conn, ctl, resp, cid, why>>

\* The rest of deleteSession: s.DeleteHost(hostId), then the lock is released.
deleteSessionHost(c) ==
    /\ At(c, "deleteHost")
    /\ DeleteHost(hostId[c])
    /\ hostId' = [hostId EXCEPT ![c] = None]
    /\ sessionsMu' = None
    /\ Goto(c, "finish")
    /\ UNCHANGED <<sessions, controls, states, conn, ctl, resp, cid, why>>

\* Mutant: listenControl does not report the disconnection.
FinishUnreported(c) ==
    /\ At(c, "finish")
    /\ conn' = IF why[c] = "abort" THEN [conn EXCEPT ![c] = "closed"] ELSE conn
    /\ resp' = IF why[c] \in {"refused", "duplicate"}
               THEN [resp EXCEPT ![c] = 502] ELSE resp
    /\ End(c, "none", "idle")
    /\ cid' = [cid EXCEPT ![c] = None]
    /\ UNCHANGED <<mapping, sessions, controls, sessionsMu, states, ctl, hostId>>

\* Mutant: checkConnect writes its 502 after a hijack as well.
FinishNoisy(c) ==
    /\ At(c, "finish")
    /\ conn' = IF why[c] = "abort" THEN [conn EXCEPT ![c] = "closed"] ELSE conn
    /\ onDisconnect(cid[c])
    /\ resp' = IF why[c] # "lost" THEN [resp EXCEPT ![c] = 502] ELSE resp
    /\ End(c, "none", "idle")
    /\ cid' = [cid EXCEPT ![c] = None]
    /\ UNCHANGED <<mapping, sessions, controls, sessionsMu, ctl, hostId>>

\* The deferred conn.Close of an aborted setup; onDisconnect, which checkConnect
\* skips for the empty identifier and listenControl does not; and the 502 that
\* checkConnect writes unless the connection was hijacked.
Finish(c) ==
    /\ At(c, "finish")
    /\ conn' = IF why[c] = "abort" THEN [conn EXCEPT ![c] = "closed"] ELSE conn
    /\ IF why[c] = "lost" \/ cid[c] # EmptyId THEN onDisconnect(cid[c]) ELSE UNCHANGED states
    /\ resp' = IF why[c] \in {"refused", "duplicate"}
               THEN [resp EXCEPT ![c] = 502] ELSE resp
    /\ End(c, "none", "idle")
    /\ cid' = [cid EXCEPT ![c] = None]
    /\ UNCHANGED <<mapping, sessions, controls, sessionsMu, ctl, hostId>>

-----------------------------------------------------------------------------
(* The environment: the client goes away or the network fails.  yamux then *)
(* closes the session of the connection, at the latest after a missed      *)
(* keepalive.                                                              *)

Drop(c) ==
    /\ conn[c] = "tunnel"
    /\ conn' = [conn EXCEPT ![c] = "closed"]
    /\ UNCHANGED <<mapping, sessions, controls, sessionsMu, states, ctl, resp, procVars>>

-----------------------------------------------------------------------------
ServerStep(c) ==
    \/ CheckHostRegistered(c) \/ CheckNoControl(c)
    \/ HijackRefused(c) \/ HijackBroken(c) \/ StartSession(c)
    \/ addSession(c) \/ AcceptStream(c) \/ Handshake(c) \/ SetupFails(c)
    \/ addControl(c) \/ onConnect(c) \/ ListenFails(c)
    \/ deleteControl(c) \/ deleteSession(c) \/ deleteSessionHost(c) \/ Finish(c)

Next ==
    \E c \in Conns :
        \/ \E req \in ControlRequests : RejectRequest(c, req) \/ AdmitRequest(c, req)
        \/ ServerStep(c)
        \/ ControlBroken(c)
        \/ Drop(c)

Spec == Init /\ [][Next]_vars

\* The Go scheduler runs every runnable goroutine.  sync.Mutex is starvation
\* free, hence strong fairness for the two steps that take sessionsMu.  A setup
\* that waits for the client ends because Accept has a timeout, and because the
\* client either speaks or is found dead by yamux's keepalive.  No fairness for
\* requests, for a hijack that fails, for a client that breaks its control stream,
\* or for Drop.
Fairness ==
    \A c \in Conns :
        /\ WF_vars(ServerStep(c))
        /\ SF_vars(addSession(c))
        /\ SF_vars(deleteSession(c))

FairSpec == Spec /\ Fairness

-----------------------------------------------------------------------------
(* Properties.                                                             *)

\* Type invariant of the server's registries, its connections and its processes.
TypeOK ==
    /\ VHTypeOK
    /\ sessions \in [Ids -> Conns \union {None}]
    /\ controls \in [Ids -> Conns \union {None}]
    /\ sessionsMu \in Conns \union {None}
    /\ states \in [Ids -> ClientState]
    /\ conn \in [Conns -> ConnState]
    /\ ctl \in [Conns -> {"none", "open", "closed"}]
    /\ resp \in [Conns -> {0, 200, 400, 403, 405, 409, 502}]
    /\ pc \in [Conns -> PC]
    /\ cid \in [Conns -> Ids \union {None}]
    /\ why \in [Conns -> Cause]
    /\ hostId \in [Conns -> Hosts \union {None}]

\* A registered control always belongs to a process that is still going to call
\* deleteControl for it (listenControl does on every exit): no control outlives
\* its listener, however connections of one client overlap.
ControlHasListener ==
    \A id \in Ids : \A c \in Conns : controls[id] = c =>
        /\ cid[c] = id
        /\ \/ pc[c] \in {"onConnect", "listen"}
           \/ pc[c] = "deleteControl" /\ why[c] = "lost"

\* A registered session always belongs to a process that is still going to call
\* deleteSession for it (controlHandler's deferred cleanup or listenControl): no
\* session entry is left behind for a connection that has ended.
SessionHasOwner ==
    \A id \in Ids : \A c \in Conns : sessions[id] = c =>
        /\ cid[c] = id
        /\ \/ pc[c] \in {"accept", "handshake", "addControl", "onConnect", "listen"}
           \/ pc[c] = "deleteControl" /\ why[c] = "lost"
           \/ pc[c] = "deleteSession" /\ why[c] \in {"abort", "lost"}

\* A client the server reports as connected has a listener, or one that is still
\* to report the disconnection: the report is never left at Connected for good.
ConnectedHasListener ==
    \A id \in Ids : states[id] = "Connected" =>
        \E c \in Conns :
            /\ cid[c] = id
            /\ \/ pc[c] = "listen"
               \/ why[c] = "lost"

\* Once "200 Connected" is on the wire no HTTP error follows it on the same
\* connection: the bytes belong to yamux (errAfterHijack in checkConnect).
SilentAfterHijack ==
    [][\A c \in Conns : pc[c] # "idle" /\ resp[c] = 200 => resp'[c] = 200]_vars

\* Only hosts the operator allows are ever routed, and only to clients he allows,
\* whatever the requests contain (checkConnect's checks come before AddHost).
OnlyAllowedRoutes ==
    \A h \in Hosts : Claimed(h) =>
        /\ checkHost(h)
        /\ checkIdentifier(mapping[h].identifier)

\* The connection is up as far as its own process and its client can tell.
Serving(c) == pc[c] = "listen" /\ conn[c] = "tunnel" /\ ctl[c] = "open"

\* The control and the session that dial needs are this connection's.
Registered(c) == controls[cid[c]] = c /\ sessions[cid[c]] = c

\* A client whose connections do not overlap keeps its control and its session
\* registered as long as it is served, and is reported as connected, whatever
\* other clients do, though all three are kept by identifier and changed from
\* several places.
ServingIsRegistered ==
    \A c \in Conns : Serving(c) /\ cid[c] \notin MayOverlap =>
        Registered(c) /\ states[cid[c]] = "Connected"

\* If no client's connections overlap, every served client also has its host: the
\* host a teardown deletes is never one that somebody is served under.
ServingHasHost ==
    \A c \in Conns : Serving(c) /\ MayOverlap = {} => HostsOf(cid[c]) # {}

\* If no client's connections overlap, deleteSession only removes a host of the
\* client it cleans up after, though it looks the host up in one critical section
\* of the storage and deletes it in another.
DeletesOnlyOwnHost ==
    \A c \in Conns : At(c, "deleteHost") /\ MayOverlap = {} =>
        GetIdentifier(hostId[c]) \in {cid[c], None}

\* If no client's connections overlap, a process that got as far as addSession
\* leaves no host behind, however it ends: by a failed setup or a lost tunnel.  (One
\* that ends before addSession does: deleteSession has nothing to go by, and the
\* host stays claimed until its client has connected and left once.)
EndsWithoutHost ==
    \A c \in Conns : At(c, "finish") /\ why[c] \in {"abort", "lost"} /\ MayOverlap = {} =>
        HostsOf(cid[c]) = {}

\* The server as its clients see it: the host they hold and whether they are served.
HostBar(id) == IF HostsOf(id) = {} THEN None ELSE CHOOSE h \in HostsOf(id) : TRUE
LinkBar(id) == IF \E c \in Conns : cid[c] = id /\ Serving(c) THEN "up" ELSE "down"

Service == INSTANCE TunnelService WITH
    host <- [id \in Ids |-> HostBar(id)],
    link <- [id \in Ids |-> LinkBar(id)]

\* If no client's connections overlap, the server keeps that promise: every step of
\* a handler, a listener or a teardown is a step of TunnelService or changes nothing
\* a client can see.  In particular no client is served without a host, and no host
\* changes while its client is served.
ImplementsService == Service!Spec

\* When a client whose connections do not overlap goes away, its route is removed
\* and the host is free again (functional_lifecycle_test.go, "the route to be
\* removed").
RouteRemoved ==
    \A c \in Conns : \A id \in Ids \ MayOverlap :
        (At(c, "listen") /\ cid[c] = id /\ conn[c] = "closed") ~> HostsOf(id) = {}

-----------------------------------------------------------------------------
(* What the repository says of the server and the code does not do: see    *)
(* TunnelRequests and EndToEnd.                                            *)

\* Nothing else is going on for the client of connection c.
Settled(c) == \A d \in Conns : d # c => cid[d] # cid[c]

\* A client that is connected, with no other connection of it in progress, gets
\* its traffic: README.md:133, "Is the desired domain at the server side that will
\* be routed to this client".
ConnectedClientIsRouted ==
    \A c \in Conns : Serving(c) /\ Settled(c) => Registered(c) /\ HostsOf(cid[c]) # {}
=============================================================================
