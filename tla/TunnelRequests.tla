--------------------------- MODULE TunnelRequests ---------------------------
(***************************************************************************)
(* The public side of the tunnel server on top of its control plane:       *)
(* handleHTTP, rewriteRequest and dial of tunnel/server.go and send of     *)
(* tunnel/control.go.  Public requests look up the client of a host, ask   *)
(* it over its control for a stream, and wait for the stream on its        *)
(* session, while the client's connection comes and goes.                  *)
(*                                                                         *)
(* A request holds pointers to a control and to a session.  Both name a    *)
(* connection slot here, and a slot is not reused for a new connection     *)
(* while a request still holds one of its pointers.                        *)
(***************************************************************************)
EXTENDS TunnelServer

CONSTANTS
    Requests,   \* public requests in flight
    Paths,      \* URL paths; a rule list is the set of paths its rules match
    HostPart    \* HostPart[h] is h without its port; None if h has no port, when
                \* the code looks up "", a domain no client binary registers

ASSUME RequestsAssumption ==
    /\ Rewrites \subseteq SUBSET Paths
    /\ HostPart \in [Hosts -> Hosts \union {None}]

VARIABLES
    rpc,    \* the operation the request performs next, "idle" before and after
    rhost,  \* the lower-cased Host header, until the client is found
    rid,    \* the identifier the host belongs to
    rct,    \* dial's control, as the connection it runs on
    rses    \* dial's session, as the connection it runs on

rvars == <<rpc, rhost, rid, rct, rses>>
allVars == <<vars, rvars>>

RInit ==
    /\ Init
    /\ rpc = [q \in Requests |-> "idle"]
    /\ rhost = [q \in Requests |-> None]
    /\ rid = [q \in Requests |-> None]
    /\ rct = [q \in Requests |-> None]
    /\ rses = [q \in Requests |-> None]

RAt(q, label) == rpc[q] = label
RGoto(q, label) == rpc' = [rpc EXCEPT ![q] = label]

\* The request is over: it is answered (with the client's response; 403 when no
\* rule matches; 502 for every other error) and its pointers are dropped.
Answer(q) ==
    /\ RGoto(q, "idle")
    /\ rhost' = [rhost EXCEPT ![q] = None]
    /\ rid' = [rid EXCEPT ![q] = None]
    /\ rct' = [rct EXCEPT ![q] = None]
    /\ rses' = [rses EXCEPT ![q] = None]

-----------------------------------------------------------------------------
(* handleHTTP: from the host to the client.                                *)

\* A request for the host arrives and getIdentifier looks its host:port up.
PublicRequest(q, host) ==
    /\ RAt(q, "idle")
    /\ rhost' = [rhost EXCEPT ![q] = IF Claimed(host) THEN None ELSE host]
    /\ rid' = [rid EXCEPT ![q] = GetIdentifier(host)]
    /\ RGoto(q, IF Claimed(host) THEN "rewrite" ELSE "fallback")
    /\ UNCHANGED <<vars, rct, rses>>

\* The second getIdentifier, for the host without its port.
LookupHostPart(q) ==
    /\ RAt(q, "fallback")
    /\ LET host == HostPart[rhost[q]] IN
       IF host # None /\ Claimed(host)
       THEN /\ rid' = [rid EXCEPT ![q] = GetIdentifier(host)]
            /\ RGoto(q, "rewrite")
            /\ rhost' = [rhost EXCEPT ![q] = None]
            /\ UNCHANGED <<rct, rses>>
       ELSE Answer(q)
    /\ UNCHANGED vars

\* rewriteRequest looks the client's rules up by identifier; without an entry, or
\* without a rule that matches the path, the answer is 403.
rewriteRequest(q, path) ==
    /\ RAt(q, "rewrite")
    /\ \E h \in GetHost(rid[q]) :
         IF h # None /\ path \in mapping[h].rewrite
         THEN RGoto(q, "getControl") /\ UNCHANGED <<rhost, rid, rct, rses>>
         ELSE Answer(q)
    /\ UNCHANGED vars

-----------------------------------------------------------------------------
(* dial: a stream to the client.                                           *)

DialGetControl(q) ==
    /\ RAt(q, "getControl")
    /\ IF controls[rid[q]] = None
       THEN Answer(q)
       ELSE /\ rct' = [rct EXCEPT ![q] = controls[rid[q]]]
            /\ RGoto(q, "getSession")
            /\ UNCHANGED <<rhost, rid, rses>>
    /\ UNCHANGED vars

\* Mutant: the session is not looked up by the request's identifier.
DialGetSessionAny(q) ==
    /\ RAt(q, "getSession")
    /\ \E id \in Ids :
        /\ sessions[id] # None
        /\ rses' = [rses EXCEPT ![q] = sessions[id]]
    /\ RGoto(q, "send")
    /\ UNCHANGED <<vars, rhost, rid, rct>>

DialGetSession(q) ==
    /\ RAt(q, "getSession")
    /\ sessionsMu = None
    /\ IF sessions[rid[q]] = None
       THEN Answer(q)
       ELSE /\ rses' = [rses EXCEPT ![q] = sessions[rid[q]]]
            /\ RGoto(q, "send")
            /\ UNCHANGED <<rhost, rid, rct>>
    /\ UNCHANGED vars

\* Mutant: the result of send is ignored.
CanSendAlways(ct) == TRUE

\* control.send tests closed under the control's mutex and encodes after it; the
\* write itself fails as well on a closed stream, so the two are one step.
CanSend(ct) == ctl[ct] = "open" /\ conn[ct] = "tunnel"

DialSend(q) ==
    /\ RAt(q, "send")
    /\ CanSend(rct[q])
    /\ RGoto(q, "accept")
    /\ UNCHANGED <<vars, rhost, rid, rct, rses>>

\* send failed: control.Close() ...
DialSendFails(q) ==
    /\ RAt(q, "send")
    /\ ~CanSend(rct[q])
    /\ ctl' = [ctl EXCEPT ![rct[q]] = "closed"]
    /\ RGoto(q, "deleteControl")
    /\ UNCHANGED <<mapping, sessions, controls, sessionsMu, states, conn, resp, procVars,
                   rhost, rid, rct, rses>>

\* Mutant: the session is dropped together with the control.
DialDeleteBoth(q) ==
    /\ RAt(q, "deleteControl")
    /\ controls' = [controls EXCEPT ![rid[q]] = None]
    /\ sessions' = [sessions EXCEPT ![rid[q]] = None]
    /\ Answer(q)
    /\ UNCHANGED <<mapping, sessionsMu, states, conn, ctl, resp, procVars>>

\* ... and deleteControl(identifier): whatever control the identifier has now.
DialDeleteControl(q) ==
    /\ RAt(q, "deleteControl")
    /\ controls' = [controls EXCEPT ![rid[q]] = None]
    /\ Answer(q)
    /\ UNCHANGED <<mapping, sessions, sessionsMu, states, conn, ctl, resp, procVars>>

\* session.Accept returns a stream.
DialAccept(q) ==
    /\ RAt(q, "accept")
    /\ conn[rses[q]] = "tunnel"
    /\ RGoto(q, "relay")
    /\ UNCHANGED <<vars, rhost, rid, rct, rses>>

\* session.Accept fails because the session is closed, or defaultTimeout passes.
DialAcceptFails(q) ==
    /\ RAt(q, "accept")
    /\ Answer(q)
    /\ UNCHANGED vars

\* The rest of handleHTTP: the request is written to the stream and the response
\* copied back, or the stream breaks; the stream is closed.
Relay(q) ==
    /\ RAt(q, "relay")
    /\ Answer(q)
    /\ UNCHANGED vars

-----------------------------------------------------------------------------
RequestStep(q) ==
    \/ LookupHostPart(q)
    \/ \E path \in Paths : rewriteRequest(q, path)
    \/ DialGetControl(q) \/ DialGetSession(q) \/ DialSend(q) \/ DialSendFails(q)
    \/ DialDeleteControl(q) \/ DialAccept(q) \/ DialAcceptFails(q) \/ Relay(q)

Held(c) == \E q \in Requests : c \in {rct[q], rses[q]}

ControlPlane(c) ==
    \/ /\ ~Held(c)
       /\ \E req \in ControlRequests : RejectRequest(c, req) \/ AdmitRequest(c, req)
    \/ ServerStep(c)
    \/ ControlBroken(c)
    \/ Drop(c)

RNext ==
    \/ \E c \in Conns : ControlPlane(c) /\ UNCHANGED rvars
    \/ \E q \in Requests : (\E h \in Hosts : PublicRequest(q, h)) \/ RequestStep(q)

RSpec == RInit /\ [][RNext]_allVars

\* As in TunnelServer.  A request waits for the client only in Accept, which has a
\* timeout, and in the relay, which ends when the client answers or goes away.
RFairness ==
    /\ \A c \in Conns :
        /\ WF_allVars(ServerStep(c) /\ UNCHANGED rvars)
        /\ SF_allVars((addSession(c) \/ deleteSession(c)) /\ UNCHANGED rvars)
    /\ \A q \in Requests :
        WF_allVars(RequestStep(q)) /\ SF_allVars(DialGetSession(q))

RFairSpec == RSpec /\ RFairness

-----------------------------------------------------------------------------
(* Properties.                                                             *)

\* A request only ever waits for, or talks over, a connection of the client its
\* host was claimed by when it arrived (functional_routing_test.go,
\* TwoClientsDoNotCrossTalk), though the connection may be torn down and the host
\* move to somebody else while it does.
NoCrossTalk ==
    \A q \in Requests : rses[q] # None => cid[rses[q]] \in {rid[q], None}

\* For a client whose connections do not overlap, a request waits on the session
\* of the very connection it asked: dial reads the control and the session one
\* after the other, but a control is closed before its session is replaced.
AskedIsAwaited ==
    \A q \in Requests : rid[q] \notin MayOverlap /\ rpc[q] \in {"accept", "relay"} =>
        rct[q] = rses[q]

\* A served client whose connections do not overlap keeps its session, whatever
\* requests and other clients do.  (Its control can be lost: QuietClientIsRouted.)
ServingKeepsSession ==
    \A c \in Conns : Serving(c) /\ cid[c] \notin MayOverlap => sessions[cid[c]] = c

\* Every public request is answered.
RequestAnswered == \A q \in Requests : ~RAt(q, "idle") ~> RAt(q, "idle")

\* functional_lifecycle_test.go:47, "the client to reconnect and serve again": a
\* client that has reconnected, with no other connection of it and no request in
\* progress, is routed again.
QuietClientIsRouted == (\A q \in Requests : RAt(q, "idle")) => ConnectedClientIsRouted
=============================================================================
