------------------------ MODULE TunnelRequestsProofs ------------------------
(* Proofs about the public side of the tunnel server: for every set of       *)
(* requests, clients, hosts and connections, a request reaches the client of *)
(* its host over one connection, however the two reads of dial interleave    *)
(* with the control plane and with other requests.                           *)
EXTENDS TunnelRequests, TunnelServerProofs

\* The labels of a request that has read a control, and a session.
HasControl == {"getSession", "send", "deleteControl", "accept", "relay"}
HasSession == {"send", "deleteControl", "accept", "relay"}

\* What a request has read so far: it knows its client from the lookup on, and holds
\* a control and a session exactly from the step of dial that reads them.
RequestTypeOK ==
    /\ rpc \in [Requests -> {"idle", "fallback", "rewrite", "getControl"} \union HasControl]
    /\ rhost \in [Requests -> Hosts \union {None}]
    /\ rid \in [Requests -> Ids \union {None}]
    /\ rct \in [Requests -> Conns \union {None}]
    /\ rses \in [Requests -> Conns \union {None}]
    /\ \A q \in Requests :
        /\ rpc[q] = "fallback" => rhost[q] \in Hosts
        /\ rpc[q] \notin {"idle", "fallback"} => rid[q] \in Ids
        /\ rpc[q] \in HasControl <=> rct[q] # None
        /\ rpc[q] \in HasSession <=> rses[q] # None

\* listenControl closes its control before it deletes it.
LostIsClosed ==
    \A c \in Conns : pc[c] = "deleteControl" /\ why[c] = "lost" => ctl[c] = "closed"

\* The control a request holds is still listened to by a process of its client, or
\* closed for good: the slot is not used again while the request holds it.
ControlIsCurrent ==
    \A q \in Requests : \A c \in Conns : rct[q] = c =>
        \/ pc[c] \in {"onConnect", "listen"} /\ cid[c] = rid[q]
        \/ /\ ctl[c] = "closed"
           /\ pc[c] \in {"deleteControl", "deleteSession", "deleteHost", "finish", "idle"}

\* A control that can still be sent on was not closed before the session was read,
\* so the session is the one of the same connection.
SentWhereAwaited ==
    \A q \in Requests : rid[q] \notin MayOverlap =>
        /\ rpc[q] = "send" => rct[q] = rses[q] \/ ctl[rct[q]] = "closed"
        /\ rpc[q] \in {"accept", "relay"} => rct[q] = rses[q]

\* The inductive invariant of the server with its public requests.
RequestInv ==
    /\ Inv /\ Exclusive /\ SessionKept
    /\ RequestTypeOK
    /\ LostIsClosed
    /\ NoCrossTalk
    /\ ControlIsCurrent
    /\ SentWhereAwaited

\* The invariant holds initially.
LEMMA RequestInit == RInit => RequestInv
<1> SUFFICES ASSUME RInit
             PROVE  RequestInv
  OBVIOUS
<1>1. Inv /\ Exclusive /\ SessionKept
  BY IsolationInit DEF RInit, IsolationInv
<1>2. RequestTypeOK
  BY DEF RInit, RequestTypeOK, HasControl, HasSession
<1>3. LostIsClosed
  BY DEF RInit, Init, LostIsClosed
<1>4. NoCrossTalk /\ ControlIsCurrent /\ SentWhereAwaited
  BY ConnsAssumption DEF RInit, NoCrossTalk, ControlIsCurrent, SentWhereAwaited
<1> QED
  BY <1>1, <1>2, <1>3, <1>4 DEF RequestInv

-----------------------------------------------------------------------------
(* Steps of the control plane.                                              *)

\* The labels at which a process has nothing but its cleanup before it.
Ending == {"deleteControl", "deleteSession", "deleteHost", "finish"}

\* What a step of the control plane does to a process as a request sees it that
\* holds one of its pointers: the identifier is kept until the process ends, a
\* listener keeps listening or closes its control, and a closed control stays
\* closed unless the slot is used again.
SlotMoves(d) ==
    /\ cid'[d] \in {cid[d], None} \/ ~Held(d)
    /\ pc[d] \in {"onConnect", "listen"} =>
        \/ pc'[d] \in {"onConnect", "listen"} /\ cid'[d] = cid[d]
        \/ pc'[d] = "deleteControl" /\ ctl'[d] = "closed"
    /\ pc[d] \in Ending => pc'[d] \in Ending \union {"idle"}
    /\ pc[d] = "idle" => pc'[d] = "idle" \/ ~Held(d)
    /\ ctl[d] = "closed" => ctl'[d] = "closed" \/ pc[d] = "addControl" \/ ~Held(d)

\* Every step of the control plane is such a step, for every process; and listenControl
\* has closed the control it lost.
LEMMA ControlPlaneMoves ==
  ASSUME Inv, LostIsClosed, NEW c \in Conns, ControlPlane(c)
  PROVE  LostIsClosed' /\ \A d \in Conns : SlotMoves(d)
<1> USE NoneIsMissing, ConnsAssumption DEF Inv, TypeOK, At, Goto, End, Identified, CauseIsEnding,
        LostIsClosed, SlotMoves, Ending
<1>1. ASSUME NEW req \in ControlRequests, RejectRequest(c, req)
      PROVE  LostIsClosed' /\ \A d \in Conns : SlotMoves(d)
  BY <1>1 DEF RejectRequest, procVars
<1>2. ASSUME NEW req \in ControlRequests, AdmitRequest(c, req), ~Held(c)
      PROVE  LostIsClosed' /\ \A d \in Conns : SlotMoves(d)
  BY <1>2 DEF AdmitRequest, Arrives
<1>3. CASE Drop(c)
  BY <1>3 DEF Drop, procVars
<1>4. CASE CheckHostRegistered(c)
  BY <1>4 DEF CheckHostRegistered
<1>5. CASE CheckNoControl(c)
  BY <1>5 DEF CheckNoControl
<1>6. CASE HijackRefused(c) \/ HijackBroken(c) \/ StartSession(c)
  BY <1>6 DEF HijackRefused, HijackBroken, StartSession
<1>7. CASE addSession(c) \/ AcceptStream(c) \/ Handshake(c) \/ SetupFails(c)
  BY <1>7 DEF addSession, AcceptStream, Handshake, SetupFails
<1>8. CASE addControl(c)
  BY <1>8 DEF addControl
<1>9. CASE onConnect(c)
  BY <1>9 DEF onConnect, changeState
<1>10. CASE ListenFails(c) \/ ControlBroken(c)
  BY <1>10 DEF ListenFails, ControlBroken, StopListening
<1>11. CASE deleteControl(c)
  BY <1>11 DEF deleteControl
<1>12. CASE deleteSession(c)
  BY <1>12 DEF deleteSession, GetHost, HostsOf
<1>13. CASE deleteSessionHost(c)
  BY <1>13 DEF deleteSessionHost
<1>14. CASE Finish(c)
  BY <1>14 DEF Finish, onDisconnect, changeState
<1> QED
  BY <1>1, <1>2, <1>3, <1>4, <1>5, <1>6, <1>7, <1>8, <1>9, <1>10, <1>11, <1>12, <1>13, <1>14
  DEF ControlPlane, ServerStep

\* No step of the control plane confuses a request: it keeps the invariant.
LEMMA ControlPlaneKeeps ==
  ASSUME RequestInv, NEW c \in Conns, ControlPlane(c), UNCHANGED rvars
  PROVE  RequestInv'
<1> USE DEF RequestInv
<1>1. Inv' /\ Exclusive' /\ SessionKept'
  BY SessionNext DEF ControlPlane, Next
<1>2. LostIsClosed' /\ \A d \in Conns : SlotMoves(d)
  BY ControlPlaneMoves
<1>3. RequestTypeOK'
  BY DEF RequestTypeOK, rvars
<1>4. \A q \in Requests : \A d \in Conns : d \in {rct[q], rses[q]} => Held(d)
  BY DEF Held
<1>5. NoCrossTalk'
  <2> SUFFICES ASSUME NEW q \in Requests, rses[q] # None
               PROVE  cid'[rses[q]] \in {rid[q], None}
    BY DEF NoCrossTalk, rvars
  <2>1. rses[q] \in Conns
    BY DEF RequestTypeOK
  <2> QED
    BY <1>2, <1>4, <2>1 DEF SlotMoves, NoCrossTalk
<1>6. ControlIsCurrent'
  <2> SUFFICES ASSUME NEW q \in Requests, NEW d \in Conns, rct[q] = d
               PROVE  \/ pc'[d] \in {"onConnect", "listen"} /\ cid'[d] = rid[q]
                      \/ /\ ctl'[d] = "closed"
                         /\ pc'[d] \in Ending \union {"idle"}
    BY DEF ControlIsCurrent, rvars, Ending
  <2> QED
    BY <1>2, <1>4 DEF SlotMoves, ControlIsCurrent, Ending
<1>7. SentWhereAwaited'
  <2>1. \A q \in Requests : rct[q] # None /\ ctl[rct[q]] = "closed" => ctl'[rct[q]] = "closed"
    BY <1>2, <1>4 DEF SlotMoves, ControlIsCurrent, RequestTypeOK, Ending
  <2> QED
    BY <2>1 DEF SentWhereAwaited, rvars, RequestTypeOK, HasControl
<1> QED
  BY <1>1, <1>2, <1>3, <1>5, <1>6, <1>7

-----------------------------------------------------------------------------
(* Steps of the requests.                                                   *)

\* A request changes the server in two ways only: it closes the control it holds,
\* and it removes the control of its client, neither of which the control plane
\* relies on.
LEMMA RequestKeepsServer ==
  ASSUME RequestInv, NEW q \in Requests, (\E h \in Hosts : PublicRequest(q, h)) \/ RequestStep(q)
  PROVE  Inv' /\ Exclusive' /\ SessionKept' /\ LostIsClosed'
<1> USE DEF RequestInv
<1>1. CASE UNCHANGED vars
  BY <1>1, SessionNext DEF vars, procVars, LostIsClosed
<1>2. CASE DialSendFails(q)
  <2>1. /\ ctl' = [ctl EXCEPT ![rct[q]] = "closed"] /\ rct[q] \in Conns
        /\ UNCHANGED <<mapping, sessions, controls, sessionsMu, states, conn, resp, pc, cid, why,
                      hostId>>
    BY <1>2 DEF DialSendFails, RAt, procVars, RequestTypeOK, HasControl
  <2>2. ctl' \in [Conns -> {"none", "open", "closed"}]
    BY <2>1 DEF Inv, TypeOK
  <2> QED
    BY <2>1, <2>2 DEF Inv, TypeOK, VHTypeOK, Identified, CauseIsEnding, HostToDelete,
       ControlHasListener, SessionHasOwner, ConnectedHasListener, Exclusive, SessionKept,
       LostIsClosed
<1>3. CASE DialDeleteControl(q)
  <2>1. /\ controls' = [controls EXCEPT ![rid[q]] = None] /\ rid[q] \in Ids
        /\ UNCHANGED <<mapping, sessions, sessionsMu, states, conn, ctl, resp, pc, cid, why,
                      hostId>>
    BY <1>3 DEF DialDeleteControl, RAt, procVars, RequestTypeOK
  <2>2. controls' \in [Ids -> Conns \union {None}]
    BY <2>1 DEF Inv, TypeOK
  <2>3. ControlHasListener'
    BY <2>1, ConnsAssumption DEF Inv, TypeOK, ControlHasListener
  <2> QED
    BY <2>1, <2>2, <2>3 DEF Inv, TypeOK, VHTypeOK, Identified, CauseIsEnding, HostToDelete,
       SessionHasOwner, ConnectedHasListener, Exclusive, SessionKept, LostIsClosed
<1>4. UNCHANGED vars \/ DialSendFails(q) \/ DialDeleteControl(q)
  BY DEF PublicRequest, RequestStep, LookupHostPart, rewriteRequest, DialGetControl,
     DialGetSession, DialSend, DialAccept, DialAcceptFails, Relay
<1> QED
  BY <1>1, <1>2, <1>3, <1>4

\* A request that is answered holds nothing any more.
LEMMA AnswerKeeps ==
  ASSUME RequestInv, NEW q \in Requests, Answer(q), UNCHANGED <<pc, cid, ctl>>
  PROVE  RequestTypeOK' /\ NoCrossTalk' /\ ControlIsCurrent' /\ SentWhereAwaited'
<1> USE ConnsAssumption DEF RequestInv, Answer, RGoto, RequestTypeOK, HasControl, HasSession
<1>1. RequestTypeOK'
  OBVIOUS
<1>2. NoCrossTalk'
  BY DEF NoCrossTalk
<1>3. ControlIsCurrent'
  BY DEF ControlIsCurrent
<1>4. SentWhereAwaited'
  BY DEF SentWhereAwaited
<1> QED
  BY <1>1, <1>2, <1>3, <1>4

\* Every other step of a request keeps what is said of requests.
LEMMA RequestKeeps ==
  ASSUME RequestInv, NEW q \in Requests, (\E h \in Hosts : PublicRequest(q, h)) \/ RequestStep(q)
  PROVE  RequestTypeOK' /\ NoCrossTalk' /\ ControlIsCurrent' /\ SentWhereAwaited'
<1> DEFINE Kept == RequestTypeOK' /\ NoCrossTalk' /\ ControlIsCurrent' /\ SentWhereAwaited'
<1> USE NoneIsMissing, ConnsAssumption DEF RequestInv, RAt, RGoto, RequestTypeOK, HasControl, HasSession
<1>1. ASSUME NEW h \in Hosts, PublicRequest(q, h)
      PROVE  Kept
  <2>1. Claimed(h) => GetIdentifier(h) \in Ids
    BY DEF GetIdentifier, Claimed, Inv, TypeOK, VHTypeOK, VirtualHost
  <2>2. RequestTypeOK'
    BY <1>1, <2>1 DEF PublicRequest, GetIdentifier
  <2> QED
    BY <1>1, <2>2 DEF PublicRequest, vars, procVars, NoCrossTalk, ControlIsCurrent, SentWhereAwaited
<1>2. CASE LookupHostPart(q)
  <2> DEFINE host == HostPart[rhost[q]]
  <2>1. CASE host # None /\ Claimed(host)
    <3>1. host \in Hosts
      BY <1>2, <2>1, RequestsAssumption DEF LookupHostPart
    <3>2. GetIdentifier(host) \in Ids
      BY <2>1, <3>1 DEF GetIdentifier, Claimed, Inv, TypeOK, VHTypeOK, VirtualHost
    <3>3. /\ rpc[q] = "fallback" /\ rpc' = [rpc EXCEPT ![q] = "rewrite"]
          /\ rid' = [rid EXCEPT ![q] = GetIdentifier(host)]
          /\ rhost' = [rhost EXCEPT ![q] = None]
          /\ UNCHANGED <<vars, rct, rses>>
      BY <1>2, <2>1 DEF LookupHostPart
    <3>4. RequestTypeOK'
      BY <3>2, <3>3
    <3> QED
      BY <3>3, <3>4 DEF vars, procVars, NoCrossTalk, ControlIsCurrent, SentWhereAwaited
  <2>2. CASE ~(host # None /\ Claimed(host))
    BY <1>2, <2>2, AnswerKeeps DEF LookupHostPart, vars, procVars
  <2> QED
    BY <2>1, <2>2
<1>3. ASSUME NEW path \in Paths, rewriteRequest(q, path)
      PROVE  Kept
  <2>1. CASE Answer(q)
    BY <1>3, <2>1, AnswerKeeps DEF rewriteRequest, vars, procVars
  <2>2. CASE ~Answer(q)
    <3>1. /\ rpc[q] = "rewrite" /\ rpc' = [rpc EXCEPT ![q] = "getControl"]
          /\ UNCHANGED <<vars, rhost, rid, rct, rses>>
      BY <1>3, <2>2 DEF rewriteRequest
    <3> QED
      BY <3>1 DEF vars, procVars, NoCrossTalk, ControlIsCurrent, SentWhereAwaited
  <2> QED
    BY <2>1, <2>2
<1>4. CASE DialGetControl(q)
  <2>1. CASE controls[rid[q]] = None
    BY <1>4, <2>1, AnswerKeeps DEF DialGetControl, vars, procVars
  <2>2. CASE controls[rid[q]] # None
    <3> DEFINE ct == controls[rid[q]]
    <3>1. ct \in Conns /\ rid[q] \in Ids
      BY <1>4, <2>2 DEF DialGetControl, Inv, TypeOK
    <3>2. /\ rpc[q] = "getControl" /\ rpc' = [rpc EXCEPT ![q] = "getSession"]
          /\ rct' = [rct EXCEPT ![q] = ct]
          /\ UNCHANGED <<pc, cid, ctl, rhost, rid, rses>>
      BY <1>4, <2>2 DEF DialGetControl, vars, procVars
    <3>3. RequestTypeOK'
      BY <3>1, <3>2
    <3>4. NoCrossTalk'
      BY <3>2 DEF NoCrossTalk
    <3>5. \/ pc[ct] \in {"onConnect", "listen"} /\ cid[ct] = rid[q]
          \/ pc[ct] = "deleteControl" /\ ctl[ct] = "closed"
      BY <3>1 DEF Inv, ControlHasListener, LostIsClosed
    <3>6. ControlIsCurrent'
      BY <3>1, <3>2, <3>5 DEF ControlIsCurrent
    <3>7. SentWhereAwaited'
      BY <3>2 DEF SentWhereAwaited
    <3> QED
      BY <3>3, <3>4, <3>6, <3>7
  <2> QED
    BY <2>1, <2>2
<1>5. CASE DialGetSession(q)
  <2>1. CASE sessions[rid[q]] = None
    BY <1>5, <2>1, AnswerKeeps DEF DialGetSession, vars, procVars
  <2>2. CASE sessions[rid[q]] # None
    <3> DEFINE ses == sessions[rid[q]]
    <3>1. ses \in Conns /\ rid[q] \in Ids /\ rct[q] \in Conns
      BY <1>5, <2>2 DEF DialGetSession, Inv, TypeOK
    <3>2. /\ rpc[q] = "getSession" /\ rpc' = [rpc EXCEPT ![q] = "send"]
          /\ rses' = [rses EXCEPT ![q] = ses]
          /\ UNCHANGED <<pc, cid, ctl, rhost, rid, rct>>
      BY <1>5, <2>2 DEF DialGetSession, vars, procVars
    <3>3. RequestTypeOK'
      BY <3>1, <3>2
    <3>4. cid[ses] = rid[q]
      BY <3>1 DEF Inv, SessionHasOwner
    <3>5. NoCrossTalk'
      BY <3>1, <3>2, <3>4 DEF NoCrossTalk
    <3>6. ControlIsCurrent'
      BY <3>2 DEF ControlIsCurrent
    <3>7. rid[q] \notin MayOverlap => rct[q] = ses \/ ctl[rct[q]] = "closed"
      BY <3>1 DEF ControlIsCurrent, SessionKept
    <3>8. SentWhereAwaited'
      BY <3>1, <3>2, <3>7 DEF SentWhereAwaited
    <3> QED
      BY <3>3, <3>5, <3>6, <3>8
  <2> QED
    BY <2>1, <2>2
<1>6. CASE DialSend(q)
  <2>1. /\ rpc[q] = "send" /\ rpc' = [rpc EXCEPT ![q] = "accept"] /\ ctl[rct[q]] = "open"
        /\ UNCHANGED <<pc, cid, ctl, rhost, rid, rct, rses>>
    BY <1>6 DEF DialSend, CanSend, vars, procVars
  <2>2. RequestTypeOK' /\ NoCrossTalk' /\ ControlIsCurrent'
    BY <2>1 DEF NoCrossTalk, ControlIsCurrent
  <2>3. SentWhereAwaited'
    BY <2>1 DEF SentWhereAwaited
  <2> QED
    BY <2>2, <2>3
<1>7. CASE DialSendFails(q)
  <2>1. /\ rpc[q] = "send" /\ rpc' = [rpc EXCEPT ![q] = "deleteControl"]
        /\ rct[q] \in Conns /\ ctl' = [ctl EXCEPT ![rct[q]] = "closed"]
        /\ UNCHANGED <<pc, cid, rhost, rid, rct, rses>>
    BY <1>7 DEF DialSendFails, procVars
  <2>2. \A d \in Conns : ctl[d] = "closed" => ctl'[d] = "closed"
    BY <2>1 DEF Inv, TypeOK
  <2>3. RequestTypeOK' /\ NoCrossTalk'
    BY <2>1 DEF NoCrossTalk
  <2>4. ControlIsCurrent'
    BY <2>1, <2>2 DEF ControlIsCurrent
  <2>5. SentWhereAwaited'
    BY <2>1, <2>2 DEF SentWhereAwaited
  <2> QED
    BY <2>3, <2>4, <2>5
<1>8. CASE DialDeleteControl(q)
  BY <1>8, AnswerKeeps DEF DialDeleteControl, procVars
<1>9. CASE DialAccept(q)
  <2>1. /\ rpc[q] = "accept" /\ rpc' = [rpc EXCEPT ![q] = "relay"]
        /\ UNCHANGED <<pc, cid, ctl, rhost, rid, rct, rses>>
    BY <1>9 DEF DialAccept, vars, procVars
  <2> QED
    BY <2>1 DEF NoCrossTalk, ControlIsCurrent, SentWhereAwaited
<1>10. CASE DialAcceptFails(q) \/ Relay(q)
  BY <1>10, AnswerKeeps DEF DialAcceptFails, Relay, vars, procVars
<1> QED
  BY <1>1, <1>2, <1>3, <1>4, <1>5, <1>6, <1>7, <1>8, <1>9, <1>10 DEF RequestStep

-----------------------------------------------------------------------------
\* RequestInv is an invariant of the server with its public requests.
THEOREM RequestInvariance == RSpec => []RequestInv
<1>1. RequestInv /\ [RNext]_allVars => RequestInv'
  <2> SUFFICES ASSUME RequestInv, [RNext]_allVars
               PROVE  RequestInv'
    OBVIOUS
  <2>1. ASSUME NEW q \in Requests, (\E h \in Hosts : PublicRequest(q, h)) \/ RequestStep(q)
        PROVE  RequestInv'
    BY <2>1, RequestKeeps, RequestKeepsServer DEF RequestInv
  <2>2. CASE UNCHANGED allVars
    <3>1. Inv' /\ Exclusive' /\ SessionKept'
      BY <2>2, SessionNext DEF allVars, RequestInv
    <3> QED
      BY <2>2, <3>1 DEF allVars, vars, rvars, procVars, RequestInv, RequestTypeOK, LostIsClosed,
         NoCrossTalk, ControlIsCurrent, SentWhereAwaited
  <2> QED
    BY <2>1, <2>2, ControlPlaneKeeps DEF RNext
<1> QED
  BY <1>1, RequestInit, PTL DEF RSpec

\* A request never waits for, or talks over, a connection of another client than the
\* one that held its host when it arrived, whatever becomes of connection and host.
THEOREM NoRequestCrossTalk == RSpec => []NoCrossTalk
<1>1. RequestInv => NoCrossTalk
  BY DEF RequestInv
<1> QED
  BY <1>1, RequestInvariance, PTL

\* A client whose connections do not overlap is asked for a stream over the same
\* connection that the request then waits on, though dial reads the two registries
\* one after the other.
THEOREM AskedOverTheSameTunnel == RSpec => []AskedIsAwaited
<1>1. RequestInv => AskedIsAwaited
  BY DEF RequestInv, SentWhereAwaited, AskedIsAwaited
<1> QED
  BY <1>1, RequestInvariance, PTL

\* A served client whose connections do not overlap keeps its session under any load
\* of public requests.
THEOREM SessionSurvivesRequests == RSpec => []ServingKeepsSession
<1>1. RequestInv => ServingKeepsSession
  BY DEF RequestInv, SessionKept, ServingKeepsSession, Serving
<1> QED
  BY <1>1, RequestInvariance, PTL

\* Nor do public requests break the registries: no control and no session is left
\* without a process that is going to delete it.
THEOREM RequestsKeepRegistries == RSpec => [](ControlHasListener /\ SessionHasOwner)
<1>1. RequestInv => ControlHasListener /\ SessionHasOwner
  BY DEF RequestInv, Inv
<1> QED
  BY <1>1, RequestInvariance, PTL
=============================================================================
