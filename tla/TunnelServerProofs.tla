------------------------- MODULE TunnelServerProofs -------------------------
(* Proofs about the control plane of the tunnel server, for every set of     *)
(* clients, hosts and connections, however they overlap.                     *)
EXTENDS TunnelServer, VirtualHostsProofs

\* A step of the process of a connection, whether fairness asks for it or the client
\* causes it.
ProcessStep(c) == ServerStep(c) \/ ControlBroken(c)

\* Admission answers with one of its statuses.
LEMMA VerdictType ==
  ASSUME NEW req \in ControlRequests
  PROVE  Verdict(req) \in {200, 400, 403, 405, 409}
BY DEF Verdict, Admit

\* The two requests a connection can bring keep the types.
LEMMA RequestType ==
  ASSUME TypeOK, NEW c \in Conns, NEW req \in ControlRequests,
         RejectRequest(c, req) \/ AdmitRequest(c, req)
  PROVE  TypeOK'
<1>1. CASE RejectRequest(c, req)
  BY <1>1, VerdictType DEF RejectRequest, Arrives, TypeOK, VHTypeOK, ConnState, procVars
<1>2. CASE AdmitRequest(c, req)
  <2>1. VHTypeOK'
    BY <1>2 DEF AdmitRequest, AddHost, TypeOK, VHTypeOK, VirtualHost, ControlRequests
  <2>2. req.id \in Ids
    BY DEF ControlRequests
  <2> QED
    BY <1>2, <2>1, <2>2 DEF AdmitRequest, Arrives, Goto, TypeOK, ConnState, PC
<1> QED
  BY <1>1, <1>2

\* Every step of a process keeps the types.
LEMMA StepType ==
  ASSUME TypeOK, NEW c \in Conns, ProcessStep(c)
  PROVE  TypeOK'
<1> USE DEF TypeOK, VHTypeOK, ConnState, ClientState, PC, Cause, At, Goto, End
<1>1. CASE CheckHostRegistered(c)
  BY <1>1 DEF CheckHostRegistered
<1>2. CASE CheckNoControl(c)
  BY <1>2 DEF CheckNoControl
<1>3. CASE HijackRefused(c)
  BY <1>3 DEF HijackRefused
<1>4. CASE HijackBroken(c)
  BY <1>4 DEF HijackBroken
<1>5. CASE StartSession(c)
  BY <1>5 DEF StartSession
<1>6. CASE addSession(c)
  BY <1>6 DEF addSession
<1>7. CASE AcceptStream(c)
  BY <1>7 DEF AcceptStream
<1>8. CASE Handshake(c)
  BY <1>8 DEF Handshake
<1>9. CASE SetupFails(c)
  BY <1>9 DEF SetupFails
<1>10. CASE addControl(c)
  BY <1>10 DEF addControl
<1>11. CASE onConnect(c)
  BY <1>11 DEF onConnect, changeState
<1>12. CASE ListenFails(c) \/ ControlBroken(c)
  BY <1>12 DEF ListenFails, ControlBroken, StopListening
<1>13. CASE deleteControl(c)
  BY <1>13 DEF deleteControl
<1>14. CASE deleteSession(c)
  BY <1>14 DEF deleteSession, GetHost, HostsOf
<1>15. CASE deleteSessionHost(c)
  BY <1>15 DEF deleteSessionHost, DeleteHost
<1>16. CASE Finish(c)
  BY <1>16 DEF Finish, onDisconnect, changeState
<1> QED
  BY <1>1, <1>2, <1>3, <1>4, <1>5, <1>6, <1>7, <1>8, <1>9, <1>10, <1>11, <1>12,
     <1>13, <1>14, <1>15, <1>16 DEF ProcessStep, ServerStep

\* The server starts with empty registries and idle connections.
LEMMA InitType == Init => TypeOK
BY DEF Init, VHInit, TypeOK, VHTypeOK, ConnState, ClientState, PC, Cause

\* Every variable keeps its type: in particular no registry ever holds anything
\* but live connection slots, and no status outside the protocol is written.
THEOREM TypeCorrect == Spec => []TypeOK
<1>1. Init => TypeOK
  BY InitType
<1>2. TypeOK /\ [Next]_vars => TypeOK'
  <2> SUFFICES ASSUME TypeOK, [Next]_vars
               PROVE  TypeOK'
    OBVIOUS
  <2>1. ASSUME NEW c \in Conns, NEW req \in ControlRequests,
               RejectRequest(c, req) \/ AdmitRequest(c, req)
        PROVE  TypeOK'
    BY <2>1, RequestType
  <2>2. ASSUME NEW c \in Conns, ProcessStep(c)
        PROVE  TypeOK'
    BY <2>2, StepType
  <2>3. ASSUME NEW c \in Conns, Drop(c)
        PROVE  TypeOK'
    BY <2>3 DEF Drop, TypeOK, VHTypeOK, ConnState, procVars
  <2>4. CASE UNCHANGED vars
    BY <2>4 DEF vars, procVars, TypeOK, VHTypeOK
  <2> QED
    BY <2>1, <2>2, <2>3, <2>4 DEF Next, ProcessStep
<1> QED
  BY <1>1, <1>2, PTL DEF Spec

-----------------------------------------------------------------------------
(* The server uses the storage only through its operations, so what holds   *)
(* of the storage for every caller holds of the server.                     *)

\* Only deleteSessionHost, of all steps of a process, changes the storage.
LEMMA StepMapping ==
  ASSUME NEW c \in Conns, ProcessStep(c), ~deleteSessionHost(c)
  PROVE  UNCHANGED mapping
BY DEF ProcessStep, ServerStep, CheckHostRegistered, CheckNoControl, HijackRefused, HijackBroken,
   StartSession, addSession, AcceptStream, Handshake, SetupFails, addControl, onConnect,
   ListenFails, ControlBroken, StopListening, deleteControl, deleteSession, Finish

\* Every step of the server is an operation of the storage or leaves it alone.
LEMMA StorageStep ==
  ASSUME TypeOK, [Next]_vars,
         \A c \in Conns : pc[c] = "deleteHost" => hostId[c] \in Hosts
  PROVE  [VHNext]_mapping
<1>1. ASSUME NEW c \in Conns, NEW req \in ControlRequests, RejectRequest(c, req)
      PROVE  UNCHANGED mapping
  BY <1>1 DEF RejectRequest
<1>2. ASSUME NEW c \in Conns, NEW req \in ControlRequests, AdmitRequest(c, req)
      PROVE  VHNext
  <2>1. req.host \in Hosts /\ req.id \in Ids /\ req.rewrite \in Rewrites
    BY DEF ControlRequests
  <2> QED
    BY <1>2, <2>1 DEF AdmitRequest, VHNext
<1>3. ASSUME NEW c \in Conns, deleteSessionHost(c)
      PROVE  VHNext
  BY <1>3 DEF deleteSessionHost, At, VHNext
<1>4. ASSUME NEW c \in Conns, ProcessStep(c), ~deleteSessionHost(c)
      PROVE  UNCHANGED mapping
  BY <1>4, StepMapping
<1>5. ASSUME NEW c \in Conns, Drop(c)
      PROVE  UNCHANGED mapping
  BY <1>5 DEF Drop
<1>6. CASE UNCHANGED vars
  BY <1>6 DEF vars
<1> QED
  BY <1>1, <1>2, <1>3, <1>4, <1>5, <1>6 DEF Next, ProcessStep

-----------------------------------------------------------------------------
(* No registry entry outlives the process that is to remove it.             *)

\* Exactly the processes that are not idle have an identifier.
Identified == \A c \in Conns : cid[c] = None <=> pc[c] = "idle"

\* A process that has a cause to end is in its cleanup.
CauseIsEnding ==
    \A c \in Conns : why[c] # "none" =>
        pc[c] \in {"deleteControl", "deleteSession", "deleteHost", "finish"}

\* deleteSession holds the lock exactly while it has a host to delete.
HostToDelete ==
    \A c \in Conns :
        /\ pc[c] = "deleteHost" <=> sessionsMu = c
        /\ pc[c] = "deleteHost" => hostId[c] \in Hosts

\* The inductive invariant.
Inv ==
    /\ TypeOK
    /\ Identified
    /\ CauseIsEnding
    /\ HostToDelete
    /\ ControlHasListener
    /\ SessionHasOwner
    /\ ConnectedHasListener

\* The invariant holds initially: nothing is registered.
LEMMA InvInit == Init => Inv
BY NoneIsMissing, ConnsAssumption, InitType DEF Init, Inv, Identified, CauseIsEnding, HostToDelete,
   ControlHasListener, SessionHasOwner, ConnectedHasListener

\* A control request, refused or admitted, keeps the invariant: it only touches an
\* idle process, which owns nothing.
LEMMA InvRequest ==
  ASSUME Inv, NEW c \in Conns, NEW req \in ControlRequests,
         RejectRequest(c, req) \/ AdmitRequest(c, req)
  PROVE  Inv'
<1> USE NoneIsMissing, ConnsAssumption
<1>1. TypeOK'
  BY RequestType DEF Inv
<1>2. CASE RejectRequest(c, req)
  BY <1>1, <1>2 DEF RejectRequest, Inv, Identified, CauseIsEnding, HostToDelete,
     ControlHasListener, SessionHasOwner, ConnectedHasListener, procVars
<1>3. CASE AdmitRequest(c, req)
  <2>1. req.id \in Ids
    BY DEF ControlRequests
  <2>2. Identified' /\ CauseIsEnding' /\ HostToDelete'
    BY <1>3, <2>1 DEF AdmitRequest, Arrives, At, Goto, Inv, TypeOK, Identified,
       CauseIsEnding, HostToDelete
  <2>3. ControlHasListener' /\ SessionHasOwner'
    BY <1>3 DEF AdmitRequest, Arrives, At, Goto, Inv, TypeOK, ControlHasListener,
       SessionHasOwner
  <2>4. ConnectedHasListener'
    BY <1>3 DEF AdmitRequest, Arrives, At, Goto, Inv, TypeOK, CauseIsEnding,
       ConnectedHasListener
  <2> QED
    BY <1>1, <2>2, <2>3, <2>4 DEF Inv
<1> QED
  BY <1>2, <1>3

\* The bookkeeping of the processes is kept by every step.
LEMMA StepBookkeeping ==
  ASSUME Inv, NEW c \in Conns, ProcessStep(c)
  PROVE  Identified' /\ CauseIsEnding' /\ HostToDelete'
<1> USE NoneIsMissing, ConnsAssumption DEF Inv, TypeOK, At, Goto, End, Identified, CauseIsEnding, HostToDelete
<1>1. CASE CheckHostRegistered(c)
  BY <1>1 DEF CheckHostRegistered
<1>2. CASE CheckNoControl(c)
  BY <1>2 DEF CheckNoControl
<1>3. CASE HijackRefused(c)
  BY <1>3 DEF HijackRefused
<1>4. CASE HijackBroken(c)
  BY <1>4 DEF HijackBroken
<1>5. CASE StartSession(c)
  BY <1>5 DEF StartSession
<1>6. CASE addSession(c)
  BY <1>6 DEF addSession
<1>7. CASE AcceptStream(c)
  BY <1>7 DEF AcceptStream
<1>8. CASE Handshake(c)
  BY <1>8 DEF Handshake
<1>9. CASE SetupFails(c)
  BY <1>9 DEF SetupFails
<1>10. CASE addControl(c)
  BY <1>10 DEF addControl
<1>11. CASE onConnect(c)
  BY <1>11 DEF onConnect, changeState
<1>12. CASE ListenFails(c) \/ ControlBroken(c)
  BY <1>12 DEF ListenFails, ControlBroken, StopListening
<1>13. CASE deleteControl(c)
  BY <1>13 DEF deleteControl
<1>14. CASE deleteSession(c)
  BY <1>14 DEF deleteSession, GetHost, HostsOf
<1>15. CASE deleteSessionHost(c)
  BY <1>15 DEF deleteSessionHost
<1>16. CASE Finish(c)
  BY <1>16 DEF Finish, onDisconnect, changeState
<1> QED
  BY <1>1, <1>2, <1>3, <1>4, <1>5, <1>6, <1>7, <1>8,
     <1>9, <1>10, <1>11, <1>12, <1>13, <1>14, <1>15, <1>16 DEF ProcessStep, ServerStep

\* No step leaves a control without its listener.
LEMMA StepControl ==
  ASSUME Inv, NEW c \in Conns, ProcessStep(c)
  PROVE  ControlHasListener'
<1> USE NoneIsMissing, ConnsAssumption DEF Inv, TypeOK, At, Goto, End, ControlHasListener
<1>1. CASE CheckHostRegistered(c)
  BY <1>1 DEF CheckHostRegistered
<1>2. CASE CheckNoControl(c)
  BY <1>2 DEF CheckNoControl
<1>3. CASE HijackRefused(c)
  BY <1>3 DEF HijackRefused
<1>4. CASE HijackBroken(c)
  BY <1>4 DEF HijackBroken
<1>5. CASE StartSession(c)
  BY <1>5 DEF StartSession
<1>6. CASE addSession(c)
  BY <1>6 DEF addSession
<1>7. CASE AcceptStream(c)
  BY <1>7 DEF AcceptStream
<1>8. CASE Handshake(c)
  BY <1>8 DEF Handshake
<1>9. CASE SetupFails(c)
  BY <1>9 DEF SetupFails
<1>10. CASE addControl(c)
  BY <1>10 DEF addControl
<1>11. CASE onConnect(c)
  BY <1>11 DEF onConnect, changeState
<1>12. CASE ListenFails(c) \/ ControlBroken(c)
  BY <1>12 DEF ListenFails, ControlBroken, StopListening
<1>13. CASE deleteControl(c)
  BY <1>13 DEF deleteControl
<1>14. CASE deleteSession(c)
  BY <1>14 DEF deleteSession, GetHost, HostsOf
<1>15. CASE deleteSessionHost(c)
  BY <1>15 DEF deleteSessionHost
<1>16. CASE Finish(c)
  BY <1>16 DEF Finish, onDisconnect, changeState
<1> QED
  BY <1>1, <1>2, <1>3, <1>4, <1>5, <1>6, <1>7, <1>8,
     <1>9, <1>10, <1>11, <1>12, <1>13, <1>14, <1>15, <1>16 DEF ProcessStep, ServerStep

\* No step leaves a session without its owner.
LEMMA StepSession ==
  ASSUME Inv, NEW c \in Conns, ProcessStep(c)
  PROVE  SessionHasOwner'
<1> USE NoneIsMissing, ConnsAssumption DEF Inv, TypeOK, At, Goto, End, SessionHasOwner
<1>1. CASE CheckHostRegistered(c)
  BY <1>1 DEF CheckHostRegistered
<1>2. CASE CheckNoControl(c)
  BY <1>2 DEF CheckNoControl
<1>3. CASE HijackRefused(c)
  BY <1>3 DEF HijackRefused
<1>4. CASE HijackBroken(c)
  BY <1>4 DEF HijackBroken
<1>5. CASE StartSession(c)
  BY <1>5 DEF StartSession
<1>6. CASE addSession(c)
  BY <1>6 DEF addSession
<1>7. CASE AcceptStream(c)
  BY <1>7 DEF AcceptStream
<1>8. CASE Handshake(c)
  BY <1>8 DEF Handshake
<1>9. CASE SetupFails(c)
  BY <1>9 DEF SetupFails
<1>10. CASE addControl(c)
  BY <1>10 DEF addControl
<1>11. CASE onConnect(c)
  BY <1>11 DEF onConnect, changeState
<1>12. CASE ListenFails(c) \/ ControlBroken(c)
  BY <1>12 DEF ListenFails, ControlBroken, StopListening
<1>13. CASE deleteControl(c)
  BY <1>13 DEF deleteControl
<1>14. CASE deleteSession(c)
  BY <1>14 DEF deleteSession, GetHost, HostsOf
<1>15. CASE deleteSessionHost(c)
  BY <1>15 DEF deleteSessionHost
<1>16. CASE Finish(c)
  BY <1>16 DEF Finish, onDisconnect, changeState
<1> QED
  BY <1>1, <1>2, <1>3, <1>4, <1>5, <1>6, <1>7, <1>8,
     <1>9, <1>10, <1>11, <1>12, <1>13, <1>14, <1>15, <1>16 DEF ProcessStep, ServerStep

\* No step leaves a client reported as connected without a listener.
LEMMA StepConnected ==
  ASSUME Inv, NEW c \in Conns, ProcessStep(c)
  PROVE  ConnectedHasListener'
<1> USE NoneIsMissing, ConnsAssumption DEF Inv, TypeOK, At, Goto, End, CauseIsEnding, ConnectedHasListener
<1>1. CASE CheckHostRegistered(c)
  BY <1>1 DEF CheckHostRegistered
<1>2. CASE CheckNoControl(c)
  BY <1>2 DEF CheckNoControl
<1>3. CASE HijackRefused(c)
  BY <1>3 DEF HijackRefused
<1>4. CASE HijackBroken(c)
  BY <1>4 DEF HijackBroken
<1>5. CASE StartSession(c)
  BY <1>5 DEF StartSession
<1>6. CASE addSession(c)
  BY <1>6 DEF addSession
<1>7. CASE AcceptStream(c)
  BY <1>7 DEF AcceptStream
<1>8. CASE Handshake(c)
  BY <1>8 DEF Handshake
<1>9. CASE SetupFails(c)
  BY <1>9 DEF SetupFails
<1>10. CASE addControl(c)
  BY <1>10 DEF addControl
<1>11. CASE onConnect(c)
  BY <1>11 DEF onConnect, changeState
<1>12. CASE ListenFails(c) \/ ControlBroken(c)
  BY <1>12 DEF ListenFails, ControlBroken, StopListening
<1>13. CASE deleteControl(c)
  BY <1>13 DEF deleteControl
<1>14. CASE deleteSession(c)
  BY <1>14 DEF deleteSession, GetHost, HostsOf
<1>15. CASE deleteSessionHost(c)
  BY <1>15 DEF deleteSessionHost
<1>16. CASE Finish(c)
  BY <1>16 DEF Finish, onDisconnect, changeState
<1> QED
  BY <1>1, <1>2, <1>3, <1>4, <1>5, <1>6, <1>7, <1>8,
     <1>9, <1>10, <1>11, <1>12, <1>13, <1>14, <1>15, <1>16 DEF ProcessStep, ServerStep

\* A lost connection changes no registry.
LEMMA InvDrop ==
  ASSUME Inv, NEW c \in Conns, Drop(c)
  PROVE  Inv'
BY DEF Drop, procVars, Inv, TypeOK, VHTypeOK, ConnState, Identified, CauseIsEnding,
   HostToDelete, ControlHasListener, SessionHasOwner, ConnectedHasListener

\* Every step keeps the invariant.
LEMMA InvNext ==
  ASSUME Inv, [Next]_vars
  PROVE  Inv'
<1>1. ASSUME NEW c \in Conns, ProcessStep(c)
      PROVE  Inv'
  <2>1. TypeOK'
    BY <1>1, StepType DEF Inv
  <2> QED
    BY <1>1, <2>1, StepBookkeeping, StepControl, StepSession, StepConnected DEF Inv
<1>2. CASE UNCHANGED vars
  BY <1>2 DEF vars, procVars, Inv, TypeOK, VHTypeOK, Identified, CauseIsEnding,
     HostToDelete, ControlHasListener, SessionHasOwner, ConnectedHasListener
<1> QED
  BY <1>1, <1>2, InvRequest, InvDrop DEF Next, ProcessStep

\* Inv is an invariant of the server, whatever its clients do.
THEOREM Invariance == Spec => []Inv
BY InvInit, InvNext, PTL DEF Spec

\* However the connections of a client overlap, a registered control belongs to a
\* process that is still to call deleteControl for it.
THEOREM ControlsOwned == Spec => []ControlHasListener
<1>1. Inv => ControlHasListener
  BY DEF Inv
<1> QED
  BY <1>1, Invariance, PTL

\* However the connections of a client overlap, a registered session belongs to a
\* process that is still to call deleteSession for it.
THEOREM SessionsOwned == Spec => []SessionHasOwner
<1>1. Inv => SessionHasOwner
  BY DEF Inv
<1> QED
  BY <1>1, Invariance, PTL

\* A client is never reported as connected without a process that listens, or is
\* still to report the disconnection.
THEOREM ConnectedIsBacked == Spec => []ConnectedHasListener
<1>1. Inv => ConnectedHasListener
  BY DEF Inv
<1> QED
  BY <1>1, Invariance, PTL

\* The server changes the mapping only through AddHost and DeleteHost, so what is
\* proved of the storage can be used for it.
LEMMA ImplementsStorage == Spec => VHSpec
<1>1. Init => VHInit
  BY DEF Init
<1>2. Inv /\ [Next]_vars => [VHNext]_mapping
  BY StorageStep DEF Inv, HostToDelete
<1> QED
  BY <1>1, <1>2, Invariance, PTL DEF Spec, VHSpec

\* So a client of the server owns at most one host ...
THEOREM ServerOneHost == Spec => []OneHostPerIdentifier
BY ImplementsStorage, OneHost, PTL

\* ... and no client takes over a host that another one holds.
THEOREM ServerNoTakeover == Spec => NoHostTakeover
BY ImplementsStorage, NoTakeoverEver, PTL

-----------------------------------------------------------------------------
(* Clients whose connections do not overlap are isolated from the others.   *)

\* Such a client has one process at a time, ...
Exclusive ==
    \A c, d \in Conns :
        cid[c] # None /\ cid[c] \notin MayOverlap /\ cid[c] = cid[d] => c = d

\* ... whose session is registered from addSession to deleteSession, ...
SessionKept ==
    \A c \in Conns : cid[c] \notin MayOverlap =>
        (pc[c] \in {"accept", "handshake", "addControl", "onConnect", "listen"}
            => sessions[cid[c]] = c)

\* ... whose control is registered from addControl to deleteControl, and which is
\* reported as connected while it listens.
ControlKept ==
    \A c \in Conns : cid[c] \notin MayOverlap =>
        /\ pc[c] \in {"onConnect", "listen"} => controls[cid[c]] = c
        /\ pc[c] = "listen" => states[cid[c]] = "Connected"

\* The inductive invariant for clients whose connections do not overlap.
IsolationInv == Inv /\ Exclusive /\ SessionKept /\ ControlKept

\* A step of one process touches only the entries of its own identifier, which no
\* other process of such a client shares.  What is said of the sessions does not rest
\* on what is said of the controls, which public requests may delete.
LEMMA IsolationStep ==
  ASSUME Inv, Exclusive, SessionKept, NEW c \in Conns, ProcessStep(c)
  PROVE  Exclusive' /\ SessionKept' /\ (ControlKept => ControlKept')
<1> USE NoneIsMissing, ConnsAssumption DEF Inv, TypeOK, At, Goto, End,
        Identified, Exclusive, SessionKept, ControlKept
<1>1. CASE CheckHostRegistered(c)
  BY <1>1 DEF CheckHostRegistered
<1>2. CASE CheckNoControl(c)
  BY <1>2 DEF CheckNoControl
<1>3. CASE HijackRefused(c)
  BY <1>3 DEF HijackRefused
<1>4. CASE HijackBroken(c)
  BY <1>4 DEF HijackBroken
<1>5. CASE StartSession(c)
  BY <1>5 DEF StartSession
<1>6. CASE addSession(c)
  BY <1>6 DEF addSession
<1>7. CASE AcceptStream(c)
  BY <1>7 DEF AcceptStream
<1>8. CASE Handshake(c)
  BY <1>8 DEF Handshake
<1>9. CASE SetupFails(c)
  BY <1>9 DEF SetupFails
<1>10. CASE addControl(c)
  BY <1>10 DEF addControl
<1>11. CASE onConnect(c)
  BY <1>11 DEF onConnect, changeState
<1>12. CASE ListenFails(c) \/ ControlBroken(c)
  BY <1>12 DEF ListenFails, ControlBroken, StopListening
<1>13. CASE deleteControl(c)
  BY <1>13 DEF deleteControl
<1>14. CASE deleteSession(c)
  BY <1>14 DEF deleteSession, GetHost, HostsOf
<1>15. CASE deleteSessionHost(c)
  BY <1>15 DEF deleteSessionHost
<1>16. CASE Finish(c)
  BY <1>16 DEF Finish, onDisconnect, changeState
<1> QED
  BY <1>1, <1>2, <1>3, <1>4, <1>5, <1>6, <1>7, <1>8,
     <1>9, <1>10, <1>11, <1>12, <1>13, <1>14, <1>15, <1>16 DEF ProcessStep, ServerStep

\* Every step keeps the isolation invariant; admission refuses a second process.
LEMMA SessionNext ==
  ASSUME Inv, Exclusive, SessionKept, [Next]_vars
  PROVE  Inv' /\ Exclusive' /\ SessionKept' /\ (ControlKept => ControlKept')
<1>1. Inv'
  BY InvNext
<1>2. ASSUME NEW c \in Conns, NEW req \in ControlRequests, RejectRequest(c, req)
      PROVE  Exclusive' /\ SessionKept' /\ (ControlKept => ControlKept')
  BY <1>2 DEF RejectRequest, procVars, Exclusive, SessionKept, ControlKept
<1>3. ASSUME NEW c \in Conns, NEW req \in ControlRequests, AdmitRequest(c, req)
      PROVE  Exclusive' /\ SessionKept' /\ (ControlKept => ControlKept')
  BY <1>3 DEF AdmitRequest, Arrives, At, Goto, Inv, TypeOK, Exclusive, SessionKept, ControlKept
<1>4. ASSUME NEW c \in Conns, Drop(c)
      PROVE  Exclusive' /\ SessionKept' /\ (ControlKept => ControlKept')
  BY <1>4 DEF Drop, procVars, Exclusive, SessionKept, ControlKept
<1>5. CASE UNCHANGED vars
  BY <1>1, <1>5 DEF vars, procVars, Exclusive, SessionKept, ControlKept
<1> QED
  BY <1>1, <1>2, <1>3, <1>4, <1>5, IsolationStep DEF Next, ProcessStep

\* In particular IsolationInv.
LEMMA IsolationNext ==
  ASSUME IsolationInv, [Next]_vars
  PROVE  IsolationInv'
BY SessionNext DEF IsolationInv

\* The isolation invariant holds initially.
LEMMA IsolationInit == Init => IsolationInv
<1>1. Init => Exclusive /\ SessionKept /\ ControlKept
  BY DEF Init, Exclusive, SessionKept, ControlKept
<1> QED
  BY <1>1, InvInit DEF IsolationInv

\* IsolationInv is an invariant of the server.
THEOREM IsolationInvariance == Spec => []IsolationInv
BY IsolationInit, IsolationNext, PTL DEF Spec

\* A served client whose connections do not overlap keeps its control, its session
\* and its report, whatever the connections of other clients do.
THEOREM Isolation == Spec => []ServingIsRegistered
<1>1. IsolationInv => ServingIsRegistered
  BY DEF IsolationInv, SessionKept, ControlKept, ServingIsRegistered, Serving, Registered
<1> QED
  BY <1>1, IsolationInvariance, PTL

-----------------------------------------------------------------------------
(* If no client's connections overlap, nobody loses a host to a teardown.   *)

\* A process has a host from its admission until it deletes it, ...
HostKept ==
    \A c \in Conns :
        pc[c] \notin {"idle", "deleteHost", "finish"} => HostsOf(cid[c]) # {}

\* ... and the host that deleteSession is about to delete is still its client's.
HostHeld ==
    \A c \in Conns : pc[c] = "deleteHost" =>
        Claimed(hostId[c]) /\ mapping[hostId[c]].identifier = cid[c]

\* The inductive invariant for the hosts, when no connections overlap at all.
HostInv == IsolationInv /\ (MayOverlap = {} => HostKept /\ HostHeld)

\* A step of one process keeps everybody's host: only deleteSessionHost changes the
\* storage, and it deletes a host of its own client.
LEMMA HostStep ==
  ASSUME HostInv, MayOverlap = {}, NEW c \in Conns, ProcessStep(c)
  PROVE  HostKept' /\ HostHeld'
<1> USE NoneIsMissing, ConnsAssumption DEF HostInv, IsolationInv, Inv, TypeOK, At, Goto, End,
        Identified, HostToDelete, HostKept, HostHeld, HostsOf, Claimed
<1>1. CASE CheckHostRegistered(c)
  BY <1>1 DEF CheckHostRegistered
<1>2. CASE CheckNoControl(c)
  BY <1>2 DEF CheckNoControl
<1>3. CASE HijackRefused(c)
  BY <1>3 DEF HijackRefused
<1>4. CASE HijackBroken(c)
  BY <1>4 DEF HijackBroken
<1>5. CASE StartSession(c)
  BY <1>5 DEF StartSession
<1>6. CASE addSession(c)
  BY <1>6 DEF addSession
<1>7. CASE AcceptStream(c)
  BY <1>7 DEF AcceptStream
<1>8. CASE Handshake(c)
  BY <1>8 DEF Handshake
<1>9. CASE SetupFails(c)
  BY <1>9 DEF SetupFails
<1>10. CASE addControl(c)
  BY <1>10 DEF addControl
<1>11. CASE onConnect(c)
  BY <1>11 DEF onConnect, changeState
<1>12. CASE ListenFails(c) \/ ControlBroken(c)
  BY <1>12 DEF ListenFails, ControlBroken, StopListening
<1>13. CASE deleteControl(c)
  BY <1>13 DEF deleteControl
<1>14. CASE deleteSession(c)
  BY <1>14 DEF deleteSession, GetHost
<1>15. CASE deleteSessionHost(c)
  BY <1>15 DEF deleteSessionHost, DeleteHost, Exclusive, VHTypeOK
<1>16. CASE Finish(c)
  BY <1>16 DEF Finish, onDisconnect, changeState
<1> QED
  BY <1>1, <1>2, <1>3, <1>4, <1>5, <1>6, <1>7, <1>8,
     <1>9, <1>10, <1>11, <1>12, <1>13, <1>14, <1>15, <1>16 DEF ProcessStep, ServerStep

\* AddHost gives the new process its host and takes nobody else's: it is refused a
\* claimed one, and it only releases hosts of its own identifier.
LEMMA HostAdmit ==
  ASSUME HostInv, MayOverlap = {}, NEW c \in Conns, NEW req \in ControlRequests,
         AdmitRequest(c, req)
  PROVE  HostKept' /\ HostHeld'
<1> USE NoneIsMissing DEF HostInv, IsolationInv, Inv, TypeOK
<1>1. /\ req.id \in Ids /\ req.host \in Hosts /\ req.rewrite \in Rewrites
      /\ \A d \in Conns : cid[d] # req.id
      /\ AddHost(req.host, req.id, req.rewrite)
      /\ cid' = [cid EXCEPT ![c] = req.id] /\ hostId' = hostId
      /\ pc[c] = "idle" /\ pc' = [pc EXCEPT ![c] = "getHost"]
  BY DEF AdmitRequest, Arrives, At, Goto, ControlRequests
<1>2. [identifier |-> req.id, rewrite |-> req.rewrite] \in VirtualHost
  BY <1>1 DEF VirtualHost
<1>3. /\ Claimed(req.host)' /\ mapping'[req.host].identifier = req.id
      /\ \A h \in Hosts : Claimed(h) /\ mapping[h].identifier # req.id =>
            mapping'[h] = mapping[h]
  BY <1>1, <1>2 DEF AddHost, AddHostRefused, HostsOf, Claimed, VHTypeOK
<1>4. HostKept'
  <2> SUFFICES ASSUME NEW d \in Conns, pc'[d] \notin {"idle", "deleteHost", "finish"}
               PROVE  \E h \in Hosts : mapping'[h] # None /\ mapping'[h].identifier = cid'[d]
    BY DEF HostKept, HostsOf, Claimed
  <2>1. CASE d = c
    BY <1>1, <1>3, <2>1 DEF Claimed
  <2>2. CASE d # c
    <3>1. PICK h \in Hosts : Claimed(h) /\ mapping[h].identifier = cid[d]
      BY <1>1, <2>2 DEF HostKept, HostsOf
    <3> QED
      BY <1>1, <1>3, <2>2, <3>1 DEF Claimed
  <2> QED
    BY <2>1, <2>2
<1>5. HostHeld'
  BY <1>1, <1>3 DEF HostHeld, HostToDelete, Claimed
<1> QED
  BY <1>4, <1>5

\* Every step keeps the host invariant.
LEMMA HostNext ==
  ASSUME HostInv, [Next]_vars
  PROVE  HostInv'
<1>1. IsolationInv'
  BY IsolationNext DEF HostInv
<1> SUFFICES ASSUME MayOverlap = {}
             PROVE  HostKept' /\ HostHeld'
  BY <1>1 DEF HostInv
<1> USE DEF HostInv
<1>2. ASSUME NEW c \in Conns, NEW req \in ControlRequests, RejectRequest(c, req)
      PROVE  HostKept' /\ HostHeld'
  BY <1>2 DEF RejectRequest, procVars, HostKept, HostHeld, HostsOf, Claimed
<1>3. ASSUME NEW c \in Conns, Drop(c)
      PROVE  HostKept' /\ HostHeld'
  BY <1>3 DEF Drop, procVars, HostKept, HostHeld, HostsOf, Claimed
<1>4. CASE UNCHANGED vars
  BY <1>4 DEF vars, procVars, HostKept, HostHeld, HostsOf, Claimed
<1> QED
  BY <1>2, <1>3, <1>4, HostStep, HostAdmit DEF Next, ProcessStep

\* The host invariant holds initially.
LEMMA HostInit == Init => HostInv
<1>1. Init => HostKept /\ HostHeld
  BY DEF Init, HostKept, HostHeld
<1> QED
  BY <1>1, IsolationInit DEF HostInv

\* HostInv is an invariant of the server.
THEOREM HostInvariance == Spec => []HostInv
BY HostInit, HostNext, PTL DEF Spec

\* If no client's connections overlap, every served client has its host, though
\* all clients compete for the same hosts and teardowns delete them in a separate
\* critical section.
THEOREM HostsKept == Spec => []ServingHasHost
<1>1. HostInv => ServingHasHost
  BY DEF HostInv, HostKept, ServingHasHost, Serving
<1> QED
  BY <1>1, HostInvariance, PTL

\* If no client's connections overlap, a teardown deletes no host of another client.
THEOREM TeardownDeletesOwn == Spec => []DeletesOnlyOwnHost
<1>1. HostInv => DeletesOnlyOwnHost
  BY DEF HostInv, HostHeld, DeletesOnlyOwnHost, GetIdentifier, At
<1> QED
  BY <1>1, HostInvariance, PTL

-----------------------------------------------------------------------------
(* Nothing but yamux speaks on a connection after the hijack.               *)

\* A failure that is reported over HTTP happened before the hijack.
UnansweredYet ==
    \A c \in Conns :
        \/ pc[c] \in {"getHost", "getControl", "hijack"}
        \/ why[c] \in {"refused", "duplicate"}
        => resp[c] # 200

\* The action SilentAfterHijack requires of every step.
Silent == \A c \in Conns : pc[c] # "idle" /\ resp[c] = 200 => resp'[c] = 200

\* A step of a process that was answered 200 writes no other status.
LEMMA SilentStep ==
  ASSUME Inv, UnansweredYet, NEW c \in Conns, ProcessStep(c)
  PROVE  UnansweredYet' /\ Silent
<1> USE DEF Inv, TypeOK, At, Goto, End, CauseIsEnding, UnansweredYet, Silent
<1>1. CASE CheckHostRegistered(c)
  BY <1>1 DEF CheckHostRegistered
<1>2. CASE CheckNoControl(c)
  BY <1>2 DEF CheckNoControl
<1>3. CASE HijackRefused(c)
  BY <1>3 DEF HijackRefused
<1>4. CASE HijackBroken(c)
  BY <1>4 DEF HijackBroken
<1>5. CASE StartSession(c)
  BY <1>5 DEF StartSession
<1>6. CASE addSession(c)
  BY <1>6 DEF addSession
<1>7. CASE AcceptStream(c)
  BY <1>7 DEF AcceptStream
<1>8. CASE Handshake(c)
  BY <1>8 DEF Handshake
<1>9. CASE SetupFails(c)
  BY <1>9 DEF SetupFails
<1>10. CASE addControl(c)
  BY <1>10 DEF addControl
<1>11. CASE onConnect(c)
  BY <1>11 DEF onConnect, changeState
<1>12. CASE ListenFails(c) \/ ControlBroken(c)
  BY <1>12 DEF ListenFails, ControlBroken, StopListening
<1>13. CASE deleteControl(c)
  BY <1>13 DEF deleteControl
<1>14. CASE deleteSession(c)
  BY <1>14 DEF deleteSession
<1>15. CASE deleteSessionHost(c)
  BY <1>15 DEF deleteSessionHost
<1>16. CASE Finish(c)
  BY <1>16 DEF Finish, onDisconnect, changeState
<1> QED
  BY <1>1, <1>2, <1>3, <1>4, <1>5, <1>6, <1>7, <1>8,
     <1>9, <1>10, <1>11, <1>12, <1>13, <1>14, <1>15, <1>16 DEF ProcessStep, ServerStep

\* No HTTP error is ever written behind the "200 Connected" of a hijacked
\* connection.
THEOREM HijackedIsSilent == Spec => SilentAfterHijack
<1>1. Init => UnansweredYet
  BY DEF Init, UnansweredYet
<1>2. Inv /\ UnansweredYet /\ [Next]_vars => UnansweredYet' /\ [Silent]_vars
  <2> SUFFICES ASSUME Inv, UnansweredYet, [Next]_vars
               PROVE  UnansweredYet' /\ [Silent]_vars
    OBVIOUS
  <2>1. ASSUME NEW c \in Conns, NEW req \in ControlRequests,
               RejectRequest(c, req) \/ AdmitRequest(c, req)
        PROVE  UnansweredYet' /\ Silent
    BY <2>1 DEF RejectRequest, AdmitRequest, Arrives, At, Goto, procVars, Inv, TypeOK,
       CauseIsEnding, UnansweredYet, Silent
  <2>2. ASSUME NEW c \in Conns, Drop(c)
        PROVE  UnansweredYet' /\ Silent
    BY <2>2 DEF Drop, procVars, UnansweredYet, Silent
  <2>3. CASE UNCHANGED vars
    BY <2>3 DEF vars, procVars, UnansweredYet
  <2> QED
    BY <2>1, <2>2, <2>3, SilentStep DEF Next, ProcessStep
<1> QED
  BY <1>1, <1>2, Invariance, PTL DEF Spec, SilentAfterHijack, Silent

-----------------------------------------------------------------------------
(* Admission: nothing is routed that the operator did not allow.            *)

\* AddHost is called behind checkConnect's checks and is the only way into the
\* storage, so every route is to an allowed host and an allowed client, whatever
\* the requests contain and however many of them race.
THEOREM AllowedRoutes == Spec => []OnlyAllowedRoutes
<1>1. Init => OnlyAllowedRoutes
  BY DEF Init, VHInit, OnlyAllowedRoutes, Claimed
<1>2. Inv /\ OnlyAllowedRoutes /\ [Next]_vars => OnlyAllowedRoutes'
  <2> SUFFICES ASSUME Inv, OnlyAllowedRoutes, [Next]_vars
               PROVE  OnlyAllowedRoutes'
    OBVIOUS
  <2> USE DEF Inv, TypeOK, VHTypeOK, OnlyAllowedRoutes, Claimed
  <2>1. ASSUME NEW c \in Conns, NEW req \in ControlRequests, AdmitRequest(c, req)
        PROVE  OnlyAllowedRoutes'
    <3>1. checkHost(req.host) /\ checkIdentifier(req.id)
      BY <2>1 DEF AdmitRequest, Verdict, Admit
    <3> QED
      BY <2>1, <3>1 DEF AdmitRequest, AddHost, HostsOf, checkHost, checkIdentifier
  <2>2. ASSUME NEW c \in Conns, deleteSessionHost(c)
        PROVE  OnlyAllowedRoutes'
    BY <2>2 DEF deleteSessionHost, DeleteHost, checkHost, checkIdentifier
  <2>3. ASSUME UNCHANGED mapping
        PROVE  OnlyAllowedRoutes'
    BY <2>3 DEF checkHost, checkIdentifier
  <2>4. ASSUME NEW c \in Conns, ProcessStep(c), ~deleteSessionHost(c)
        PROVE  UNCHANGED mapping
    BY <2>4, StepMapping
  <2> QED
    BY <2>1, <2>2, <2>3, <2>4 DEF Next, ProcessStep, RejectRequest, Drop, vars
<1> QED
  BY <1>1, <1>2, Invariance, PTL DEF Spec

-----------------------------------------------------------------------------
(* If no client's connections overlap, no ended tunnel leaves a host behind.*)

\* A process that is going to delete its session still has one to delete: without
\* it deleteSession would return before it comes to the host.
SessionToDelete ==
    \A c \in Conns :
        pc[c] \in {"deleteControl", "deleteSession"} /\ why[c] \in {"abort", "lost"}
            => sessions[cid[c]] = c

\* The inductive invariant for EndsWithoutHost.
ReleaseInv ==
    /\ HostInv
    /\ OneHostPerIdentifier
    /\ MayOverlap = {} => SessionToDelete
    /\ EndsWithoutHost

\* No step of a process takes the session from a process that is to delete it.
LEMMA ReleaseSession ==
  ASSUME ReleaseInv, MayOverlap = {}, NEW c \in Conns, ProcessStep(c)
  PROVE  SessionToDelete'
<1> USE NoneIsMissing, ConnsAssumption DEF ReleaseInv, HostInv, IsolationInv, Inv, TypeOK, At,
        Goto, End, Identified, Exclusive, SessionKept, CauseIsEnding, SessionToDelete
<1>1. CASE CheckHostRegistered(c)
  BY <1>1 DEF CheckHostRegistered
<1>2. CASE CheckNoControl(c)
  BY <1>2 DEF CheckNoControl
<1>3. CASE HijackRefused(c) \/ HijackBroken(c) \/ StartSession(c)
  BY <1>3 DEF HijackRefused, HijackBroken, StartSession
<1>4. CASE addSession(c)
  BY <1>4 DEF addSession
<1>5. CASE AcceptStream(c) \/ Handshake(c) \/ SetupFails(c)
  BY <1>5 DEF AcceptStream, Handshake, SetupFails
<1>6. CASE addControl(c) \/ onConnect(c)
  BY <1>6 DEF addControl, onConnect, changeState
<1>7. CASE ListenFails(c) \/ ControlBroken(c)
  BY <1>7 DEF ListenFails, ControlBroken, StopListening
<1>8. CASE deleteControl(c)
  BY <1>8 DEF deleteControl
<1>9. CASE deleteSession(c)
  BY <1>9 DEF deleteSession, GetHost, HostsOf
<1>10. CASE deleteSessionHost(c)
  BY <1>10 DEF deleteSessionHost
<1>11. CASE Finish(c)
  BY <1>11 DEF Finish, onDisconnect, changeState
<1> QED
  BY <1>1, <1>2, <1>3, <1>4, <1>5, <1>6, <1>7, <1>8, <1>9, <1>10, <1>11 DEF ProcessStep, ServerStep

\* A process that comes to its end through deleteSession has released its host, and
\* nobody gives it another one before the next request.
LEMMA ReleaseHost ==
  ASSUME ReleaseInv, MayOverlap = {}, NEW c \in Conns, ProcessStep(c)
  PROVE  EndsWithoutHost'
<1> USE NoneIsMissing, ConnsAssumption DEF ReleaseInv, HostInv, IsolationInv, Inv, TypeOK, At,
        Goto, End, Identified, CauseIsEnding, EndsWithoutHost
<1>1. CASE deleteSession(c)
  <2>1. why[c] \in {"abort", "lost"} => pc'[c] # "finish"
    BY <1>1 DEF deleteSession, GetHost, HostsOf, SessionToDelete, HostKept
  <2> QED
    BY <1>1, <2>1 DEF deleteSession, HostsOf, Claimed
<1>2. CASE deleteSessionHost(c)
  <2>1. \A i \in Ids : HostsOf(i)' \subseteq HostsOf(i)
    BY <1>2 DEF deleteSessionHost, DeleteHost, HostsOf, Claimed, VHTypeOK
  <2>2. hostId[c] \in HostsOf(cid[c]) /\ hostId[c] \notin HostsOf(cid[c])'
    BY <1>2 DEF deleteSessionHost, DeleteHost, HostsOf, Claimed, HostToDelete, HostHeld, VHTypeOK
  <2>3. cid[c] \in Ids
    BY <1>2 DEF deleteSessionHost
  <2>4. HostsOf(cid[c])' = {}
    BY <1>2, <2>1, <2>2, <2>3 DEF deleteSessionHost, OneHostPerIdentifier
  <2>5. \A d \in Conns : pc[d] = "finish" => cid[d] \in Ids
    OBVIOUS
  <2> QED
    BY <1>2, <2>1, <2>4, <2>5 DEF deleteSessionHost
<1>3. CASE ProcessStep(c) /\ ~deleteSession(c) /\ ~deleteSessionHost(c)
  <2>1. UNCHANGED mapping
    BY <1>3, StepMapping
  <2>2. \A d \in Conns : pc'[d] = "finish" /\ why'[d] \in {"abort", "lost"} =>
           pc[d] = "finish" /\ why[d] = why'[d] /\ cid'[d] = cid[d]
    BY <1>3 DEF ProcessStep, ServerStep, CheckHostRegistered, CheckNoControl, HijackRefused, HijackBroken,
       StartSession, addSession, AcceptStream, Handshake, SetupFails, addControl, onConnect,
       ListenFails, ControlBroken, StopListening, deleteControl, Finish
  <2> QED
    BY <2>1, <2>2 DEF HostsOf, Claimed
<1> QED
  BY <1>1, <1>2, <1>3

\* Every step keeps the release invariant.
LEMMA ReleaseNext ==
  ASSUME ReleaseInv, [Next]_vars
  PROVE  ReleaseInv'
<1>1. HostInv'
  BY HostNext DEF ReleaseInv
<1>2. OneHostPerIdentifier'
  <2>1. [VHNext]_mapping /\ VHTypeOK
    BY StorageStep DEF ReleaseInv, HostInv, IsolationInv, Inv, HostToDelete, TypeOK
  <2> QED
    BY <2>1, OneHostStep DEF ReleaseInv, OneHostPerIdentifier, HostsOf, Claimed
<1> SUFFICES ASSUME MayOverlap = {}
             PROVE  SessionToDelete' /\ EndsWithoutHost'
  BY <1>1, <1>2 DEF ReleaseInv, EndsWithoutHost
<1> USE DEF ReleaseInv
<1>3. ASSUME NEW c \in Conns, NEW req \in ControlRequests, RejectRequest(c, req)
      PROVE  SessionToDelete' /\ EndsWithoutHost'
  BY <1>3 DEF RejectRequest, procVars, SessionToDelete, EndsWithoutHost, At, HostsOf, Claimed
<1>4. ASSUME NEW c \in Conns, NEW req \in ControlRequests, AdmitRequest(c, req)
      PROVE  SessionToDelete' /\ EndsWithoutHost'
  <2> USE DEF HostInv, IsolationInv, Inv, TypeOK
  <2>1. /\ \A d \in Conns : cid[d] # req.id
        /\ pc' = [pc EXCEPT ![c] = "getHost"] /\ cid' = [cid EXCEPT ![c] = req.id]
        /\ why' = why /\ sessions' = sessions
    BY <1>4 DEF AdmitRequest, Arrives, Goto
  <2>2. \A i : i # req.id => HostsOf(i)' \subseteq HostsOf(i)
    BY <1>4 DEF AdmitRequest, AddHost, HostsOf, Claimed, VHTypeOK
  <2> QED
    BY <2>1, <2>2 DEF SessionToDelete, EndsWithoutHost, At
<1>5. ASSUME NEW c \in Conns, Drop(c)
      PROVE  SessionToDelete' /\ EndsWithoutHost'
  BY <1>5 DEF Drop, procVars, SessionToDelete, EndsWithoutHost, At, HostsOf, Claimed
<1>6. CASE UNCHANGED vars
  BY <1>6 DEF vars, procVars, SessionToDelete, EndsWithoutHost, At, HostsOf, Claimed
<1> QED
  BY <1>3, <1>4, <1>5, <1>6, ReleaseSession, ReleaseHost DEF Next, ProcessStep

\* ReleaseInv is an invariant of the server.
THEOREM ReleaseInvariance == Spec => []ReleaseInv
<1>1. Init => SessionToDelete /\ EndsWithoutHost /\ OneHostPerIdentifier
  BY DEF Init, VHInit, SessionToDelete, EndsWithoutHost, At, OneHostPerIdentifier, HostsOf, Claimed
<1>2. Init => HostInv
  BY HostInit
<1>3. Init => ReleaseInv
  BY <1>1, <1>2 DEF ReleaseInv
<1> QED
  BY <1>3, ReleaseNext, PTL DEF Spec

\* If no client's connections overlap, a setup that failed after addSession and a
\* tunnel that was lost leave no host claimed.
THEOREM HostsReleased == Spec => []EndsWithoutHost
<1>1. ReleaseInv => EndsWithoutHost
  BY DEF ReleaseInv
<1> QED
  BY <1>1, ReleaseInvariance, PTL

-----------------------------------------------------------------------------
(* If no client's connections overlap, the server implements TunnelService. *)

\* The host of a client under the mapping is one of its hosts in the storage.
LEMMA HostBarIsHost ==
  ASSUME NEW id \in Ids
  PROVE  /\ HostsOf(id) = {} => HostBar(id) = None
         /\ HostsOf(id) # {} => HostBar(id) \in HostsOf(id) /\ HostBar(id) # None
<1>1. ASSUME HostsOf(id) # {}
      PROVE  (CHOOSE h \in HostsOf(id) : TRUE) \in HostsOf(id)
  BY <1>1
<1>2. None \notin HostsOf(id)
  BY NoneIsMissing DEF HostsOf
<1> QED
  BY <1>1, <1>2 DEF HostBar

\* A step that leaves the hosts of a client alone leaves its image alone.
LEMMA HostBarUnchanged ==
  ASSUME NEW id \in Ids, HostsOf(id)' = HostsOf(id)
  PROVE  HostBar(id)' = HostBar(id)
BY DEF HostBar

\* A step that changes neither the storage nor who is served is invisible.
LEMMA InvisibleStep ==
  ASSUME UNCHANGED mapping,
         \A d \in Conns : Serving(d)' = Serving(d) /\ (Serving(d) => cid'[d] = cid[d])
  PROVE  \A id \in Ids : HostBar(id)' = HostBar(id) /\ LinkBar(id)' = LinkBar(id)
<1> TAKE id \in Ids
<1>1. HostsOf(id)' = HostsOf(id)
  BY DEF HostsOf, Claimed
<1>2. LinkBar(id)' = LinkBar(id)
  BY DEF LinkBar
<1> QED
  BY <1>1, <1>2, HostBarUnchanged

\* What a step does to the hosts and the links of all clients, in the terms of the
\* abstract specification.
ServiceStep ==
    \E id \in Ids :
        /\ \A i \in Ids \ {id} : HostBar(i)' = HostBar(i) /\ LinkBar(i)' = LinkBar(i)
        /\ \/ /\ LinkBar(id) = "down" /\ LinkBar(id)' = "down"
              /\ HostBar(id)' \in Hosts
              /\ \A i \in Ids \ {id} : HostBar(i) # HostBar(id)'
           \/ /\ HostBar(id) # None /\ HostBar(id)' = HostBar(id) /\ LinkBar(id)' = "up"
           \/ /\ HostBar(id)' = HostBar(id) /\ LinkBar(id)' = "down"
           \/ /\ LinkBar(id) = "down" /\ LinkBar(id)' = "down" /\ HostBar(id)' = None

ServiceStutter == \A id \in Ids : HostBar(id)' = HostBar(id) /\ LinkBar(id)' = LinkBar(id)

\* Such a step is a step of TunnelService.
LEMMA ServiceStepIsNext ==
  ASSUME ServiceStep \/ ServiceStutter
  PROVE  [Service!Next]_(Service!vars)
<1> DEFINE host == [id \in Ids |-> HostBar(id)]
           link == [id \in Ids |-> LinkBar(id)]
<1>1. CASE ServiceStutter
  BY <1>1 DEF ServiceStutter, Service!vars
<1>2. CASE ServiceStep
  <2>1. PICK id \in Ids :
          /\ \A i \in Ids \ {id} : HostBar(i)' = HostBar(i) /\ LinkBar(i)' = LinkBar(i)
          /\ \/ /\ LinkBar(id) = "down" /\ LinkBar(id)' = "down"
                /\ HostBar(id)' \in Hosts
                /\ \A i \in Ids \ {id} : HostBar(i) # HostBar(id)'
             \/ /\ HostBar(id) # None /\ HostBar(id)' = HostBar(id) /\ LinkBar(id)' = "up"
             \/ /\ HostBar(id)' = HostBar(id) /\ LinkBar(id)' = "down"
             \/ /\ LinkBar(id) = "down" /\ LinkBar(id)' = "down" /\ HostBar(id)' = None
    BY <1>2 DEF ServiceStep
  <2>2. /\ host' = [host EXCEPT ![id] = HostBar(id)']
        /\ link' = [link EXCEPT ![id] = LinkBar(id)']
    BY <2>1
  <2>3. ASSUME LinkBar(id) = "down", LinkBar(id)' = "down", HostBar(id)' \in Hosts,
               \A i \in Ids \ {id} : HostBar(i) # HostBar(id)'
        PROVE  Service!Claim(id, HostBar(id)')
    <3>1. link' = link
      BY <2>2, <2>3
    <3> QED
      BY <2>2, <2>3, <3>1 DEF Service!Claim
  <2>4. ASSUME HostBar(id) # None, HostBar(id)' = HostBar(id), LinkBar(id)' = "up"
        PROVE  Service!Connect(id)
    <3>1. host' = host
      BY <2>2, <2>4
    <3> QED
      BY <2>2, <2>4, <3>1 DEF Service!Connect
  <2>5. ASSUME HostBar(id)' = HostBar(id), LinkBar(id)' = "down"
        PROVE  Service!Lose(id)
    <3>1. host' = host
      BY <2>2, <2>5
    <3> QED
      BY <2>2, <2>5, <3>1 DEF Service!Lose
  <2>6. ASSUME LinkBar(id) = "down", LinkBar(id)' = "down", HostBar(id)' = None
        PROVE  Service!Release(id)
    <3>1. link' = link
      BY <2>2, <2>6
    <3> QED
      BY <2>2, <2>6, <3>1 DEF Service!Release
  <2> QED
    BY <2>1, <2>3, <2>4, <2>5, <2>6 DEF Service!Next
<1> QED
  BY <1>1, <1>2

\* Most steps of a process change neither: a served client's connection is neither
\* the duplicate CheckNoControl closes nor the one deleteSession closes.
LEMMA StepInvisible ==
  ASSUME ReleaseInv, MayOverlap = {}, NEW c \in Conns, ServerStep(c),
         ~onConnect(c), ~deleteSessionHost(c)
  PROVE  ServiceStutter
<1> USE NoneIsMissing, ConnsAssumption DEF ReleaseInv, HostInv, IsolationInv, Inv, TypeOK, At,
        Goto, End, Identified, Serving
<1>1. UNCHANGED mapping
  BY StepMapping DEF ProcessStep
<1> DEFINE Same == \A d \in Conns : Serving(d)' = Serving(d) /\ (Serving(d) => cid'[d] = cid[d])
<1>2. CASE CheckHostRegistered(c)
  <2>1. Same
    BY <1>2 DEF CheckHostRegistered
  <2> QED
    BY <1>1, <2>1, InvisibleStep DEF ServiceStutter
<1>3. CASE CheckNoControl(c)
  <2>1. controls[cid[c]] = None
    BY <1>3 DEF CheckNoControl, ControlHasListener, Exclusive
  <2>2. Same
    BY <1>3, <2>1 DEF CheckNoControl
  <2> QED
    BY <1>1, <2>2, InvisibleStep DEF ServiceStutter
<1>4. CASE HijackRefused(c) \/ HijackBroken(c) \/ StartSession(c)
  <2>1. Same
    BY <1>4 DEF HijackRefused, HijackBroken, StartSession
  <2> QED
    BY <1>1, <2>1, InvisibleStep DEF ServiceStutter
<1>5. CASE addSession(c) \/ AcceptStream(c) \/ Handshake(c) \/ SetupFails(c)
  <2>1. Same
    BY <1>5 DEF addSession, AcceptStream, Handshake, SetupFails
  <2> QED
    BY <1>1, <2>1, InvisibleStep DEF ServiceStutter
<1>6. CASE addControl(c) \/ ListenFails(c) \/ deleteControl(c)
  <2>1. Same
    BY <1>6 DEF addControl, ListenFails, StopListening, deleteControl
  <2> QED
    BY <1>1, <2>1, InvisibleStep DEF ServiceStutter
<1>7. CASE deleteSession(c)
  <2>1. sessions[cid[c]] \in {c, None}
    BY <1>7 DEF deleteSession, SessionHasOwner, Exclusive
  <2>2. Same
    BY <1>7, <2>1 DEF deleteSession
  <2> QED
    BY <1>1, <2>2, InvisibleStep DEF ServiceStutter
<1>8. CASE Finish(c)
  <2>1. Same
    BY <1>8 DEF Finish
  <2> QED
    BY <1>1, <2>1, InvisibleStep DEF ServiceStutter
<1> QED
  BY <1>2, <1>3, <1>4, <1>5, <1>6, <1>7, <1>8 DEF ServerStep

\* An admitted request is a Claim: nobody else holds the host, and the client is
\* not served yet, because it has no other connection.
LEMMA AdmitIsClaim ==
  ASSUME ReleaseInv, MayOverlap = {}, NEW c \in Conns, NEW req \in ControlRequests,
         AdmitRequest(c, req)
  PROVE  ServiceStep
<1> USE NoneIsMissing DEF ReleaseInv, HostInv, IsolationInv, Inv, TypeOK
<1>1. /\ req.id \in Ids /\ req.host \in Hosts /\ req.rewrite \in Rewrites
      /\ \A d \in Conns : cid[d] # req.id
      /\ AddHost(req.host, req.id, req.rewrite)
      /\ cid' = [cid EXCEPT ![c] = req.id]
      /\ pc[c] = "idle" /\ pc' = [pc EXCEPT ![c] = "getHost"]
      /\ conn' = [conn EXCEPT ![c] = "http"] /\ ctl' = [ctl EXCEPT ![c] = "none"]
  BY DEF AdmitRequest, Arrives, At, Goto, ControlRequests
<1>2. [identifier |-> req.id, rewrite |-> req.rewrite] \in VirtualHost
  BY <1>1 DEF VirtualHost
<1>3. HostsOf(req.id)' = {req.host}
  BY <1>1, <1>2 DEF AddHost, HostsOf, Claimed, VHTypeOK
<1>4. \A i \in Ids \ {req.id} : HostsOf(i)' = HostsOf(i) /\ req.host \notin HostsOf(i)
  BY <1>1, <1>2 DEF AddHost, AddHostRefused, HostsOf, Claimed, VHTypeOK
<1>5. HostBar(req.id)' = req.host
  BY <1>3 DEF HostBar
<1>6. \A i \in Ids \ {req.id} : HostBar(i)' = HostBar(i)
  BY <1>4, HostBarUnchanged
<1>7. \A i \in Ids \ {req.id} : HostBar(i) # req.host
  BY <1>1, <1>4, HostBarIsHost
<1>8. \A i \in Ids : LinkBar(i)' = LinkBar(i)
  <2>1. \A d \in Conns : Serving(d)' = Serving(d) /\ (Serving(d) => cid'[d] = cid[d])
    BY <1>1 DEF Serving
  <2> QED
    BY <2>1 DEF LinkBar
<1>9. LinkBar(req.id) = "down"
  BY <1>1 DEF LinkBar
<1> QED
  BY <1>1, <1>5, <1>6, <1>7, <1>8, <1>9 DEF ServiceStep

\* The report of a connection is a Connect, unless the connection was lost already.
LEMMA OnConnectIsConnect ==
  ASSUME ReleaseInv, MayOverlap = {}, NEW c \in Conns, onConnect(c)
  PROVE  ServiceStep \/ ServiceStutter
<1> USE NoneIsMissing DEF ReleaseInv, HostInv, IsolationInv, Inv, TypeOK
<1>1. /\ pc[c] = "onConnect" /\ pc' = [pc EXCEPT ![c] = "listen"] /\ cid[c] \in Ids
      /\ UNCHANGED <<mapping, conn, ctl, cid>>
  BY DEF onConnect, At, Goto, Identified
<1>2. \A d \in Conns \ {c} : Serving(d)' = Serving(d)
  BY <1>1 DEF Serving
<1>3. CASE ~Serving(c)'
  BY <1>1, <1>2, <1>3, InvisibleStep DEF Serving, ServiceStutter
<1>4. CASE Serving(c)'
  <2>1. \A i \in Ids : HostsOf(i)' = HostsOf(i)
    BY <1>1 DEF HostsOf, Claimed
  <2>2. \A i \in Ids : HostBar(i)' = HostBar(i)
    BY <2>1, HostBarUnchanged
  <2>3. HostBar(cid[c]) # None
    BY <1>1, HostBarIsHost DEF HostKept
  <2>4. LinkBar(cid[c])' = "up"
    BY <1>1, <1>4 DEF LinkBar
  <2>5. \A i \in Ids \ {cid[c]} : LinkBar(i)' = LinkBar(i)
    BY <1>1, <1>2 DEF LinkBar
  <2> QED
    BY <1>1, <2>2, <2>3, <2>4, <2>5 DEF ServiceStep
<1> QED
  BY <1>3, <1>4

\* A connection that drops, or a control stream the client breaks, is a Lose when its
\* client was served on it.
LEMMA DropIsLose ==
  ASSUME ReleaseInv, MayOverlap = {}, NEW c \in Conns, Drop(c) \/ ControlBroken(c)
  PROVE  ServiceStep \/ ServiceStutter
<1> USE NoneIsMissing DEF ReleaseInv, HostInv, IsolationInv, Inv, TypeOK
<1>1. UNCHANGED <<mapping, cid>>
  BY DEF Drop, procVars, ControlBroken, StopListening
<1>2. ~Serving(c)' /\ \A d \in Conns \ {c} : Serving(d)' = Serving(d)
  BY DEF Drop, procVars, ControlBroken, StopListening, End, Goto, Serving
<1>3. CASE ~Serving(c)
  BY <1>1, <1>2, <1>3, InvisibleStep DEF Serving, ServiceStutter
<1>4. CASE Serving(c)
  <2>1. \A i \in Ids : HostsOf(i)' = HostsOf(i)
    BY <1>1 DEF HostsOf, Claimed
  <2>2. \A i \in Ids : HostBar(i)' = HostBar(i)
    BY <2>1, HostBarUnchanged
  <2>3. cid[c] \in Ids
    BY <1>4 DEF Serving, Identified
  <2>4. LinkBar(cid[c])' = "down"
    BY <1>1, <1>2, <2>3 DEF LinkBar, Exclusive
  <2>5. \A i \in Ids \ {cid[c]} : LinkBar(i)' = LinkBar(i)
    BY <1>1, <1>2 DEF LinkBar
  <2> QED
    BY <1>1, <2>2, <2>3, <2>4, <2>5 DEF ServiceStep
<1> QED
  BY <1>3, <1>4

\* The second half of deleteSession is a Release of its own client.
LEMMA DeleteIsRelease ==
  ASSUME ReleaseInv, MayOverlap = {}, NEW c \in Conns, deleteSessionHost(c)
  PROVE  ServiceStep
<1> USE NoneIsMissing DEF ReleaseInv, HostInv, IsolationInv, Inv, TypeOK
<1>1. /\ pc[c] = "deleteHost" /\ pc' = [pc EXCEPT ![c] = "finish"]
      /\ cid[c] \in Ids /\ hostId[c] \in Hosts
      /\ mapping' = [mapping EXCEPT ![hostId[c]] = None]
      /\ Claimed(hostId[c]) /\ mapping[hostId[c]].identifier = cid[c]
      /\ UNCHANGED <<conn, ctl, cid>>
  BY DEF deleteSessionHost, DeleteHost, At, Goto, Identified, HostToDelete, HostHeld
<1>2. HostsOf(cid[c])' = {}
  BY <1>1 DEF HostsOf, Claimed, OneHostPerIdentifier, VHTypeOK
<1>3. \A i \in Ids \ {cid[c]} : HostsOf(i)' = HostsOf(i)
  BY <1>1 DEF HostsOf, Claimed, VHTypeOK
<1>4. HostBar(cid[c])' = None
  BY <1>2 DEF HostBar
<1>5. \A i \in Ids \ {cid[c]} : HostBar(i)' = HostBar(i)
  BY <1>3, HostBarUnchanged
<1>6. \A i \in Ids : LinkBar(i)' = LinkBar(i)
  <2>1. \A d \in Conns : Serving(d)' = Serving(d)
    BY <1>1 DEF Serving
  <2> QED
    BY <1>1, <2>1 DEF LinkBar
<1>7. LinkBar(cid[c]) = "down"
  BY <1>1 DEF LinkBar, Serving, Exclusive
<1> QED
  BY <1>1, <1>4, <1>5, <1>6, <1>7 DEF ServiceStep

\* Every step of the server is a step of the abstract specification, or a stutter.
LEMMA ServiceNext ==
  ASSUME ReleaseInv, MayOverlap = {}, [Next]_vars
  PROVE  [Service!Next]_(Service!vars)
<1> SUFFICES ServiceStep \/ ServiceStutter
  BY ServiceStepIsNext
<1>1. ASSUME NEW c \in Conns, NEW req \in ControlRequests, RejectRequest(c, req)
      PROVE  ServiceStutter
  <2>1. \A d \in Conns : Serving(d)' = Serving(d) /\ cid'[d] = cid[d]
    BY <1>1 DEF RejectRequest, Arrives, procVars, Serving, At, ReleaseInv, HostInv, IsolationInv,
       Inv, TypeOK
  <2> QED
    BY <1>1, <2>1, InvisibleStep DEF RejectRequest, ServiceStutter
<1>2. CASE UNCHANGED vars
  BY <1>2, InvisibleStep DEF vars, procVars, Serving, ServiceStutter
<1> QED
  BY <1>1, <1>2, AdmitIsClaim, OnConnectIsConnect, DropIsLose, DeleteIsRelease, StepInvisible
  DEF Next, ProcessStep

\* If no client's connections overlap, the server implements TunnelService: what a
\* client sees of the server is a host that stays with it while it is served.
THEOREM ServerImplementsService ==
  ASSUME MayOverlap = {}
  PROVE  Spec => ImplementsService
<1>1. Init => Service!Init
  <2>1. Init => \A id \in Ids : HostBar(id) = None /\ LinkBar(id) = "down"
    BY DEF Init, VHInit, HostBar, LinkBar, HostsOf, Claimed, Serving
  <2> QED
    BY <2>1 DEF Service!Init
<1>2. ReleaseInv /\ [Next]_vars => [Service!Next]_(Service!vars)
  BY ServiceNext
<1> QED
  BY <1>1, <1>2, ReleaseInvariance, PTL DEF Spec, ImplementsService, Service!Spec
=============================================================================
