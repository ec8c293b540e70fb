------------------------- MODULE TunnelClientProofs -------------------------
(* Proofs about the tunnel client, for every bound on the requests that it   *)
(* proxies at the same time and every interleaving of Start, Close, the      *)
(* requests and the network.                                                 *)
EXTENDS TunnelClient, TLAPS

\* The inductive invariant: the three invariants support each other, since the
\* program counter of Start decides what the others have to say.
ClientInv == TypeOK /\ NotifiesThisConnection /\ StateIsReal

\* It holds before Start is called.
LEMMA ClientInit == Init => ClientInv
<1> SUFFICES ASSUME Init
             PROVE  ClientInv
  OBVIOUS
<1>1. reqWg \in 0 .. MaxInFlight
  BY InFlightAssumption DEF Init
<1>2. TypeOK
  BY <1>1, Zenon DEF Init, TypeOK, MainPC, ClosePC, ClientState
<1>3. NotifiesThisConnection /\ StateIsReal
  BY DEF Init, NotifiesThisConnection, StateIsReal
<1> QED
  BY <1>2, <1>3 DEF ClientInv

\* The goroutine that runs Start keeps it.
LEMMA ClientMain ==
  ASSUME ClientInv, Start \/ MainStep \/ OpenFails
  PROVE  ClientInv'
<1> USE InFlightAssumption DEF ClientInv, TypeOK, NotifiesThisConnection, StateIsReal, MainPC,
        ClosePC, ClientState, Move, changeState
<1>1. CASE Start
  BY <1>1 DEF Start
<1>2. CASE Connecting
  BY <1>2 DEF Connecting
<1>3. CASE BackoffAborts
  BY <1>3 DEF BackoffAborts
<1>4. CASE Sleep
  BY <1>4 DEF Sleep, StopIfClosed
<1>5. CASE FetchFails \/ Fetch
  BY <1>5 DEF FetchFails, Fetch
<1>6. CASE SetOpen
  BY <1>6 DEF SetOpen
<1>7. CASE ConnectFails \/ DialOk \/ HandshakeOk
  BY <1>7 DEF ConnectFails, DialOk, HandshakeOk
<1>8. CASE NewSession
  BY <1>8 DEF NewSession
<1>9. CASE Notify
  BY <1>9 DEF Notify
<1>10. CASE AfterConnect
  BY <1>10 DEF AfterConnect, StopIfClosed
<1>11. CASE OpenFails \/ DecodeFails \/ Drain
  BY <1>11 DEF OpenFails, DecodeFails, Drain
<1>12. CASE Hangup
  BY <1>12 DEF Hangup
<1> QED
  BY <1>1, <1>2, <1>3, <1>4, <1>5, <1>6, <1>7, <1>8, <1>9, <1>10, <1>11, <1>12
  DEF MainStep, ConnectStep

\* So do Close, in whatever step of Start it comes, the proxied requests, the reader
\* of StartNotify and the network: none of them touches the program counter or the
\* state, and closed is only ever set.
LEMMA ClientOthers ==
  ASSUME ClientInv, \/ Close \/ CloseStep \/ ProxyHTTP \/ RequestDone
                    \/ ReadStartNotify \/ ServerClosesControl \/ Drop
  PROVE  ClientInv'
<1> USE InFlightAssumption DEF ClientInv, TypeOK, NotifiesThisConnection, StateIsReal, MainPC,
        ClosePC, ClientState
<1>1. CASE Close
  BY <1>1 DEF Close
<1>2. CASE CloseWait
  BY <1>2 DEF CloseWait
<1>3. CASE CloseSession
  BY <1>3 DEF CloseSession
<1>4. CASE CloseSetClosed
  BY <1>4 DEF CloseSetClosed
<1>5. CASE ProxyHTTP
  BY <1>5 DEF ProxyHTTP
<1>6. CASE RequestDone
  BY <1>6 DEF RequestDone
<1>7. CASE ReadStartNotify
  BY <1>7 DEF ReadStartNotify
<1>8. CASE ServerClosesControl
  BY <1>8 DEF ServerClosesControl
<1>9. CASE Drop
  BY <1>9 DEF Drop
<1> QED
  BY <1>1, <1>2, <1>3, <1>4, <1>5, <1>6, <1>7, <1>8, <1>9 DEF CloseStep

\* ClientInv is an invariant of the client.
THEOREM ClientInvariance == Spec => []ClientInv
<1>1. ClientInv /\ [Next]_vars => ClientInv'
  <2> SUFFICES ASSUME ClientInv, [Next]_vars
               PROVE  ClientInv'
    OBVIOUS
  <2>1. CASE UNCHANGED vars
    BY <2>1 DEF vars, ClientInv, TypeOK, NotifiesThisConnection, StateIsReal
  <2> QED
    BY <2>1, ClientMain, ClientOthers DEF Next
<1> QED
  BY <1>1, ClientInit, PTL DEF Spec

\* Every variable keeps its type; in particular the count of proxied requests that
\* the WaitGroup keeps never goes below zero, which would be a panic.
THEOREM ClientTypeCorrect == Spec => []TypeOK
<1>1. ClientInv => TypeOK
  BY DEF ClientInv
<1> QED
  BY <1>1, ClientInvariance, PTL

\* What the embedding program reads from StartNotify is about the connection that
\* the client has now or had last, never about one before.
THEOREM NotifyIsFresh == Spec => []NotifiesThisConnection
<1>1. ClientInv => NotifiesThisConnection
  BY DEF ClientInv
<1> QED
  BY <1>1, ClientInvariance, PTL

\* The state shown to the embedding program is the one the client is in, whatever
\* Close does and whenever.
THEOREM StateShownIsReal == Spec => []StateIsReal
<1>1. ClientInv => StateIsReal
  BY DEF ClientInv
<1> QED
  BY <1>1, ClientInvariance, PTL
=============================================================================
