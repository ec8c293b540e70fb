--------------------------- MODULE EndToEndProofs ---------------------------
(* Proofs about a client and the server together, for every number of        *)
(* connections and of faults.                                                *)
EXTENDS EndToEnd, TunnelServerProofs

\* A process has no control before it registers one.
NoControlYet ==
    \A c \in Conns :
        pc[c] \in {"getHost", "getControl", "hijack", "addSession", "accept", "handshake", "addControl"}
            => ctl[c] = "none"

\* The connection that connect has dialled is not the session's, and without a word
\* of the client on it the server does not get as far as a control.
DialledIsNew ==
    cur # None =>
        /\ cur \in Conns /\ cur # ses
        /\ hs[cur] = "none" /\ ctl[cur] = "none"
        /\ pc[cur] \notin {"handshake", "addControl", "onConnect", "listen"}
        /\ \A id \in Ids : controls[id] # cur

\* The client has what its next step works on.
ClientHas ==
    /\ mpc = "newSession" => cur # None
    /\ mpc \in {"handshake", "notify", "listen", "drain", "hangup"} => ses # None
    /\ ses # None => ses \in Conns

WireTypeOK ==
    /\ cend \in [Conns -> {"none", "open", "closed"}]
    /\ hs \in [Conns -> {"none", "hello", "welcome", "late", "shut"}]

\* The inductive invariant.
E2EInv == Inv /\ NoControlYet /\ DialledIsNew /\ ClientHas /\ WireTypeOK

-----------------------------------------------------------------------------
(* Together they are still a server.                                        *)

\* What a process of the server does here is a step of TunnelServer's; it leaves
\* the client alone, and only answers on the wire what was said there.
LEMMA ServerOf ==
  ASSUME NEW c \in Conns, ServerProc(c) \/ ServerFault(c)
  PROVE  /\ ServerStep(c)
         /\ UNCHANGED <<mpc, state, startNotify, cur, ses, cend, cut>>
         /\ hs' = hs \/ (At(c, "handshake") /\ hs' = [hs EXCEPT ![c] = "welcome"])
         /\ At(c, "accept") => hs[c] # "none" \/ pc' = [pc EXCEPT ![c] = "deleteSession"]
<1> USE DEF clientVars, wireVars
<1>1. CASE SendWelcome(c)
  BY <1>1 DEF SendWelcome, ServerStep, Handshake, At
<1>2. CASE ServerMove(c)
  <2>1. ServerStep(c) /\ UNCHANGED <<mpc, state, startNotify, cur, ses, cend, hs, cut>>
    BY <1>2 DEF ServerMove, ServerStep
  <2>2. ASSUME At(c, "accept"), hs[c] = "none"
        PROVE  pc' = [pc EXCEPT ![c] = "deleteSession"]
    <3>1. SetupFails(c)
      BY <1>2, <2>2 DEF ServerMove, CheckHostRegistered, CheckNoControl, StartSession, addSession,
         addControl, onConnect, ListenFails, StopListening, deleteControl, deleteSession, deleteSessionHost, Finish, At
    <3> QED
      BY <3>1 DEF SetupFails, End, Goto
  <2> QED
    BY <2>1, <2>2
<1>3. CASE ServerFault(c)
  BY <1>3 DEF ServerFault, ServerStep, HijackRefused, HijackBroken, SetupFails, At, End, Goto
<1> QED
  BY <1>1, <1>2, <1>3 DEF ServerProc

\* The steps of the client and of the network that are not the server's business.
ClientAlone ==
    \/ ClientMove \/ DialFails \/ DialOk \/ NewSession \/ SendHello \/ HandshakeOk \/ HandshakeFails
    \/ Hangup \/ WakesEarly \/ DialRefused \/ OpenTimesOut
    \/ \E c \in Conns : Cut(c) \/ ClientNotices(c)

LEMMA ClientAloneVars ==
  ASSUME ClientAlone
  PROVE  UNCHANGED vars
BY DEF ClientAlone, ClientMove, DialFails, DialOk, NewSession, SendHello, HandshakeOk, HandshakeFails,
   Hangup, WakesEarly, DialRefused, OpenTimesOut, Cut, ClientNotices

\* The cases of a step.
LEMMA E2ECases ==
  ASSUME E2ENext
  PROVE  \/ ClientAlone
         \/ \E c \in Conns : \/ Dial(c) \/ ServerProc(c) \/ ServerFault(c) \/ ServerNotices(c)
BY DEF E2ENext, ClientStep, ClientAlone, Notices

\* Every step of the two together is one of the server's or not its business.
LEMMA E2EServerStep ==
  ASSUME [E2ENext]_e2eVars
  PROVE  [Next]_vars
<1>1. ASSUME NEW c \in Conns, Dial(c)
      PROVE  Next
  BY <1>1, RequestAssumption DEF Dial, Next
<1>2. ASSUME NEW c \in Conns, ServerProc(c) \/ ServerFault(c)
      PROVE  Next
  BY <1>2, ServerOf DEF Next
<1>3. ASSUME NEW c \in Conns, ServerNotices(c)
      PROVE  Next
  BY <1>3 DEF ServerNotices, Next
<1>4. CASE UNCHANGED e2eVars
  BY <1>4 DEF e2eVars
<1> QED
  BY <1>1, <1>2, <1>3, <1>4, ClientAloneVars, E2ECases

\* A client that reconnects and the network it has are an environment that TunnelServer
\* allows for: all that is proved of the server holds here.
THEOREM EndToEndIsServer == E2ESpec => Spec
<1>1. E2EInit => Init
  BY DEF E2EInit
<1>2. [E2ENext]_e2eVars => [Next]_vars
  BY E2EServerStep
<1> QED
  BY <1>1, <1>2, PTL DEF E2ESpec, Spec

-----------------------------------------------------------------------------
(* The invariant.                                                           *)

\* A process opens its control once, from nothing; otherwise controls are closed.
LEMMA CtlStep ==
  ASSUME Inv, NoControlYet, NEW c \in Conns, ServerStep(c)
  PROVE  /\ NoControlYet'
         /\ \A d \in Conns : ctl'[d] = ctl[d] \/ ctl'[d] = "closed" \/ (ctl[d] = "none" /\ ctl'[d] = "open")
<1> USE NoneIsMissing, ConnsAssumption DEF Inv, TypeOK, At, Goto, End, NoControlYet
<1>1. CASE CheckNoControl(c)
  <2>1. cid[c] \in Ids
    BY <1>1 DEF CheckNoControl, Identified
  <2>2. CASE controls[cid[c]] = None
    BY <1>1, <2>2 DEF CheckNoControl
  <2>3. CASE controls[cid[c]] # None
    <3> DEFINE ct == controls[cid[c]]
    <3>1. ct \in Conns /\ pc[ct] \in {"onConnect", "listen", "deleteControl"}
      BY <2>1, <2>3 DEF ControlHasListener
    <3>2. ctl' = [ctl EXCEPT ![ct] = "closed"] /\ pc' = [pc EXCEPT ![c] = "deleteControl"]
      BY <1>1, <2>3 DEF CheckNoControl
    <3> HIDE DEF ct
    <3> QED
      BY <3>1, <3>2
  <2> QED
    BY <2>2, <2>3
<1>2. CASE addControl(c)
  BY <1>2 DEF addControl
<1>3. CASE ListenFails(c)
  BY <1>3 DEF ListenFails, StopListening
<1>4. CASE CheckHostRegistered(c) \/ HijackRefused(c) \/ HijackBroken(c) \/ StartSession(c)
  BY <1>4 DEF CheckHostRegistered, HijackRefused, HijackBroken, StartSession
<1>5. CASE addSession(c) \/ AcceptStream(c) \/ Handshake(c) \/ SetupFails(c)
  BY <1>5 DEF addSession, AcceptStream, Handshake, SetupFails
<1>6. CASE onConnect(c) \/ deleteControl(c) \/ deleteSessionHost(c) \/ Finish(c)
  BY <1>6 DEF onConnect, deleteControl, deleteSessionHost, Finish
<1>7. CASE deleteSession(c)
  <2>1. UNCHANGED ctl /\ (pc' = [pc EXCEPT ![c] = "finish"] \/ pc' = [pc EXCEPT ![c] = "deleteHost"])
    BY <1>7 DEF deleteSession
  <2> QED
    BY <2>1
<1> QED
  BY <1>1, <1>2, <1>3, <1>4, <1>5, <1>6, <1>7 DEF ServerStep

\* The connection that is being dialled stays without a control.
LEMMA DialledStep ==
  ASSUME E2EInv, NEW c \in Conns, ServerProc(c) \/ ServerFault(c)
  PROVE  DialledIsNew'
<1> USE NoneIsMissing, ConnsAssumption DEF E2EInv, Inv, TypeOK, WireTypeOK, At, Goto, End
<1>0. /\ UNCHANGED <<cur, ses>> /\ ServerStep(c)
      /\ hs' = hs \/ (At(c, "handshake") /\ hs' = [hs EXCEPT ![c] = "welcome"])
      /\ At(c, "accept") => hs[c] # "none" \/ pc' = [pc EXCEPT ![c] = "deleteSession"]
  BY ServerOf
<1> SUFFICES ASSUME cur # None
             PROVE  /\ hs'[cur] = "none" /\ ctl'[cur] = "none"
                    /\ pc'[cur] \notin {"handshake", "addControl", "onConnect", "listen"}
                    /\ \A id \in Ids : controls'[id] # cur
  BY <1>0 DEF DialledIsNew
<1>1. /\ cur \in Conns /\ hs[cur] = "none" /\ ctl[cur] = "none"
      /\ pc[cur] \notin {"handshake", "addControl", "onConnect", "listen"}
      /\ \A id \in Ids : controls[id] # cur
  BY DEF DialledIsNew
<1>2. hs'[cur] = "none"
  BY <1>0, <1>1
<1>3. CASE CheckNoControl(c)
  <2>1. cid[c] \in Ids
    BY <1>3 DEF CheckNoControl, Identified
  <2>2. ctl'[cur] = ctl[cur]
    BY <1>1, <1>3, <2>1 DEF CheckNoControl
  <2>3. UNCHANGED controls /\ (pc' = [pc EXCEPT ![c] = "hijack"] \/ pc' = [pc EXCEPT ![c] = "deleteControl"])
    BY <1>3 DEF CheckNoControl
  <2> QED
    BY <1>1, <1>2, <2>2, <2>3
<1>4. CASE addControl(c)
  BY <1>1, <1>2, <1>4 DEF addControl
<1>5. CASE ListenFails(c) \/ onConnect(c) \/ Handshake(c)
  BY <1>1, <1>2, <1>5 DEF ListenFails, StopListening, onConnect, Handshake
<1>6. CASE CheckHostRegistered(c) \/ HijackRefused(c) \/ HijackBroken(c) \/ StartSession(c)
  BY <1>1, <1>2, <1>6 DEF CheckHostRegistered, HijackRefused, HijackBroken, StartSession
<1>7. CASE addSession(c) \/ SetupFails(c)
  BY <1>1, <1>2, <1>7 DEF addSession, SetupFails
<1>8. CASE AcceptStream(c)
  BY <1>0, <1>1, <1>2, <1>8 DEF AcceptStream
<1>9. CASE deleteControl(c) \/ deleteSessionHost(c) \/ Finish(c)
  BY <1>1, <1>2, <1>9 DEF deleteControl, deleteSessionHost, Finish
<1>10. CASE deleteSession(c)
  <2>1. /\ UNCHANGED <<ctl, controls>>
        /\ pc' = [pc EXCEPT ![c] = "finish"] \/ pc' = [pc EXCEPT ![c] = "deleteHost"]
    BY <1>10 DEF deleteSession
  <2> QED
    BY <1>1, <1>2, <2>1
<1> QED
  BY <1>0, <1>3, <1>4, <1>5, <1>6, <1>7, <1>8, <1>9, <1>10 DEF ServerStep


\* Dialling takes a connection that has nothing of an earlier one.
LEMMA DialKeeps ==
  ASSUME E2EInv, NEW c \in Conns, Dial(c)
  PROVE  NoControlYet' /\ DialledIsNew' /\ ClientHas' /\ WireTypeOK'
<1> USE NoneIsMissing, ConnsAssumption DEF E2EInv, Inv, TypeOK, WireTypeOK
<1>1. /\ pc[c] = "idle" /\ pc' = [pc EXCEPT ![c] = "getHost"]
      /\ ctl' = [ctl EXCEPT ![c] = "none"] /\ UNCHANGED controls
  BY DEF Dial, AdmitRequest, Arrives, At, Goto
<1>2. /\ mpc = "dial" /\ c # ses /\ cur' = c /\ UNCHANGED <<mpc, ses>>
      /\ cend' = [cend EXCEPT ![c] = "none"] /\ hs' = [hs EXCEPT ![c] = "none"]
  BY DEF Dial, FreeConns, clientVars
<1>3. \A id \in Ids : controls[id] # c
  BY <1>1 DEF ControlHasListener
<1>4. NoControlYet'
  BY <1>1 DEF NoControlYet
<1>5. DialledIsNew'
  BY <1>1, <1>2, <1>3 DEF DialledIsNew
<1>6. ClientHas'
  BY <1>2 DEF ClientHas
<1> QED
  BY <1>2, <1>4, <1>5, <1>6

\* The client and the network.
LEMMA ClientAloneKeeps ==
  ASSUME E2EInv, ClientAlone
  PROVE  NoControlYet' /\ DialledIsNew' /\ ClientHas' /\ WireTypeOK'
<1> USE NoneIsMissing, ConnsAssumption DEF E2EInv, WireTypeOK
<1>0. UNCHANGED <<pc, ctl, controls>>
  BY ClientAloneVars DEF vars, procVars
<1>1. NoControlYet'
  BY <1>0 DEF NoControlYet
<1>2. ASSUME UNCHANGED <<ses, hs>>, cur' \in {cur, None}
      PROVE  DialledIsNew'
  BY <1>0, <1>2 DEF DialledIsNew
<1>3. CASE ClientMove
  <2>1. UNCHANGED wireVars
    BY <1>3 DEF ClientMove
  <2>2. ClientHas'
    BY <1>3, <2>1 DEF ClientMove, StartLoop, Goes, ClientHas, wireVars
  <2> QED
    BY <1>1, <1>2, <2>1, <2>2 DEF wireVars
<1>4. CASE DialFails \/ DialOk \/ HandshakeFails \/ HandshakeOk
  <2>1. UNCHANGED <<ses, cend, hs>> /\ cur' \in {cur, None}
    BY <1>4 DEF DialFails, DialOk, HandshakeFails, HandshakeOk, wireVars
  <2>2. ClientHas'
    BY <1>4 DEF DialFails, DialOk, HandshakeFails, HandshakeOk, Goes, wireVars, ClientHas
  <2> QED
    BY <1>1, <1>2, <2>1, <2>2
<1>5. CASE WakesEarly \/ DialRefused
  <2>1. UNCHANGED wireVars /\ mpc' \in {"fetch", "check"}
    BY <1>5 DEF WakesEarly, DialRefused, Goes
  <2> QED
    BY <1>1, <1>2, <2>1 DEF wireVars, ClientHas
<1>6. CASE NewSession
  <2>1. /\ mpc = "newSession" /\ mpc' = "handshake" /\ ses' = cur /\ cur' = None /\ UNCHANGED hs
        /\ cend' = [cend EXCEPT ![cur] = "open"]
    BY <1>6 DEF NewSession, Goes
  <2>2. cur # None /\ cur \in Conns
    BY <2>1 DEF ClientHas, DialledIsNew
  <2> QED
    BY <1>1, <2>1, <2>2 DEF DialledIsNew, ClientHas
<1>7. CASE SendHello
  <2>1. /\ mpc = "handshake" /\ hs' = [hs EXCEPT ![ses] = "hello"]
        /\ UNCHANGED <<mpc, cur, ses, cend>>
    BY <1>7 DEF SendHello, clientVars
  <2>2. ses # None /\ ses \in Conns
    BY <2>1 DEF ClientHas
  <2>3. DialledIsNew'
    BY <1>0, <2>1, <2>2 DEF DialledIsNew
  <2>4. ClientHas'
    BY <2>1 DEF ClientHas
  <2> QED
    BY <1>1, <2>1, <2>2, <2>3, <2>4
<1>8. CASE OpenTimesOut
  <2>1. PICK stream \in {"none", "late", "shut"} : hs' = [hs EXCEPT ![ses] = stream]
    BY <1>8 DEF OpenTimesOut
  <2>2. mpc = "handshake" /\ mpc' = "check" /\ UNCHANGED <<cur, ses, cend>>
    BY <1>8 DEF OpenTimesOut, Goes
  <2>3. ses # None /\ ses \in Conns
    BY <2>2 DEF ClientHas
  <2>4. DialledIsNew'
    BY <1>0, <2>1, <2>2, <2>3 DEF DialledIsNew
  <2>5. ClientHas'
    BY <2>2 DEF ClientHas
  <2> QED
    BY <1>1, <2>1, <2>2, <2>3, <2>4, <2>5
<1>9. CASE Hangup
  <2>1. /\ mpc' = "check" /\ cend' = [cend EXCEPT ![ses] = "closed"] /\ UNCHANGED <<cur, ses, hs>>
    BY <1>9 DEF Hangup
  <2> QED
    BY <1>1, <1>2, <2>1 DEF ClientHas
<1>10. ASSUME NEW c \in Conns, Cut(c) \/ ClientNotices(c)
      PROVE  DialledIsNew' /\ ClientHas' /\ WireTypeOK'
  <2>1. /\ UNCHANGED <<mpc, cur, ses, hs>>
        /\ UNCHANGED cend \/ cend' = [cend EXCEPT ![c] = "closed"]
    BY <1>10 DEF Cut, ClientNotices, clientVars
  <2> QED
    BY <1>2, <2>1 DEF ClientHas
<1> QED
  BY <1>1, <1>3, <1>4, <1>5, <1>6, <1>7, <1>8, <1>9, <1>10 DEF ClientAlone

\* Every step keeps the invariant.
LEMMA E2EInvNext ==
  ASSUME E2EInv, [E2ENext]_e2eVars
  PROVE  E2EInv'
<1>1. Inv'
  BY E2EServerStep, InvNext DEF E2EInv
<1>2. ASSUME NEW c \in Conns, ServerProc(c) \/ ServerFault(c)
      PROVE  NoControlYet' /\ DialledIsNew' /\ ClientHas' /\ WireTypeOK'
  <2>1. /\ ServerStep(c) /\ UNCHANGED <<mpc, cur, ses, cend>>
        /\ hs' = hs \/ hs' = [hs EXCEPT ![c] = "welcome"]
    BY <1>2, ServerOf
  <2>2. NoControlYet'
    BY <2>1, CtlStep DEF E2EInv
  <2>3. ClientHas' /\ WireTypeOK'
    BY <2>1 DEF E2EInv, ClientHas, WireTypeOK
  <2> QED
    BY <1>2, <2>2, <2>3, DialledStep
<1>3. ASSUME UNCHANGED <<pc, ctl, controls, mpc, cur, ses, cend, hs>>
      PROVE  NoControlYet' /\ DialledIsNew' /\ ClientHas' /\ WireTypeOK'
  BY <1>3 DEF E2EInv, NoControlYet, DialledIsNew, ClientHas, WireTypeOK
<1>4. ASSUME NEW c \in Conns, ServerNotices(c)
      PROVE  UNCHANGED <<pc, ctl, controls, mpc, cur, ses, cend, hs>>
  BY <1>4 DEF ServerNotices, Drop, procVars, clientVars, wireVars
<1>5. ASSUME UNCHANGED e2eVars
      PROVE  UNCHANGED <<pc, ctl, controls, mpc, cur, ses, cend, hs>>
  BY <1>5 DEF e2eVars, vars, procVars, clientVars, wireVars
<1>6. NoControlYet' /\ DialledIsNew' /\ ClientHas' /\ WireTypeOK'
  BY <1>2, <1>3, <1>4, <1>5, ClientAloneKeeps, DialKeeps, E2ECases
<1> QED
  BY <1>1, <1>6 DEF E2EInv

\* E2EInv is an invariant.
THEOREM E2EInvariance == E2ESpec => []E2EInv
<1>1. E2EInit => E2EInv
  BY InvInit DEF E2EInit, Init, E2EInv, NoControlYet, DialledIsNew, ClientHas, WireTypeOK
<1>2. E2EInv /\ [E2ENext]_e2eVars => E2EInv'
  BY E2EInvNext
<1> QED
  BY <1>1, <1>2, PTL DEF E2ESpec

-----------------------------------------------------------------------------
(* The client's view.                                                       *)

\* A step that changes nothing the client sees of itself.
LEMMA ClientStutters ==
  ASSUME UNCHANGED clientVars, session' = session, ctlUp' = ctlUp
  PROVE  UNCHANGED C!vars
BY DEF C!vars, clientVars

\* The control stream can only be closed under the client, never opened again.
LEMMA ServerSeen ==
  ASSUME E2EInv, NEW c \in Conns, ServerProc(c) \/ ServerFault(c)
  PROVE  [C!Next]_(C!vars)
<1>1. UNCHANGED <<mpc, state, startNotify, ses, cend>> /\ ServerStep(c)
  BY ServerOf
<1>2. \A d \in Conns : ctl'[d] = ctl[d] \/ ctl'[d] = "closed" \/ (ctl[d] = "none" /\ ctl'[d] = "open")
  BY <1>1, CtlStep DEF E2EInv
<1>3. session' = session
  BY <1>1 DEF session
<1>4. ctlUp' = ctlUp \/ (ctlUp /\ ~ctlUp')
  BY <1>1, <1>2 DEF ctlUp, E2EInv, ClientHas
<1>5. CASE ctlUp' = ctlUp
  BY <1>1, <1>3, <1>5, ClientStutters DEF clientVars
<1>6. CASE ctlUp /\ ~ctlUp'
  <2>1. C!ServerClosesControl
    BY <1>1, <1>3, <1>6 DEF C!ServerClosesControl, ctlUp
  <2> QED
    BY <2>1 DEF C!Next
<1> QED
  BY <1>4, <1>5, <1>6

\* The client's own steps are those of TunnelClient.
LEMMA ClientSeen ==
  ASSUME E2EInv, ClientAlone
  PROVE  [C!Next]_(C!vars)
<1>0. UNCHANGED <<pc, ctl>>
  BY ClientAloneVars DEF vars, procVars
<1>1. ASSUME UNCHANGED <<ses, cend>>
      PROVE  session' = session /\ ctlUp' = ctlUp
  BY <1>0, <1>1 DEF session, ctlUp
<1>2. CASE ClientMove
  <2>1. session' = session /\ ctlUp' = ctlUp
    BY <1>1, <1>2 DEF ClientMove, wireVars
  <2>2. CASE StartLoop /\ UNCHANGED startNotify
    BY <2>1, <2>2 DEF StartLoop, C!Next, C!Start, C!MainStep, C!Connecting, C!isRetry, C!AfterConnect,
       C!StopIfClosed, C!changeState
  <2>3. CASE mpc = "sleep" /\ Goes("fetch")
    BY <2>1, <2>3 DEF Goes, C!Next, C!MainStep, C!Sleep, C!StopIfClosed
  <2>4. CASE mpc = "fetch" /\ Goes("setOpen")
    BY <2>1, <2>4 DEF Goes, C!Next, C!MainStep, C!Fetch, C!Move
  <2>5. CASE mpc = "setOpen" /\ mpc' = "dial" /\ startNotify' = FALSE /\ UNCHANGED state
    BY <2>1, <2>5 DEF C!Next, C!MainStep, C!SetOpen
  <2>6. CASE mpc = "notify" /\ mpc' = "listen" /\ startNotify' = TRUE /\ state' = "Connected"
    BY <2>1, <2>6 DEF C!Next, C!MainStep, C!ConnectStep, C!Notify, C!changeState
  <2>7. CASE mpc = "listen" /\ ReadControlFails /\ Goes("drain")
    BY <2>1, <2>7 DEF Goes, ReadControlFails, C!Next, C!MainStep, C!DecodeFails, C!Move
  <2>8. CASE mpc = "drain" /\ Goes("hangup")
    BY <2>1, <2>8 DEF Goes, C!Next, C!MainStep, C!Drain, C!Move
  <2> QED
    BY <1>2, <2>2, <2>3, <2>4, <2>5, <2>6, <2>7, <2>8 DEF ClientMove
<1>3. CASE WakesEarly
  <2>1. session' = session /\ ctlUp' = ctlUp
    BY <1>1, <1>3 DEF WakesEarly, wireVars
  <2> QED
    BY <1>3, <2>1 DEF WakesEarly, Goes, C!Next, C!MainStep, C!Sleep, C!StopIfClosed
<1>4. CASE DialRefused \/ DialFails \/ HandshakeFails \/ OpenTimesOut
  <2>1. session' = session /\ ctlUp' = ctlUp
    BY <1>1, <1>4 DEF DialRefused, DialFails, HandshakeFails, OpenTimesOut, wireVars
  <2> QED
    BY <1>4, <2>1 DEF DialRefused, DialFails, HandshakeFails, OpenTimesOut, Goes, C!Next, C!MainStep,
       C!ConnectStep, C!ConnectFails, C!Move
<1>5. CASE DialOk
  <2>1. session' = session /\ ctlUp' = ctlUp
    BY <1>1, <1>5 DEF DialOk, wireVars
  <2> QED
    BY <1>5, <2>1 DEF DialOk, Goes, C!Next, C!MainStep, C!ConnectStep, C!DialOk, C!Move
<1>6. CASE NewSession
  <2>1. cur # None /\ cur \in Conns /\ ctl[cur] = "none"
    BY <1>6 DEF NewSession, E2EInv, ClientHas, DialledIsNew
  <2>2. ses' = cur /\ cend'[cur] = "open"
    BY <1>6, <2>1 DEF NewSession, E2EInv, WireTypeOK
  <2>3. session' = "open" /\ ctlUp'
    BY <1>0, <2>1, <2>2 DEF session, ctlUp
  <2> QED
    BY <1>6, <2>3 DEF NewSession, Goes, C!Next, C!MainStep, C!ConnectStep, C!NewSession
<1>7. CASE SendHello
  <2>1. session' = session /\ ctlUp' = ctlUp
    BY <1>1, <1>7 DEF SendHello
  <2> QED
    BY <1>7, <2>1, ClientStutters DEF SendHello
<1>8. CASE HandshakeOk
  <2>1. session' = session /\ ctlUp' = ctlUp
    BY <1>1, <1>8 DEF HandshakeOk, wireVars
  <2>2. session = "open"
    BY <1>8 DEF HandshakeOk, session, E2EInv, ClientHas
  <2> QED
    BY <1>8, <2>1, <2>2 DEF HandshakeOk, Goes, C!Next, C!MainStep, C!ConnectStep, C!HandshakeOk, C!Move
<1>9. CASE Hangup
  <2>1. ses # None /\ ses \in Conns /\ ses' = ses /\ cend'[ses] = "closed"
    BY <1>9 DEF Hangup, E2EInv, ClientHas, WireTypeOK
  <2>2. session' = "closed" /\ ~ctlUp'
    BY <2>1 DEF session, ctlUp
  <2> QED
    BY <1>9, <2>2 DEF Hangup, C!Next, C!MainStep, C!Hangup, C!changeState
<1>10. ASSUME NEW c \in Conns, Cut(c)
       PROVE  UNCHANGED C!vars
  <2>1. session' = session /\ ctlUp' = ctlUp
    BY <1>1, <1>10 DEF Cut
  <2> QED
    BY <1>10, <2>1, ClientStutters DEF Cut
<1>11. ASSUME NEW c \in Conns, ClientNotices(c)
       PROVE  [C!Next]_(C!vars)
  <2>1. /\ cend[c] = "open" /\ cend' = [cend EXCEPT ![c] = "closed"]
        /\ UNCHANGED <<mpc, state, startNotify, ses>>
    BY <1>11 DEF ClientNotices, clientVars
  <2>2. CASE c = ses
    <3>1. ses # None /\ cend'[ses] = "closed"
      BY <2>1, <2>2, ConnsAssumption DEF E2EInv, WireTypeOK
    <3>2. session = "open" /\ session' = "closed" /\ ~ctlUp'
      BY <2>1, <2>2, <3>1 DEF session, ctlUp
    <3> QED
      BY <2>1, <3>2 DEF C!Next, C!Drop
  <2>3. CASE c # ses
    <3>1. session' = session /\ ctlUp' = ctlUp
      BY <1>0, <2>1, <2>3 DEF session, ctlUp, E2EInv, WireTypeOK, ClientHas
    <3> QED
      BY <2>1, <3>1, ClientStutters DEF clientVars
  <2> QED
    BY <2>2, <2>3
<1> QED
  BY <1>2, <1>3, <1>4, <1>5, <1>6, <1>7, <1>8, <1>9, <1>10, <1>11 DEF ClientAlone

\* Every step of the two together is a step of the client or invisible to it.
LEMMA E2EClientStep ==
  ASSUME E2EInv, [E2ENext]_e2eVars
  PROVE  [C!Next]_(C!vars)
<1>1. ASSUME NEW c \in Conns, Dial(c)
      PROVE  UNCHANGED C!vars
  <2>1. /\ c # ses /\ UNCHANGED <<mpc, state, startNotify, ses>>
        /\ cend' = [cend EXCEPT ![c] = "none"] /\ ctl' = [ctl EXCEPT ![c] = "none"]
    BY <1>1 DEF Dial, FreeConns, AdmitRequest, clientVars
  <2>2. session' = session /\ ctlUp' = ctlUp
    BY <2>1 DEF session, ctlUp, E2EInv, WireTypeOK, ClientHas, Inv, TypeOK
  <2> QED
    BY <2>1, <2>2, ClientStutters DEF clientVars
<1>2. ASSUME UNCHANGED <<mpc, state, startNotify, ses, cend, ctl>>
      PROVE  UNCHANGED C!vars
  <2>1. session' = session /\ ctlUp' = ctlUp
    BY <1>2 DEF session, ctlUp
  <2> QED
    BY <1>2, <2>1, ClientStutters DEF clientVars
<1>3. ASSUME NEW c \in Conns, ServerNotices(c)
      PROVE  UNCHANGED <<mpc, state, startNotify, ses, cend, ctl>>
  BY <1>3 DEF ServerNotices, Drop, clientVars, wireVars
<1>4. ASSUME UNCHANGED e2eVars
      PROVE  UNCHANGED <<mpc, state, startNotify, ses, cend, ctl>>
  BY <1>4 DEF e2eVars, vars, procVars, clientVars, wireVars
<1> QED
  BY <1>1, <1>2, <1>3, <1>4, ServerSeen, ClientSeen, E2ECases

\* The server and the network are an environment that TunnelClient allows for: what
\* the client goes through is a behaviour of TunnelClient, with any number of
\* connections and faults.
THEOREM EndToEndIsClient == E2ESpec => ImplementsClient
<1>1. E2EInit => C!Init
  BY DEF E2EInit, C!Init, session, ctlUp
<1>2. E2EInv /\ [E2ENext]_e2eVars => [C!Next]_(C!vars)
  BY E2EClientStep
<1> QED
  BY <1>1, <1>2, E2EInvariance, PTL DEF E2ESpec, ImplementsClient, C!Spec

=============================================================================
