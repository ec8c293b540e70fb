------------------------------ MODULE EndToEnd ------------------------------
(***************************************************************************)
(* One client and the server, end to end: the reconnect loop of            *)
(* TunnelClient against the control plane of TunnelServer, over            *)
(* connections that a fault may cut.                                       *)
(*                                                                         *)
(* TunnelServer alone lets anybody send any request and lose any           *)
(* connection at any time.  Here the only requests are those of a client   *)
(* that runs Start, and everything that goes wrong on its own accord is a  *)
(* fault and is counted; what the two sides do about it is not.            *)
(*                                                                         *)
(* A connection is cut for both sides at once, but each finds out when its *)
(* own yamux session does.  connect closes nothing when it fails, so the   *)
(* server may go on for a while with a connection the client has left.     *)
(***************************************************************************)
EXTENDS TunnelServer

CONSTANTS
    Request,    \* the control request the client makes
    MaxFaults   \* bound on the faults

ASSUME RequestAssumption == Request \in ControlRequests
ASSUME FaultsAssumption == MaxFaults \in Nat

VARIABLES
    mpc, state, startNotify,    \* as in TunnelClient
    cur,        \* the connection connect has dialled
    ses,        \* Client.session, as the connection it runs on
    cend,       \* the client's session on the connection: "none", "open", "closed"
    hs,         \* the control stream: "none", opened and "hello" is sent, "welcome"
                \* is sent back; or opened and left silent, "late", or closed, "shut"
    cut,        \* the connection is broken
    faults      \* faults so far

clientVars == <<mpc, state, startNotify>>
wireVars == <<cur, ses, cend, hs, cut>>
e2eVars == <<vars, clientVars, wireVars, faults>>

E2EInit ==
    /\ Init
    /\ mpc = "stopped"
    /\ state = "Unknown"
    /\ startNotify = FALSE
    /\ cur = None
    /\ ses = None
    /\ cend = [c \in Conns |-> "none"]
    /\ hs = [c \in Conns |-> "none"]
    /\ cut = [c \in Conns |-> FALSE]
    /\ faults = 0

Fault == faults < MaxFaults /\ faults' = faults + 1

-----------------------------------------------------------------------------
(* The client.                                                             *)

Goes(to) == mpc' = to /\ UNCHANGED <<state, startNotify>>

\* c.session and its control stream, as the client's main process meets them.
session == IF ses = None THEN "nil" ELSE cend[ses]
ctlUp == ses # None /\ cend[ses] = "open" /\ ctl[ses] # "closed"

\* Mutant: listenControl goes on reading although the stream is closed.
ReadControlForever == FALSE

\* Decode fails on a closed stream.
ReadControlFails == ~ctlUp

\* Mutant: the client connects again without going through the loop.
StartLoopShort ==
    \/ mpc = "stopped" /\ mpc' = "connecting" /\ state' = "Started"
    \/ mpc \in {"connecting", "check"} /\ mpc' = "setOpen" /\ state' = "Connecting"

\* The steps of Start: the first state, the head of the loop, and the test of closed
\* after connect.
StartLoop ==
    \/ mpc = "stopped" /\ mpc' = "connecting" /\ state' = "Started"
    \/ /\ mpc = "connecting" /\ state' = "Connecting"
       /\ mpc' = IF state \in {"Started", "Closed"} THEN "fetch" ELSE "sleep"
    \/ mpc = "check" /\ mpc' = "connecting" /\ UNCHANGED state

\* The client has left the connection, or never got to use it.
GaveUp(c) == c # cur /\ ~(c = ses /\ mpc \in {"handshake", "notify", "listen"})

\* The process of c has something to do and waits for nothing but the scheduler.
Busy(c) ==
    \/ pc[c] \notin {"idle", "accept", "handshake", "listen"}
    \/ pc[c] # "idle" /\ conn[c] # "tunnel"
    \/ pc[c] = "listen" /\ ctl[c] = "closed"
    \/ pc[c] = "handshake" /\ hs[c] = "shut"

\* The backoff is at least a quarter of a second: when the client tries again the
\* server has done what it had to do for the attempts before, unless it is slow.  It
\* may still be waiting in Accept, or for a connection it does not know to be dead.
ServerQuiet == \A c \in Conns : GaveUp(c) => ~Busy(c)

\* The steps of the main process that involve nobody else.
ClientMove ==
    /\ \/ StartLoop /\ UNCHANGED startNotify
       \/ mpc = "sleep" /\ ServerQuiet /\ Goes("fetch")
       \/ mpc = "fetch" /\ Goes("setOpen")
       \/ mpc = "setOpen" /\ mpc' = "dial" /\ startNotify' = FALSE /\ UNCHANGED state
       \/ mpc = "notify" /\ mpc' = "listen" /\ startNotify' = TRUE /\ state' = "Connected"
       \/ mpc = "listen" /\ ReadControlFails /\ Goes("drain")
       \/ mpc = "drain" /\ Goes("hangup")
    /\ UNCHANGED <<vars, wireVars, faults>>

\* The server is slow.
WakesEarly ==
    /\ mpc = "sleep" /\ ~ServerQuiet
    /\ Fault
    /\ Goes("fetch")
    /\ UNCHANGED <<vars, wireVars>>

\* The connections that nobody uses.  Which of them a dial takes makes no difference.
FreeConns == {c \in Conns : At(c, "idle") /\ c # ses}

\* connect dials and sends the control request, which the server admits.
Dial(c) ==
    /\ mpc = "dial" /\ cur = None
    /\ c \in FreeConns /\ c = CHOOSE d \in FreeConns : TRUE
    /\ AdmitRequest(c, Request)
    /\ cur' = c
    /\ cend' = [cend EXCEPT ![c] = "none"]
    /\ hs' = [hs EXCEPT ![c] = "none"]
    /\ cut' = [cut EXCEPT ![c] = FALSE]
    /\ UNCHANGED <<clientVars, ses, faults>>

\* The server cannot be reached.
DialRefused ==
    /\ mpc = "dial" /\ cur = None
    /\ Fault
    /\ Goes("check")
    /\ UNCHANGED <<vars, wireVars>>

\* The answer is an error, or the connection broke before the client has read it.
DialFails ==
    /\ mpc = "dial" /\ cur # None
    /\ resp[cur] = 502 \/ cut[cur]
    /\ Goes("check")
    /\ cur' = None
    /\ UNCHANGED <<vars, ses, cend, hs, cut, faults>>

\* The answer is "200 Connected to Tunnel".
DialOk ==
    /\ mpc = "dial" /\ cur # None
    /\ resp[cur] = 200
    /\ Goes("newSession")
    /\ UNCHANGED <<vars, wireVars, faults>>

\* An earlier session is only forgotten, not closed.
NewSession ==
    /\ mpc = "newSession"
    /\ Goes("handshake")
    /\ ses' = cur
    /\ cur' = None
    /\ cend' = [cend EXCEPT ![cur] = "open"]
    /\ UNCHANGED <<vars, hs, cut, faults>>

\* session.Open and the write of HandshakeRequest.
SendHello ==
    /\ mpc = "handshake"
    /\ cend[ses] = "open" /\ hs[ses] = "none"
    /\ hs' = [hs EXCEPT ![ses] = "hello"]
    /\ UNCHANGED <<vars, clientVars, cur, ses, cend, cut, faults>>

HandshakeOk ==
    /\ mpc = "handshake"
    /\ cend[ses] = "open" /\ hs[ses] = "welcome"
    /\ Goes("notify")
    /\ UNCHANGED <<vars, wireVars, faults>>

HandshakeFails ==
    /\ mpc = "handshake"
    /\ cend[ses] = "closed"
    /\ Goes("check")
    /\ UNCHANGED <<vars, wireVars, faults>>

\* Open takes more than ten seconds.  The session is left as it is: the stream comes
\* never, or later and nobody speaks on it, or just now and it is closed.
OpenTimesOut ==
    /\ mpc = "handshake"
    /\ cend[ses] = "open" /\ hs[ses] = "none"
    /\ Fault
    /\ Goes("check")
    /\ \E stream \in {"none", "late", "shut"} : hs' = [hs EXCEPT ![ses] = stream]
    /\ UNCHANGED <<vars, cur, ses, cend, cut>>

\* The end of the client's listenControl.
Hangup ==
    /\ mpc = "hangup"
    /\ mpc' = "check"
    /\ state' = "Disconnected"
    /\ cend' = [cend EXCEPT ![ses] = "closed"]
    /\ UNCHANGED <<vars, startNotify, cur, ses, hs, cut, faults>>

ClientStep ==
    \/ ClientMove \/ (\E c \in Conns : Dial(c)) \/ DialFails \/ DialOk \/ NewSession
    \/ SendHello \/ HandshakeOk \/ HandshakeFails \/ Hangup

-----------------------------------------------------------------------------
(* The server.                                                             *)

ServerMove(c) ==
    /\ UNCHANGED <<clientVars, wireVars, faults>>
    /\ \/ CheckHostRegistered(c) \/ CheckNoControl(c) \/ StartSession(c) \/ addSession(c)
       \/ hs[c] # "none" /\ AcceptStream(c)
       \/ At(c, "accept") /\ (GaveUp(c) \/ conn[c] # "tunnel") /\ SetupFails(c)
       \/ At(c, "handshake") /\ (hs[c] = "shut" \/ conn[c] # "tunnel") /\ SetupFails(c)
       \/ addControl(c) \/ onConnect(c) \/ ListenFails(c)
       \/ deleteControl(c) \/ deleteSession(c) \/ deleteSessionHost(c) \/ Finish(c)

\* The Read of the handshake has no deadline: on a silent stream it waits as long as
\* the session lives.
SendWelcome(c) ==
    /\ hs[c] = "hello"
    /\ Handshake(c)
    /\ hs' = [hs EXCEPT ![c] = "welcome"]
    /\ UNCHANGED <<clientVars, cur, ses, cend, cut, faults>>

ServerProc(c) == ServerMove(c) \/ SendWelcome(c)

\* A setup fails though the client would have gone on.
ServerFault(c) ==
    /\ Fault
    /\ HijackRefused(c) \/ HijackBroken(c) \/ (At(c, "accept") /\ ~GaveUp(c) /\ SetupFails(c))
    /\ UNCHANGED <<clientVars, wireVars>>

-----------------------------------------------------------------------------
(* The network.                                                            *)

Cut(c) ==
    /\ ~cut[c] /\ conn[c] \in {"http", "tunnel"}
    /\ c = cur \/ cend[c] = "open"
    /\ Fault
    /\ cut' = [cut EXCEPT ![c] = TRUE]
    /\ UNCHANGED <<vars, clientVars, cur, ses, cend, hs>>

\* yamux on the server notices that the connection is cut, or closed by the client.
ServerNotices(c) ==
    /\ cut[c] \/ cend[c] = "closed"
    /\ Drop(c)
    /\ UNCHANGED <<clientVars, wireVars, faults>>

\* yamux on the client notices that the connection is cut, closed by the server, or
\* served by nobody.
ClientNotices(c) ==
    /\ cend[c] = "open"
    /\ cut[c] \/ conn[c] # "tunnel"
    /\ cend' = [cend EXCEPT ![c] = "closed"]
    /\ UNCHANGED <<vars, clientVars, cur, ses, hs, cut, faults>>

Notices(c) == ServerNotices(c) \/ ClientNotices(c)

-----------------------------------------------------------------------------
E2ENext ==
    \/ ClientStep \/ WakesEarly \/ DialRefused \/ OpenTimesOut
    \/ \E c \in Conns : ServerProc(c) \/ ServerFault(c) \/ Cut(c) \/ Notices(c)

\* Both processes run, and the keepalive of yamux finds every dead connection.  Nothing
\* forces a fault, and nobody but the client's own attempts competes for sessionsMu:
\* the strong fairness of its lock is not needed here.
E2EFairness ==
    /\ WF_e2eVars(ClientStep)
    /\ \A c \in Conns :
        /\ WF_e2eVars(ServerProc(c))
        /\ WF_e2eVars(Notices(c))

E2ESpec == E2EInit /\ [][E2ENext]_e2eVars /\ E2EFairness

-----------------------------------------------------------------------------
(* Properties.                                                             *)

\* The client's view.  Nobody calls Close and no request is proxied here.
C == INSTANCE TunnelClient WITH MaxInFlight <- 1, cpc <- "idle", closed <- FALSE, reqWg <- 0

\* What the client sees of the server and the network is what TunnelClient assumes
\* of its environment: every step of the two together is a step of TunnelClient.
ImplementsClient == C!Spec

\* After the last fault the client is connected and stays connected, though the
\* leftovers of earlier attempts may throw it out again on the way.
Converges == <>[](mpc = "listen" /\ ctlUp)

\* README.md:133, "Is the desired domain at the server side that will be routed to
\* this client": after the last fault the client gets its traffic.
RoutedInTheEnd ==
    <>[]/\ ses # None
        /\ controls[Request.id] = ses /\ sessions[Request.id] = ses
        /\ HostsOf(Request.id) # {}
=============================================================================
