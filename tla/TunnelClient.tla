---------------------------- MODULE TunnelClient ----------------------------
(***************************************************************************)
(* The tunnel client: the reconnect loop of Start, connect, listenControl, *)
(* Close and StartNotify of tunnel/client.go.                              *)
(*                                                                         *)
(* The main process is the goroutine that runs Start: it dials, performs   *)
(* the handshake and listens on the control stream itself.  The other      *)
(* goroutines are one caller of Close, the HTTP requests being proxied     *)
(* (counted by reqWg) and the reader of StartNotify.  The server and the   *)
(* network are the environment: a connection attempt may fail anywhere,    *)
(* and an established tunnel may end at any time.                          *)
(*                                                                         *)
(* ctrlWg is not modelled: only the main process touches it, and it is     *)
(* zero whenever connect waits for it.                                     *)
(***************************************************************************)
EXTENDS Integers

CONSTANT MaxInFlight    \* bound on concurrently proxied HTTP requests

ASSUME InFlightAssumption == MaxInFlight \in Nat \ {0}

VARIABLES
    mpc,        \* what the main process does next
    cpc,        \* what the caller of Close does next
    state,      \* Client.state
    closed,     \* Client.closed
    session,    \* Client.session: "nil", "open" or "closed"
    ctlUp,      \* the control stream can still be read
    reqWg,      \* HTTP requests being proxied
    startNotify \* the one-place channel holds a value

vars == <<mpc, cpc, state, closed, session, ctlUp, reqWg, startNotify>>

ClientState == {"Unknown", "Started", "Connecting", "Connected", "Disconnected", "Closed"}

MainPC == {"stopped", "connecting", "sleep", "fetch", "setOpen", "dial", "newSession",
           "handshake", "notify", "listen", "drain", "hangup", "check"}

ClosePC == {"idle", "wait", "closeSession", "setClosed", "done"}

Init ==
    /\ mpc = "stopped"
    /\ cpc = "idle"
    /\ state = "Unknown"
    /\ closed = FALSE
    /\ session = "nil"
    /\ ctlUp = FALSE
    /\ reqWg = 0
    /\ startNotify = FALSE

\* A step of the main process that changes nothing else.
Move(from, to) ==
    /\ mpc = from
    /\ mpc' = to
    /\ UNCHANGED <<cpc, state, closed, session, ctlUp, reqWg, startNotify>>

\* Only the main process changes the state, so the compare-and-swap succeeds; the
\* StateChanges channel is left out.
changeState(s) == state' = s

-----------------------------------------------------------------------------
(* Start.                                                                  *)

\* Start is called: the first time, or again after it returned.
Start ==
    /\ mpc = "stopped"
    /\ changeState("Started")
    /\ mpc' = "connecting"
    /\ UNCHANGED <<cpc, closed, session, ctlUp, reqWg, startNotify>>

isRetry(s) == s # "Started" /\ s # "Closed"

\* The head of the loop: the backoff only applies to a retry.
Connecting ==
    /\ mpc = "connecting"
    /\ changeState("Connecting")
    /\ mpc' = IF isRetry(state) THEN "sleep" ELSE "fetch"
    /\ UNCHANGED <<cpc, closed, session, ctlUp, reqWg, startNotify>>

\* Mutant: the client is not marked as closed.
BackoffAbortsOpen ==
    /\ mpc = "sleep"
    /\ changeState("Closed")
    /\ mpc' = "stopped"
    /\ UNCHANGED <<cpc, closed, session, ctlUp, reqWg, startNotify>>

\* NextBackOff is negative: the client gives up.
BackoffAborts ==
    /\ mpc = "sleep"
    /\ closed' = TRUE
    /\ changeState("Closed")
    /\ mpc' = "stopped"
    /\ UNCHANGED <<cpc, session, ctlUp, reqWg, startNotify>>

\* The isClosed tests after the sleep and after connect.
StopIfClosed(next) ==
    /\ IF closed
       THEN changeState("Closed") /\ mpc' = "stopped"
       ELSE mpc' = next /\ UNCHANGED state
    /\ UNCHANGED <<cpc, closed, session, ctlUp, reqWg, startNotify>>

\* Mutant: closed is not tested after the sleep.
SleepUnchecked == Move("sleep", "fetch")

Sleep == mpc = "sleep" /\ StopIfClosed("fetch")

\* FetchIdentifier, FetchServerAddr or FetchSignatureKey fails: continue.
FetchFails == Move("fetch", "connecting")

Fetch == Move("fetch", "setOpen")

\* Mutant: the channel is not emptied.
SetOpenKeepsNotify ==
    /\ mpc = "setOpen"
    /\ closed' = FALSE
    /\ mpc' = "dial"
    /\ UNCHANGED <<cpc, state, session, ctlUp, reqWg, startNotify>>

\* setClosed(false), which also empties the channel.
SetOpen ==
    /\ mpc = "setOpen"
    /\ closed' = FALSE
    /\ startNotify' = FALSE
    /\ mpc' = "dial"
    /\ UNCHANGED <<cpc, state, session, ctlUp, reqWg>>

AfterConnect == mpc = "check" /\ StopIfClosed("connecting")

-----------------------------------------------------------------------------
(* connect.                                                                *)

\* Dialling, the control request or its answer fails; or Open or the handshake
\* on the new session does, or times out.  connect closes nothing.
ConnectFails == Move("dial", "check") \/ Move("handshake", "check")

\* The server answered "200 Connected to Tunnel".
DialOk == Move("dial", "newSession")

\* c.session = yamux.Client(conn)
NewSession ==
    /\ mpc = "newSession"
    /\ session' = "open"
    /\ ctlUp' = TRUE
    /\ mpc' = "handshake"
    /\ UNCHANGED <<cpc, state, closed, reqWg, startNotify>>

HandshakeOk == session = "open" /\ Move("handshake", "notify")

\* startNotifyIfNeeded; a full channel drops the value.  Then listenControl
\* begins.
Notify ==
    /\ mpc = "notify"
    /\ startNotify' = (startNotify \/ ~closed)
    /\ changeState("Connected")
    /\ mpc' = "listen"
    /\ UNCHANGED <<cpc, closed, session, ctlUp, reqWg>>

-----------------------------------------------------------------------------
(* listenControl.                                                          *)

\* A control message for an HTTP request.  (A websocket is not counted by reqWg
\* and changes nothing here.)
ProxyHTTP ==
    /\ mpc = "listen"
    /\ ctlUp /\ session = "open"
    /\ reqWg < MaxInFlight
    /\ reqWg' = reqWg + 1
    /\ UNCHANGED <<mpc, cpc, state, closed, session, ctlUp, startNotify>>

\* A control message, but session.Open fails: listenControl returns at once.
OpenFails == Move("listen", "check")

DecodeFails == ~ctlUp /\ Move("listen", "drain")

\* reqWg.Wait, without a timeout.
Drain == reqWg = 0 /\ Move("drain", "hangup")

Hangup ==
    /\ mpc = "hangup"
    /\ session' = "closed"
    /\ ctlUp' = FALSE
    /\ changeState("Disconnected")
    /\ mpc' = "check"
    /\ UNCHANGED <<cpc, closed, reqWg, startNotify>>

-----------------------------------------------------------------------------
(* Close, in a goroutine of the embedding program.                         *)

\* Close is called while Start runs.  Without a session it only sets closed.
Close ==
    /\ cpc \in {"idle", "done"}
    /\ mpc # "stopped"
    /\ cpc' = IF session = "nil" THEN "setClosed" ELSE "wait"
    /\ UNCHANGED <<mpc, state, closed, session, ctlUp, reqWg, startNotify>>

\* All requests are finished, or ten seconds have passed.
CloseWait ==
    /\ cpc = "wait"
    /\ cpc' = "closeSession"
    /\ UNCHANGED <<mpc, state, closed, session, ctlUp, reqWg, startNotify>>

\* c.session.Close(): the session the client has by now.
CloseSession ==
    /\ cpc = "closeSession"
    /\ session' = "closed"
    /\ ctlUp' = FALSE
    /\ cpc' = "setClosed"
    /\ UNCHANGED <<mpc, state, closed, reqWg, startNotify>>

\* The deferred setClosed(true).
CloseSetClosed ==
    /\ cpc = "setClosed"
    /\ closed' = TRUE
    /\ cpc' = "done"
    /\ UNCHANGED <<mpc, state, session, ctlUp, reqWg, startNotify>>

-----------------------------------------------------------------------------
(* The other goroutines and the environment.                               *)

\* Mutant: Done without the Add, as for a websocket.
RequestDoneUncounted ==
    /\ reqWg' = reqWg - 1
    /\ UNCHANGED <<mpc, cpc, state, closed, session, ctlUp, startNotify>>

\* Mutant: a request that ends is not marked as done.
RequestNeverDone ==
    /\ reqWg > 0
    /\ UNCHANGED vars

RequestDone ==
    /\ reqWg > 0
    /\ reqWg' = reqWg - 1
    /\ UNCHANGED <<mpc, cpc, state, closed, session, ctlUp, startNotify>>

ReadStartNotify ==
    /\ startNotify
    /\ startNotify' = FALSE
    /\ UNCHANGED <<mpc, cpc, state, closed, session, ctlUp, reqWg>>

\* The server closes the control stream.
ServerClosesControl ==
    /\ ctlUp
    /\ ctlUp' = FALSE
    /\ UNCHANGED <<mpc, cpc, state, closed, session, reqWg, startNotify>>

\* The server closes the session, or the network fails.
Drop ==
    /\ session = "open"
    /\ session' = "closed"
    /\ ctlUp' = FALSE
    /\ UNCHANGED <<mpc, cpc, state, closed, reqWg, startNotify>>

-----------------------------------------------------------------------------
ConnectStep == ConnectFails \/ DialOk \/ NewSession \/ HandshakeOk \/ Notify

MainStep ==
    \/ Connecting \/ BackoffAborts \/ Sleep \/ FetchFails \/ Fetch \/ SetOpen
    \/ ConnectStep \/ AfterConnect \/ DecodeFails \/ Drain \/ Hangup

CloseStep == CloseWait \/ CloseSession \/ CloseSetClosed

Next ==
    \/ Start \/ MainStep \/ ProxyHTTP \/ OpenFails
    \/ Close \/ CloseStep
    \/ RequestDone \/ ReadStartNotify \/ ServerClosesControl \/ Drop

Spec == Init /\ [][Next]_vars

\* The goroutines run.  A proxied request ends: the local server answers or refuses.
\* The code has no deadline of its own for that (http.DefaultClient), a local server
\* that keeps silent would hold the client up.  Nothing forces a call of Start or Close, a
\* message, or a failure of the tunnel.
Fairness ==
    /\ WF_vars(MainStep)
    /\ WF_vars(CloseStep)
    /\ WF_vars(RequestDone)

\* In addition the client is not refused for ever: its configuration is fetched,
\* and the server is reachable and accepts it, if it tries often enough.
ReachableServer == SF_vars(Fetch) /\ SF_vars(DialOk) /\ SF_vars(HandshakeOk)

FairSpec == Spec /\ Fairness /\ ReachableServer

-----------------------------------------------------------------------------
(* Properties.                                                             *)

\* Type invariant; the request count never goes negative (WaitGroup panics).
TypeOK ==
    /\ mpc \in MainPC
    /\ cpc \in ClosePC
    /\ state \in ClientState
    /\ closed \in BOOLEAN
    /\ session \in {"nil", "open", "closed"}
    /\ ctlUp \in BOOLEAN
    /\ reqWg \in 0 .. MaxInFlight
    /\ startNotify \in BOOLEAN

\* A value in the StartNotify channel stands for the client's latest connection
\* attempt: no attempt after it has begun, so it is never the echo of an earlier
\* connection (setClosed empties the channel, client.go:385).
NotifiesThisConnection ==
    startNotify => mpc \notin {"dial", "newSession", "handshake", "notify"}

\* The state machine the embedding program sees is the real one: Connected is
\* shown while the client listens and never while it is still connecting, and
\* when Start has returned the state is Closed and so is the flag.
StateIsReal ==
    /\ mpc \in {"listen", "drain", "hangup"} => state = "Connected"
    /\ mpc \in {"sleep", "fetch", "setOpen", "dial", "newSession", "handshake", "notify"}
            => state = "Connecting"
    /\ mpc = "stopped" /\ state # "Unknown" => state = "Closed" /\ closed

\* Close reaches a client that was connected: if closed is set while the main
\* process is on its way from the lost session to the next isClosed test, Start
\* returns.
CloseIsSeen ==
    (closed /\ ~ctlUp /\ mpc \in {"listen", "drain", "hangup", "check", "sleep"})
        ~> mpc = "stopped"

\* A client that starts to connect is connected in the end, or was stopped.
Reconnects == (mpc # "stopped") ~> (mpc = "listen" \/ mpc = "stopped")

=============================================================================
