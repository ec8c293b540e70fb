---------------------------- MODULE TunnelStreams ---------------------------
(***************************************************************************)
(* The streams of one tunnel: how concurrent public requests to one client *)
(* get their streams and what travels on them.  The server side is dial,   *)
(* handleHTTP and handleWSConn of tunnel/server.go from the moment the     *)
(* client's control and session are looked up; the client side is the loop *)
(* of listenControl, Proxy, HTTPProxy and WSProxy (tunnel/client.go,       *)
(* proxy.go, httpproxy.go, wsproxy.go).                                    *)
(*                                                                         *)
(* A stream is named by the request whose control message made the client  *)
(* open it.  The name is for the properties only: neither side can see it. *)
(* Accept hands the oldest stream to any goroutine that waits in it, and   *)
(* what the client does with a stream is decided by the message alone.     *)
(***************************************************************************)
EXTENDS Sequences, Naturals, FiniteSets

CONSTANTS
    Reqs,           \* public requests to one client, each made at most once
    Upgrades,       \* the requests among them that isWebsocketConn recognises
    AcceptBacklog,  \* yamux: streams that may be opened and not yet accepted
    None

ASSUME ReqsAssumption == Upgrades \subseteq Reqs /\ None \notin Reqs
ASSUME BacklogAssumption == AcceptBacklog \in Nat \ {0}

VARIABLES
    up,         \* the yamux session is up
    listening,  \* the client's listenControl still reads control messages
    rpc,        \* what the handler of the request does next, "new" before it starts
    waiting,    \* requests whose goroutine has not returned from session.Accept
    held,       \* the stream that goroutine returned
    reply,      \* the request to whose answer the caller was given, if any
    msgs,       \* control messages under way to the client
    backlog,    \* streams the client opened and the server has not accepted
    ppc,        \* what the client's goroutine for the stream does next
    got,        \* the request whose bytes are on the stream
    ans,        \* the request to which an answer was written back on the stream
    open,       \* connection ends that are not closed
    copying     \* the transfers of joinStreams that run, as <<src, dst>>

serverVars == <<rpc, waiting, held, reply>>
clientVars == <<ppc, ans>>
vars == <<up, listening, serverVars, msgs, backlog, clientVars, got, open, copying>>

Protocol(r) == IF r \in Upgrades THEN "WS" ELSE "HTTP"

\* The three connections of a request, by their ends.  The public connection and
\* the one to the local server are complete when both of their ends are open.
Public(r) == <<"public", r>>
Caller(r) == <<"caller", r>>
Server(s) == <<"server", s>>
Client(s) == <<"client", s>>
Local(s) == <<"local", s>>
Target(s) == <<"target", s>>
Kinds == {"public", "caller", "server", "client", "local", "target"}
Ends == Kinds \X Reqs

Peer(end) ==
    << CASE end[1] = "public" -> "caller" [] end[1] = "caller" -> "public"
         [] end[1] = "server" -> "client" [] end[1] = "client" -> "server"
         [] end[1] = "local" -> "target"  [] end[1] = "target" -> "local",
       end[2] >>

\* A read of the end returns an error or EOF.
AtEOF(end) == {end, Peer(end)} \ open # {}

Init ==
    /\ up = TRUE
    /\ listening = TRUE
    /\ rpc = [r \in Reqs |-> "new"]
    /\ waiting = {}
    /\ held = [r \in Reqs |-> None]
    /\ reply = [r \in Reqs |-> None]
    /\ msgs = <<>>
    /\ backlog = <<>>
    /\ ppc = [s \in Reqs |-> "none"]
    /\ got = [s \in Reqs |-> None]
    /\ ans = [s \in Reqs |-> None]
    /\ open = {Public(r) : r \in Reqs} \union {Caller(r) : r \in Reqs}
    /\ copying = {}

At(r, label) == rpc[r] = label
Goto(r, label) == rpc' = [rpc EXCEPT ![r] = label]
PAt(s, label) == ppc[s] = label
PGoto(s, label) == ppc' = [ppc EXCEPT ![s] = label]

-----------------------------------------------------------------------------
(* joinStreams, which the server calls for a websocket and so does the     *)
(* client.                                                                 *)

Transfers(a, b) == {<<a, b>>, <<b, a>>}

\* Mutant: the transfer only closes what it has read to the end.
TransferClosesSource(src, dst) ==
    /\ <<src, dst>> \in copying
    /\ AtEOF(src)
    /\ copying' = copying \ {<<src, dst>>}
    /\ open' = open \ {src}
    /\ UNCHANGED <<up, listening, serverVars, msgs, backlog, clientVars, got>>

\* io.Copy ends and both connections are closed.
Transfer(src, dst) ==
    /\ <<src, dst>> \in copying
    /\ AtEOF(src)
    /\ copying' = copying \ {<<src, dst>>}
    /\ open' = open \ {src, dst}
    /\ UNCHANGED <<up, listening, serverVars, msgs, backlog, clientVars, got>>

-----------------------------------------------------------------------------
(* The server: handleHTTP and handleWSConn with dial.                      *)

\* Where the handler returns an error PublicHandler answers with a 502, which
\* reaches nobody once handleWSConn has hijacked the connection: not recorded.

\* A request for the client: control.send, and the goroutine that calls Accept is
\* started.  The connection of a websocket upgrade is hijacked before that.
DialSend(r) ==
    /\ At(r, "new")
    /\ up
    /\ msgs' = Append(msgs, r)
    /\ waiting' = waiting \union {r}
    /\ Goto(r, "accept")
    /\ UNCHANGED <<up, listening, held, reply, backlog, clientVars, got, open, copying>>

DialSendFails(r) ==
    /\ At(r, "new")
    /\ ~up
    /\ Goto(r, "done")
    /\ UNCHANGED <<up, listening, waiting, held, reply, msgs, backlog, clientVars, got, open, copying>>

\* session.Accept returns the oldest stream to one of its callers, which writes its
\* request on it (host cleared, path rewritten).  If the caller's request has given
\* up by then, nobody will ever look at the stream.
Accept(r) ==
    /\ r \in waiting
    /\ backlog # <<>>
    /\ held' = [held EXCEPT ![r] = Head(backlog)]
    /\ backlog' = Tail(backlog)
    /\ waiting' = waiting \ {r}
    /\ IF At(r, "accept")
       THEN Goto(r, "read") /\ got' = [got EXCEPT ![Head(backlog)] = r]
       ELSE UNCHANGED <<rpc, got>>
    /\ UNCHANGED <<up, listening, reply, msgs, clientVars, open, copying>>

AcceptFails(r) ==
    /\ r \in waiting
    /\ ~up
    /\ waiting' = waiting \ {r}
    /\ IF At(r, "accept") THEN Goto(r, "done") ELSE UNCHANGED rpc
    /\ UNCHANGED <<up, listening, held, reply, msgs, backlog, clientVars, got, open, copying>>

\* Mutant: the goroutine is cancelled together with the request.
DialTimesOutCancels(r) ==
    /\ At(r, "accept")
    /\ Goto(r, "timedOut")
    /\ waiting' = waiting \ {r}
    /\ UNCHANGED <<up, listening, held, reply, msgs, backlog, clientVars, got, open, copying>>

\* defaultTimeout passes.  The goroutine stays in Accept.
DialTimesOut(r) ==
    /\ At(r, "accept")
    /\ Goto(r, "timedOut")
    /\ UNCHANGED <<up, listening, waiting, held, reply, msgs, backlog, clientVars, got, open, copying>>

\* The stream broke: r.Write or http.ReadResponse fails, and the stream is closed.
StreamFails(r) ==
    /\ At(r, "read")
    /\ ans[held[r]] = None \/ ~up
    /\ AtEOF(Server(held[r]))
    /\ Goto(r, "done")
    /\ open' = open \ {Server(held[r])}
    /\ UNCHANGED <<up, listening, waiting, held, reply, msgs, backlog, clientVars, got, copying>>

\* Mutant: the stream goes back to the ones that wait to be accepted.
RelayResponseReuses(r) ==
    /\ At(r, "read") /\ r \notin Upgrades
    /\ ans[held[r]] # None
    /\ reply' = [reply EXCEPT ![r] = ans[held[r]]]
    /\ backlog' = Append(backlog, held[r])
    /\ Goto(r, "done")
    /\ UNCHANGED <<up, listening, waiting, held, msgs, clientVars, got, open, copying>>

\* The rest of handleHTTP: the response is copied back and the stream closed.
RelayResponse(r) ==
    /\ At(r, "read") /\ r \notin Upgrades
    /\ ans[held[r]] # None
    /\ reply' = [reply EXCEPT ![r] = ans[held[r]]]
    /\ open' = open \ {Server(held[r])}
    /\ Goto(r, "done")
    /\ UNCHANGED <<up, listening, waiting, held, msgs, backlog, clientVars, got, copying>>

\* What the handler of a websocket has read from the stream is an answer.
UpgradeAnswered(r) == At(r, "read") /\ r \in Upgrades /\ ans[held[r]] # None

\* Mutant: a response that refuses the upgrade is relayed and not joined.
RelayUpgradeRefused(r) ==
    /\ UpgradeAnswered(r)
    /\ reply' = [reply EXCEPT ![r] = ans[held[r]]]
    /\ \/ /\ copying' = copying \union Transfers(Public(r), Server(held[r]))
          /\ Goto(r, "join")
          /\ UNCHANGED open
       \/ /\ open' = open \ {Server(held[r])}
          /\ Goto(r, "done")
          /\ UNCHANGED copying
    /\ UNCHANGED <<up, listening, waiting, held, msgs, backlog, clientVars, got>>

\* The rest of handleWSConn, whatever the status of the response is.
RelayUpgrade(r) ==
    /\ UpgradeAnswered(r)
    /\ reply' = [reply EXCEPT ![r] = ans[held[r]]]
    /\ copying' = copying \union Transfers(Public(r), Server(held[r]))
    /\ Goto(r, "join")
    /\ UNCHANGED <<up, listening, waiting, held, msgs, backlog, clientVars, got, open>>

\* Writing to a caller that has left fails: the response, and nothing was answered ...
RelayUpgradeFails(r) ==
    /\ UpgradeAnswered(r)
    /\ Caller(r) \notin open
    /\ open' = open \ {Server(held[r])}
    /\ Goto(r, "done")
    /\ UNCHANGED <<up, listening, waiting, held, reply, msgs, backlog, clientVars, got, copying>>

\* ... or, after the response, the frames that were buffered behind it.  Only the
\* stream is closed, the hijacked connection is not.
RelayFramesFail(r) ==
    /\ UpgradeAnswered(r)
    /\ Caller(r) \notin open
    /\ reply' = [reply EXCEPT ![r] = ans[held[r]]]
    /\ open' = open \ {Server(held[r])}
    /\ Goto(r, "done")
    /\ UNCHANGED <<up, listening, waiting, held, msgs, backlog, clientVars, got, copying>>

\* joinStreams returns when both transfers are done.
ServerJoined(r) ==
    /\ At(r, "join")
    /\ Transfers(Public(r), Server(held[r])) \intersect copying = {}
    /\ Goto(r, "done")
    /\ UNCHANGED <<up, listening, waiting, held, reply, msgs, backlog, clientVars, got, open, copying>>

-----------------------------------------------------------------------------
(* The client: listenControl and the goroutine it starts for a stream.     *)

\* The next control message is read, a stream opened and its goroutine started.
OpenStream ==
    /\ up /\ listening
    /\ msgs # <<>>
    /\ Len(backlog) < AcceptBacklog
    /\ LET s == Head(msgs) IN
         /\ msgs' = Tail(msgs)
         /\ backlog' = Append(backlog, s)
         /\ open' = open \union {Server(s), Client(s)}
         /\ PGoto(s, "read")
    /\ UNCHANGED <<up, listening, serverVars, ans, got, copying>>

\* session.Open fails although the session is up (a write that takes too long):
\* listenControl returns and closes nothing.  The message was read, no stream comes
\* for it, and what the server sends from now on stays unread.
OpenFails ==
    /\ up /\ listening
    /\ msgs # <<>>
    /\ msgs' = Tail(msgs)
    /\ listening' = FALSE
    /\ UNCHANGED <<up, serverVars, backlog, clientVars, got, open, copying>>

\* http.ReadRequest, with which both proxies begin.
ReadsRequest(s) == PAt(s, "read") /\ got[s] # None /\ Client(s) \in open

\* Nothing to read: an error response is tried and the stream closed.
ReadRequestFails(s) ==
    /\ PAt(s, "read")
    /\ AtEOF(Client(s))
    /\ PGoto(s, "done")
    /\ open' = open \ {Client(s)}
    /\ UNCHANGED <<up, listening, serverVars, msgs, backlog, ans, got, copying>>

\* The answer to what was read goes on the stream; on a closed one it is lost.
Write(s) == ans' = IF AtEOF(Client(s)) THEN ans ELSE [ans EXCEPT ![s] = got[s]]

\* Mutant: the client forgets to close the stream after the exchange.
HTTPProxyKeepsStream(s) ==
    /\ ReadsRequest(s) /\ Protocol(s) = "HTTP"
    /\ Write(s)
    /\ PGoto(s, "done")
    /\ UNCHANGED <<up, listening, serverVars, msgs, backlog, got, open, copying>>

\* Mutant: when the local server does not answer, neither does the client.
HTTPProxyGivesUp(s) ==
    /\ ReadsRequest(s) /\ Protocol(s) = "HTTP"
    /\ PGoto(s, "done")
    /\ \/ Write(s) /\ open' = open \ {Client(s)}
       \/ UNCHANGED <<ans, open>>
    /\ UNCHANGED <<up, listening, serverVars, msgs, backlog, got, copying>>

\* HTTPProxy: the request is replayed at the local server, and its response, or the
\* client's own error, is written back.  Then the stream is closed.
HTTPProxy(s) ==
    /\ ReadsRequest(s) /\ Protocol(s) = "HTTP"
    /\ Write(s)
    /\ open' = open \ {Client(s)}
    /\ PGoto(s, "done")
    /\ UNCHANGED <<up, listening, serverVars, msgs, backlog, got, copying>>

\* WSProxy: the local server cannot be reached, or the request not be written to
\* it: an error response (none if only buffered frames were left to write), and the
\* stream is closed.
WSProxyFails(s) ==
    /\ ReadsRequest(s) /\ Protocol(s) = "WS"
    /\ Write(s) \/ UNCHANGED ans
    /\ open' = open \ {Client(s)}
    /\ PGoto(s, "done")
    /\ UNCHANGED <<up, listening, serverVars, msgs, backlog, got, copying>>

\* WSProxy: the request is written to the local server and the two are joined.
WSProxy(s) ==
    /\ ReadsRequest(s) /\ Protocol(s) = "WS"
    /\ open' = open \union {Local(s), Target(s)}
    /\ copying' = copying \union Transfers(Client(s), Local(s))
    /\ PGoto(s, "join")
    /\ UNCHANGED <<up, listening, serverVars, msgs, backlog, ans, got>>

\* The local server answers the request it was sent, over the joined streams.
TargetResponds(s) ==
    /\ PAt(s, "join")
    /\ ans[s] = None
    /\ <<Local(s), Client(s)>> \in copying /\ Target(s) \in open
    /\ Write(s)
    /\ UNCHANGED <<up, listening, serverVars, msgs, backlog, ppc, got, open, copying>>

\* joinStreams returns; remote.Close() finds the stream closed.
ClientJoined(s) ==
    /\ PAt(s, "join")
    /\ Transfers(Client(s), Local(s)) \intersect copying = {}
    /\ PGoto(s, "done")
    /\ UNCHANGED <<up, listening, serverVars, msgs, backlog, ans, got, open, copying>>

-----------------------------------------------------------------------------
(* The environment.                                                        *)

\* The caller of a websocket, or the local server behind it, hangs up.
HangUp(end) ==
    /\ end \in open
    /\ \/ \E r \in Upgrades : end = Caller(r) /\ ~At(r, "new")
       \/ \E s \in Reqs : end = Target(s)
    /\ open' = open \ {end}
    /\ UNCHANGED <<up, listening, serverVars, msgs, backlog, clientVars, got, copying>>

\* The session is closed by either side or its connection is lost, and all of its
\* streams with it.
SessionEnds ==
    /\ up
    /\ up' = FALSE
    /\ msgs' = <<>>
    /\ backlog' = <<>>
    /\ open' = {end \in open : end[1] \notin {"server", "client"}}
    /\ UNCHANGED <<listening, serverVars, clientVars, got, copying>>

-----------------------------------------------------------------------------
HandlerStep(r) ==
    \/ StreamFails(r) \/ RelayResponse(r)
    \/ RelayUpgrade(r) \/ RelayUpgradeFails(r) \/ RelayFramesFail(r) \/ ServerJoined(r)

AcceptStep(r) == Accept(r) \/ AcceptFails(r)

ProxyStep(s) ==
    \/ ReadRequestFails(s)
    \/ HTTPProxy(s)
    \/ WSProxy(s) \/ WSProxyFails(s) \/ TargetResponds(s) \/ ClientJoined(s)

GoroutineStep ==
    \/ \E r \in Reqs : HandlerStep(r) \/ AcceptStep(r)
    \/ OpenStream
    \/ \E s \in Reqs : ProxyStep(s)
    \/ \E t \in copying : Transfer(t[1], t[2])

Next ==
    \/ GoroutineStep
    \/ \E r \in Reqs : DialSend(r) \/ DialSendFails(r) \/ DialTimesOut(r)
    \/ OpenFails
    \/ \E end \in Ends : HangUp(end)
    \/ SessionEnds

Spec == Init /\ [][Next]_vars

\* Goroutines run on both sides and dial's timer fires.  One condition is enough for
\* all of them: every step is taken at most once, so none can keep another from its
\* turn for ever.
\* The local server answers what it is sent: http.DefaultClient has no timeout.
\* Nothing forces a request, a failing Open, a hang-up or the end of the session.
Fairness == WF_vars(GoroutineStep \/ \E r \in Reqs : DialTimesOut(r))

FairSpec == Spec /\ Fairness

-----------------------------------------------------------------------------
(* Properties.                                                             *)

\* While the session is up, exactly as many goroutines wait in Accept as there are
\* streams asked for and not accepted, and one more once Open has failed.  A request
\* that gives up leaves its goroutine behind, and its late stream with it: nobody who
\* comes later takes over a stale stream in the place of his own, and a failing Open
\* costs the dials of a session one stream, however they are interleaved.
AStreamForEveryone ==
    up => Cardinality(waiting) = Len(msgs) + Len(backlog) + (IF listening THEN 0 ELSE 1)

\* The answer a caller gets is the answer to his request, though requests take
\* whichever stream comes first (functional_request_test.go:182, "responses were
\* crossed between concurrent requests").
AnswersItsRequest == \A r \in Reqs : reply[r] \in {r, None}

\* The caller of a websocket who was answered is not left with an open connection
\* nobody serves: when handleWSConn returns, joinStreams has closed it, or the caller
\* has left himself (and then the server's end of it may never be closed).
AnsweredIsClosed ==
    \A r \in Upgrades : At(r, "done") /\ reply[r] # None => {Public(r), Caller(r)} \ open # {}

\* The connection ends the tunnel's two processes hold for a request.
EndsHere(r) == {Public(r), Server(held[r]), Client(held[r]), Local(held[r])}

\* When either end of an established websocket hangs up, or the session ends, the
\* tunnel server and the client close all connections of it (wsproxy.go:163,
\* "closes both so the other direction cannot be left hanging").
HangUpReachesAll ==
    \A r \in Upgrades :
        (At(r, "join") /\ (Caller(r) \notin open \/ Target(held[r]) \notin open \/ ~up))
            ~> (EndsHere(r) \intersect open = {})

\* In the end every request that was made is answered, has failed, or is a websocket
\* that is established: also when the client has stopped to open streams, whatever
\* the earlier requests did (every request is made once, so all of them have an end).
RequestSettles ==
    <>[](\A r \in Reqs : rpc[r] \in {"new", "join", "done", "timedOut"})

\* The stream was taken for a request that had given up.
Forsaken(s) == \E r \in Reqs : held[r] = s /\ At(r, "timedOut")

\* In the end every stream the client opened is closed by both sides and its goroutine
\* is gone, except on an established websocket and on a stream that came too late.
StreamsEnd ==
    <>[](\A s \in Reqs :
            \/ PAt(s, "none")
            \/ PAt(s, "done") /\ {Server(s), Client(s)} \intersect open = {}
            \/ PAt(s, "join")
            \/ Forsaken(s))

-----------------------------------------------------------------------------
(* What the repository says of the streams and the code does not do.       *)

\* wsproxy.go:22, "It cannot be replayed with an http.Client the way HTTPProxy
\* replays an ordinary request: the connection is handed over instead".
UpgradeIsHandedOver ==
    \A s \in Reqs : got[s] \in Upgrades => Protocol(s) = "WS"
=============================================================================
