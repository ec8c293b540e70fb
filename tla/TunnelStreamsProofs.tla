------------------------- MODULE TunnelStreamsProofs ------------------------
(* Proofs about the streams of one tunnel, for every number of concurrent    *)
(* requests and websockets and every size of the accept backlog.             *)
EXTENDS TunnelStreams, FiniteSetTheorems, TLAPS

HandlerPC == {"new", "accept", "timedOut", "read", "join", "done"}
ProxyPC == {"none", "read", "join", "done"}

\* The types of the tunnel's state.
StreamsTypeOK ==
    /\ up \in BOOLEAN /\ listening \in BOOLEAN
    /\ rpc \in [Reqs -> HandlerPC]
    /\ waiting \subseteq Reqs /\ IsFiniteSet(waiting)
    /\ held \in [Reqs -> Reqs \union {None}]
    /\ reply \in [Reqs -> Reqs \union {None}]
    /\ msgs \in Seq(Reqs)
    /\ backlog \in Seq(Reqs)
    /\ ppc \in [Reqs -> ProxyPC]
    /\ got \in [Reqs -> Reqs \union {None}]
    /\ ans \in [Reqs -> Reqs \union {None}]

\* A goroutine waits in Accept for a request that waits for it or has given up.
WaitingIsAsked == \A r \in waiting : rpc[r] \in {"accept", "timedOut"}

Distinct(q) == \A i, j \in 1 .. Len(q) : q[i] = q[j] => i = j

\* A stream is asked for once and opened once, and nothing was written on it before
\* the server accepts it.
StreamsUnused ==
    /\ Distinct(msgs) /\ Distinct(backlog)
    /\ \A i \in 1 .. Len(msgs) : \A j \in 1 .. Len(backlog) : msgs[i] # backlog[j]
    /\ \A i \in 1 .. Len(msgs) : rpc[msgs[i]] # "new" /\ got[msgs[i]] = None
    /\ \A i \in 1 .. Len(backlog) : rpc[backlog[i]] # "new" /\ got[backlog[i]] = None
    /\ \A r \in Reqs : rpc[r] = "new" => got[r] = None

\* What is on a stream: the request that reads from it, and its answer.
StreamCarries ==
    /\ \A r \in Reqs : rpc[r] = "read" => held[r] \in Reqs /\ got[held[r]] = r
    /\ \A s \in Reqs : ans[s] \in {got[s], None}

\* A websocket that is answered is being joined or was: the caller's connection is
\* closed as soon as one of the two transfers has ended.
JoinedIsCopied ==
    \A r \in Reqs :
        /\ rpc[r] \in {"new", "accept", "timedOut", "read"} => reply[r] = None
        /\ rpc[r] = "join" =>
             Public(r) \notin open \/ Transfers(Public(r), Server(held[r])) \subseteq copying

\* The inductive invariant of the tunnel.
StreamInv ==
    /\ StreamsTypeOK
    /\ WaitingIsAsked
    /\ AStreamForEveryone
    /\ StreamsUnused
    /\ StreamCarries
    /\ AnswersItsRequest
    /\ JoinedIsCopied
    /\ AnsweredIsClosed

-----------------------------------------------------------------------------
(* Sequences.                                                               *)

\* What Append makes of a sequence.
LEMMA AppendFacts ==
  ASSUME NEW S, NEW q \in Seq(S), NEW e \in S
  PROVE  /\ Append(q, e) \in Seq(S)
         /\ Len(q) \in Nat
         /\ Len(Append(q, e)) = Len(q) + 1
         /\ \A i \in 1 .. Len(q) : Append(q, e)[i] = q[i]
         /\ Append(q, e)[Len(q) + 1] = e
OBVIOUS

\* What Head and Tail make of a sequence.
LEMMA TailFacts ==
  ASSUME NEW S, NEW q \in Seq(S), q # << >>
  PROVE  /\ Tail(q) \in Seq(S)
         /\ Len(q) \in Nat \ {0}
         /\ Len(Tail(q)) = Len(q) - 1
         /\ Head(q) = q[1]
         /\ \A i \in 1 .. Len(q) : q[i] \in S
         /\ \A i \in 1 .. Len(q) - 1 : Tail(q)[i] = q[i + 1]
OBVIOUS

-----------------------------------------------------------------------------
(* Types, and the goroutines in Accept.                                     *)

\* What is common to all the steps of the handlers after Accept, of the client's
\* goroutines and of the environment: they neither ask for streams nor take them.
Settled ==
    /\ UNCHANGED <<up, listening, waiting, held, msgs, backlog, got>>
    /\ \A r \in Reqs :
        \/ rpc'[r] = rpc[r]
        \/ rpc[r] \in {"read", "join"} /\ rpc'[r] \in {"join", "done"}

LEMMA SettledSteps ==
  ASSUME StreamsTypeOK,
         \/ \E r \in Reqs : HandlerStep(r)
         \/ \E s \in Reqs : ProxyStep(s)
         \/ \E t \in copying : Transfer(t[1], t[2])
         \/ \E end \in Ends : HangUp(end)
  PROVE  Settled
<1>0. rpc \in [Reqs -> HandlerPC]
  BY DEF StreamsTypeOK
<1> USE <1>0 DEF Settled, At, Goto, serverVars, clientVars
<1>1. ASSUME NEW r \in Reqs, HandlerStep(r)
      PROVE  Settled
  BY <1>1 DEF HandlerStep, StreamFails, RelayResponse, RelayUpgrade, RelayUpgradeFails,
     RelayFramesFail, UpgradeAnswered, ServerJoined
<1>2. ASSUME NEW s \in Reqs, ProxyStep(s)
      PROVE  Settled
  BY <1>2 DEF ProxyStep, ReadRequestFails, HTTPProxy, WSProxy, WSProxyFails, TargetResponds,
     ClientJoined
<1>3. ASSUME NEW t \in copying, Transfer(t[1], t[2])
      PROVE  Settled
  BY <1>3 DEF Transfer
<1>4. ASSUME NEW end \in Ends, HangUp(end)
      PROVE  Settled
  BY <1>4 DEF HangUp
<1> QED
  BY <1>1, <1>2, <1>3, <1>4

\* Every step keeps the types.
LEMMA StreamsTypeStep ==
  ASSUME StreamsTypeOK, StreamCarries, Next
  PROVE  StreamsTypeOK'
<1> USE DEF StreamsTypeOK, HandlerPC, ProxyPC, At, Goto, PAt, PGoto, serverVars, clientVars
<1>1. ASSUME NEW r \in Reqs, DialSend(r)
      PROVE  StreamsTypeOK'
  <2>1. IsFiniteSet(waiting') /\ waiting' \subseteq Reqs
    BY <1>1, FS_AddElement DEF DialSend
  <2>2. msgs' \in Seq(Reqs)
    BY <1>1, AppendFacts DEF DialSend
  <2> QED
    BY <1>1, <2>1, <2>2 DEF DialSend
<1>2. ASSUME NEW r \in Reqs, DialSendFails(r) \/ DialTimesOut(r)
      PROVE  StreamsTypeOK'
  BY <1>2 DEF DialSendFails, DialTimesOut
<1>3. ASSUME NEW r \in Reqs, Accept(r)
      PROVE  StreamsTypeOK'
  <2>1. IsFiniteSet(waiting') /\ waiting' \subseteq Reqs
    BY <1>3, FS_RemoveElement DEF Accept
  <2>2. backlog' \in Seq(Reqs) /\ Head(backlog) \in Reqs
    BY <1>3, TailFacts DEF Accept
  <2> QED
    BY <1>3, <2>1, <2>2 DEF Accept
<1>4. ASSUME NEW r \in Reqs, AcceptFails(r)
      PROVE  StreamsTypeOK'
  <2>1. IsFiniteSet(waiting') /\ waiting' \subseteq Reqs
    BY <1>4, FS_RemoveElement DEF AcceptFails
  <2> QED
    BY <1>4, <2>1 DEF AcceptFails
<1>5. ASSUME NEW r \in Reqs, HandlerStep(r)
      PROVE  StreamsTypeOK'
  <2>1. UNCHANGED <<up, listening, waiting, held, msgs, backlog, ppc, got, ans>>
    BY <1>5 DEF HandlerStep, StreamFails, RelayResponse, RelayUpgrade, RelayUpgradeFails,
     RelayFramesFail, UpgradeAnswered, ServerJoined
  <2>2. rpc' \in [Reqs -> HandlerPC]
    BY <1>5 DEF HandlerStep, StreamFails, RelayResponse, RelayUpgrade, RelayUpgradeFails,
     RelayFramesFail, UpgradeAnswered, ServerJoined
  <2>3. reply' \in [Reqs -> Reqs \union {None}]
    <3>1. \/ UNCHANGED reply
          \/ rpc[r] = "read" /\ reply' = [reply EXCEPT ![r] = ans[held[r]]]
      BY <1>5 DEF HandlerStep, StreamFails, RelayResponse, RelayUpgrade, RelayUpgradeFails,
     RelayFramesFail, UpgradeAnswered, ServerJoined
    <3>2. rpc[r] = "read" => ans[held[r]] \in Reqs \union {None}
      BY DEF StreamCarries
    <3> QED
      BY <3>1, <3>2
  <2> QED
    BY <2>1, <2>2, <2>3
<1>6. CASE OpenStream
  <2>1. msgs' \in Seq(Reqs) /\ Head(msgs) \in Reqs
    BY <1>6, TailFacts DEF OpenStream
  <2>2. backlog' \in Seq(Reqs)
    BY <1>6, <2>1, AppendFacts DEF OpenStream
  <2> QED
    BY <1>6, <2>1, <2>2 DEF OpenStream
<1>7. ASSUME NEW s \in Reqs, ProxyStep(s)
      PROVE  StreamsTypeOK'
  BY <1>7 DEF ProxyStep, ReadRequestFails, HTTPProxy, WSProxy, WSProxyFails, TargetResponds,
     ClientJoined, Write
<1>8. ASSUME NEW t \in copying, Transfer(t[1], t[2])
      PROVE  StreamsTypeOK'
  BY <1>8 DEF Transfer
<1>9. ASSUME NEW end \in Ends, HangUp(end)
      PROVE  StreamsTypeOK'
  BY <1>9 DEF HangUp
<1>10. CASE SessionEnds
  <2>1. << >> \in Seq(Reqs)
    OBVIOUS
  <2>2. msgs' \in Seq(Reqs) /\ backlog' \in Seq(Reqs) /\ up' \in BOOLEAN
    BY <1>10, <2>1, Zenon DEF SessionEnds
  <2> QED
    BY <1>10, <2>2, Zenon DEF SessionEnds
<1>11. CASE OpenFails
  <2>1. msgs' \in Seq(Reqs)
    BY <1>11, TailFacts DEF OpenFails
  <2>2. listening' \in BOOLEAN
    BY <1>11, Zenon DEF OpenFails
  <2> QED
    BY <1>11, <2>1, <2>2, Zenon DEF OpenFails
<1> QED
  BY <1>1, <1>2, <1>3, <1>4, <1>5, <1>6, <1>7, <1>8, <1>9, <1>10, <1>11
  DEF Next, GoroutineStep, AcceptStep

\* While the session is up every message, and every stream, has its goroutine.
LEMMA CountStep ==
  ASSUME StreamInv, Next
  PROVE  WaitingIsAsked' /\ AStreamForEveryone'
<1> DEFINE Kept == WaitingIsAsked' /\ AStreamForEveryone'
<1> USE DEF StreamInv, WaitingIsAsked, AStreamForEveryone
<1>0. /\ rpc \in [Reqs -> HandlerPC]
      /\ waiting \subseteq Reqs /\ IsFiniteSet(waiting) /\ Cardinality(waiting) \in Nat
      /\ msgs \in Seq(Reqs) /\ backlog \in Seq(Reqs)
      /\ Len(msgs) \in Nat /\ Len(backlog) \in Nat
  BY FS_CardinalityType DEF StreamsTypeOK
<1>1. ASSUME NEW r \in Reqs, DialSend(r)
      PROVE  Kept
  <2>1. r \notin waiting
    BY <1>1 DEF DialSend, At
  <2>2. Cardinality(waiting \union {r}) = Cardinality(waiting) + 1
    BY <1>0, <2>1, FS_AddElement
  <2>3. Len(Append(msgs, r)) = Len(msgs) + 1
    BY <1>0, AppendFacts
  <2> QED
    BY <1>0, <1>1, <2>2, <2>3 DEF DialSend, Goto
<1>2. ASSUME NEW r \in Reqs, DialSendFails(r) \/ DialTimesOut(r)
      PROVE  Kept
  BY <1>0, <1>2 DEF DialSendFails, DialTimesOut, At, Goto
<1>3. ASSUME NEW r \in Reqs, Accept(r)
      PROVE  Kept
  <2>1. Cardinality(waiting \ {r}) = Cardinality(waiting) - 1
    BY <1>0, <1>3, FS_RemoveElement DEF Accept
  <2>2. Len(Tail(backlog)) = Len(backlog) - 1
    BY <1>0, <1>3, TailFacts DEF Accept
  <2> QED
    BY <1>0, <1>3, <2>1, <2>2 DEF Accept, At, Goto
<1>4. ASSUME NEW r \in Reqs, AcceptFails(r)
      PROVE  Kept
  BY <1>0, <1>4 DEF AcceptFails, At, Goto
<1>5. CASE OpenStream
  <2>1. Len(Tail(msgs)) = Len(msgs) - 1 /\ Head(msgs) \in Reqs
    BY <1>0, <1>5, TailFacts DEF OpenStream
  <2>2. Len(Append(backlog, Head(msgs))) = Len(backlog) + 1
    BY <1>0, <2>1, AppendFacts
  <2> QED
    BY <1>0, <1>5, <2>1, <2>2 DEF OpenStream, serverVars
<1>6. CASE SessionEnds
  BY <1>0, <1>6 DEF SessionEnds, serverVars
<1>7. CASE Settled
  BY <1>0, <1>7 DEF Settled
<1>8. CASE OpenFails
  <2>1. Len(Tail(msgs)) = Len(msgs) - 1
    BY <1>0, <1>8, TailFacts DEF OpenFails
  <2> QED
    BY <1>0, <1>8, <2>1 DEF OpenFails, serverVars
<1> QED
  BY <1>1, <1>2, <1>3, <1>4, <1>5, <1>6, <1>7, <1>8, SettledSteps
  DEF Next, GoroutineStep, AcceptStep

-----------------------------------------------------------------------------
(* What travels on the streams.                                             *)

\* A stream is used for one request: it is asked for once, opened once, and accepted
\* by the one goroutine that writes on it.
LEMMA UnusedStep ==
  ASSUME StreamInv, Next
  PROVE  StreamsUnused'
<1> USE DEF StreamInv, StreamsUnused, Distinct
<1>0. /\ rpc \in [Reqs -> HandlerPC] /\ got \in [Reqs -> Reqs \union {None}]
      /\ msgs \in Seq(Reqs) /\ backlog \in Seq(Reqs)
      /\ Len(msgs) \in Nat /\ Len(backlog) \in Nat
      /\ \A i \in 1 .. Len(msgs) : msgs[i] \in Reqs
      /\ \A i \in 1 .. Len(backlog) : backlog[i] \in Reqs
  BY DEF StreamsTypeOK
<1>1. ASSUME NEW r \in Reqs, DialSend(r)
      PROVE  StreamsUnused'
  <2>1. /\ Len(msgs') = Len(msgs) + 1 /\ msgs'[Len(msgs) + 1] = r
        /\ \A i \in 1 .. Len(msgs) : msgs'[i] = msgs[i]
    BY <1>0, <1>1, AppendFacts DEF DialSend
  <2>2. /\ rpc[r] = "new" /\ rpc' = [rpc EXCEPT ![r] = "accept"] /\ UNCHANGED <<backlog, got>>
    BY <1>1 DEF DialSend, At, Goto
  <2>3. /\ \A i \in 1 .. Len(msgs) : msgs[i] # r
        /\ \A i \in 1 .. Len(backlog) : backlog[i] # r
    BY <2>2
  <2>4. Distinct(msgs)'
    BY <1>0, <2>1, <2>3
  <2>5. \A i \in 1 .. Len(msgs') : \A j \in 1 .. Len(backlog) : msgs'[i] # backlog[j]
    BY <1>0, <2>1, <2>3
  <2>6. \A i \in 1 .. Len(msgs') : rpc'[msgs'[i]] # "new" /\ got[msgs'[i]] = None
    BY <1>0, <2>1, <2>2
  <2>7. \A i \in 1 .. Len(backlog) : rpc'[backlog[i]] # "new"
    BY <1>0, <2>2
  <2>8. \A q \in Reqs : rpc'[q] = "new" => got[q] = None
    BY <1>0, <2>2
  <2> QED
    BY <2>2, <2>4, <2>5, <2>6, <2>7, <2>8
<1>2. ASSUME NEW r \in Reqs, DialSendFails(r) \/ DialTimesOut(r) \/ AcceptFails(r)
      PROVE  StreamsUnused'
  <2>1. UNCHANGED <<msgs, backlog, got>>
    BY <1>2 DEF DialSendFails, DialTimesOut, AcceptFails
  <2>2. \A q \in Reqs : rpc'[q] = "new" => rpc[q] = "new"
    BY <1>0, <1>2 DEF DialSendFails, DialTimesOut, AcceptFails, At, Goto
  <2> QED
    BY <1>0, <2>1, <2>2
<1>3. ASSUME NEW r \in Reqs, Accept(r)
      PROVE  StreamsUnused'
  <2>1. /\ Len(backlog') = Len(backlog) - 1 /\ Len(backlog) > 0 /\ Head(backlog) = backlog[1]
        /\ \A i \in 1 .. Len(backlog') : backlog'[i] = backlog[i + 1] /\ i + 1 \in 1 .. Len(backlog)
    BY <1>0, <1>3, TailFacts DEF Accept
  <2>2. UNCHANGED msgs
    BY <1>3 DEF Accept
  <2>3. \A q \in Reqs : rpc'[q] = "new" => rpc[q] = "new"
    BY <1>0, <1>3 DEF Accept, At, Goto
  <2>4. \A s \in Reqs : s # backlog[1] => got'[s] = got[s]
    BY <1>0, <1>3, <2>1 DEF Accept
  <2>5. \A i \in 1 .. Len(backlog') : backlog'[i] # backlog[1]
    BY <1>0, <2>1
  <2>6. \A i \in 1 .. Len(msgs) : msgs[i] # backlog[1]
    BY <1>0, <2>1
  <2>7. \A q \in Reqs : rpc'[q] = "new" => q # backlog[1]
    BY <1>0, <2>1, <2>3
  <2>8. Distinct(backlog)'
    <3>1. Len(backlog) \in Nat
      BY <1>0
    <3> SUFFICES ASSUME NEW i \in 1 .. Len(backlog'), NEW j \in 1 .. Len(backlog'),
                        backlog'[i] = backlog'[j]
                 PROVE  i = j
      BY DEF Distinct
    <3>2. /\ i + 1 \in 1 .. Len(backlog) /\ j + 1 \in 1 .. Len(backlog)
          /\ backlog[i + 1] = backlog[j + 1]
      BY <2>1
    <3>3. Distinct(backlog)
      BY <1>0
    <3>4. i + 1 = j + 1
      BY <3>2, <3>3 DEF Distinct
    <3> QED
      BY <2>1, <3>1, <3>4
  <2>9. \A i \in 1 .. Len(msgs) : \A j \in 1 .. Len(backlog') : msgs[i] # backlog'[j]
    BY <1>0, <2>1
  <2>10. \A i \in 1 .. Len(msgs) : rpc'[msgs[i]] # "new" /\ got'[msgs[i]] = None
    BY <1>0, <2>3, <2>4, <2>6
  <2>11. \A i \in 1 .. Len(backlog') : rpc'[backlog'[i]] # "new" /\ got'[backlog'[i]] = None
    <3>1. \A i \in 1 .. Len(backlog') :
            backlog'[i] \in Reqs /\ rpc[backlog'[i]] # "new" /\ got[backlog'[i]] = None
      BY <1>0, <2>1
    <3> QED
      BY <2>3, <2>4, <2>5, <3>1
  <2>12. \A q \in Reqs : rpc'[q] = "new" => got'[q] = None
    BY <2>3, <2>4, <2>7
  <2> QED
    BY <2>2, <2>8, <2>9, <2>10, <2>11, <2>12
<1>4. CASE OpenStream
  <2>1. /\ Len(msgs') = Len(msgs) - 1 /\ Len(msgs) > 0 /\ Head(msgs) = msgs[1]
        /\ \A i \in 1 .. Len(msgs') : msgs'[i] = msgs[i + 1] /\ i + 1 \in 1 .. Len(msgs)
    BY <1>0, <1>4, TailFacts DEF OpenStream
  <2>2. /\ Len(backlog') = Len(backlog) + 1 /\ backlog'[Len(backlog) + 1] = msgs[1]
        /\ \A i \in 1 .. Len(backlog) : backlog'[i] = backlog[i]
    BY <1>0, <1>4, <2>1, AppendFacts DEF OpenStream
  <2>3. UNCHANGED <<rpc, got>>
    BY <1>4 DEF OpenStream, serverVars
  <2>4. Distinct(msgs)'
    BY <1>0, <2>1
  <2>5. Distinct(backlog)'
    BY <1>0, <2>1, <2>2
  <2>6. \A i \in 1 .. Len(msgs') : \A j \in 1 .. Len(backlog') : msgs'[i] # backlog'[j]
    BY <1>0, <2>1, <2>2
  <2>7. \A i \in 1 .. Len(msgs') : rpc[msgs'[i]] # "new" /\ got[msgs'[i]] = None
    BY <1>0, <2>1
  <2>8. \A i \in 1 .. Len(backlog') : rpc[backlog'[i]] # "new" /\ got[backlog'[i]] = None
    BY <1>0, <2>1, <2>2
  <2> QED
    BY <2>3, <2>4, <2>5, <2>6, <2>7, <2>8
<1>5. CASE SessionEnds
  BY <1>0, <1>5 DEF SessionEnds, serverVars
<1>6. CASE Settled
  <2>1. \A q \in Reqs : rpc'[q] = "new" => rpc[q] = "new"
    BY <1>6 DEF Settled
  <2> QED
    BY <1>0, <1>6, <2>1 DEF Settled
<1>7. CASE OpenFails
  <2>1. /\ Len(msgs') = Len(msgs) - 1 /\ Len(msgs) > 0
        /\ \A i \in 1 .. Len(msgs') : msgs'[i] = msgs[i + 1] /\ i + 1 \in 1 .. Len(msgs)
    BY <1>0, <1>7, TailFacts DEF OpenFails
  <2>2. UNCHANGED <<rpc, got, backlog>>
    BY <1>7 DEF OpenFails, serverVars
  <2>3. Distinct(msgs)'
    BY <1>0, <2>1
  <2>4. \A i \in 1 .. Len(msgs') : \A j \in 1 .. Len(backlog) : msgs'[i] # backlog[j]
    BY <1>0, <2>1
  <2>5. \A i \in 1 .. Len(msgs') : rpc[msgs'[i]] # "new" /\ got[msgs'[i]] = None
    BY <1>0, <2>1
  <2> QED
    BY <2>2, <2>3, <2>4, <2>5
<1> QED
  BY <1>1, <1>2, <1>3, <1>4, <1>5, <1>6, <1>7, SettledSteps
  DEF Next, GoroutineStep, AcceptStep

\* What is read from a stream answers what was written on it, and a handler reads
\* only from the stream that it wrote on.
LEMMA CarriesStep ==
  ASSUME StreamInv, Next
  PROVE  StreamCarries' /\ AnswersItsRequest'
<1> DEFINE Kept == StreamCarries' /\ AnswersItsRequest'
<1> USE ReqsAssumption DEF StreamInv, StreamCarries, AnswersItsRequest
<1>0. /\ rpc \in [Reqs -> HandlerPC] /\ got \in [Reqs -> Reqs \union {None}]
      /\ held \in [Reqs -> Reqs \union {None}] /\ ans \in [Reqs -> Reqs \union {None}]
      /\ reply \in [Reqs -> Reqs \union {None}]
      /\ msgs \in Seq(Reqs) /\ backlog \in Seq(Reqs)
  BY DEF StreamsTypeOK
<1>1. ASSUME NEW r \in Reqs, DialSend(r) \/ DialSendFails(r) \/ DialTimesOut(r) \/ AcceptFails(r)
      PROVE  Kept
  <2>1. UNCHANGED <<held, got, ans, reply>>
    BY <1>1 DEF DialSend, DialSendFails, DialTimesOut, AcceptFails, clientVars
  <2>2. \A q \in Reqs : rpc'[q] = "read" => rpc[q] = "read"
    BY <1>0, <1>1 DEF DialSend, DialSendFails, DialTimesOut, AcceptFails, At, Goto
  <2> QED
    BY <2>1, <2>2
<1>2. ASSUME NEW r \in Reqs, Accept(r)
      PROVE  Kept
  <2> DEFINE s == Head(backlog)
  <2>1. s \in Reqs /\ got[s] = None
    <3>1. Len(backlog) \in Nat \ {0} /\ s = backlog[1] /\ s \in Reqs
      BY <1>0, <1>2, TailFacts DEF Accept
    <3> QED
      BY <3>1 DEF StreamsUnused
  <2>2. /\ UNCHANGED <<ans, reply>> /\ held' = [held EXCEPT ![r] = s]
        /\ \/ rpc' = [rpc EXCEPT ![r] = "read"] /\ got' = [got EXCEPT ![s] = r]
           \/ rpc[r] # "accept" /\ UNCHANGED <<rpc, got>>
    BY <1>2 DEF Accept, At, Goto, clientVars
  <2>3. rpc[r] # "read"
    BY <1>2 DEF Accept, WaitingIsAsked
  <2>4. ans[s] = None
    BY <2>1
  <2>5. CASE rpc' = [rpc EXCEPT ![r] = "read"] /\ got' = [got EXCEPT ![s] = r]
    <3>1. \A q \in Reqs : rpc'[q] = "read" => held'[q] \in Reqs /\ got'[held'[q]] = q
      BY <1>0, <2>1, <2>2, <2>5
    <3>2. \A q \in Reqs : ans'[q] \in {got'[q], None}
      BY <1>0, <2>1, <2>2, <2>4, <2>5
    <3> QED
      BY <2>2, <3>1, <3>2
  <2>6. CASE UNCHANGED <<rpc, got>>
    BY <1>0, <2>2, <2>3, <2>6
  <2> QED
    BY <2>2, <2>5, <2>6
<1>3. ASSUME NEW r \in Reqs, HandlerStep(r)
      PROVE  Kept
  <2>1. /\ UNCHANGED <<held, got, ans>>
        /\ \/ UNCHANGED reply
           \/ rpc[r] = "read" /\ reply' = [reply EXCEPT ![r] = ans[held[r]]]
    BY <1>3 DEF HandlerStep, StreamFails, RelayResponse, RelayUpgrade, RelayUpgradeFails,
       RelayFramesFail, UpgradeAnswered, ServerJoined, At, clientVars
  <2>2. \A q \in Reqs : rpc'[q] = "read" => rpc[q] = "read"
    BY <1>0, <1>3 DEF HandlerStep, StreamFails, RelayResponse, RelayUpgrade, RelayUpgradeFails,
       RelayFramesFail, UpgradeAnswered, ServerJoined, At, Goto
  <2>3. rpc[r] = "read" => ans[held[r]] \in {r, None}
    OBVIOUS
  <2> QED
    BY <1>0, <2>1, <2>2, <2>3
<1>4. ASSUME NEW s \in Reqs, ProxyStep(s)
      PROVE  Kept
  <2>1. UNCHANGED <<rpc, held, reply, got>> /\ (UNCHANGED ans \/ ans' = [ans EXCEPT ![s] = got[s]])
    BY <1>4 DEF ProxyStep, ReadRequestFails, HTTPProxy, WSProxy, WSProxyFails, TargetResponds,
       ClientJoined, Write, serverVars
  <2> QED
    BY <1>0, <2>1
<1>5. CASE OpenStream \/ OpenFails \/ SessionEnds
  <2>1. UNCHANGED <<rpc, held, reply, got, ans>>
    BY <1>5 DEF OpenStream, OpenFails, SessionEnds, serverVars, clientVars
  <2> QED
    BY <2>1
<1>6. ASSUME (\E t \in copying : Transfer(t[1], t[2])) \/ \E end \in Ends : HangUp(end)
      PROVE  Kept
  <2>1. UNCHANGED <<rpc, held, reply, got, ans>>
    BY <1>6 DEF Transfer, HangUp, serverVars, clientVars
  <2> QED
    BY <2>1
<1> QED
  BY <1>1, <1>2, <1>3, <1>4, <1>5, <1>6 DEF Next, GoroutineStep, AcceptStep

-----------------------------------------------------------------------------
(* Websockets.                                                              *)

\* No step but a hijack gives a caller a connection, and there are none here: neither
\* end of the caller's connection is ever opened again.
LEMMA PublicStaysClosed ==
  ASSUME Next, NEW r \in Reqs, NEW end \in {Public(r), Caller(r)}, end \notin open
  PROVE  end \notin open'
<1> USE DEF Public, Caller
<1>1. ASSUME NEW q \in Reqs, HandlerStep(q)
      PROVE  end \notin open'
  BY <1>1 DEF HandlerStep, StreamFails, RelayResponse, RelayUpgrade, RelayUpgradeFails,
     RelayFramesFail, UpgradeAnswered, ServerJoined
<1>2. ASSUME NEW q \in Reqs, Accept(q) \/ AcceptFails(q) \/ DialSend(q) \/ DialSendFails(q) \/ DialTimesOut(q)
      PROVE  end \notin open'
  BY <1>2 DEF Accept, AcceptFails, DialSend, DialSendFails, DialTimesOut
<1>3. CASE OpenStream \/ OpenFails
  BY <1>3 DEF OpenStream, OpenFails, Server, Client
<1>4. ASSUME NEW s \in Reqs, ProxyStep(s)
      PROVE  end \notin open'
  BY <1>4 DEF ProxyStep, ReadRequestFails, HTTPProxy, WSProxy, WSProxyFails, TargetResponds,
     ClientJoined, Local, Target
<1>5. ASSUME (\E t \in copying : Transfer(t[1], t[2])) \/ (\E e \in Ends : HangUp(e)) \/ SessionEnds
      PROVE  end \notin open'
  BY <1>5 DEF Transfer, HangUp, SessionEnds
<1> QED
  BY <1>1, <1>2, <1>3, <1>4, <1>5 DEF Next, GoroutineStep, AcceptStep

\* A transfer of joinStreams that ends closes the caller's connection, so it is
\* closed when handleWSConn returns, if the caller has not left before.
LEMMA JoinedStep ==
  ASSUME StreamInv, Next
  PROVE  JoinedIsCopied' /\ AnsweredIsClosed'
<1> DEFINE Kept == JoinedIsCopied' /\ AnsweredIsClosed'
<1> USE ReqsAssumption DEF StreamInv, JoinedIsCopied, AnsweredIsClosed, At
<1>a. \A q \in Reqs : Public(q) \notin open => Public(q) \notin open'
  BY PublicStaysClosed
<1>b. \A q \in Reqs : {Public(q), Caller(q)} \ open # {} => {Public(q), Caller(q)} \ open' # {}
  BY PublicStaysClosed
<1>0. /\ rpc \in [Reqs -> HandlerPC] /\ held \in [Reqs -> Reqs \union {None}]
      /\ reply \in [Reqs -> Reqs \union {None}]
  BY DEF StreamsTypeOK
<1>1. ASSUME NEW r \in Reqs, DialSend(r) \/ DialSendFails(r) \/ DialTimesOut(r) \/ AcceptFails(r)
      PROVE  Kept
  <2>1. UNCHANGED <<held, reply, open, copying>>
    BY <1>1 DEF DialSend, DialSendFails, DialTimesOut, AcceptFails
  <2>2. \A q \in Reqs :
          \/ rpc'[q] = rpc[q]
          \/ rpc[q] \in {"new", "accept"} /\ rpc'[q] \in {"accept", "timedOut", "done"}
    BY <1>0, <1>1 DEF DialSend, DialSendFails, DialTimesOut, AcceptFails, Goto
  <2> QED
    BY <2>1, <2>2 DEF Public, Caller, Server
<1>2. ASSUME NEW r \in Reqs, Accept(r)
      PROVE  Kept
  <2>1. UNCHANGED <<reply, open, copying>> /\ \A q \in Reqs \ {r} : held'[q] = held[q] /\ rpc'[q] = rpc[q]
    BY <1>0, <1>2 DEF Accept, Goto
  <2>2. rpc[r] \in {"accept", "timedOut"} /\ rpc'[r] \in {"read", "timedOut"}
    BY <1>0, <1>2 DEF Accept, Goto, WaitingIsAsked
  <2> QED
    BY <2>1, <2>2 DEF Public, Caller, Server
<1>3. ASSUME NEW r \in Reqs,
             StreamFails(r) \/ RelayResponse(r) \/ RelayUpgradeFails(r) \/ RelayFramesFail(r)
      PROVE  Kept
  <2>1. /\ UNCHANGED <<held, copying>> /\ rpc[r] = "read" /\ rpc' = [rpc EXCEPT ![r] = "done"]
        /\ \A q \in Reqs \ {r} : reply'[q] = reply[q]
    BY <1>0, <1>3 DEF StreamFails, RelayResponse, RelayUpgradeFails, RelayFramesFail,
       UpgradeAnswered, Goto
  <2>2. r \in Upgrades => reply'[r] = None \/ Caller(r) \notin open
    BY <1>0, <1>3, <2>1 DEF StreamFails, RelayResponse, RelayUpgradeFails, RelayFramesFail,
       UpgradeAnswered
  <2>3. JoinedIsCopied'
    BY <1>a, <1>0, <2>1 DEF Public, Server
  <2>4. r \in Upgrades /\ reply'[r] # None => {Public(r), Caller(r)} \ open' # {}
    BY <1>b, <2>2
  <2>5. \A q \in Reqs \ {r} : rpc'[q] = rpc[q]
    BY <1>0, <2>1
  <2>6. ASSUME NEW q \in Upgrades, rpc'[q] = "done", reply'[q] # None
        PROVE  {Public(q), Caller(q)} \ open' # {}
    <3>1. CASE q = r
      BY <2>4, <2>6, <3>1
    <3>2. CASE q # r
      BY <1>b, <2>1, <2>5, <2>6, <3>2
    <3> QED
      BY <3>1, <3>2
  <2>7. AnsweredIsClosed'
    BY <2>6 DEF Public, Caller
  <2> QED
    BY <2>3, <2>7
<1>4. ASSUME NEW r \in Reqs, RelayUpgrade(r)
      PROVE  Kept
  <2>1. /\ UNCHANGED <<held, open>> /\ rpc[r] = "read" /\ rpc' = [rpc EXCEPT ![r] = "join"]
        /\ copying' = copying \union Transfers(Public(r), Server(held[r]))
        /\ \A q \in Reqs \ {r} : reply'[q] = reply[q]
    BY <1>0, <1>4 DEF RelayUpgrade, UpgradeAnswered, Goto
  <2> QED
    BY <1>0, <2>1 DEF Public, Caller, Server
<1>5. ASSUME NEW r \in Reqs, ServerJoined(r)
      PROVE  Kept
  <2>1. /\ UNCHANGED <<held, open, copying, reply>> /\ rpc[r] = "join" /\ rpc' = [rpc EXCEPT ![r] = "done"]
        /\ Transfers(Public(r), Server(held[r])) \intersect copying = {}
    BY <1>5 DEF ServerJoined, Goto
  <2>2. Public(r) \notin open
    BY <2>1 DEF Transfers
  <2> QED
    BY <1>0, <2>1, <2>2 DEF Public, Caller, Server
<1>6. ASSUME NEW t \in copying, Transfer(t[1], t[2])
      PROVE  Kept
  <2>1. /\ UNCHANGED <<rpc, held, reply>>
        /\ copying' = copying \ {<<t[1], t[2]>>} /\ open' = open \ {t[1], t[2]}
    BY <1>6 DEF Transfer, serverVars
  <2>2. ASSUME NEW r \in Reqs, rpc[r] = "join", Public(r) \in open'
        PROVE  Transfers(Public(r), Server(held[r])) \subseteq copying'
    <3>1. Transfers(Public(r), Server(held[r])) \subseteq copying
      BY <1>a, <2>2
    <3>2. <<t[1], t[2]>> \notin Transfers(Public(r), Server(held[r]))
      BY <2>1, <2>2 DEF Transfers
    <3> QED
      BY <2>1, <3>1, <3>2
  <2>3. JoinedIsCopied'
    BY <2>1, <2>2 DEF Public, Server
  <2>4. AnsweredIsClosed'
    BY <1>b, <2>1 DEF Public, Caller
  <2> QED
    BY <2>3, <2>4
<1>7. ASSUME OpenStream \/ OpenFails \/ SessionEnds \/ (\E s \in Reqs : ProxyStep(s)) \/ (\E end \in Ends : HangUp(end))
      PROVE  Kept
  <2>1. UNCHANGED <<rpc, held, reply>> /\ copying \subseteq copying'
    BY <1>7 DEF OpenStream, OpenFails, SessionEnds, ProxyStep, ReadRequestFails, HTTPProxy, WSProxy,
       WSProxyFails, TargetResponds, ClientJoined, HangUp, serverVars
  <2>2. JoinedIsCopied'
    BY <1>a, <2>1 DEF Public, Server
  <2>3. AnsweredIsClosed'
    BY <1>b, <2>1 DEF Public, Caller
  <2> QED
    BY <2>2, <2>3
<1> QED
  BY <1>1, <1>2, <1>3, <1>4, <1>5, <1>6, <1>7 DEF Next, GoroutineStep, AcceptStep, HandlerStep

-----------------------------------------------------------------------------
\* The invariant holds for a new session.
LEMMA StreamInit == Init => StreamInv
<1> SUFFICES ASSUME Init
             PROVE  StreamInv
  OBVIOUS
<1>1. StreamsTypeOK
  <2>1. << >> \in Seq(Reqs) /\ IsFiniteSet({}) /\ {} \subseteq Reqs
    BY FS_EmptySet
  <2>2. up \in BOOLEAN
    BY Zenon DEF Init
  <2> QED
    BY <2>1, <2>2 DEF Init, StreamsTypeOK, HandlerPC, ProxyPC
<1>2. WaitingIsAsked /\ AStreamForEveryone
  BY FS_EmptySet DEF Init, WaitingIsAsked, AStreamForEveryone
<1>3. StreamsUnused /\ StreamCarries /\ AnswersItsRequest
  BY DEF Init, StreamsUnused, Distinct, StreamCarries, AnswersItsRequest
<1>4. JoinedIsCopied /\ AnsweredIsClosed
  BY ReqsAssumption DEF Init, JoinedIsCopied, AnsweredIsClosed, At
<1> QED
  BY <1>1, <1>2, <1>3, <1>4 DEF StreamInv

\* StreamInv is an invariant of the tunnel.
THEOREM StreamInvariance == Spec => []StreamInv
<1>1. StreamInv /\ [Next]_vars => StreamInv'
  <2> SUFFICES ASSUME StreamInv, [Next]_vars
               PROVE  StreamInv'
    OBVIOUS
  <2>1. CASE Next
    <3>1. StreamsTypeOK'
      BY <2>1, StreamsTypeStep DEF StreamInv
    <3> QED
      BY <2>1, <3>1, CountStep, UnusedStep, CarriesStep, JoinedStep DEF StreamInv
  <2>2. CASE UNCHANGED vars
    <3>1. StreamsTypeOK'
      BY <2>2, Zenon DEF vars, serverVars, clientVars, StreamInv, StreamsTypeOK
    <3> QED
      BY <2>2, <3>1 DEF vars, serverVars, clientVars, StreamInv, WaitingIsAsked, AStreamForEveryone,
         StreamsUnused, Distinct, StreamCarries, AnswersItsRequest, JoinedIsCopied, AnsweredIsClosed,
         Public, Caller, Server, Transfers, At
  <2> QED
    BY <2>1, <2>2
<1> QED
  BY <1>1, StreamInit, PTL DEF Spec

\* While the session is up there are as many goroutines in Accept as streams to come,
\* and one more once the client's Open has failed: requests that give up neither take
\* a stream from the later ones nor hand them a stale one.
THEOREM EveryoneGetsAStream == Spec => []AStreamForEveryone
<1>1. StreamInv => AStreamForEveryone
  BY DEF StreamInv
<1> QED
  BY <1>1, StreamInvariance, PTL

\* A caller is only ever given the answer to his own request.
THEOREM ResponsesNotCrossed == Spec => []AnswersItsRequest
<1>1. StreamInv => AnswersItsRequest
  BY DEF StreamInv
<1> QED
  BY <1>1, StreamInvariance, PTL

\* When handleWSConn returns after it answered, the caller's connection is closed, by
\* joinStreams or because the caller has left.
THEOREM WebsocketsClosed == Spec => []AnsweredIsClosed
<1>1. StreamInv => AnsweredIsClosed
  BY DEF StreamInv
<1> QED
  BY <1>1, StreamInvariance, PTL
=============================================================================
