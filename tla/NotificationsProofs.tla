------------------------- MODULE NotificationsProofs ------------------------
(* Proofs about the callbacks and the state channel, for every set of        *)
(* functions, clients and connections and every capacity of the channel.     *)
EXTENDS Notifications, TunnelServerProofs

-----------------------------------------------------------------------------
(* The server with its notifications is still the server: every step is one *)
(* of TunnelServer's or invisible to it.                                    *)

\* A step with the notifications is a step of the server or leaves it alone.
LEMMA ServerStepOrNone ==
  ASSUME [NNext]_nvars
  PROVE  [Next]_vars
<1>1. ASSUME NEW c \in Conns, NServerStep(c)
      PROVE  [Next]_vars
  <2>1. CASE Pop(c) \/ Run(c)
    BY <2>1 DEF Pop, Run
  <2>2. CASE Report(c) \/ OtherStep(c)
    BY <2>2 DEF Report, OtherStep, ServerStep, Next
  <2> QED
    BY <1>1, <2>1, <2>2 DEF NServerStep
<1>2. ASSUME NEW c \in Conns,
             Drop(c) \/ ControlBroken(c) \/ \E req \in ControlRequests : RejectRequest(c, req) \/ AdmitRequest(c, req)
      PROVE  [Next]_vars
  BY <1>2 DEF Next
<1>3. ASSUME NEW kind \in Kinds, NEW id \in Ids, NEW f \in Callbacks, add(kind, id, f)
      PROVE  [Next]_vars
  BY <1>3 DEF add
<1>4. CASE Receive
  BY <1>4 DEF Receive
<1>5. CASE UNCHANGED nvars
  BY <1>5 DEF nvars
<1> QED
  BY <1>1, <1>2, <1>3, <1>4, <1>5 DEF NNext

\* Telling the embedding program changes nothing in what the server does: whatever
\* is proved of TunnelServer holds with callbacks and state channel as well.
THEOREM NotificationsImplementServer == NSpec => Spec
<1>1. NInit => Init
  BY DEF NInit
<1>2. [NNext]_nvars => [Next]_vars
  BY ServerStepOrNone
<1> QED
  BY <1>1, <1>2, PTL DEF NSpec, Spec

-----------------------------------------------------------------------------
(* Callbacks.                                                               *)

Change == [identifier : Ids, previous : ClientState, current : ClientState]

\* The types of the notifications' state.
NotifTypeOK ==
    /\ funcs \in [Kinds -> [Ids -> Callbacks \union {None}]]
    /\ fresh \subseteq Callbacks
    /\ fn \in [Conns -> Callbacks \union {"none", "done"}]
    /\ runs \in [Callbacks -> Nat]
    /\ stateCh \in Seq(Change)
    /\ last \in [Ids -> ClientState \union {"gap"}]

\* A function is in one place only: not yet registered, registered once, taken by
\* one process, or it has run.
OnePlace ==
    \A f \in Callbacks :
        /\ f \in fresh =>
             /\ \A kind \in Kinds, id \in Ids : funcs[kind][id] # f
             /\ \A c \in Conns : fn[c] # f
             /\ runs[f] = 0
        /\ \A kind \in Kinds, id \in Ids : funcs[kind][id] = f =>
             /\ \A k \in Kinds, i \in Ids : funcs[k][i] = f => k = kind /\ i = id
             /\ \A c \in Conns : fn[c] # f
             /\ runs[f] = 0
        /\ \A c \in Conns : fn[c] = f =>
             /\ \A d \in Conns : fn[d] = f => d = c
             /\ runs[f] = 0
        /\ runs[f] <= 1

\* The inductive invariant of the notifications.
NotifInv == Inv /\ NotifTypeOK /\ OnePlace /\ ChangesAreGapless

\* A step that leaves the registries and the processes' functions alone.
LEMMA CallbacksUnchanged ==
  ASSUME NotifInv, UNCHANGED <<funcs, fresh, fn, runs>>
  PROVE  OnePlace'
BY DEF NotifInv, OnePlace

\* Registering a function moves it from the fresh ones to one registry, and the one
\* it replaces back.
LEMMA AddKeeps ==
  ASSUME NotifInv, NEW kind \in Kinds, NEW id \in Ids, NEW f \in Callbacks, add(kind, id, f)
  PROVE  OnePlace'
<1> USE DEF NotifInv, NotifTypeOK
<1>1. \A k \in Kinds, i \in Ids : funcs'[k][i] = IF k = kind /\ i = id THEN f ELSE funcs[k][i]
  BY DEF add
<1>2. /\ f \in fresh /\ UNCHANGED <<fn, runs>>
      /\ \A g \in fresh' : (g \in fresh /\ g # f) \/ (g = funcs[kind][id] /\ g # None)
  BY DEF add
<1>3. \A g \in fresh' : g # f
  BY <1>2 DEF OnePlace
<1>4. \A g \in Callbacks : g \in fresh' =>
         /\ \A k \in Kinds, i \in Ids : funcs'[k][i] # g
         /\ \A c \in Conns : fn'[c] # g
         /\ runs'[g] = 0
  BY <1>1, <1>2, <1>3 DEF OnePlace
<1> QED
  BY <1>1, <1>2, <1>4 DEF OnePlace

\* call takes a function out of its registry under the registry's lock.
LEMMA PopKeeps ==
  ASSUME NotifInv, NEW c \in Conns, Pop(c)
  PROVE  OnePlace' /\ fn' \in [Conns -> Callbacks \union {"none", "done"}]
         /\ funcs' \in [Kinds -> [Ids -> Callbacks \union {None}]]
<1> USE CallbacksAssumption DEF NotifInv, NotifTypeOK
<1>1. PICK kind \in Kinds : pop(kind, c)
  BY DEF Pop, Reports, Kinds
<1>2. cid[c] \in Ids
  BY DEF Pop, Reports, At, Inv, TypeOK, Identified
<1>3. /\ fn[c] = "none" /\ UNCHANGED <<fresh, runs>>
      /\ fn' = [fn EXCEPT ![c] = IF funcs[kind][cid[c]] = None THEN "done" ELSE funcs[kind][cid[c]]]
      /\ funcs' = [funcs EXCEPT ![kind][cid[c]] = None]
  BY <1>1 DEF Pop, pop
<1>4. \A k \in Kinds, i \in Ids :
         funcs'[k][i] = IF k = kind /\ i = cid[c] THEN None ELSE funcs[k][i]
  BY <1>2, <1>3
<1>5. \A d \in Conns :
         fn'[d] = IF d # c THEN fn[d]
                  ELSE IF funcs[kind][cid[c]] = None THEN "done" ELSE funcs[kind][cid[c]]
  BY <1>3
<1>6. funcs[kind][cid[c]] \in Callbacks \union {None}
  BY <1>2
<1>7. OnePlace'
  BY <1>2, <1>3, <1>4, <1>5, <1>6 DEF OnePlace
<1> QED
  BY <1>2, <1>3, <1>6, <1>7

\* The function that was taken runs, once.
LEMMA RunKeeps ==
  ASSUME NotifInv, NEW c \in Conns, Run(c)
  PROVE  OnePlace'
<1> USE CallbacksAssumption DEF NotifInv, NotifTypeOK
<1>1. /\ fn[c] \in Callbacks /\ UNCHANGED <<funcs, fresh>>
      /\ runs' = [runs EXCEPT ![fn[c]] = runs[fn[c]] + 1]
      /\ fn' = [fn EXCEPT ![c] = "done"]
  BY DEF Run
<1>0. runs[fn[c]] = 0
  BY <1>1 DEF OnePlace
<1>2. /\ fn[c] \notin fresh
      /\ \A kind \in Kinds, id \in Ids : funcs[kind][id] # fn[c]
      /\ \A d \in Conns : d # c => fn[d] # fn[c]
  BY <1>1 DEF OnePlace
<1>3. \A f \in Callbacks : runs'[f] = IF f = fn[c] THEN 1 ELSE runs[f]
  BY <1>0, <1>1
<1>4. \A d \in Conns : fn'[d] = IF d = c THEN "done" ELSE fn[d]
  BY <1>1
<1> QED
  BY <1>1, <1>2, <1>3, <1>4 DEF OnePlace

\* After the report the process can take the next function.
LEMMA ReportKeeps ==
  ASSUME NotifInv, NEW c \in Conns, Report(c)
  PROVE  OnePlace'
<1> USE CallbacksAssumption DEF NotifInv, NotifTypeOK
<1>1. UNCHANGED <<funcs, fresh, runs>> /\ fn' = [fn EXCEPT ![c] = "none"]
  BY DEF Report
<1> QED
  BY <1>1 DEF OnePlace

-----------------------------------------------------------------------------
(* The state channel.                                                       *)

\* What is known after n changes depends on those n only.
LEMMA KnownSame ==
  ASSUME NEW ch, NEW new, NEW known, NEW id, NEW n \in Nat, NEW state,
         \A i \in 1 .. n : new[i] = ch[i], KnownAfter(known, ch, id, n, state)
  PROVE  KnownAfter(known, new, id, n, state)
<1>1. \A i \in 1 .. n : \A j \in i + 1 .. n : j \in 1 .. n
  OBVIOUS
<1> QED
  BY <1>1 DEF KnownAfter

\* A change of somebody else adds nothing, ...
LEMMA KnownOther ==
  ASSUME NEW ch, NEW known, NEW id, NEW n \in Nat, NEW state,
         ch[n + 1].identifier # id, KnownAfter(known, ch, id, n, state)
  PROVE  KnownAfter(known, ch, id, n + 1, state)
<1>1. \A j \in 1 .. n + 1 : j \in 1 .. n \/ j = n + 1
  OBVIOUS
<1>2. \A i \in 1 .. n : i \in 1 .. n + 1 /\ \A j \in i + 1 .. n + 1 : j \in i + 1 .. n \/ j = n + 1
  OBVIOUS
<1> QED
  BY <1>1, <1>2 DEF KnownAfter

\* ... and one of the client itself is all that counts.
LEMMA KnownLast ==
  ASSUME NEW ch, NEW known, NEW id, NEW n \in Nat, ch[n + 1].identifier = id
  PROVE  KnownAfter(known, ch, id, n + 1, ch[n + 1].current)
<1>1. n + 1 \in 1 .. n + 1 /\ \A j \in (n + 1) + 1 .. n + 1 : FALSE
  OBVIOUS
<1> QED
  BY <1>1 DEF KnownAfter

\* Reading the first change ahead makes no difference.
LEMMA KnownShift ==
  ASSUME NEW ch, NEW new, NEW known, NEW id, NEW n \in Nat, NEW state,
         \A i \in 1 .. n : new[i] = ch[i + 1], KnownAfter(known, ch, id, n + 1, state)
  PROVE  KnownAfter(IF ch[1].identifier = id THEN ch[1].current ELSE known, new, id, n, state)
<1> DEFINE k == IF ch[1].identifier = id THEN ch[1].current ELSE known
<1> SUFFICES KnownAfter(k, new, id, n, state)
  OBVIOUS
<1>0. 1 \in 1 .. n + 1 /\ \A i \in 1 .. n : i + 1 \in 1 .. n + 1
  OBVIOUS
<1>1. CASE state = known /\ \A i \in 1 .. n + 1 : ch[i].identifier # id
  BY <1>0, <1>1 DEF KnownAfter
<1>2. ASSUME NEW m \in 1 .. n + 1, ch[m].identifier = id, ch[m].current = state,
             \A j \in m + 1 .. n + 1 : ch[j].identifier # id
      PROVE  KnownAfter(k, new, id, n, state)
  <2>1. CASE m = 1
    <3>1. k = state
      BY <1>2, <2>1
    <3>2. \A i \in 1 .. n : i + 1 \in m + 1 .. n + 1
      BY <2>1
    <3>3. \A i \in 1 .. n : new[i].identifier # id
      BY <1>2, <3>2
    <3> QED
      BY <3>1, <3>3 DEF KnownAfter
  <2>2. CASE m # 1
    <3>1. m - 1 \in 1 .. n /\ (m - 1) + 1 = m
      BY <1>2, <2>2
    <3>2. new[m - 1] = ch[m]
      BY <3>1
    <3>3. \A j \in (m - 1) + 1 .. n : j \in 1 .. n /\ j + 1 \in m + 1 .. n + 1
      BY <1>2
    <3>4. \A j \in (m - 1) + 1 .. n : new[j].identifier # id
      BY <1>2, <3>3
    <3> QED
      BY <1>2, <3>1, <3>2, <3>4 DEF KnownAfter
  <2> QED
    BY <2>1, <2>2
<1> QED
  BY <1>1, <1>2 DEF KnownAfter

\* A step that changes neither the channel nor what its reader knows, and no state.
LEMMA ChannelUnchanged ==
  ASSUME NotifInv, UNCHANGED <<stateCh, last, states>>
  PROVE  ChangesAreGapless'
BY DEF NotifInv, ChangesAreGapless

\* A report appends the change from the state before to the state after, or is
\* dropped and leaves a gap for its client.
LEMMA SendKeeps ==
  ASSUME NotifInv, NEW id \in Ids, NEW state \in ClientState, send(id),
         states' = [states EXCEPT ![id] = state]
  PROVE  /\ stateCh' \in Seq(Change)
         /\ last' \in [Ids -> ClientState \union {"gap"}]
         /\ ChangesAreGapless'
<1> USE DEF NotifInv, NotifTypeOK
<1>0. /\ states[id] \in ClientState /\ states'[id] = state
      /\ \A i \in Ids \ {id} : states'[i] = states[i]
      /\ Len(stateCh) \in Nat
  BY DEF Inv, TypeOK
<1>1. CASE Len(stateCh) < ChanSize
  <2> DEFINE n == Len(stateCh)
             change == [identifier |-> id, previous |-> states[id], current |-> states'[id]]
  <2>1. stateCh' = Append(stateCh, change) /\ last' = last
    BY <1>1 DEF send
  <2>2. change \in Change
    BY <1>0 DEF Change
  <2>3. /\ n \in Nat /\ stateCh' \in Seq(Change)
        /\ Len(stateCh') = n + 1 /\ stateCh'[n + 1] = change
        /\ \A i \in 1 .. n : stateCh'[i] = stateCh[i]
    BY <1>0, <2>1, <2>2
  <2>4. change.identifier = id /\ change.previous = states[id] /\ change.current = states'[id]
    OBVIOUS
  <2>5. ASSUME NEW i \in Ids, last[i] # "gap", NEW k \in Nat, k <= n, NEW s,
               KnownAfter(last[i], stateCh, i, k, s)
        PROVE  KnownAfter(last[i], stateCh', i, k, s)
    <3>1. \A j \in 1 .. k : stateCh'[j] = stateCh[j]
      BY <2>3, <2>5
    <3> QED
      BY <2>5, <3>1, KnownSame
  <2> HIDE DEF n, change
  <2>6. ASSUME NEW i \in Ids, last[i] # "gap"
        PROVE  /\ \A k \in 1 .. n : stateCh[k].identifier = i =>
                    KnownAfter(last[i], stateCh, i, k - 1, stateCh[k].previous)
               /\ KnownAfter(last[i], stateCh, i, n, states[i])
    BY <2>6 DEF ChangesAreGapless, n
  <2>7. ASSUME NEW i \in Ids, last[i] # "gap", NEW k \in 1 .. n + 1, stateCh'[k].identifier = i
        PROVE  KnownAfter(last[i], stateCh', i, k - 1, stateCh'[k].previous)
    <3>1. CASE k \in 1 .. n
      <4>1. KnownAfter(last[i], stateCh, i, k - 1, stateCh'[k].previous)
        BY <2>3, <2>6, <2>7, <3>1
      <4>2. k - 1 \in Nat /\ k - 1 <= n
        BY <2>3, <3>1
      <4> QED
        BY <2>5, <2>7, <4>1, <4>2
    <3>2. CASE k = n + 1
      <4>1. i = id /\ stateCh'[k].previous = states[i] /\ k - 1 = n
        BY <2>3, <2>4, <2>7, <3>2
      <4>2. KnownAfter(last[i], stateCh, i, n, states[i])
        BY <2>6, <2>7
      <4>3. n \in Nat /\ n <= n
        BY <2>3
      <4>4. KnownAfter(last[i], stateCh', i, n, states[i])
        BY <2>5, <2>7, <4>2, <4>3
      <4> QED
        BY <4>1, <4>4
    <3> QED
      BY <2>3, <2>7, <3>1, <3>2
  <2>8. ASSUME NEW i \in Ids, last[i] # "gap"
        PROVE  KnownAfter(last[i], stateCh', i, n + 1, states'[i])
    <3>1. CASE i = id
      <4>1. n \in Nat /\ stateCh'[n + 1].identifier = i /\ stateCh'[n + 1].current = states'[i]
        BY <2>3, <2>4, <3>1
      <4>2. KnownAfter(last[i], stateCh', i, n + 1, stateCh'[n + 1].current)
        BY <4>1, KnownLast
      <4> QED
        BY <4>1, <4>2
    <3>2. CASE i # id
      <4>1. states'[i] = states[i] /\ stateCh'[n + 1].identifier # i
        BY <1>0, <2>3, <2>4, <3>2
      <4>2. n \in Nat /\ n <= n
        BY <2>3
      <4>3. KnownAfter(last[i], stateCh', i, n, states[i])
        BY <2>5, <2>6, <2>8, <4>2
      <4> QED
        BY <4>1, <4>2, <4>3, KnownOther
    <3> QED
      BY <3>1, <3>2
  <2> QED
    BY <2>1, <2>3, <2>7, <2>8 DEF ChangesAreGapless
<1>2. CASE ~(Len(stateCh) < ChanSize)
  <2>1. last' = [last EXCEPT ![id] = "gap"] /\ stateCh' = stateCh
    BY <1>2 DEF send
  <2>2. \A i \in Ids : last'[i] # "gap" => i # id /\ last'[i] = last[i] /\ states'[i] = states[i]
    BY <1>0, <2>1
  <2>3. ChangesAreGapless'
    BY <2>1, <2>2 DEF ChangesAreGapless
  <2> QED
    BY <2>1, <2>3
<1> QED
  BY <1>1, <1>2

\* Reading a change moves it from the channel to what the reader knows.
LEMMA ReceiveKeeps ==
  ASSUME NotifInv, Receive
  PROVE  /\ stateCh' \in Seq(Change)
         /\ last' \in [Ids -> ClientState \union {"gap"}]
         /\ ChangesAreGapless'
<1> USE DEF NotifInv, NotifTypeOK
<1> DEFINE n == Len(stateCh) - 1
           h == stateCh[1]
<1>1. /\ n \in Nat /\ Len(stateCh) = n + 1 /\ Len(stateCh') = n /\ h \in Change
      /\ stateCh' \in Seq(Change)
      /\ \A i \in 1 .. n : stateCh'[i] = stateCh[i + 1]
      /\ last' = [last EXCEPT ![h.identifier] = IF last[h.identifier] = "gap" THEN "gap" ELSE h.current]
      /\ UNCHANGED states
  <2>1. stateCh # << >> /\ stateCh' = Tail(stateCh) /\ UNCHANGED states
    BY DEF Receive, vars
  <2>2. n \in Nat /\ Len(stateCh) = n + 1 /\ h \in Change /\ Head(stateCh) = h
    BY <2>1
  <2>3. /\ Len(stateCh') = n /\ stateCh' \in Seq(Change)
        /\ \A i \in 1 .. n : stateCh'[i] = stateCh[i + 1]
    BY <2>1, <2>2
  <2>4. h.identifier \in Ids
    BY <2>2 DEF Change
  <2>5. last' = [last EXCEPT ![h.identifier] = IF last[h.identifier] = "gap" THEN "gap" ELSE h.current]
    BY <2>2, <2>4 DEF Receive
  <2> QED
    BY <2>1, <2>2, <2>3, <2>5
<1>2. h.identifier \in Ids /\ h.current \in ClientState
  BY <1>1 DEF Change
<1>3. last' \in [Ids -> ClientState \union {"gap"}]
  BY <1>1, <1>2
<1>4. \A i \in Ids : last'[i] # "gap" =>
         last[i] # "gap" /\ last'[i] = IF stateCh[1].identifier = i THEN stateCh[1].current ELSE last[i]
  BY <1>1, <1>2
<1> HIDE DEF n, h
<1>5. ASSUME NEW i \in Ids, last'[i] # "gap", NEW k \in Nat, k <= n, NEW s,
             KnownAfter(last[i], stateCh, i, k + 1, s)
      PROVE  KnownAfter(last'[i], stateCh', i, k, s)
  <2>1. \A j \in 1 .. k : stateCh'[j] = stateCh[j + 1]
    BY <1>1, <1>5
  <2>2. KnownAfter(IF stateCh[1].identifier = i THEN stateCh[1].current ELSE last[i], stateCh', i, k, s)
    BY <1>5, <2>1, KnownShift
  <2> QED
    BY <1>4, <1>5, <2>2
<1>6. ASSUME NEW i \in Ids, last'[i] # "gap"
      PROVE  /\ \A k \in 1 .. n + 1 : stateCh[k].identifier = i =>
                  KnownAfter(last[i], stateCh, i, k - 1, stateCh[k].previous)
             /\ KnownAfter(last[i], stateCh, i, n + 1, states[i])
  BY <1>1, <1>4, <1>6 DEF ChangesAreGapless
<1>7. ASSUME NEW i \in Ids, last'[i] # "gap", NEW k \in 1 .. n, stateCh'[k].identifier = i
      PROVE  KnownAfter(last'[i], stateCh', i, k - 1, stateCh'[k].previous)
  <2>1. k + 1 \in 1 .. n + 1 /\ (k + 1) - 1 = (k - 1) + 1 /\ k - 1 \in Nat /\ k - 1 <= n
    BY <1>1
  <2>2. KnownAfter(last[i], stateCh, i, (k - 1) + 1, stateCh'[k].previous)
    BY <1>1, <1>6, <1>7, <2>1
  <2> QED
    BY <1>5, <1>7, <2>1, <2>2
<1>8. ASSUME NEW i \in Ids, last'[i] # "gap"
      PROVE  KnownAfter(last'[i], stateCh', i, n, states'[i])
  <2>1. n \in Nat /\ n <= n
    BY <1>1
  <2> QED
    BY <1>1, <1>5, <1>6, <1>8, <2>1
<1>9. ChangesAreGapless'
  BY <1>1, <1>7, <1>8 DEF ChangesAreGapless
<1> QED
  BY <1>1, <1>3, <1>9

-----------------------------------------------------------------------------
\* A report changes the state of its own client, as send expects.
LEMMA ReportChanges ==
  ASSUME Inv, NEW c \in Conns, Report(c)
  PROVE  /\ cid[c] \in Ids
         /\ \E state \in ClientState : states' = [states EXCEPT ![cid[c]] = state]
<1>1. CASE onConnect(c)
  BY <1>1 DEF onConnect, changeState, At, Inv, TypeOK, Identified, ClientState
<1>2. CASE Finish(c)
  <2>1. pc[c] = "finish" /\ (why[c] = "lost" \/ cid[c] # EmptyId)
    BY <1>2 DEF Finish, Report, Reports, At
  <2> QED
    BY <1>2, <2>1 DEF Finish, onDisconnect, changeState, At, Inv, TypeOK, Identified, ClientState
<1> QED
  BY <1>1, <1>2 DEF Report

\* No other step changes the state of a client.
LEMMA OtherKeepsStates ==
  ASSUME NEW c \in Conns, Reports(c) = {}, ServerStep(c)
  PROVE  UNCHANGED states
<1>1. ~onConnect(c)
  BY DEF onConnect, Reports, At
<1>2. CASE Finish(c)
  BY <1>2 DEF Finish, Reports, At
<1>3. CASE ~Finish(c)
  BY <1>1, <1>3 DEF ServerStep, CheckHostRegistered, CheckNoControl, HijackRefused, HijackBroken,
     StartSession, addSession, AcceptStream, Handshake, SetupFails, addControl, ListenFails, StopListening,
     deleteControl, deleteSession, deleteSessionHost
<1> QED
  BY <1>2, <1>3

\* Every step keeps the invariant of the notifications.
LEMMA NotifNext ==
  ASSUME NotifInv, [NNext]_nvars
  PROVE  NotifInv'
<1> USE DEF NotifInv
<1>1. Inv'
  BY ServerStepOrNone, InvNext
<1> DEFINE Kept == NotifTypeOK' /\ OnePlace' /\ ChangesAreGapless'
<1>2. ASSUME UNCHANGED notifVars, UNCHANGED states
      PROVE  Kept
  BY <1>2, CallbacksUnchanged, ChannelUnchanged DEF notifVars, NotifTypeOK
<1>3. ASSUME NEW kind \in Kinds, NEW id \in Ids, NEW f \in Callbacks, add(kind, id, f)
      PROVE  Kept
  <2>1. ChangesAreGapless'
    BY <1>3, ChannelUnchanged DEF add, vars
  <2>2. NotifTypeOK'
    BY <1>3 DEF add, NotifTypeOK
  <2> QED
    BY <1>3, <2>1, <2>2, AddKeeps
<1>4. CASE Receive
  <2>1. UNCHANGED <<funcs, fresh, fn, runs>>
    BY <1>4 DEF Receive
  <2>2. /\ stateCh' \in Seq(Change) /\ last' \in [Ids -> ClientState \union {"gap"}]
        /\ ChangesAreGapless'
    BY <1>4, ReceiveKeeps
  <2>3. NotifTypeOK'
    BY <2>1, <2>2 DEF NotifTypeOK
  <2> QED
    BY <1>1, <2>1, <2>2, <2>3, CallbacksUnchanged
<1>5. ASSUME NEW c \in Conns, Pop(c)
      PROVE  Kept
  <2>1. UNCHANGED <<states, fresh, runs, stateCh, last>>
    BY <1>5 DEF Pop, vars
  <2> QED
    BY <1>5, <2>1, PopKeeps, ChannelUnchanged DEF NotifTypeOK
<1>6. ASSUME NEW c \in Conns, Run(c)
      PROVE  Kept
  <2>1. UNCHANGED <<states, stateCh, last>>
    BY <1>6 DEF Run, vars
  <2>2. NotifTypeOK'
    BY <1>6 DEF Run, NotifTypeOK
  <2> QED
    BY <1>6, <2>1, <2>2, RunKeeps, ChannelUnchanged
<1>7. ASSUME NEW c \in Conns, Report(c)
      PROVE  Kept
  <2>1. /\ stateCh' \in Seq(Change) /\ last' \in [Ids -> ClientState \union {"gap"}]
        /\ ChangesAreGapless'
    BY <1>7, ReportChanges, SendKeeps DEF Report
  <2>2. NotifTypeOK'
    BY <1>7, <2>1 DEF Report, NotifTypeOK
  <2> QED
    BY <1>7, <2>1, <2>2, ReportKeeps
<1>8. ASSUME NEW c \in Conns, OtherStep(c)
      PROVE  Kept
  BY <1>2, <1>8, OtherKeepsStates DEF OtherStep
<1>9. ASSUME NEW c \in Conns, UNCHANGED notifVars, Drop(c) \/ ControlBroken(c)
      PROVE  Kept
  BY <1>2, <1>9 DEF Drop, ControlBroken, StopListening
<1>10. ASSUME NEW c \in Conns, UNCHANGED notifVars, NEW req \in ControlRequests,
              RejectRequest(c, req) \/ AdmitRequest(c, req)
       PROVE  Kept
  BY <1>2, <1>10 DEF RejectRequest, AdmitRequest
<1>11. CASE UNCHANGED nvars
  <2>1. UNCHANGED notifVars /\ UNCHANGED states
    BY <1>11 DEF nvars, vars, notifVars
  <2> QED
    BY <1>1, <1>2, <2>1
<1> QED
  BY <1>1, <1>3, <1>4, <1>5, <1>6, <1>7, <1>8, <1>9, <1>10, <1>11 DEF NNext, NServerStep

\* NotifInv is an invariant.
THEOREM NotifInvariance == NSpec => []NotifInv
<1>1. NInit => NotifInv
  <2> SUFFICES ASSUME NInit
               PROVE  NotifInv
    OBVIOUS
  <2>1. Inv
    BY InvInit DEF NInit
  <2>2. NotifTypeOK
    BY DEF NInit, NotifTypeOK, ClientState
  <2>3. OnePlace
    BY CallbacksAssumption DEF NInit, OnePlace
  <2>4. ChangesAreGapless
    <3>1. \A id \in Ids : states[id] = last[id]
      BY DEF NInit, Init
    <3> QED
      BY <3>1 DEF NInit, ChangesAreGapless, KnownAfter
  <2> QED
    BY <2>1, <2>2, <2>3, <2>4 DEF NotifInv
<1>2. NotifInv /\ [NNext]_nvars => NotifInv'
  BY NotifNext
<1> QED
  BY <1>1, <1>2, PTL DEF NSpec

\* A registered function runs at most once, whichever processes report for its
\* client, and is gone from the registries when it has run.
THEOREM CallbacksRunOnce == NSpec => []RunsOnce
<1>1. NotifInv => RunsOnce
  BY DEF NotifInv, NotifTypeOK, OnePlace, RunsOnce
<1> QED
  BY <1>1, NotifInvariance, PTL

\* The changes of a client in the channel lead from what its reader knows to the
\* state the server has, for every capacity of the channel, unless one was dropped.
THEOREM ChannelIsGapless == NSpec => []ChangesAreGapless
<1>1. NotifInv => ChangesAreGapless
  BY DEF NotifInv
<1> QED
  BY <1>1, NotifInvariance, PTL
=============================================================================
