---------------------------- MODULE Notifications ----------------------------
(***************************************************************************)
(* What the server tells the program it is embedded in: the one-shot       *)
(* callbacks of OnConnect and OnDisconnect (tunnel/util.go, callbacks) and *)
(* the channel of state changes (tunnel/server.go, changeState), which     *)
(* drops what its reader is too slow for.                                  *)
(*                                                                         *)
(* TunnelServer reports a connection or a disconnection in one step, its   *)
(* onConnect or Finish.  Here that step is the last of three: the callback *)
(* is popped under the registry's mutex, it runs, and then the state is    *)
(* changed.  Callbacks return; what they do is not modelled.               *)
(***************************************************************************)
EXTENDS TunnelServer, Sequences

CONSTANTS
    Callbacks,  \* the functions that may be registered, each in one place at a time
    ChanSize    \* the capacity of stateCh

\* A function is no missing entry and no label of call's.
ASSUME CallbacksAssumption == {None, "none", "done"} \intersect Callbacks = {}

VARIABLES
    funcs,      \* the two registries: [kind -> [identifier -> function or None]]
    fresh,      \* the functions not registered yet, or replaced before they ran
    fn,         \* call's local: popped and to be run, "done" after, "none" before
    runs,       \* how often a function ran
    stateCh,    \* the changes that were sent and not yet read
    last        \* the state of a client as its reader knows it, "gap" once a
                \* change of the client was dropped

notifVars == <<funcs, fresh, fn, runs, stateCh, last>>
nvars == <<vars, notifVars>>

Kinds == {"OnConnect", "OnDisconnect"}

NInit ==
    /\ Init
    /\ funcs = [kind \in Kinds |-> [id \in Ids |-> None]]
    /\ fresh = Callbacks
    /\ fn = [c \in Conns |-> "none"]
    /\ runs = [f \in Callbacks |-> 0]
    /\ stateCh = << >>
    /\ last = [id \in Ids |-> "Unknown"]

-----------------------------------------------------------------------------
(* The embedding program.                                                  *)

\* OnConnect, OnDisconnect: add replaces what is registered.
add(kind, id, f) ==
    /\ f \in fresh
    /\ funcs' = [funcs EXCEPT ![kind][id] = f]
    /\ fresh' = (fresh \ {f}) \union ({funcs[kind][id]} \ {None})
    /\ UNCHANGED <<vars, fn, runs, stateCh, last>>

\* The reader of stateCh.
Receive ==
    /\ stateCh # << >>
    /\ last' = [last EXCEPT ![Head(stateCh).identifier] =
                     IF @ = "gap" THEN @ ELSE Head(stateCh).current]
    /\ stateCh' = Tail(stateCh)
    /\ UNCHANGED <<vars, funcs, fresh, fn, runs>>

-----------------------------------------------------------------------------
(* onConnect and onDisconnect.                                             *)

\* What the process of c is about to report: checkConnect does not report the end
\* of a connection without an identifier.
Reports(c) ==
    IF At(c, "onConnect") THEN {"OnConnect"}
    ELSE IF At(c, "finish") /\ (why[c] = "lost" \/ cid[c] # EmptyId) THEN {"OnDisconnect"}
    ELSE {}

\* Mutant: the function stays registered.
popKeeps(kind, c) ==
    /\ fn' = [fn EXCEPT ![c] = IF funcs[kind][cid[c]] = None
                               THEN "done" ELSE funcs[kind][cid[c]]]
    /\ UNCHANGED funcs

\* Mutant: what is popped is not handed to the caller.
popForgets(kind, c) ==
    /\ fn' = [fn EXCEPT ![c] = "done"]
    /\ funcs' = [funcs EXCEPT ![kind][cid[c]] = None]

\* A nil function, which is logged and not run, is not among the Callbacks.
pop(kind, c) ==
    /\ fn' = [fn EXCEPT ![c] = IF funcs[kind][cid[c]] = None
                               THEN "done" ELSE funcs[kind][cid[c]]]
    /\ funcs' = [funcs EXCEPT ![kind][cid[c]] = None]

Pop(c) ==
    /\ fn[c] = "none"
    /\ \E kind \in Reports(c) : pop(kind, c)
    /\ UNCHANGED <<vars, fresh, runs, stateCh, last>>

Run(c) ==
    /\ fn[c] \in Callbacks
    /\ runs' = [runs EXCEPT ![fn[c]] = @ + 1]
    /\ fn' = [fn EXCEPT ![c] = "done"]
    /\ UNCHANGED <<vars, funcs, fresh, stateCh, last>>

\* Mutant: the previous state is read after the new one is stored.
sendLate(id) ==
    LET change == [identifier |-> id, previous |-> states'[id], current |-> states'[id]] IN
    IF Len(stateCh) < ChanSize
    THEN stateCh' = Append(stateCh, change) /\ UNCHANGED last
    ELSE last' = [last EXCEPT ![id] = "gap"] /\ UNCHANGED stateCh

\* The part of changeState that TunnelServer leaves out, under the same statesMu.
send(id) ==
    LET change == [identifier |-> id, previous |-> states[id], current |-> states'[id]] IN
    IF Len(stateCh) < ChanSize
    THEN stateCh' = Append(stateCh, change) /\ UNCHANGED last
    ELSE last' = [last EXCEPT ![id] = "gap"] /\ UNCHANGED stateCh

\* changeState, with the rest of the handler's last step.
Report(c) ==
    /\ Reports(c) # {} /\ fn[c] = "done"
    /\ onConnect(c) \/ Finish(c)
    /\ send(cid[c])
    /\ fn' = [fn EXCEPT ![c] = "none"]
    /\ UNCHANGED <<funcs, fresh, runs>>

\* Every other step of the server.
OtherStep(c) ==
    /\ Reports(c) = {}
    /\ ServerStep(c)
    /\ UNCHANGED notifVars

NServerStep(c) == Pop(c) \/ Run(c) \/ Report(c) \/ OtherStep(c)

NNext ==
    \/ \E kind \in Kinds, id \in Ids, f \in Callbacks : add(kind, id, f)
    \/ Receive
    \/ \E c \in Conns :
         \/ NServerStep(c)
         \/ UNCHANGED notifVars /\ (Drop(c) \/ ControlBroken(c))
         \/ UNCHANGED notifVars /\
              \E req \in ControlRequests : RejectRequest(c, req) \/ AdmitRequest(c, req)

\* As in TunnelServer.  The reader of stateCh need not read: no fairness for Receive.
NSpec ==
    /\ NInit /\ [][NNext]_nvars
    /\ \A c \in Conns :
         /\ WF_nvars(NServerStep(c))
         /\ SF_nvars(UNCHANGED notifVars /\ (addSession(c) \/ deleteSession(c)))

-----------------------------------------------------------------------------
(* Properties.                                                             *)

\* server.go:564, "After a client is connected, the associated function is also
\* removed and needs to be added again": a registered function runs at most once,
\* whichever processes report for its client at the same time.
RunsOnce ==
    \A f \in Callbacks :
        /\ runs[f] <= 1
        /\ runs[f] = 1 =>
             /\ \A kind \in Kinds, id \in Ids : funcs[kind][id] # f
             /\ \A c \in Conns : fn[c] # f

\* What a reader knows of client id who knew the given state and has read the first n
\* of the changes: the state of the last one among them that is about the client.
KnownAfter(known, changes, id, n, state) ==
    \/ state = known /\ \A i \in 1 .. n : changes[i].identifier # id
    \/ \E i \in 1 .. n :
         /\ changes[i].identifier = id /\ changes[i].current = state
         /\ \A j \in i + 1 .. n : changes[j].identifier # id

\* As long as no change of a client was dropped, its changes in the channel lead
\* without a gap from what the reader knows to the state the server has, however
\* many processes report for the client (changeState sends under statesMu).
ChangesAreGapless ==
    \A id \in Ids : last[id] # "gap" =>
        /\ \A i \in 1 .. Len(stateCh) :
             stateCh[i].identifier = id =>
                KnownAfter(last[id], stateCh, id, i - 1, stateCh[i].previous)
        /\ KnownAfter(last[id], stateCh, id, Len(stateCh), states[id])

\* The tunnel of c is lost while function f is its client's OnDisconnect callback.
LostWith(c, f) ==
    At(c, "listen") /\ conn[c] = "closed" /\ funcs["OnDisconnect"][cid[c]] = f

\* The callback that is registered when its client's tunnel is lost runs, unless the
\* program replaces it before (state_test.go:141, "OnDisconnect was never called"),
\* also if another process of the client reports first and takes it.
LossIsReported ==
    \A f \in Callbacks : (\E c \in Conns : LostWith(c, f)) ~> (runs[f] = 1 \/ f \in fresh)
=============================================================================
