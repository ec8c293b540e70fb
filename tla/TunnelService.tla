---------------------------- MODULE TunnelService ----------------------------
(***************************************************************************)
(* What the tunnel server promises its clients, without connections,       *)
(* registries, locks or handlers: a client has a host and a link, and the  *)
(* host stays with it as long as the link is up.  TunnelServer implements  *)
(* this when the connections of one client do not overlap.                 *)
(***************************************************************************)
CONSTANTS Ids, Hosts, None

VARIABLES
    host,  \* the host requests for which go to the client, or None
    link   \* "up" while the client is served

vars == <<host, link>>

Init ==
    /\ host = [id \in Ids |-> None]
    /\ link = [id \in Ids |-> "down"]

\* A client that is not served gets a host, instead of the one it may still have
\* from an earlier attempt, unless somebody else holds it.
Claim(id, h) ==
    /\ link[id] = "down"
    /\ \A other \in Ids \ {id} : host[other] # h
    /\ host' = [host EXCEPT ![id] = h]
    /\ UNCHANGED link

Connect(id) ==
    /\ host[id] # None
    /\ link' = [link EXCEPT ![id] = "up"]
    /\ UNCHANGED host

Lose(id) ==
    /\ link' = [link EXCEPT ![id] = "down"]
    /\ UNCHANGED host

Release(id) ==
    /\ link[id] = "down"
    /\ host' = [host EXCEPT ![id] = None]
    /\ UNCHANGED link

Next ==
    \E id \in Ids :
        \/ \E h \in Hosts : Claim(id, h)
        \/ Connect(id) \/ Lose(id) \/ Release(id)

Spec == Init /\ [][Next]_vars
=============================================================================
