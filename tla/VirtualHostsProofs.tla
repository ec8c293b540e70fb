------------------------- MODULE VirtualHostsProofs -------------------------
(* Proofs about the virtual host storage, for every set of hosts, clients   *)
(* and rule lists and for every caller.                                     *)
EXTENDS VirtualHosts, TLAPS

\* The storage stays a partial function from hosts to entries.
THEOREM VHTypeCorrect == VHSpec => []VHTypeOK
<1>1. VHInit => VHTypeOK
  BY DEF VHInit, VHTypeOK
<1>2. VHTypeOK /\ [VHNext]_mapping => VHTypeOK'
  BY DEF VHTypeOK, VHNext, AddHost, DeleteHost, VirtualHost
<1> QED
  BY <1>1, <1>2, PTL DEF VHSpec

\* The storage keeps one host per identifier in every step: AddHost releases the
\* identifier's other hosts, DeleteHost only removes.
LEMMA OneHostStep ==
  ASSUME VHTypeOK, OneHostPerIdentifier, VHNext
  PROVE  OneHostPerIdentifier'
<1>1. ASSUME NEW host \in Hosts, NEW id \in Ids, NEW rw \in Rewrites, AddHost(host, id, rw)
      PROVE  OneHostPerIdentifier'
  <2> SUFFICES ASSUME NEW i \in Ids, NEW h1 \in HostsOf(i)', NEW h2 \in HostsOf(i)'
               PROVE  h1 = h2
    BY DEF OneHostPerIdentifier
  <2>1. CASE i = id
    BY <1>1, <2>1 DEF AddHost, HostsOf, Claimed, VHTypeOK, VirtualHost
  <2>2. CASE i # id
    <3>1. h1 \in HostsOf(i) /\ h2 \in HostsOf(i)
      BY <1>1, <2>2 DEF AddHost, HostsOf, Claimed, VHTypeOK, VirtualHost
    <3> QED
      BY <3>1 DEF OneHostPerIdentifier
  <2> QED
    BY <2>1, <2>2
<1>2. ASSUME NEW host \in Hosts, DeleteHost(host)
      PROVE  OneHostPerIdentifier'
  <2>1. \A i \in Ids : HostsOf(i)' \subseteq HostsOf(i)
    BY <1>2 DEF DeleteHost, HostsOf, Claimed, VHTypeOK
  <2> QED
    BY <2>1 DEF OneHostPerIdentifier
<1> QED
  BY <1>1, <1>2 DEF VHNext

\* A client owns at most one host, so the lookups by identifier, which take the
\* first entry a map iteration meets, are deterministic.
THEOREM OneHost == VHSpec => []OneHostPerIdentifier
<1>1. VHInit => OneHostPerIdentifier
  BY DEF VHInit, OneHostPerIdentifier, HostsOf, Claimed
<1>2. VHTypeOK /\ OneHostPerIdentifier /\ [VHNext]_mapping => OneHostPerIdentifier'
  <2> SUFFICES ASSUME VHTypeOK, OneHostPerIdentifier, [VHNext]_mapping
               PROVE  OneHostPerIdentifier'
    OBVIOUS
  <2>1. CASE VHNext
    BY <2>1, OneHostStep
  <2>2. CASE UNCHANGED mapping
    BY <2>2 DEF OneHostPerIdentifier, HostsOf, Claimed
  <2> QED
    BY <2>1, <2>2
<1> QED
  BY <1>1, <1>2, VHTypeCorrect, PTL DEF VHSpec

\* No client is ever given a host that another client holds: a host is released
\* before it changes hands.
THEOREM NoTakeoverEver == VHSpec => NoHostTakeover
<1>1. VHTypeOK /\ [VHNext]_mapping => [NoTakeover]_mapping
  <2> SUFFICES ASSUME VHTypeOK, VHNext
               PROVE  NoTakeover
    OBVIOUS
  <2>1. ASSUME NEW host \in Hosts, NEW id \in Ids, NEW rw \in Rewrites, AddHost(host, id, rw)
        PROVE  NoTakeover
    BY <2>1 DEF AddHost, AddHostRefused, NoTakeover, Claimed, HostsOf, VHTypeOK
  <2>2. ASSUME NEW host \in Hosts, DeleteHost(host)
        PROVE  NoTakeover
    BY <2>2 DEF DeleteHost, NoTakeover, Claimed, VHTypeOK
  <2> QED
    BY <2>1, <2>2 DEF VHNext
<1> QED
  BY <1>1, VHTypeCorrect, PTL DEF VHSpec, NoHostTakeover
=============================================================================
