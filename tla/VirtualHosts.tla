---------------------------- MODULE VirtualHosts ----------------------------
(***************************************************************************)
(* The virtual host storage of the tunnel server: tunnel/virtualhost.go.   *)
(*                                                                         *)
(* The storage maps a host name to the client (identifier) that serves it  *)
(* and to the client's rewrite rules.  Every operation of the Go type      *)
(* holds the type's own mutex from its first to its last statement, so it  *)
(* is one atomic step.  VHSpec lets any caller issue any operation at any  *)
(* time; TunnelServer is the real caller.                                  *)
(***************************************************************************)
CONSTANTS
    Hosts,      \* the host names clients may ask for
    Ids,        \* the client identifiers
    Rewrites,   \* the rewrite rule lists a client may register
    None        \* "no entry" in a Go map

VARIABLE mapping    \* virtualHosts.mapping: host -> *virtualHost

\* struct virtualHost.  Present or absent in the map: absent is None.
VirtualHost == [identifier : Ids, rewrite : Rewrites]

\* None stands for a missing entry: it is no host, identifier, rule list or entry.
ASSUME NoneIsMissing ==
    None \notin Hosts /\ None \notin Ids /\ None \notin Rewrites /\ None \notin VirtualHost

\* newVirtualHosts: the map starts empty.
VHInit == mapping = [h \in Hosts |-> None]

Claimed(h) == mapping[h] # None

\* The hosts an identifier owns.  GetHost and GetVirtualHost range over the Go
\* map and return the first entry they meet: any member of this set.
HostsOf(id) == {h \in Hosts : Claimed(h) /\ mapping[h].identifier = id}

-----------------------------------------------------------------------------
(* Operations.                                                             *)

\* Mutant: nobody is refused.
AddHostNeverRefused(host, id) == FALSE

\* AddHost fails when somebody else holds the host ...
AddHostRefused(host, id) == Claimed(host) /\ mapping[host].identifier # id

\* Mutant: the client's previous host is not released.
AddHostKeepsOld(host, id, rewrites) ==
    /\ ~AddHostRefused(host, id)
    /\ mapping' = [mapping EXCEPT ![host] = [identifier |-> id, rewrite |-> rewrites]]

\* ... and otherwise releases every other host of the identifier.
AddHost(host, id, rewrites) ==
    /\ ~AddHostRefused(host, id)
    /\ mapping' = [h \in Hosts |->
            IF h = host THEN [identifier |-> id, rewrite |-> rewrites]
            ELSE IF h \in HostsOf(id) THEN None
            ELSE mapping[h]]

DeleteHost(host) == mapping' = [mapping EXCEPT ![host] = None]

\* GetIdentifier: None is the false of the Go comma-ok result.
GetIdentifier(host) == IF Claimed(host) THEN mapping[host].identifier ELSE None

\* GetHost and GetVirtualHost: every result the Go map iteration can give.
GetHost(id) == IF HostsOf(id) = {} THEN {None} ELSE HostsOf(id)

VHNext ==
    \/ \E h \in Hosts, id \in Ids, rw \in Rewrites : AddHost(h, id, rw)
    \/ \E h \in Hosts : DeleteHost(h)

\* The storage as the server has to use it: mapping starts empty and changes only
\* by one whole AddHost or DeleteHost at a time, whoever calls them (the interface
\* vhostStorage).  TunnelServer is shown to implement it.
VHSpec == VHInit /\ [][VHNext]_mapping

-----------------------------------------------------------------------------
(* Properties.                                                             *)

\* The mapping is a partial function from hosts to virtual hosts.
VHTypeOK == mapping \in [Hosts -> VirtualHost \union {None}]

\* An identifier owns at most one host (comment above virtualHosts.AddHost), so
\* GetHost and GetVirtualHost, which return whichever entry the map iteration
\* meets first, have one possible answer: the host the request was routed by.
OneHostPerIdentifier ==
    \A id \in Ids : \A h1, h2 \in HostsOf(id) : h1 = h2

\* A host never passes from one client to another in one step: it is released
\* (by its owner moving away, or by DeleteHost) before anybody else can claim it.
NoTakeover ==
    \A h \in Hosts : Claimed(h) =>
        mapping'[h] = None \/ mapping'[h].identifier = mapping[h].identifier

NoHostTakeover == [][NoTakeover]_mapping
=============================================================================
