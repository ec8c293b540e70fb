----------------------------- MODULE Admission -----------------------------
(***************************************************************************)
(* Who may register what: the checks that checkConnect (tunnel/server.go)  *)
(* makes on a control request before it touches any state.  A module       *)
(* without variables, so that its parameters can be the constants of       *)
(* TunnelServer and the loaded configuration of Deployment.                *)
(***************************************************************************)

CONSTANTS
    ControlMethod,
    SignatureKey,
    AllowedClients, \* config allowedClients; empty allows everybody
    AllowedHosts    \* the hosts the config's allowedHosts patterns match

\* HMAC-SHA256 of the identifier under the key, as an injective pairing.
signIdentifier(id, key) == <<id, key>>

checkIdentifierSignature(id, key, signature) == signature = signIdentifier(id, key)

checkIdentifier(id) == AllowedClients = {} \/ id \in AllowedClients

checkHost(host) == host \in AllowedHosts

\* The status of a request that fails one of the checks, 200 for one that passes
\* them all.  req.wellFormed: the body decodes as a proto.ConnectionConfig and
\* every rewrite pattern in it compiles.
Admit(req) ==
    IF req.method # ControlMethod THEN 405
    ELSE IF ~checkIdentifier(req.id) THEN 403
    ELSE IF ~checkIdentifierSignature(req.id, SignatureKey, req.signature) THEN 403
    ELSE IF ~req.wellFormed \/ ~checkHost(req.host) THEN 400
    ELSE 200
=============================================================================
