----------------------------- MODULE Deployment -----------------------------
(***************************************************************************)
(* From configuration to the first request: the server binary loads its    *)
(* file and its environment (server/envconfig.go), prints a client         *)
(* configuration (server/clientconfig.go) or serves (server/server.go,     *)
(* server/listeners.go); the client binary (client/client.go) starts from  *)
(* a configuration and sends a control request; the listener that receives *)
(* it decides what the request is (tunnel/server.go: ServeHTTP,            *)
(* ControlHandler, PublicHandler).                                         *)
(*                                                                         *)
(* The generator and the server are two runs of one binary with the same   *)
(* file and the same environment.  Loading is deterministic, so it is      *)
(* modelled once and both go on from its result.  Strings are taken from   *)
(* small sets, with "" the empty one; debug settings, the target and the   *)
(* header map are left out, rewrite rules are present and valid.           *)
(***************************************************************************)
EXTENDS Naturals, Sequences, Functions

CONSTANTS
    None,
    Files,          \* what the config file may hold
    EnvString,      \* [a string setting -> the values its variable may have]
    EnvList,        \* [a list setting -> the values its variable may have]
    HostOf, PortOf, \* net.SplitHostPort on the addresses it accepts
    Sockets,        \* what listening on an address binds; {} when it cannot
    Dest,           \* the socket that dialing an address reaches
    Match,          \* [a pattern that compiles -> the domains it matches]
    Clean,          \* path.Clean on the control paths
    Options,        \* what the generator may be told, see buildClientConfig
    HandWritten,    \* client configurations that were not generated
    Hostnames,      \* what os.Hostname may return; None when it fails
    ClientKeys      \* MYLITTLEPROXY_SIGNATURE_KEY of the client; "" when unset

DefaultControlPath == "/_controlPath"
DefaultControlMethod == "POST"

\* The settings in the order applyEnv overlays them.
EnvOrder == <<"listen", "listenControl", "signatureKey", "controlPath", "controlMethod",
              "debug", "allowedHosts", "allowedClients">>

\* The zero value of appConfig.Server.
NoConfig ==
    [listen |-> "", listenControl |-> "", signatureKey |-> "", controlPath |-> "",
     controlMethod |-> "", allowedHosts |-> << >>, allowedClients |-> << >>]

\* Strings are strings, the variables are those of applyEnv, and whoever dials an
\* address that can be listened on reaches a socket which listening there binds.
Addresses == DOMAIN Sockets \union {""}
ServerConfig ==
    [listen : Addresses, listenControl : Addresses, signatureKey : STRING, controlPath : STRING,
     controlMethod : STRING, allowedHosts : Seq(STRING), allowedClients : Seq(STRING)]

ASSUME SettingsAssumption ==
    /\ Files \subseteq ServerConfig
    /\ EnvString \in [{"listen", "listenControl", "signatureKey", "controlPath", "controlMethod"}
                       -> SUBSET STRING]
    /\ EnvString["listen"] \union EnvString["listenControl"] \subseteq Addresses
    /\ DOMAIN EnvList = {"allowedHosts", "allowedClients"}
    /\ \A x \in DOMAIN EnvList : \A v \in EnvList[x] :
         v \in [json : BOOLEAN, valid : BOOLEAN, parts : Seq(STRING)]
ASSUME NetworkAssumption ==
    \A a \in DOMAIN Sockets : Sockets[a] # {} => Dest[a] \in Sockets[a]

VARIABLES
    config,    \* the server's settings
    next,      \* the setting applyEnv overlays next, its index in EnvOrder
    spc,       \* where the server binary is
    up, errs,  \* serve's listeners: those that accept, those that returned
    gen,       \* what the generator was told and printed, None before
    client,    \* the client binary's tunnel.ClientConfig, None before
    answer     \* the last control request and what it was answered

vars == <<config, next, spc, up, errs, gen, client, answer>>

Init ==
    /\ config = NoConfig
    /\ next = 1
    /\ spc = "file"
    /\ up = {} /\ errs = {}
    /\ gen = None /\ client = None /\ answer = None

OrDefault(value, default) == IF value = "" THEN default ELSE value

-----------------------------------------------------------------------------
(* loadConfig: the file, the environment, the settings that must be there. *)

unchangedByLoad == <<up, errs, gen, client, answer>>

\* tunnel.GetConfig: a missing file leaves the zero configuration.
ReadFile ==
    /\ spc = "file"
    /\ \E c \in Files \union {NoConfig} : config' = c
    /\ spc' = "env"
    /\ UNCHANGED <<next, unchangedByLoad>>

\* The file is there and cannot be read or parsed.
FileUnreadable ==
    /\ spc = "file"
    /\ spc' = "exit"
    /\ UNCHANGED <<config, next, unchangedByLoad>>

\* applyEnv has reached one of the given settings.
Overlays(settings) ==
    /\ spc = "env"
    /\ next <= Len(EnvOrder) /\ EnvOrder[next] \in settings
    /\ next' = next + 1

\* os.LookupEnv finds nothing.
EnvUnset ==
    /\ Overlays(Range(EnvOrder))
    /\ UNCHANGED <<config, spc, unchangedByLoad>>

\* A variable that is set to "" counts.
applyEnvString ==
    /\ Overlays(DOMAIN EnvString)
    /\ \E v \in EnvString[EnvOrder[next]] : config' = [config EXCEPT ![EnvOrder[next]] = v]
    /\ UNCHANGED <<spc, unchangedByLoad>>

\* debug, whose value is not modelled: all that matters is whether it parses.
applyEnvBool ==
    /\ Overlays({"debug"})
    /\ spc' \in {"env", "exit"}
    /\ UNCHANGED <<config, unchangedByLoad>>

\* Mutant: the parts of a comma-separated value are not checked for being blank.
ListValueKeepsBlanks(v) == v.parts

\* The parts that are not blank, in their order.
NotBlank(parts) ==
    LET kept[n \in 0 .. Len(parts)] ==
          IF n = 0 THEN << >>
          ELSE IF parts[n] = "" THEN kept[n - 1] ELSE Append(kept[n - 1], parts[n])
    IN kept[Len(parts)]

\* The list that the text of a variable stands for: a JSON array as it is, or the
\* parts between commas that are not blank.
ListValue(v) ==
    IF v.json THEN v.parts ELSE NotBlank(v.parts)

applyEnvList ==
    /\ Overlays(DOMAIN EnvList)
    /\ \E v \in EnvList[EnvOrder[next]] :
         IF v.json /\ ~v.valid
         THEN spc' = "exit" /\ UNCHANGED config
         ELSE /\ config' = [config EXCEPT ![EnvOrder[next]] = ListValue(v)]
              /\ UNCHANGED spc
    /\ UNCHANGED unchangedByLoad

checkRequiredSettings ==
    /\ spc = "env" /\ next > Len(EnvOrder)
    /\ spc' = IF config.listen = "" \/ config.signatureKey = "" \/ config.allowedHosts = << >>
              THEN "exit" ELSE "loaded"
    /\ UNCHANGED <<config, next, unchangedByLoad>>

-----------------------------------------------------------------------------
(* The server: construction and listeners.                                 *)

controlPath == OrDefault(config.controlPath, DefaultControlPath)
controlMethod == OrDefault(config.controlMethod, DefaultControlMethod)

isAllInterfaces(host) == host \in {"", "0.0.0.0", "::"}

sameListenAddress(listen, control) ==
    /\ {listen, control} \subseteq DOMAIN HostOf
    /\ PortOf[listen] = PortOf[control]
    /\ \/ HostOf[listen] = HostOf[control]
       \/ isAllInterfaces(HostOf[listen]) \/ isAllInterfaces(HostOf[control])

\* NewServer compiles every pattern; then checkListenAddresses.
StartServer ==
    /\ spc = "loaded"
    /\ spc' = IF /\ Range(config.allowedHosts) \subseteq DOMAIN Match
                 /\ config.listenControl # "" =>
                       ~sameListenAddress(config.listen, config.listenControl)
              THEN "serve" ELSE "exit"
    /\ UNCHANGED <<config, next, unchangedByLoad>>

Listeners == IF config.listenControl = "" THEN {"public"} ELSE {"public", "control"}
AddressOf(l) == IF l = "control" THEN config.listenControl ELSE config.listen
Bound == UNION {Sockets[AddressOf(l)] : l \in up}

\* ListenAndServe of one listener: it binds its address or returns at once.
Listen(l) ==
    /\ spc = "serve"
    /\ l \in Listeners \ (up \union errs)
    /\ IF Sockets[AddressOf(l)] = {} \/ Sockets[AddressOf(l)] \intersect Bound # {}
       THEN errs' = errs \union {l} /\ UNCHANGED up
       ELSE up' = up \union {l} /\ UNCHANGED errs
    /\ UNCHANGED <<config, next, spc, gen, client, answer>>

\* Accept fails for good.
ListenerFails(l) ==
    /\ spc = "serve" /\ l \in up
    /\ up' = up \ {l} /\ errs' = errs \union {l}
    /\ UNCHANGED <<config, next, spc, gen, client, answer>>

\* Mutant: only the public listener is waited for.
ServeEndsPublicOnly ==
    /\ spc = "serve" /\ "public" \in errs
    /\ spc' = "exit"
    /\ up' = {}
    /\ UNCHANGED <<config, next, errs, gen, client, answer>>

\* serve receives the first error of either listener and the binary ends.
ServeEnds ==
    /\ spc = "serve" /\ errs # {}
    /\ spc' = "exit"
    /\ up' = {}
    /\ UNCHANGED <<config, next, errs, gen, client, answer>>

-----------------------------------------------------------------------------
(* -generate-client-config.                                                *)

\* What a client should dial, "" when listen does not say.
clientFacingAddress(listen, override) ==
    IF override # "" THEN override
    ELSE IF listen \notin DOMAIN HostOf THEN ""
    ELSE IF isAllInterfaces(HostOf[listen]) THEN ""
    ELSE listen

\* Some pattern matches, and those before it compile.
checkAgainstAllowedHosts(patterns, name) ==
    \E i \in DOMAIN patterns :
        /\ \A j \in 1..i : patterns[j] \in DOMAIN Match
        /\ name \in Match[patterns[i]]

checkAgainstAllowedClients(clients, identifier) ==
    clients = << >> \/ identifier \in Range(clients)

\* Mutant: clients are sent to the public listener.
buildClientConfigPublic(o) ==
    [identifier |-> o.identifier,
     serverAddress |-> clientFacingAddress(config.listen, o.address),
     signatureKey |-> IF o.omitSignatureKey THEN "" ELSE config.signatureKey,
     controlPath |-> controlPath, controlMethod |-> controlMethod, domain |-> o.domain]

\* The configuration for the options o, where it is not refused.
buildClientConfig(o) ==
    LET listen == OrDefault(config.listenControl, config.listen) IN
    [identifier |-> o.identifier,
     serverAddress |-> clientFacingAddress(listen, o.address),
     signatureKey |-> IF o.omitSignatureKey THEN "" ELSE config.signatureKey,
     controlPath |-> controlPath, controlMethod |-> controlMethod, domain |-> o.domain]

\* generateClientConfig, in a run of its own of the same binary.
GenerateClientConfig(o) ==
    /\ spc = "loaded" /\ gen = None
    /\ buildClientConfig(o).serverAddress # ""
    /\ o.domain # ""
    /\ checkAgainstAllowedHosts(config.allowedHosts, o.domain)
    /\ checkAgainstAllowedClients(config.allowedClients, o.identifier)
    /\ gen' = [opts |-> o, config |-> buildClientConfig(o)]
    /\ UNCHANGED <<config, next, spc, up, errs, client, answer>>

-----------------------------------------------------------------------------
(* The client binary.                                                      *)

getIdentifier(c, hostname) == OrDefault(c.identifier, hostname)
getSignatureKey(c, key) == OrDefault(c.signatureKey, key)

\* main up to client.Start: a configuration that is not complete ends the binary.
StartClient(c, hostname, key) ==
    /\ spc = "serve" /\ client = None
    /\ getIdentifier(c, hostname) \notin {"", None}
    /\ getSignatureKey(c, key) # ""
    /\ c.domain # "" /\ c.serverAddress # ""
    /\ client' = [identifier |-> getIdentifier(c, hostname),
                  signatureKey |-> getSignatureKey(c, key),
                  serverAddress |-> c.serverAddress,
                  controlPath |-> OrDefault(c.controlPath, DefaultControlPath),
                  controlMethod |-> OrDefault(c.controlMethod, DefaultControlMethod),
                  domain |-> c.domain,
                  generated |-> gen # None /\ c = gen.config]
    /\ UNCHANGED <<config, next, spc, up, errs, gen, answer>>

-----------------------------------------------------------------------------
(* Requests at the listeners.                                              *)

A == INSTANCE Admission WITH
        ControlMethod <- controlMethod,
        SignatureKey <- config.signatureKey,
        AllowedClients <- Range(config.allowedClients),
        AllowedHosts <- UNION {Match[p] : p \in Range(config.allowedHosts)}

isControlRequest(path) == Clean[path] = controlPath

\* Mutant: with two listeners the public one is still given the server itself.
HandlerPublicServesAll(l, path) ==
    IF isControlRequest(path) THEN "checkConnect"
    ELSE IF l = "control" THEN "NotFound" ELSE "handleHTTP"

\* ServeHTTP when there is one listener, else PublicHandler and ControlHandler.
Handler(l, path) ==
    IF isControlRequest(path) /\ (l = "control" \/ config.listenControl = "") THEN "checkConnect"
    ELSE IF l = "control" THEN "NotFound" ELSE "handleHTTP"

\* Client.connect sends its control request.  As ordinary traffic it is answered
\* 502: no virtual host has the address of the server.
ControlRequest ==
    /\ client # None
    /\ \E l \in up :
         /\ Dest[client.serverAddress] \in Sockets[AddressOf(l)]
         /\ LET by == Handler(l, client.controlPath)
                status == CASE by = "NotFound" -> 404
                            [] by = "handleHTTP" -> 502
                            [] by = "checkConnect" ->
                                 A!Admit([method |-> client.controlMethod,
                                          id |-> client.identifier,
                                          signature |-> A!signIdentifier(client.identifier,
                                                                         client.signatureKey),
                                          wellFormed |-> TRUE, host |-> client.domain])
            IN answer' = [listener |-> l, by |-> by, status |-> status]
    /\ UNCHANGED <<config, next, spc, up, errs, gen, client>>

-----------------------------------------------------------------------------
Serve == ServeEnds \/ \E l \in {"public", "control"} : Listen(l)

Next ==
    \/ ReadFile \/ FileUnreadable
    \/ EnvUnset \/ applyEnvString \/ applyEnvBool \/ applyEnvList
    \/ checkRequiredSettings
    \/ \E o \in Options : GenerateClientConfig(o)
    \/ StartServer
    \/ Serve
    \/ \E l \in {"public", "control"} : ListenerFails(l)
    \/ \E h \in Hostnames, k \in ClientKeys :
         \/ \E c \in HandWritten : StartClient(c, h, k)
         \/ gen # None /\ StartClient(gen.config, h, k)
    \/ ControlRequest

\* The goroutines of serve run.
Spec == Init /\ [][Next]_vars /\ WF_vars(Serve)

-----------------------------------------------------------------------------
(* Properties.                                                             *)

\* The generated configuration is used as it was printed: it names its client and
\* carries the key or the client's environment does.
UsedAsGenerated ==
    /\ client # None /\ client.generated
    /\ gen.opts.identifier # ""
    /\ client.signatureKey = config.signatureKey

\* The operator's own address for clients, if he gave one, is the control listener's.
AddressIsRight ==
    \/ gen.opts.address = ""
    \/ Dest[gen.opts.address] \in
         Sockets[OrDefault(config.listenControl, config.listen)]

\* clientconfig.go:34: a client configuration that was generated from the server's
\* own is admitted by that server, whatever the file, the environment, the options
\* and the listeners, when the control path is in the form path.Clean leaves and
\* the server has all its listeners (one that is about to end may lack one).
GeneratedIsAdmitted ==
    [][answer' # answer /\ up = Listeners /\ UsedAsGenerated /\ AddressIsRight
         /\ Clean[controlPath] = controlPath
          => answer'.by = "checkConnect" /\ answer'.status = 200]_vars

\* A server with both its listeners up takes control requests on the one for them
\* only, however the addresses are written (listeners.go:35).
ControlOffPublic ==
    [][answer' # answer /\ up = {"public", "control"} /\ answer'.by = "checkConnect"
          => Dest[client.serverAddress] \notin Sockets[config.listen]]_vars

\* Nothing is open by omission: an admitted client knows a key that is not empty
\* and asks for a domain that a pattern the operator wrote matches.  A variable
\* that is set and empty, or holds only commas, never opens the server.
ClosedByDefault ==
    answer # None /\ answer.status = 200 =>
        /\ config.signatureKey # "" /\ client.signatureKey = config.signatureKey
        /\ \E p \in Range(config.allowedHosts) \ {""} : client.domain \in Match[p]

\* listeners.go:65, "Either listener going down takes the server with it": serve
\* ends, or all its listeners are up.
ServerIsWhole == spc = "serve" ~> (spc = "exit" \/ up = Listeners)
=============================================================================
