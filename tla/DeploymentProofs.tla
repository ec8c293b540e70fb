--------------------------- MODULE DeploymentProofs --------------------------
(* Proofs about the way from configuration to the first request, for every  *)
(* file, environment, network, set of patterns and client configuration.    *)
EXTENDS Deployment, NaturalsInduction, WellFoundedInduction, TLAPS

-----------------------------------------------------------------------------
(* The parts of a comma-separated value.  The induction over their number   *)
(* is by the least counterexample.                                          *)

\* A set of numbers that is not empty has a least one.
LEMMA LeastNumber ==
  ASSUME NEW T, T \subseteq Nat, T # {}
  PROVE  \E m \in T : \A k \in T : m <= k
<1>1. \E x \in T : \A y \in T : ~(<<y, x>> \in OpToRel(<, Nat))
  BY NatLessThanWellFounded, WFMin
<1>2. ASSUME NEW x \in Nat, NEW y \in Nat, y < x
      PROVE  <<y, x>> \in OpToRel(<, Nat)
  <2>1. <<y, x>> \in Nat \X Nat /\ <<y, x>>[1] < <<y, x>>[2]
    BY <1>2
  <2> QED
    BY <2>1, Zenon DEF OpToRel
<1>3. PICK x \in T : \A y \in T : ~(y < x)
  BY <1>1, <1>2
<1> QED
  BY <1>3

\* Induction up to n for the numbers in a set.
LEMMA UpTo ==
  ASSUME NEW n \in Nat, NEW G, 0 \in G,
         \A k \in 0 .. n : k # n /\ k \in G => k + 1 \in G
  PROVE  \A k \in 0 .. n : k \in G
<1> DEFINE T == {k \in 0 .. n : k \notin G}
<1> SUFFICES ASSUME T # {}
             PROVE  FALSE
  OBVIOUS
<1>1. T \subseteq Nat
  OBVIOUS
<1>2. PICK m \in T : \A k \in T : m <= k
  BY <1>1, LeastNumber
<1>3. m # 0 /\ m - 1 \in 0 .. n /\ m - 1 # n /\ m - 1 \notin T /\ (m - 1) + 1 = m
  BY <1>2
<1> QED
  BY <1>2, <1>3

\* One round of the loop that collects the parts.
Keep(parts, f, n) ==
    IF n = 0 THEN << >>
    ELSE IF parts[n] = "" THEN f[n - 1] ELSE Append(f[n - 1], parts[n])

\* The loop is a function of the number of rounds.
Loop(parts, f, n) == f \in [0 .. n -> Seq(STRING)] /\ \A i \in 0 .. n : f[i] = Keep(parts, f, i)

\* What a round computes depends on the one before only.
LEMMA KeepAgrees ==
  ASSUME NEW parts, NEW f, NEW g, NEW n \in Nat, n # 0 => g[n - 1] = f[n - 1]
  PROVE  Keep(parts, g, n) = Keep(parts, f, n)
BY DEF Keep

\* The loop can do one more round.
LEMMA LoopGrows ==
  ASSUME NEW parts \in Seq(STRING), NEW k \in Nat, k + 1 <= Len(parts), NEW f, Loop(parts, f, k)
  PROVE  \E g : Loop(parts, g, k + 1)
<1> DEFINE g == [i \in 0 .. k + 1 |-> IF i = k + 1 THEN Keep(parts, f, k + 1) ELSE f[i]]
<1>1. k + 1 \in 1 .. Len(parts) /\ (k + 1) - 1 = k /\ k \in 0 .. k /\ k + 1 # 0
  OBVIOUS
<1>2. f[k] \in Seq(STRING) /\ parts[k + 1] \in STRING
  BY <1>1 DEF Loop
<1>3. Append(f[k], parts[k + 1]) \in Seq(STRING)
  BY <1>2
<1>4. Keep(parts, f, k + 1) \in Seq(STRING)
  BY <1>1, <1>2, <1>3 DEF Keep
<1>5. g \in [0 .. k + 1 -> Seq(STRING)]
  BY <1>4 DEF Loop
<1>6. ASSUME NEW i \in 0 .. k + 1
      PROVE  g[i] = Keep(parts, g, i)
  <2>1. i # 0 => i - 1 \in 0 .. k + 1 /\ i - 1 # k + 1
    OBVIOUS
  <2>2. i \in Nat /\ (i # 0 => g[i - 1] = f[i - 1])
    BY <2>1
  <2> HIDE DEF g
  <2>3. Keep(parts, g, i) = Keep(parts, f, i)
    BY <2>2, KeepAgrees
  <2>4. CASE i = k + 1
    BY <2>3, <2>4 DEF g
  <2>5. CASE i # k + 1
    <3>1. i \in 0 .. k
      BY <2>5
    <3>2. g[i] = f[i]
      BY <2>5 DEF g
    <3> QED
      BY <2>3, <3>1, <3>2 DEF Loop
  <2> QED
    BY <2>4, <2>5
<1> HIDE DEF g
<1> QED
  BY <1>5, <1>6 DEF Loop

\* The loop runs over all the parts.
LEMMA LoopExists ==
  ASSUME NEW parts \in Seq(STRING)
  PROVE  \E f : Loop(parts, f, Len(parts))
<1> DEFINE G == {k \in Nat : \E f : Loop(parts, f, k)}
<1>0. Len(parts) \in Nat
  OBVIOUS
<1>1. 0 \in G
  <2> DEFINE f == [i \in 0 .. 0 |-> << >>]
  <2>1. f \in [0 .. 0 -> Seq(STRING)] /\ \A i \in 0 .. 0 : f[i] = << >> /\ i = 0
    OBVIOUS
  <2> HIDE DEF f
  <2>2. Loop(parts, f, 0)
    BY <2>1 DEF Loop, Keep
  <2> QED
    BY <2>2
<1>2. ASSUME NEW k \in 0 .. Len(parts), k # Len(parts), k \in G
      PROVE  k + 1 \in G
  <2>1. k \in Nat /\ k + 1 \in Nat /\ k + 1 <= Len(parts)
    BY <1>0, <1>2
  <2>2. PICK f : Loop(parts, f, k)
    BY <1>2
  <2> QED
    BY <2>1, <2>2, LoopGrows
<1>3. Len(parts) \in G
  <2> HIDE DEF G
  <2>1. \A k \in 0 .. Len(parts) : k \in G
    BY <1>0, <1>1, <1>2, UpTo
  <2> QED
    BY <1>0, <2>1
<1> QED
  BY <1>3

\* A list without blanks.
Filled(s) == \A j \in 1 .. Len(s) : s[j] # ""

\* Appending keeps a value out that is not the one appended.
LEMMA AppendOther ==
  ASSUME NEW S, NEW s \in Seq(S), NEW x \in S, NEW b, x # b, \A j \in 1 .. Len(s) : s[j] # b
  PROVE  Append(s, x) \in Seq(S) /\ \A j \in 1 .. Len(Append(s, x)) : Append(s, x)[j] # b
<1>1. Len(s) \in Nat /\ Append(s, x) \in Seq(S) /\ Len(Append(s, x)) = Len(s) + 1
  OBVIOUS
<1>2. ASSUME NEW j \in 1 .. Len(s) + 1
      PROVE  Append(s, x)[j] # b
  <2>1. CASE j = Len(s) + 1
    BY <1>1, <2>1
  <2>2. CASE j # Len(s) + 1
    <3>1. j \in 1 .. Len(s)
      BY <1>1, <2>2
    <3>2. Append(s, x)[j] = s[j]
      BY <1>1, <3>1
    <3> QED
      BY <3>1, <3>2
  <2> QED
    BY <2>1, <2>2
<1> QED
  BY <1>1, <1>2

LEMMA FilledAppend ==
  ASSUME NEW s \in Seq(STRING), NEW x \in STRING, x # "", Filled(s)
  PROVE  Append(s, x) \in Seq(STRING) /\ Filled(Append(s, x))
<1>1. \A j \in 1 .. Len(s) : s[j] # ""
  BY DEF Filled
<1>2. /\ Append(s, x) \in Seq(STRING)
      /\ \A j \in 1 .. Len(Append(s, x)) : Append(s, x)[j] # ""
  BY <1>1, AppendOther
<1> QED
  BY <1>2 DEF Filled

\* Whatever the text, no blank part comes through.
LEMMA NotBlankFilled ==
  ASSUME NEW parts \in Seq(STRING)
  PROVE  NotBlank(parts) \in Seq(STRING) /\ Filled(NotBlank(parts))
<1> DEFINE n == Len(parts)
           kept == CHOOSE f : f = [i \in 0 .. n |-> Keep(parts, f, i)]
           G == {k \in 0 .. n : kept[k] \in Seq(STRING) /\ Filled(kept[k])}
<1>0. n \in Nat /\ n \in 0 .. n /\ 0 \in 0 .. n
  OBVIOUS
<1>1. PICK f : Loop(parts, f, n)
  BY LoopExists
<1>2. f = [i \in 0 .. n |-> Keep(parts, f, i)]
  BY <1>1 DEF Loop
<1>3. kept = [i \in 0 .. n |-> Keep(parts, kept, i)]
  BY <1>2
<1>4. NotBlank(parts) = kept[n]
  BY DEF NotBlank, Keep
<1> HIDE DEF kept, n
<1>5. \A i \in 0 .. n : kept[i] = Keep(parts, kept, i)
  BY <1>3
<1>6. 0 \in G
  <2>1. kept[0] = << >>
    BY <1>0, <1>5 DEF Keep
  <2>2. << >> \in Seq(STRING) /\ Filled(<< >>)
    BY DEF Filled
  <2> QED
    BY <1>0, <2>1, <2>2
<1>7. ASSUME NEW k \in 0 .. n, k # n, k \in G
      PROVE  k + 1 \in G
  <2>1. k + 1 \in 0 .. n /\ k + 1 # 0 /\ (k + 1) - 1 = k /\ k + 1 \in 1 .. n
    BY <1>0, <1>7
  <2>2. kept[k + 1] = IF parts[k + 1] = "" THEN kept[k] ELSE Append(kept[k], parts[k + 1])
    BY <1>5, <2>1 DEF Keep
  <2>3. parts[k + 1] \in STRING
    BY <2>1 DEF n
  <2>4. kept[k] \in Seq(STRING) /\ Filled(kept[k])
    BY <1>7
  <2> QED
    BY <2>1, <2>2, <2>3, <2>4, FilledAppend
<1>8. n \in G
  <2> HIDE DEF G
  <2>1. \A k \in 0 .. n : k \in G
    BY <1>0, <1>6, <1>7, UpTo
  <2> QED
    BY <1>0, <2>1
<1> QED
  BY <1>4, <1>8

-----------------------------------------------------------------------------
(* The invariant.                                                           *)

\* The provers do not know that a literal is a STRING.
Text == STRING \union {""}

LoadedConfig ==
    [listen : Addresses, listenControl : Addresses, signatureKey : Text, controlPath : Text,
     controlMethod : Text, allowedHosts : Seq(STRING), allowedClients : Seq(STRING)]

ListText == [json : BOOLEAN, valid : BOOLEAN, parts : Seq(STRING)]

\* An empty list has no elements.
LEMMA RangeOfNothing == Range(<< >>) = {}
BY DEF Range

\* The list of a variable is a list of strings.
LEMMA ListValueType ==
  ASSUME NEW v \in ListText
  PROVE  ListValue(v) \in Seq(STRING)
<1>1. v.parts \in Seq(STRING)
  BY DEF ListText
<1> QED
  BY <1>1, NotBlankFilled DEF ListValue

\* Before the server serves, nobody listens and no client has started.
NotYet == spc \in {"file", "env", "loaded"} => up = {} /\ client = None

\* There is a key from the time the settings were found complete.
Keyed ==
    /\ spc \in {"loaded", "serve"} => config.signatureKey # ""
    /\ client # None => config.signatureKey # ""

\* The listeners that are up are bound, and not to each other's sockets.
Separate ==
    /\ up \subseteq Listeners
    /\ \A l \in up : Sockets[AddressOf(l)] # {}
    /\ {"public", "control"} \subseteq up =>
          Sockets[config.listen] \intersect Sockets[config.listenControl] = {}

\* What was generated was generated from the settings the server has.
GeneratedFrom ==
    gen # None =>
        /\ spc \notin {"file", "env"}
        /\ gen.config = buildClientConfig(gen.opts)
        /\ gen.config.serverAddress # ""
        /\ checkAgainstAllowedHosts(config.allowedHosts, gen.opts.domain)
        /\ checkAgainstAllowedClients(config.allowedClients, gen.opts.identifier)

\* A client that uses it has its settings.
ClientFrom ==
    client # None /\ client.generated =>
        /\ gen # None
        /\ gen.opts.identifier # "" => client.identifier = gen.opts.identifier
        /\ client.serverAddress = gen.config.serverAddress
        /\ client.controlPath = controlPath
        /\ client.controlMethod = controlMethod
        /\ client.domain = gen.opts.domain

\* A client that was admitted has the key and one of the domains.
AdmittedKnows ==
    /\ client = None => answer = None
    /\ answer # None /\ answer.status = 200 =>
         /\ client.signatureKey = config.signatureKey
         /\ \E p \in Range(config.allowedHosts) : client.domain \in Match[p]

DeployInv ==
    /\ config \in LoadedConfig
    /\ spc \in {"file", "env", "loaded", "serve", "exit"}
    /\ NotYet /\ Keyed /\ Separate /\ GeneratedFrom /\ ClientFrom
    /\ AdmittedKnows

-----------------------------------------------------------------------------
(* Loading.                                                                 *)

\* While the settings are loaded nothing depends on them.
LEMMA LoadKeeps ==
  ASSUME DeployInv, spc \in {"file", "env"}, UNCHANGED unchangedByLoad, config' \in LoadedConfig,
         spc' \in {"env", "loaded", "exit"}, spc' = "loaded" => config'.signatureKey # ""
  PROVE  DeployInv'
<1>1. up = {} /\ client = None /\ gen = None
  BY DEF DeployInv, NotYet, GeneratedFrom
<1>2. answer = None
  BY <1>1 DEF DeployInv, AdmittedKnows
<1>3. up' = {} /\ client' = None /\ gen' = None /\ answer' = None
  BY <1>1, <1>2 DEF unchangedByLoad
<1>4. NotYet' /\ Keyed' /\ Separate'
  BY <1>3 DEF NotYet, Keyed, Separate
<1>5. GeneratedFrom' /\ ClientFrom' /\ AdmittedKnows'
  BY <1>3 DEF GeneratedFrom, ClientFrom, AdmittedKnows
<1> QED
  BY <1>4, <1>5 DEF DeployInv

\* Every step of loadConfig.
LEMMA LoadNext ==
  ASSUME DeployInv,
         \/ ReadFile \/ FileUnreadable \/ EnvUnset \/ applyEnvString
         \/ applyEnvBool \/ applyEnvList \/ checkRequiredSettings
  PROVE  DeployInv'
<1>0. config \in LoadedConfig
  BY DEF DeployInv
<1>1. CASE ReadFile
  <2>1. NoConfig \in LoadedConfig
    <3>1. << >> \in Seq(STRING) /\ "" \in Text /\ "" \in Addresses
      BY DEF Text, Addresses
    <3> QED
      BY <3>1 DEF NoConfig, LoadedConfig
  <2>2. \A c \in Files : c \in LoadedConfig
    BY SettingsAssumption DEF ServerConfig, LoadedConfig, Text
  <2>3. config' \in LoadedConfig
    BY <1>1, <2>1, <2>2 DEF ReadFile
  <2> QED
    BY <1>1, <2>3, LoadKeeps DEF ReadFile
<1>2. CASE FileUnreadable
  BY <1>0, <1>2, LoadKeeps DEF FileUnreadable
<1>3. CASE EnvUnset
  BY <1>0, <1>3, LoadKeeps DEF EnvUnset, Overlays
<1>4. CASE applyEnvString
  <2> DEFINE x == EnvOrder[next]
  <2>1. PICK v \in EnvString[x] : config' = [config EXCEPT ![x] = v]
    BY <1>4 DEF applyEnvString
  <2>2. x \in {"listen", "listenControl", "signatureKey", "controlPath", "controlMethod"}
    BY <1>4, SettingsAssumption DEF applyEnvString, Overlays
  <2> HIDE DEF x
  <2>3. v \in STRING /\ (x \in {"listen", "listenControl"} => v \in Addresses)
    BY <2>1, <2>2, SettingsAssumption
  <2>4. config' \in LoadedConfig
    BY <1>0, <2>1, <2>2, <2>3 DEF LoadedConfig, Text
  <2> QED
    BY <1>4, <2>4, LoadKeeps DEF applyEnvString, Overlays
<1>5. CASE applyEnvBool
  BY <1>0, <1>5, LoadKeeps DEF applyEnvBool, Overlays
<1>6. CASE applyEnvList
  <2> DEFINE x == EnvOrder[next]
  <2>1. PICK v \in EnvList[x] :
           IF v.json /\ ~v.valid THEN spc' = "exit" /\ UNCHANGED config
           ELSE config' = [config EXCEPT ![x] = ListValue(v)] /\ UNCHANGED spc
    BY <1>6 DEF applyEnvList
  <2>2. x \in {"allowedHosts", "allowedClients"}
    BY <1>6, SettingsAssumption DEF applyEnvList, Overlays
  <2> HIDE DEF x
  <2>3. v \in ListText
    BY <2>1, <2>2, SettingsAssumption DEF ListText
  <2>4. ListValue(v) \in Seq(STRING)
    BY <2>3, ListValueType
  <2>5. config' \in LoadedConfig
    BY <1>0, <2>1, <2>2, <2>4 DEF LoadedConfig
  <2>6. spc = "env" /\ spc' \in {"env", "exit"} /\ UNCHANGED unchangedByLoad
    BY <1>6, <2>1 DEF applyEnvList, Overlays
  <2> QED
    BY <2>5, <2>6, LoadKeeps
<1>7. CASE checkRequiredSettings
  BY <1>0, <1>7, LoadKeeps DEF checkRequiredSettings
<1> QED
  BY <1>1, <1>2, <1>3, <1>4, <1>5, <1>6, <1>7

-----------------------------------------------------------------------------
(* With the settings loaded.                                                *)

\* The server starts or gives up.
LEMMA StartServerKeeps ==
  ASSUME DeployInv, StartServer
  PROVE  DeployInv'
<1>1. spc = "loaded" /\ spc' \in {"serve", "exit"} /\ UNCHANGED <<config, unchangedByLoad>>
  BY DEF StartServer
<1>2. UNCHANGED <<up, gen, client, answer, config>>
  BY <1>1 DEF unchangedByLoad
<1>3. NotYet' /\ Keyed'
  BY <1>1, <1>2 DEF DeployInv, NotYet, Keyed
<1>4. Separate' /\ GeneratedFrom'
  BY <1>1, <1>2 DEF DeployInv, Separate, Listeners, AddressOf, GeneratedFrom, buildClientConfig,
     controlPath, controlMethod
<1>5. ClientFrom' /\ AdmittedKnows'
  BY <1>1, <1>2 DEF DeployInv, ClientFrom, AdmittedKnows, controlPath, controlMethod
<1> QED
  BY <1>1, <1>2, <1>3, <1>4, <1>5 DEF DeployInv

\* Listeners come up and go down.
LEMMA ListenersKeep ==
  ASSUME DeployInv, NEW l \in {"public", "control"}, Listen(l) \/ ListenerFails(l) \/ ServeEnds
  PROVE  DeployInv'
<1>1. /\ spc = "serve" /\ spc' \in {"serve", "exit"}
      /\ UNCHANGED <<config, gen, client, answer>>
  BY DEF Listen, ListenerFails, ServeEnds
<1>2. NotYet' /\ Keyed'
  BY <1>1 DEF DeployInv, NotYet, Keyed
<1>3. GeneratedFrom'
  BY <1>1 DEF DeployInv, GeneratedFrom, buildClientConfig, controlPath, controlMethod
<1>4. ClientFrom' /\ AdmittedKnows'
  BY <1>1 DEF DeployInv, ClientFrom, AdmittedKnows, controlPath, controlMethod
<1>5. ASSUME up' \subseteq up
      PROVE  Separate'
  BY <1>1, <1>5 DEF DeployInv, Separate, Listeners, AddressOf
<1>6. ASSUME Listen(l)
      PROVE  Separate'
  <2>1. CASE up' = up
    BY <1>5, <2>1
  <2>2. CASE up' # up
    <3>1. up' = up \union {l} /\ l \in Listeners \ up /\ Sockets[AddressOf(l)] # {}
      BY <1>6, <2>2 DEF Listen
    <3>2. \A k \in up : Sockets[AddressOf(l)] \intersect Sockets[AddressOf(k)] = {}
      BY <1>6, <2>2 DEF Listen, Bound
    <3>3. UNCHANGED config
      BY <1>1
    <3>4. \A k \in up' : Sockets[AddressOf(k)] # {} /\ k \in Listeners
      BY <3>1 DEF DeployInv, Separate
    <3>5. ASSUME {"public", "control"} \subseteq up'
          PROVE  Sockets[config.listen] \intersect Sockets[config.listenControl] = {}
      <4>1. {"public", "control"} \subseteq up \union {l} /\ l \notin up
        BY <3>1, <3>5
      <4>2. CASE l = "public"
        BY <3>2, <4>1, <4>2 DEF AddressOf
      <4>3. CASE l = "control"
        BY <3>2, <4>1, <4>3 DEF AddressOf
      <4> QED
        BY <4>2, <4>3
    <3> QED
      BY <3>3, <3>4, <3>5 DEF Separate, Listeners, AddressOf
  <2> QED
    BY <2>1, <2>2
<1>7. ASSUME ListenerFails(l) \/ ServeEnds
      PROVE  Separate'
  BY <1>5, <1>7 DEF ListenerFails, ServeEnds
<1> QED
  BY <1>1, <1>2, <1>3, <1>4, <1>6, <1>7 DEF DeployInv

\* The generator prints what it checked.
LEMMA GenerateKeeps ==
  ASSUME DeployInv, NEW o \in Options, GenerateClientConfig(o)
  PROVE  DeployInv'
<1>1. /\ spc = "loaded" /\ gen' = [opts |-> o, config |-> buildClientConfig(o)]
      /\ UNCHANGED <<config, spc, up, client, answer>>
  BY DEF GenerateClientConfig
<1>2. client = None
  BY <1>1 DEF DeployInv, NotYet
<1>3. gen'.opts = o /\ gen'.config = buildClientConfig(o)
  BY <1>1
<1>4. buildClientConfig(o)' = buildClientConfig(o)
  BY <1>1 DEF buildClientConfig, controlPath, controlMethod
<1>5. GeneratedFrom'
  BY <1>1, <1>3 DEF GeneratedFrom, GenerateClientConfig, buildClientConfig, controlPath, controlMethod
<1>6. NotYet' /\ Keyed' /\ Separate'
  BY <1>1 DEF DeployInv, NotYet, Keyed, Separate, Listeners, AddressOf
<1>7. ClientFrom' /\ AdmittedKnows'
  BY <1>1, <1>2 DEF DeployInv, ClientFrom, AdmittedKnows
<1> QED
  BY <1>1, <1>5, <1>6, <1>7 DEF DeployInv

\* The client starts from a configuration, perhaps the generated one.
LEMMA StartClientKeeps ==
  ASSUME DeployInv, NEW c, NEW hostname, NEW key, StartClient(c, hostname, key)
  PROVE  DeployInv'
<1>1. spc = "serve" /\ client = None /\ UNCHANGED <<config, spc, up, gen, answer>>
  BY DEF StartClient
<1>2. answer = None
  BY <1>1 DEF DeployInv, AdmittedKnows
<1>3. client' = [identifier |-> getIdentifier(c, hostname),
                 signatureKey |-> getSignatureKey(c, key),
                 serverAddress |-> c.serverAddress,
                 controlPath |-> OrDefault(c.controlPath, DefaultControlPath),
                 controlMethod |-> OrDefault(c.controlMethod, DefaultControlMethod),
                 domain |-> c.domain,
                 generated |-> gen # None /\ c = gen.config]
  BY DEF StartClient
<1>4. ClientFrom'
  <2> SUFFICES ASSUME client'.generated
               PROVE  /\ gen # None
                      /\ gen.opts.identifier # "" => client'.identifier = gen.opts.identifier
                      /\ client'.serverAddress = gen.config.serverAddress
                      /\ client'.controlPath = controlPath
                      /\ client'.controlMethod = controlMethod
                      /\ client'.domain = gen.opts.domain
    BY <1>1 DEF ClientFrom, controlPath, controlMethod
  <2>1. gen # None /\ c = gen.config
    BY <1>3
  <2>2. c = buildClientConfig(gen.opts)
    BY <2>1 DEF DeployInv, GeneratedFrom
  <2>3. /\ c.identifier = gen.opts.identifier /\ c.domain = gen.opts.domain
        /\ c.controlPath = controlPath /\ c.controlMethod = controlMethod
    BY <2>2 DEF buildClientConfig
  <2>4. controlPath # "" /\ controlMethod # ""
    BY DEF controlPath, controlMethod, OrDefault, DefaultControlPath, DefaultControlMethod
  <2> QED
    BY <1>3, <2>1, <2>3, <2>4 DEF getIdentifier, OrDefault
<1>5. NotYet' /\ Keyed'
  BY <1>1 DEF DeployInv, NotYet, Keyed
<1>6. Separate' /\ GeneratedFrom'
  BY <1>1 DEF DeployInv, Separate, Listeners, AddressOf, GeneratedFrom, buildClientConfig,
     controlPath, controlMethod
<1>7. AdmittedKnows'
  BY <1>1, <1>2 DEF AdmittedKnows
<1> QED
  BY <1>1, <1>4, <1>5, <1>6, <1>7 DEF DeployInv

\* The request that Client.connect makes.
TheRequest ==
    [method |-> client.controlMethod, id |-> client.identifier,
     signature |-> A!signIdentifier(client.identifier, client.signatureKey),
     wellFormed |-> TRUE, host |-> client.domain]

\* What a control request that arrives at listener l is answered.
Answered(l) ==
    LET by == Handler(l, client.controlPath)
    IN [listener |-> l, by |-> by,
        status |-> CASE by = "NotFound" -> 404
                     [] by = "handleHTTP" -> 502
                     [] by = "checkConnect" -> A!Admit(TheRequest)]

\* The control request reaches a listener that is up.
LEMMA RequestAnswered ==
  ASSUME ControlRequest
  PROVE  /\ client # None
         /\ \E l \in up :
              /\ Dest[client.serverAddress] \in Sockets[AddressOf(l)]
              /\ answer' = Answered(l)
         /\ UNCHANGED <<config, next, spc, up, errs, gen, client>>
<1>1. client # None /\ UNCHANGED <<config, next, spc, up, errs, gen, client>>
  BY DEF ControlRequest
<1>2. PICK l \in up :
        /\ Dest[client.serverAddress] \in Sockets[AddressOf(l)]
        /\ LET by == Handler(l, client.controlPath)
               status == CASE by = "NotFound" -> 404
                           [] by = "handleHTTP" -> 502
                           [] by = "checkConnect" -> A!Admit(TheRequest)
           IN answer' = [listener |-> l, by |-> by, status |-> status]
  BY DEF ControlRequest, TheRequest
<1>3. answer' = Answered(l)
  BY <1>2 DEF Answered
<1>4. Dest[client.serverAddress] \in Sockets[AddressOf(l)]
  BY <1>2, Zenon
<1> QED
  BY <1>1, <1>3, <1>4

\* Whoever is admitted signed with the key and asked for an allowed domain.
LEMMA AdmittedBy ==
  ASSUME NEW l, Answered(l).status = 200
  PROVE  /\ Answered(l).by = "checkConnect"
         /\ client.signatureKey = config.signatureKey
         /\ \E p \in Range(config.allowedHosts) : client.domain \in Match[p]
<1>1. Handler(l, client.controlPath) \in {"NotFound", "handleHTTP", "checkConnect"}
  BY DEF Handler
<1>2. Handler(l, client.controlPath) = "checkConnect" /\ A!Admit(TheRequest) = 200
  BY <1>1 DEF Answered
<1>3. /\ A!signIdentifier(client.identifier, client.signatureKey)
          = A!signIdentifier(client.identifier, config.signatureKey)
      /\ client.domain \in UNION {Match[p] : p \in Range(config.allowedHosts)}
  BY <1>2 DEF A!Admit, A!checkIdentifierSignature, A!checkHost, TheRequest
<1> QED
  BY <1>2, <1>3 DEF A!signIdentifier, Answered

\* Admission records who was admitted.
LEMMA ControlRequestKeeps ==
  ASSUME DeployInv, ControlRequest
  PROVE  DeployInv'
<1>1. client # None /\ UNCHANGED <<config, spc, up, gen, client>>
  BY RequestAnswered
<1>2. PICK l \in up : answer' = Answered(l)
  BY RequestAnswered
<1>3. AdmittedKnows'
  BY <1>1, <1>2, AdmittedBy DEF AdmittedKnows
<1>4. NotYet' /\ Keyed'
  BY <1>1 DEF DeployInv, NotYet, Keyed
<1>5. Separate' /\ GeneratedFrom'
  BY <1>1 DEF DeployInv, Separate, Listeners, AddressOf, GeneratedFrom, buildClientConfig,
     controlPath, controlMethod
<1>6. ClientFrom'
  BY <1>1 DEF DeployInv, ClientFrom, controlPath, controlMethod
<1> QED
  BY <1>1, <1>3, <1>4, <1>5, <1>6 DEF DeployInv

-----------------------------------------------------------------------------
(* The theorems.                                                            *)

\* Every step keeps the invariant.
LEMMA DeployNext ==
  ASSUME DeployInv, [Next]_vars
  PROVE  DeployInv'
<1>1. CASE UNCHANGED vars
  <2>1. UNCHANGED <<config, spc, up, gen, client, answer>>
    BY <1>1 DEF vars
  <2>2. NotYet' /\ Keyed' /\ AdmittedKnows'
    BY <2>1 DEF DeployInv, NotYet, Keyed, AdmittedKnows
  <2>3. Separate' /\ GeneratedFrom' /\ ClientFrom'
    BY <2>1 DEF DeployInv, Separate, Listeners, AddressOf, GeneratedFrom, buildClientConfig,
       controlPath, controlMethod, ClientFrom
  <2> QED
    BY <2>1, <2>2, <2>3 DEF DeployInv
<1>2. CASE Next
  BY <1>2, LoadNext, StartServerKeeps, ListenersKeep, GenerateKeeps, StartClientKeeps,
     ControlRequestKeeps DEF Next, Serve
<1> QED
  BY <1>1, <1>2

\* DeployInv is an invariant.
THEOREM DeployInvariance == Spec => []DeployInv
<1>1. Init => DeployInv
  <2> SUFFICES ASSUME Init
               PROVE  DeployInv
    OBVIOUS
  <2>1. << >> \in Seq(STRING) /\ "" \in Text /\ "" \in Addresses
    BY DEF Text, Addresses
  <2>2. config \in LoadedConfig
    BY <2>1 DEF Init, NoConfig, LoadedConfig
  <2> QED
    BY <2>2 DEF Init, DeployInv, NotYet, Keyed, Separate, GeneratedFrom, ClientFrom, AdmittedKnows
<1>2. DeployInv /\ [Next]_vars => DeployInv'
  BY DeployNext
<1> QED
  BY <1>1, <1>2, PTL DEF Spec

\* The operator writes no blank pattern himself, in the file or in a JSON array.
NoBlankWritten ==
    /\ \A c \in Files : "" \notin Range(c.allowedHosts)
    /\ \A v \in EnvList["allowedHosts"] : v.json => "" \notin Range(v.parts)

NoBlank == "" \notin Range(config.allowedHosts)

\* No variable puts a blank pattern among the allowed hosts.
LEMMA BlankNext ==
  ASSUME NoBlankWritten, DeployInv, NoBlank, [Next]_vars
  PROVE  NoBlank'
<1>1. CASE UNCHANGED config
  BY <1>1 DEF NoBlank
<1>2. CASE ReadFile
  <2>1. "" \notin Range(NoConfig.allowedHosts)
    BY RangeOfNothing DEF NoConfig
  <2> QED
    BY <1>2, <2>1 DEF ReadFile, NoBlank, NoBlankWritten
<1>3. CASE applyEnvString
  <2> DEFINE x == EnvOrder[next]
  <2>1. PICK v \in EnvString[x] : config' = [config EXCEPT ![x] = v]
    BY <1>3 DEF applyEnvString
  <2>2. x \in {"listen", "listenControl", "signatureKey", "controlPath", "controlMethod"}
    BY <1>3, SettingsAssumption DEF applyEnvString, Overlays
  <2> HIDE DEF x
  <2>3. config'.allowedHosts = config.allowedHosts
    BY <2>1, <2>2 DEF DeployInv, LoadedConfig
  <2> QED
    BY <2>3 DEF NoBlank
<1>4. CASE applyEnvList
  <2> DEFINE x == EnvOrder[next]
  <2>1. PICK v \in EnvList[x] :
           IF v.json /\ ~v.valid THEN UNCHANGED config
           ELSE config' = [config EXCEPT ![x] = ListValue(v)]
    BY <1>4 DEF applyEnvList
  <2>2. x \in {"allowedHosts", "allowedClients"}
    BY <1>4, SettingsAssumption DEF applyEnvList, Overlays
  <2> HIDE DEF x
  <2>3. CASE UNCHANGED config
    BY <1>1, <2>3
  <2>4. CASE config' = [config EXCEPT ![x] = ListValue(v)] /\ x = "allowedClients"
    <3>1. config'.allowedHosts = config.allowedHosts
      BY <2>4 DEF DeployInv, LoadedConfig
    <3> QED
      BY <3>1 DEF NoBlank
  <2>5. CASE config' = [config EXCEPT ![x] = ListValue(v)] /\ x = "allowedHosts"
    <3>1. config'.allowedHosts = ListValue(v)
      BY <2>5 DEF DeployInv, LoadedConfig
    <3>2. v \in ListText
      BY <2>1, <2>2, SettingsAssumption DEF ListText
    <3>3. "" \notin Range(ListValue(v))
      <4>1. CASE v.json
        BY <2>1, <2>5, <4>1 DEF ListValue, NoBlankWritten
      <4>2. CASE ~v.json
        <5>1. v.parts \in Seq(STRING) /\ ListValue(v) = NotBlank(v.parts)
          BY <3>2, <4>2 DEF ListText, ListValue
        <5>2. ListValue(v) \in Seq(STRING) /\ Filled(ListValue(v))
          BY <5>1, NotBlankFilled
        <5>3. DOMAIN ListValue(v) = 1 .. Len(ListValue(v))
          BY <5>2
        <5> QED
          BY <5>2, <5>3 DEF Filled, Range
      <4> QED
        BY <4>1, <4>2
    <3> QED
      BY <3>1, <3>3 DEF NoBlank
  <2> QED
    BY <2>1, <2>2, <2>3, <2>4, <2>5
<1>5. ReadFile \/ applyEnvString \/ applyEnvList \/ UNCHANGED config
  BY DEF Next, Serve, FileUnreadable, EnvUnset, applyEnvBool, checkRequiredSettings,
     GenerateClientConfig, StartServer, Listen, ListenerFails, ServeEnds, StartClient,
     ControlRequest, vars
<1> QED
  BY <1>1, <1>2, <1>3, <1>4, <1>5

\* Whoever is admitted knows the key, which is not empty, and asks for a domain that
\* a pattern matches which the operator wrote; a variable never opens the server.
THEOREM NothingOpenByOmission ==
  ASSUME NoBlankWritten
  PROVE  Spec => []ClosedByDefault
<1>1. Init => NoBlank
  <2>1. NoConfig.allowedHosts = << >>
    BY DEF NoConfig
  <2> QED
    BY <2>1, RangeOfNothing DEF Init, NoBlank
<1>2. DeployInv /\ NoBlank /\ [Next]_vars => NoBlank'
  BY BlankNext
<1>3. DeployInv /\ NoBlank => ClosedByDefault
  <2> SUFFICES ASSUME DeployInv, NoBlank, answer # None, answer.status = 200
               PROVE  /\ config.signatureKey # "" /\ client.signatureKey = config.signatureKey
                      /\ \E p \in Range(config.allowedHosts) \ {""} : client.domain \in Match[p]
    BY DEF ClosedByDefault
  <2>1. Keyed /\ AdmittedKnows
    BY DEF DeployInv
  <2>2. client # None
    BY <2>1, Zenon DEF AdmittedKnows
  <2>3. config.signatureKey # ""
    BY <2>1, <2>2, Zenon DEF Keyed
  <2>4. client.signatureKey = config.signatureKey
    BY <2>1, Zenon DEF AdmittedKnows
  <2>5. PICK p \in Range(config.allowedHosts) : client.domain \in Match[p]
    BY <2>1, Zenon DEF AdmittedKnows
  <2>6. p # ""
    BY <2>5, Zenon DEF NoBlank
  <2> QED
    BY <2>3, <2>4, <2>5, <2>6, Zenon
<1> QED
  BY <1>1, <1>2, <1>3, DeployInvariance, PTL DEF Spec

\* Only a control request changes the last answer.
LEMMA AnswerOfRequest ==
  ASSUME [Next]_vars, answer' # answer
  PROVE  ControlRequest
BY DEF Next, Serve, ReadFile, FileUnreadable, EnvUnset, applyEnvString, applyEnvBool, applyEnvList,
   checkRequiredSettings, unchangedByLoad, GenerateClientConfig, StartServer, Listen, ListenerFails,
   ServeEnds, StartClient, vars

\* With both listeners up, control requests are served on the control listener's
\* sockets and on none of the public one's.
THEOREM ControlKeptOffPublic == Spec => ControlOffPublic
<1> DEFINE Off == answer' # answer /\ up = {"public", "control"} /\ answer'.by = "checkConnect"
                    => Dest[client.serverAddress] \notin Sockets[config.listen]
<1>1. ASSUME DeployInv, [Next]_vars
      PROVE  [Off]_vars
  <2> SUFFICES ASSUME answer' # answer, up = {"public", "control"}, answer'.by = "checkConnect"
               PROVE  Dest[client.serverAddress] \notin Sockets[config.listen]
    OBVIOUS
  <2>1. PICK l \in up : /\ Dest[client.serverAddress] \in Sockets[AddressOf(l)]
                        /\ answer' = Answered(l)
    BY <1>1, AnswerOfRequest, RequestAnswered
  <2>2. config.listenControl # ""
    BY <1>1 DEF DeployInv, Separate, Listeners
  <2>3. l = "control"
    BY <2>1, <2>2 DEF Answered, Handler
  <2> QED
    BY <1>1, <2>1, <2>3 DEF DeployInv, Separate, AddressOf
<1> QED
  BY <1>1, DeployInvariance, PTL DEF Spec, ControlOffPublic

\* The server admits the client configuration it generated, whatever the file, the
\* environment, the options and the listeners.
THEOREM GeneratedAdmitted == Spec => GeneratedIsAdmitted
<1> DEFINE Adm == answer' # answer /\ up = Listeners /\ UsedAsGenerated /\ AddressIsRight
                    /\ Clean[controlPath] = controlPath
                      => answer'.by = "checkConnect" /\ answer'.status = 200
<1>1. ASSUME DeployInv, [Next]_vars
      PROVE  [Adm]_vars
  <2> SUFFICES ASSUME answer' # answer, up = Listeners, UsedAsGenerated, AddressIsRight,
                      Clean[controlPath] = controlPath
               PROVE  answer'.by = "checkConnect" /\ answer'.status = 200
    OBVIOUS
  <2>1. PICK l \in up : /\ Dest[client.serverAddress] \in Sockets[AddressOf(l)]
                        /\ answer' = Answered(l)
    BY <1>1, AnswerOfRequest, RequestAnswered
  <2>2. /\ gen # None /\ client.identifier = gen.opts.identifier
        /\ client.serverAddress = gen.config.serverAddress /\ client.domain = gen.opts.domain
        /\ client.controlPath = controlPath /\ client.controlMethod = controlMethod
        /\ client.signatureKey = config.signatureKey
    BY <1>1 DEF DeployInv, ClientFrom, UsedAsGenerated
  <2>3. /\ gen.config = buildClientConfig(gen.opts) /\ gen.config.serverAddress # ""
        /\ checkAgainstAllowedHosts(config.allowedHosts, gen.opts.domain)
        /\ checkAgainstAllowedClients(config.allowedClients, gen.opts.identifier)
    BY <1>1, <2>2 DEF DeployInv, GeneratedFrom
  <2>4. ASSUME config.listenControl # ""
        PROVE  l = "control"
    <3>1. up = {"public", "control"}
      BY <2>4 DEF Listeners
    <3>2. Sockets[config.listen] \intersect Sockets[config.listenControl] = {}
      BY <1>1, <3>1 DEF DeployInv, Separate
    <3>3. Sockets[config.listenControl] # {} /\ config.listenControl \in DOMAIN Sockets
      BY <1>1, <2>4, <3>1 DEF DeployInv, Separate, AddressOf, LoadedConfig, Addresses
    <3>4. Dest[client.serverAddress] \in Sockets[config.listenControl]
      <4>1. gen.config.serverAddress = clientFacingAddress(config.listenControl, gen.opts.address)
        <5>1. OrDefault(config.listenControl, config.listen) = config.listenControl
          BY <2>4 DEF OrDefault
        <5>2. buildClientConfig(gen.opts).serverAddress
                = clientFacingAddress(OrDefault(config.listenControl, config.listen), gen.opts.address)
          BY DEF buildClientConfig
        <5> QED
          BY <2>3, <5>1, <5>2
      <4>2. CASE gen.opts.address = ""
        <5>1. client.serverAddress = config.listenControl
          BY <2>2, <2>3, <4>1, <4>2 DEF clientFacingAddress
        <5> QED
          BY <3>3, <5>1, NetworkAssumption
      <4>3. CASE gen.opts.address # ""
        <5>1. client.serverAddress = gen.opts.address
          BY <2>2, <4>1, <4>3 DEF clientFacingAddress
        <5> QED
          BY <2>4, <4>3, <5>1 DEF AddressIsRight, OrDefault
      <4> QED
        BY <4>2, <4>3
    <3> QED
      BY <2>1, <3>1, <3>2, <3>4 DEF AddressOf
  <2>5. Handler(l, client.controlPath) = "checkConnect"
    BY <2>2, <2>4 DEF Handler, isControlRequest
  <2>6. A!Admit(TheRequest) = 200
    <3>1. /\ TheRequest.method = controlMethod /\ TheRequest.id = gen.opts.identifier
          /\ TheRequest.signature = A!signIdentifier(TheRequest.id, config.signatureKey)
          /\ TheRequest.wellFormed /\ TheRequest.host = gen.opts.domain
      BY <2>2 DEF TheRequest
    <3>2. A!checkIdentifier(gen.opts.identifier)
      BY <2>3, RangeOfNothing DEF checkAgainstAllowedClients, A!checkIdentifier
    <3>3. A!checkHost(gen.opts.domain)
      BY <2>3 DEF checkAgainstAllowedHosts, A!checkHost, Range
    <3> QED
      BY <3>1, <3>2, <3>3 DEF A!Admit, A!checkIdentifierSignature
  <2> QED
    BY <2>1, <2>5, <2>6 DEF Answered
<1> QED
  BY <1>1, DeployInvariance, PTL DEF Spec, GeneratedIsAdmitted

=============================================================================
