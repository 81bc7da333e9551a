--------------------------- MODULE RoundTripProofs ---------------------------
(***************************************************************************)
(* Proofs about RoundTrip, for any number of clients, keys and starts of   *)
(* the gateway, and key configurations of any length.                      *)
(***************************************************************************)
EXTENDS RoundTrip, TLAPS

-----------------------------------------------------------------------------
(* Key configuration files.                                                *)

\* What MarshalKeyConfig and a write that breaks off leave of a key pair: the
\* public key is missing or is that of the pair, and the name of the KEM is
\* missing only if the public key is.
LEMMA FileContent ==
    ASSUME NEW k \in KeyNumbers, NEW n \in 0..WholeFile
    PROVE  /\ FileOf(k, n).public_key = IF n >= 3 THEN k ELSE 0
           /\ n >= 2 => FileOf(k, n).kem = "P256_HKDF_SHA256"
<1>1. idToStr("KEM_P256_HKDF_SHA256", nameToKemID) = "P256_HKDF_SHA256"
  <2>1. \A name \in DOMAIN nameToKemID :
            nameToKemID[name] = "KEM_P256_HKDF_SHA256" <=> name = "P256_HKDF_SHA256"
    BY DEF nameToKemID
  <2>2. "P256_HKDF_SHA256" \in DOMAIN nameToKemID
    BY DEF nameToKemID
  <2> HIDE DEF nameToKemID
  <2> QED BY <2>1, <2>2 DEF idToStr
<1> HIDE DEF idToStr, nameToKemID
<1> QED BY <1>1 DEF FileOf, CutFile, MarshalKeyConfig, KeyConfig, YAML

\* Reading such a file never panics, and gives the public key that is in it
\* (UnmarshalKeyConfig).
LEMMA FilesAreReadable ==
    ASSUME NEW f \in KeyFiles
    PROVE  /\ f.public_key \in KeyNumbers
           /\ UnmarshalKeyConfig(f).failed \in {"no", "error"}
           /\ UnmarshalKeyConfig(f).failed = "no" =>
                 f.public_key # 0 /\ UnmarshalKeyConfig(f).kc.PublicKey = f.public_key
<1>1. PICK k \in KeyNumbers, n \in 0..WholeFile : f = FileOf(k, n)
  BY DEF KeyFiles
<1>2. f.public_key \in KeyNumbers /\ (f.public_key # 0 => f.kem = "P256_HKDF_SHA256")
  BY <1>1, FileContent, GatewayAssumption DEF WholeFile, KeyNumbers
<1>3. CASE f.public_key = 0
  BY <1>2, <1>3 DEF UnmarshalKeyConfig, Unusable
<1>4. CASE f.public_key # 0
  <2>1. f.kem \in DOMAIN nameToKemID
    BY <1>2, <1>4 DEF nameToKemID
  <2>2. UnmarshalKeyConfig(f) = Decode(f)
    BY <1>4 DEF UnmarshalKeyConfig
  <2> QED BY <1>2, <1>4, <2>1, <2>2 DEF Decode, Usable, Unusable
<1> QED BY <1>3, <1>4

\* Files that gen-key finishes, or empties.
LEMMA WholeAndEmptyFiles ==
    /\ NoKeyFile \in KeyFiles /\ NoKeyFile.public_key = 0
    /\ \A k \in KeyNumbers :
          FileOf(k, WholeFile) \in KeyFiles /\ FileOf(k, WholeFile).public_key = k
<1>1. 0 \in KeyNumbers /\ 0 \in 0..WholeFile /\ WholeFile \in 0..WholeFile /\ WholeFile >= 3
  BY GatewayAssumption DEF KeyNumbers, WholeFile
<1>2. NoKeyFile \in KeyFiles /\ NoKeyFile.public_key = 0
  <2>1. NoKeyFile = FileOf(0, 0)
    BY DEF NoKeyFile
  <2> QED BY <1>1, <2>1, FileContent DEF KeyFiles
<1>3. ASSUME NEW k \in KeyNumbers
      PROVE  FileOf(k, WholeFile) \in KeyFiles /\ FileOf(k, WholeFile).public_key = k
  BY <1>1, FileContent DEF KeyFiles
<1> QED BY <1>2, <1>3

-----------------------------------------------------------------------------
(* The inductive invariant.                                                *)

\* gen-key: unless the files are torn they hold the same pair, and from the
\* first write to the last they are.
FileInv ==
    /\ keyFile.public_key \in 0..newKey
    /\ ~torn => keyFile.public_key = privFile
    /\ gen \in {"configWrite", "priv", "privWrite"} => torn
    /\ gen \in {"priv", "privWrite"} => keyFile.public_key = newKey

\* The gateway: what it has loaded, where it is, and that files which nobody
\* touched while it read them are the ones it has loaded.
LoadInv ==
    /\ exit # "panic"
    /\ gw.config \in 0..newKey
    /\ gw.handler # "none" => gw.pc \in {"metrics", "wait", "shutdown"}
    /\ gw.listener # "none" => gw.pc \in {"wait", "shutdown"}
    /\ gw.pc \in {"down", "readConfig", "readKey"} => gw.secret = 0
    /\ gw.pc \notin {"down", "readConfig", "readKey"} => gw.config # 0 /\ gw.secret # 0
    /\ gw.pc = "readKey" => gw.config # 0
    /\ gw.pc \in {"readConfig", "readKey"} /\ ~gw.raced => ~torn
    /\ gw.pc = "readKey" /\ ~gw.raced => gw.config = keyFile.public_key
    /\ gw.secret # 0 /\ ~gw.raced => gw.config = gw.secret

GatewayInv == GatewayTypeOK /\ FileInv /\ LoadInv

-----------------------------------------------------------------------------
(* Steps of gen-key and of the gateway.                                    *)

\* The gateway is down and the files on disk are those of a finished gen-key.
LEMMA GatewayInitInv == GatewayInit => GatewayInv
<1> SUFFICES ASSUME GatewayInit PROVE GatewayInv
  OBVIOUS
<1>1. newKey \in KeyNumbers /\ newKey \in Nat /\ 0 \in KeyNumbers
  BY GatewayAssumption DEF GatewayInit, KeyNumbers
<1>2. keyFile \in KeyFiles /\ keyFile.public_key = newKey
  BY <1>1, WholeAndEmptyFiles DEF GatewayInit
<1>3. Down \in Processes
  BY <1>1 DEF Down, Processes
<1>4. GatewayTypeOK
  <2>1. 0 \in 0..MaxStarts
    BY GatewayAssumption
  <2>2. privFile \in KeyNumbers /\ newKey \in KeyNumbers /\ gw \in Processes /\ starts \in 0..MaxStarts
    BY <1>1, <1>3, <2>1 DEF GatewayInit
  <2>3. torn \in BOOLEAN /\ gen = "idle" /\ exit = "none" /\ inFlight = {}
    BY DEF GatewayInit
  <2> QED BY <1>2, <2>2, <2>3 DEF GatewayTypeOK
<1>5. FileInv
  BY <1>1, <1>2 DEF GatewayInit, FileInv
<1>6. LoadInv
  BY <1>1 DEF GatewayInit, LoadInv, Down
<1> QED BY <1>4, <1>5, <1>6 DEF GatewayInv

\* gen-key writes the configuration before the private key, and everything in
\* between counts as torn; a gateway that is loading meanwhile has raced.
LEMMA GenStepInv == ASSUME GatewayInv, GenStep PROVE GatewayInv' /\ newKey' >= newKey
<1> USE DEF GatewayInv
<1>1. /\ newKey \in Nat /\ newKey \in KeyNumbers /\ MaxKeys \in Nat
      /\ \A k : k \in KeyNumbers <=> k \in Nat /\ k <= MaxKeys
  BY GatewayAssumption DEF GatewayTypeOK, KeyNumbers
<1>2. CASE GenKey
  BY <1>1, <1>2 DEF GenKey, GatewayTypeOK, FileInv, LoadInv, procVars
<1>3. CASE OpenKeyConfig
  <2>1. gw' \in Processes /\ gw' = [gw EXCEPT !.raced = gw.raced \/ Loading]
    BY <1>3 DEF OpenKeyConfig, GatewayTypeOK, Processes
  <2>2. /\ gw'.pc = gw.pc /\ gw'.config = gw.config /\ gw'.secret = gw.secret
        /\ gw'.handler = gw.handler /\ gw'.listener = gw.listener
        /\ gw'.raced = (gw.raced \/ Loading)
    BY <2>1 DEF GatewayTypeOK, Processes
  <2>3. keyFile' \in KeyFiles /\ keyFile'.public_key = 0
    BY <1>3, WholeAndEmptyFiles DEF OpenKeyConfig
  <2>4. GatewayTypeOK'
    BY <1>3, <2>1, <2>3 DEF OpenKeyConfig, GatewayTypeOK
  <2>5. FileInv' /\ newKey' = newKey
    BY <1>1, <1>3, <2>3 DEF OpenKeyConfig, FileInv
  <2>6. LoadInv'
    BY <1>3, <2>2 DEF OpenKeyConfig, LoadInv, Loading
  <2> QED BY <1>1, <2>4, <2>5, <2>6
<1>4. CASE WriteKeyConfig
  <2>1. keyFile' \in KeyFiles /\ keyFile'.public_key = newKey
    BY <1>1, <1>4, WholeAndEmptyFiles DEF WriteKeyConfig
  <2> QED BY <1>1, <1>4, <2>1
          DEF WriteKeyConfig, GatewayTypeOK, FileInv, LoadInv, procVars
<1>5. CASE OpenPrivateKey
  BY <1>1, <1>5 DEF OpenPrivateKey, GatewayTypeOK, FileInv, LoadInv, procVars
<1>6. CASE WritePrivateKey
  <2>1. GatewayTypeOK'
    BY <1>1, <1>6 DEF WritePrivateKey, GatewayTypeOK, procVars
  <2>2. FileInv' /\ newKey' = newKey
    BY <1>6 DEF WritePrivateKey, FileInv
  <2>3. LoadInv'
    BY <1>6 DEF WritePrivateKey, FileInv, LoadInv, procVars
  <2> QED BY <1>1, <2>1, <2>2, <2>3
<1>7. ASSUME NEW fields \in 0..WholeFile, GenFails(fields)
      PROVE  GatewayInv' /\ newKey' >= newKey
  <2>1. FileOf(newKey, fields) \in KeyFiles /\ FileOf(newKey, fields).public_key \in 0..newKey
    BY <1>1, FileContent DEF KeyFiles
  <2>2. /\ keyFile' \in KeyFiles /\ keyFile'.public_key \in 0..newKey
        /\ ~torn => keyFile' = keyFile
    BY <1>7, <2>1 DEF GenFails, FileInv, GatewayTypeOK
  <2> QED BY <1>1, <1>7, <2>2 DEF GenFails, GatewayTypeOK, FileInv, LoadInv, procVars
<1> QED BY <1>2, <1>3, <1>4, <1>5, <1>6, <1>7 DEF GenStep

\* The end of the gateway's process forgets what it had loaded.
LEMMA ExitInv ==
    ASSUME GatewayInv, NEW how \in {"0", "1", "killed"}, Exit(how)
    PROVE  GatewayInv' /\ newKey' = newKey
<1>1. Down \in Processes
  BY GatewayAssumption DEF Down, Processes, KeyNumbers
<1>2. newKey \in Nat
  BY GatewayAssumption DEF GatewayInv, GatewayTypeOK, KeyNumbers
<1> QED BY <1>1, <1>2 DEF Exit, GatewayInv, GatewayTypeOK, FileInv, LoadInv, Down, fileVars

\* A stage of the gateway's process after the load, with the pair it has.
Loaded(g) ==
    /\ g \in Processes
    /\ g.config = gw.config /\ g.secret = gw.secret /\ g.raced = gw.raced
    /\ {gw.pc, g.pc} \subseteq {"newGateway", "signals", "metrics", "wait", "shutdown"}
    /\ g.handler # "none" => g.pc \in {"metrics", "wait", "shutdown"}
    /\ g.listener # "none" => g.pc \in {"wait", "shutdown"}

\* Such a stage keeps what was loaded.
LEMMA BecomesInv ==
    ASSUME GatewayInv, NEW g, Loaded(g), Becomes(g)
    PROVE  GatewayInv' /\ newKey' = newKey
BY DEF Loaded, Becomes, GatewayInv, GatewayTypeOK, FileInv, LoadInv, fileVars

\* The steps of the gateway's process once both files are read.
LEMMA ServingStepInv ==
    ASSUME GatewayInv,
           \/ NewGateway \/ SetupSignalHandler \/ InitMetrics \/ Shutdown
           \/ ListenAndServe \/ Signal \/ FirstSignal
    PROVE  GatewayInv' /\ newKey' = newKey
<1>1. /\ gw \in Processes
      /\ gw.handler # "none" => gw.pc \in {"metrics", "wait", "shutdown"}
      /\ gw.listener # "none" => gw.pc \in {"wait", "shutdown"}
  BY DEF GatewayInv, GatewayTypeOK, LoadInv
<1>2. Exit("1") \/ \E g : Loaded(g) /\ Becomes(g)
  <2>1. CASE NewGateway
    <3>1. Loaded([gw EXCEPT !.pc = "signals"])
      BY <1>1, <2>1 DEF NewGateway, Loaded, Processes
    <3> QED BY <2>1, <3>1 DEF NewGateway
  <2>2. CASE SetupSignalHandler
    <3>1. Loaded([gw EXCEPT !.pc = "metrics", !.handler = "first"])
      BY <1>1, <2>2 DEF SetupSignalHandler, Loaded, Processes
    <3> QED BY <2>2, <3>1 DEF SetupSignalHandler
  <2>3. CASE InitMetrics
    <3>1. Loaded([gw EXCEPT !.pc = "wait", !.listener = "starting"])
      BY <1>1, <2>3 DEF InitMetrics, Loaded, Processes
    <3> QED BY <2>3, <3>1 DEF InitMetrics
  <2>4. CASE Shutdown
    <3>1. Loaded([gw EXCEPT !.pc = "shutdown",
                            !.listener = IF @ = "serving" THEN "ended" ELSE @])
      BY <1>1, <2>4 DEF Shutdown, Loaded, Processes
    <3> QED BY <2>4, <3>1 DEF Shutdown
  <2>5. CASE ListenAndServe
    <3>1. Loaded([gw EXCEPT !.listener = IF gw.pc = "shutdown" THEN "ended" ELSE "serving"])
      BY <1>1, <2>5 DEF ListenAndServe, Loaded, Processes
    <3> QED BY <2>5, <3>1 DEF ListenAndServe
  <2>6. CASE Signal
    <3>1. Loaded([gw EXCEPT !.pending = @ + 1])
      BY <1>1, <2>6 DEF Signal, Loaded, Processes
    <3> QED BY <2>6, <3>1 DEF Signal
  <2>7. CASE FirstSignal
    <3> DEFINE g == [gw EXCEPT !.handler = "second", !.pending = @ - 1, !.ctxDone = TRUE]
    <3>1. g = [gw EXCEPT !.handler = "second", !.pending = gw.pending - 1, !.ctxDone = TRUE]
          /\ gw.pending - 1 \in 0..2
      BY <1>1, <2>7 DEF FirstSignal, Processes
    <3>2. g \in Processes
      BY <1>1, <3>1 DEF Processes
    <3>3. Loaded(g)
      BY <1>1, <2>7, <3>2 DEF FirstSignal, Loaded, Processes
    <3> QED BY <2>7, <3>3 DEF FirstSignal
  <2> QED BY <2>1, <2>2, <2>3, <2>4, <2>5, <2>6, <2>7
<1> QED BY <1>2, ExitInv, BecomesInv

\* Steps of the gateway's process: it goes on only with both files, and reads
\* the second one while nobody else writes, or has raced.
LEMMA GatewayStepInv == ASSUME GatewayInv, GatewayStep PROVE GatewayInv' /\ newKey' = newKey
<1>1. gw \in Processes /\ keyFile \in KeyFiles /\ privFile \in KeyNumbers
  BY DEF GatewayInv, GatewayTypeOK
<1>2. CASE Start
  <2>0. gw' = [pc |-> "readConfig", config |-> 0, secret |-> 0, raced |-> torn,
               handler |-> "none", pending |-> 0, ctxDone |-> FALSE, listener |-> "none"]
    BY <1>2 DEF Start, Down
  <2>1. gw' \in Processes
    BY <2>0, GatewayAssumption DEF Processes, KeyNumbers, GatewayInv, GatewayTypeOK
  <2>2. starts' \in 0..MaxStarts
    BY <1>2, GatewayAssumption DEF Start, GatewayInv, GatewayTypeOK
  <2>3. UNCHANGED <<fileVars, inFlight>> /\ exit' = "none" /\ newKey \in Nat
    BY <1>2, GatewayAssumption DEF Start, GatewayInv, GatewayTypeOK, KeyNumbers
  <2>4. GatewayTypeOK' /\ FileInv'
    BY <2>1, <2>2, <2>3 DEF GatewayInv, GatewayTypeOK, FileInv, fileVars
  <2>5. LoadInv'
    BY <2>0, <2>3 DEF LoadInv, fileVars
  <2> QED BY <2>3, <2>4, <2>5 DEF GatewayInv, fileVars
<1>3. CASE ReadKeyConfigFile
  <2> DEFINE r == UnmarshalKeyConfig(keyFile)
  <2>1. /\ r.failed \in {"no", "error"}
        /\ r.failed = "no" => r.kc.PublicKey = keyFile.public_key /\ keyFile.public_key # 0
        /\ keyFile.public_key \in KeyNumbers
    BY <1>1, FilesAreReadable
  <2> HIDE DEF r
  <2>2. gw.pc = "readConfig"
    BY <1>3 DEF ReadKeyConfigFile
  <2>3. CASE r.failed = "no"
    <3>1. gw' = [gw EXCEPT !.pc = "readKey", !.config = keyFile.public_key]
          /\ UNCHANGED <<fileVars, exit, starts, inFlight>>
      BY <1>3, <2>1, <2>3 DEF ReadKeyConfigFile, Becomes, r
    <3>2. /\ gw' \in Processes /\ gw'.pc = "readKey" /\ gw'.raced = gw.raced
          /\ gw'.config = keyFile.public_key /\ gw'.secret = gw.secret
          /\ gw'.listener = gw.listener
      BY <1>1, <2>1, <3>1 DEF Processes
    <3> QED BY <2>1, <2>2, <2>3, <3>1, <3>2
            DEF GatewayInv, GatewayTypeOK, FileInv, LoadInv, fileVars
  <2>4. CASE r.failed = "error"
    BY <1>3, <2>4, ExitInv DEF ReadKeyConfigFile, r
  <2> QED BY <2>1, <2>3, <2>4
<1>4. CASE ReadPrivateKeyFile
  <2>1. CASE privFile = 0
    BY <1>4, <2>1, ExitInv DEF ReadPrivateKeyFile
  <2>2. CASE privFile # 0
    <3>1. /\ gw.pc = "readKey"
          /\ gw' = [gw EXCEPT !.pc = "newGateway", !.secret = privFile]
          /\ UNCHANGED <<fileVars, exit, starts, inFlight>>
      BY <1>4, <2>2 DEF ReadPrivateKeyFile, Becomes
    <3>2. /\ gw' \in Processes /\ gw'.pc = "newGateway" /\ gw'.raced = gw.raced
          /\ gw'.config = gw.config /\ gw'.secret = privFile
          /\ gw'.listener = gw.listener
      BY <1>1, <3>1 DEF Processes
    <3> QED BY <2>2, <3>1, <3>2
            DEF GatewayInv, GatewayTypeOK, FileInv, LoadInv, fileVars
  <2> QED BY <2>1, <2>2
<1>5. CASE \E how \in {"0", "1", "killed"} : Exit(how)
  BY <1>5, ExitInv
<1> QED
  BY <1>2, <1>3, <1>4, <1>5, ServingStepInv
     DEF GatewayStep, GatewayProgress, ShutdownReturns, ServeFails, SecondSignal, Killed

-----------------------------------------------------------------------------
(* The clients and the relay between them and the gateway.                 *)

Exchanges == Clients \X {"keys", "ohttp"}

ClientTypes ==
    /\ client \in [Clients -> {"start", "load", "fetch", "wait", "seal", "request", "done"}]
    /\ from \in [Clients -> {"file", "gateway", "relay", "both"}]
    /\ have \in [Clients -> KeyLists]
    /\ verdict \in [Clients -> {"none", "passed", "failed"}]
    /\ seen \in [Clients -> [key : KeyNumbers, outer : BOOLEAN]]

RelayTypes ==
    /\ DOMAIN status = Exchanges /\ DOMAIN wants = Exchanges /\ DOMAIN asked = Exchanges
    /\ DOMAIN got = Exchanges /\ DOMAIN replied = Exchanges /\ DOMAIN answer = Exchanges

WholeKeys(c) == have[c].key \in 1..newKey /\ have[c].bytes = ConfigBytes + 2

\* A client's keys are settled before its request is sent, and the gateway's
\* reply to it is the one that was opened with them.
RequestInv(c) ==
    LET x == RequestOf(c) IN
    /\ client[c] \in {"start", "load", "fetch", "wait", "seal"} => status[x] = "new"
    /\ client[c] \in {"seal", "request"} => WholeKeys(c)
    /\ status[x] # "new" => WholeKeys(c)
    /\ status[x] = "new" => replied[x] = Relay!Nothing
    /\ replied[x] # Relay!Nothing =>
          /\ seen[c].key = have[c].key
          /\ \E ok \in BOOLEAN : replied[x] = Relay!Opaque(Echo(ok, seen[c].outer))

\* What the relay answers: to a request an error or the gateway's reply, to a
\* client that wants keys an error or as much as it got of some gateway's.
AnswerInv(c) ==
    LET x == RequestOf(c)
        k == KeysOf(c)
    IN
    /\ \/ answer[x] \in {Relay!Nothing, Relay!Error}
       \/ answer[x] = replied[x] /\ replied[x] # Relay!Nothing /\ got[x] = "whole"
    /\ replied[k] = Relay!Nothing
    /\ \/ answer[k] \in {Relay!Nothing, Relay!Error}
       \/ \E b \in KeyLists : answer[k] = Relay!Keys(b) /\ b.key \in 1..newKey
    /\ verdict[c] = "passed" => answer[x].kind = "reply" /\ ~answer[x].body.outer

ClientInv(c) == RequestInv(c) /\ AnswerInv(c)

IInv ==
    /\ GatewayInv
    /\ ClientTypes
    /\ RelayTypes
    /\ \A c \in Clients : ClientInv(c)

\* The two exchanges of a client are its own.
LEMMA OwnExchanges ==
    ASSUME NEW c \in Clients, NEW d \in Clients
    PROVE  /\ KeysOf(c) \in Exchanges /\ RequestOf(c) \in Exchanges
           /\ KeysOf(c) # RequestOf(d)
           /\ KeysOf(c) = KeysOf(d) => c = d
           /\ RequestOf(c) = RequestOf(d) => c = d
BY DEF KeysOf, RequestOf, Exchanges

\* Answers of different kinds differ.
LEMMA Kinds ==
    /\ Relay!Nothing.kind = "nothing" /\ Relay!Error.kind = "error"
    /\ \A b : Relay!Opaque(b).kind = "reply" /\ Relay!Opaque(b).body = b
    /\ \A b : Relay!Keys(b).kind = "keys" /\ Relay!Keys(b).body = b
BY DEF Relay!Nothing, Relay!Error, Relay!Opaque, Relay!Keys

\* What the gateway publishes while it serves is a key that gen-key made.
LEMMA PublishedKeysAreWhole ==
    ASSUME GatewayInv, Serving, NEW n \in 0..(ConfigBytes + 2)
    PROVE  /\ PublishedKeys(ConfigBytes) \in KeyLists
           /\ PublishedKeys(ConfigBytes).key \in 1..newKey
           /\ [PublishedKeys(ConfigBytes) EXCEPT !.bytes = n] \in KeyLists
           /\ [PublishedKeys(ConfigBytes) EXCEPT !.bytes = n].key \in 1..newKey
<1>1. gw.config \in KeyNumbers /\ gw.config \in 1..newKey
  BY GatewayAssumption
     DEF Serving, GatewayInv, GatewayTypeOK, Processes, LoadInv, KeyNumbers
<1> QED BY <1>1, ConfigAssumption DEF PublishedKeys, KeyLists

\* A key list that passes the checks of fetchKeyConfig is complete.
LEMMA UsedKeysAreWhole ==
    ASSUME NEW b \in KeyLists, ~TooShort(b)
    PROVE  b.bytes = ConfigBytes + 2
BY ConfigAssumption DEF TooShort, KeyLists

\* A client whose state, and whose exchanges, no step touches.
Aside(d) ==
    /\ client'[d] = client[d] /\ have'[d] = have[d] /\ verdict'[d] = verdict[d]
    /\ seen'[d] = seen[d]
    /\ \A x \in {KeysOf(d), RequestOf(d)} :
          /\ status'[x] = status[x] /\ got'[x] = got[x]
          /\ replied'[x] = replied[x] /\ answer'[x] = answer[x]

\* It keeps its invariant, whatever keys are made meanwhile.
LEMMA AsideInv ==
    ASSUME NEW d \in Clients, ClientInv(d), Aside(d), newKey' >= newKey,
           newKey \in Nat, newKey' \in Nat
    PROVE  ClientInv(d)'
<1>1. WholeKeys(d) => WholeKeys(d)'
  BY DEF Aside, WholeKeys
<1>2. RequestInv(d)'
  BY <1>1 DEF ClientInv, RequestInv, Aside
<1>3. \A k \in 1..newKey : k \in 1..newKey'
  OBVIOUS
<1>4. AnswerInv(d)'
  BY <1>3 DEF ClientInv, AnswerInv, Aside
<1> QED BY <1>2, <1>4 DEF ClientInv

\* Client and relay steps change nothing of gen-key and the gateway except for
\* the requests in flight.
LEMMA HandlersInv ==
    ASSUME GatewayInv, UNCHANGED <<fileVars, gw, exit, starts>>, inFlight' \subseteq Clients
    PROVE  GatewayInv' /\ newKey' = newKey
BY DEF GatewayInv, GatewayTypeOK, FileInv, LoadInv, fileVars

-----------------------------------------------------------------------------
(* Steps of a client.                                                      *)

\* A step of the client c that keeps its own part, and leaves the others aside.
LEMMA OwnStep ==
    ASSUME IInv, NEW c \in Clients,
           UNCHANGED <<fileVars, gw, exit, starts>>, inFlight' \subseteq Clients,
           ClientTypes', RelayTypes', ClientInv(c)',
           \A d \in Clients \ {c} : Aside(d)
    PROVE  IInv'
<1>1. GatewayInv' /\ newKey' = newKey
  BY HandlersInv DEF IInv
<1>2. newKey \in Nat
  BY GatewayAssumption DEF IInv, GatewayInv, GatewayTypeOK, KeyNumbers
<1>3. ASSUME NEW d \in Clients PROVE ClientInv(d)'
  <2>1. CASE d = c
    BY <2>1
  <2>2. CASE d # c
    BY <1>1, <1>2, <2>2, AsideInv DEF IInv
  <2> QED BY <2>1, <2>2
<1> QED BY <1>1, <1>3 DEF IInv

\* The client ends, and reports success only for a reply without the header
\* that was around its request.
LEMMA FinishInv ==
    ASSUME IInv, NEW c \in Clients, NEW how \in {"passed", "failed"},
           Finish(c, how), Quiet, UNCHANGED <<have, relayVars>>,
           how = "passed" => /\ answer[RequestOf(c)].kind = "reply"
                             /\ ~answer[RequestOf(c)].body.outer
    PROVE  IInv'
<1> USE DEF IInv
<1>1. ClientTypes' /\ RelayTypes'
  BY DEF Finish, Quiet, ClientTypes, RelayTypes, relayVars
<1>2. UNCHANGED <<newKey, seen, have, status, wants, asked, got, replied, answer>>
  BY DEF Quiet, fileVars, relayVars
<1>3. client'[c] = "done" /\ verdict'[c] = how
  BY DEF Finish, ClientTypes
<1>4. ClientInv(c)'
  BY <1>2, <1>3 DEF ClientInv, RequestInv, AnswerInv, WholeKeys
<1>5. \A d \in Clients \ {c} : Aside(d)
  BY <1>2 DEF Aside, Finish, ClientTypes
<1>6. inFlight' \subseteq Clients /\ UNCHANGED <<fileVars, gw, exit, starts>>
  BY DEF Quiet, procVars, GatewayInv, GatewayTypeOK
<1> QED BY <1>1, <1>4, <1>5, <1>6, OwnStep

\* A step before the request is sent, to "seal" only with whole keys.
LEMMA EarlyStepInv ==
    ASSUME IInv, NEW c \in Clients, NEW next \in {"load", "fetch", "seal"}, NEW b \in KeyLists,
           Goto(c, next), Quiet, UNCHANGED relayVars,
           client[c] \in {"start", "load", "fetch", "wait"},
           have' = [have EXCEPT ![c] = b],
           next = "seal" => b.key \in 1..newKey /\ b.bytes = ConfigBytes + 2
    PROVE  IInv'
<1> USE DEF IInv
<1>1. ClientTypes' /\ RelayTypes'
  BY DEF Goto, Quiet, ClientTypes, RelayTypes, relayVars
<1>2. UNCHANGED <<newKey, seen, verdict, status, wants, asked, got, replied, answer>>
  BY DEF Quiet, fileVars, relayVars, Goto
<1>3. client'[c] = next /\ have'[c] = b
  BY DEF Goto, ClientTypes
<1>4. ClientInv(c)'
  BY <1>2, <1>3 DEF ClientInv, RequestInv, AnswerInv, WholeKeys
<1>5. \A d \in Clients \ {c} : Aside(d)
  BY <1>2 DEF Aside, Goto, ClientTypes
<1>6. inFlight' \subseteq Clients /\ UNCHANGED <<fileVars, gw, exit, starts>>
  BY DEF Quiet, procVars, GatewayInv, GatewayTypeOK
<1> QED BY <1>1, <1>4, <1>5, <1>6, OwnStep

\* A step that opens an exchange with the relay.
LEMMA BeginInv ==
    ASSUME IInv, NEW c \in Clients, AskForKeys(c) \/ Encapsulate(c)
    PROVE  IInv'
<1> USE DEF IInv
<1>0. Quiet /\ UNCHANGED have
  BY DEF AskForKeys, Encapsulate
<1>1. PICK x \in {KeysOf(c), RequestOf(c)}, what \in {"keys", "ohttp"},
           next \in {"wait", "request"} :
        /\ Relay!Begin(x, what, TRUE) /\ Goto(c, next)
        /\ next = "wait" => x = KeysOf(c) /\ client[c] = "fetch"
        /\ next = "request" => x = RequestOf(c) /\ client[c] = "seal"
  BY DEF AskForKeys, Encapsulate
<1>2. UNCHANGED <<newKey, seen, have, verdict, got, replied, answer>>
  BY <1>0, <1>1 DEF Quiet, fileVars, Goto, Relay!Begin
<1>3. status' = [status EXCEPT ![x] = "open"]
  BY <1>1 DEF Relay!Begin
<1>4. ClientTypes' /\ RelayTypes'
  <2>1. ClientTypes'
    BY <1>0, <1>1, <1>2 DEF Goto, Quiet, ClientTypes
  <2>2. RelayTypes'
    BY <1>1, <1>2 DEF Relay!Begin, RelayTypes
  <2> QED BY <2>1, <2>2
<1>5. client'[c] = next
  BY <1>1 DEF Goto, ClientTypes
<1>6. ClientInv(c)'
  <2>1. next = "wait" => status'[RequestOf(c)] = status[RequestOf(c)]
    BY <1>1, <1>3, OwnExchanges DEF RelayTypes
  <2>2. RequestInv(c)'
    BY <1>1, <1>2, <1>5, <2>1 DEF ClientInv, RequestInv, WholeKeys
  <2>3. AnswerInv(c)'
    BY <1>2 DEF ClientInv, AnswerInv
  <2> QED BY <2>2, <2>3 DEF ClientInv
<1>7. ASSUME NEW d \in Clients \ {c} PROVE Aside(d)
  <2>1. client'[d] = client[d]
    BY <1>1 DEF Goto, ClientTypes
  <2>2. x \notin {KeysOf(d), RequestOf(d)}
    BY OwnExchanges
  <2> QED BY <1>2, <1>3, <2>1, <2>2 DEF Aside, RelayTypes
<1>8. inFlight' \subseteq Clients /\ UNCHANGED <<fileVars, gw, exit, starts>>
  BY <1>0 DEF Quiet, procVars, GatewayInv, GatewayTypeOK
<1> QED BY <1>4, <1>6, <1>7, <1>8, OwnStep

\* Every step of the test client: keys are used only if fetchKeyConfig or the
\* file reader accepted them, and the verdict follows the answer.
LEMMA ClientStepInv == ASSUME IInv, NEW c \in Clients, ClientStep(c) PROVE IInv'
<1>0. have[c] \in KeyLists /\ have = [have EXCEPT ![c] = have[c]] /\ newKey \in Nat
      /\ GatewayInv /\ ConfigBytes + 2 \in 0..(ConfigBytes + 2)
  BY ConfigAssumption, GatewayAssumption
     DEF IInv, ClientTypes, GatewayInv, GatewayTypeOK, KeyNumbers
<1>1. CASE StartRun(c)
  <2>1. CASE Finish(c, "failed")
    BY <1>1, <2>1, FinishInv DEF StartRun
  <2>2. ASSUME NEW next \in {"load", "fetch"}, Goto(c, next) PROVE IInv'
    BY <1>0, <1>1, <2>2, EarlyStepInv DEF StartRun
  <2> QED BY <1>1, <2>1, <2>2 DEF StartRun
<1>2. CASE LoadKeyFile(c)
  <2> DEFINE r == UnmarshalKeyConfig(keyFile)
             b == [key |-> r.kc.PublicKey, declared |-> ConfigBytes,
                   bytes |-> ConfigBytes + 2]
  <2>1. CASE r.failed # "no"
    BY <1>2, <2>1, FinishInv DEF LoadKeyFile
  <2>2. CASE r.failed = "no"
    <3>1. r.kc.PublicKey \in KeyNumbers /\ r.kc.PublicKey \in 1..newKey
      <4>1. /\ keyFile.public_key \in KeyNumbers /\ keyFile.public_key # 0
            /\ r.kc.PublicKey = keyFile.public_key
        BY <2>2, FilesAreReadable DEF IInv, GatewayInv, GatewayTypeOK
      <4>2. keyFile.public_key \in 0..newKey
        BY DEF IInv, GatewayInv, FileInv
      <4> HIDE DEF r
      <4> QED BY <1>0, <4>1, <4>2
    <3>2. client[c] = "load" /\ Goto(c, "seal") /\ have' = [have EXCEPT ![c] = b]
          /\ Quiet /\ UNCHANGED relayVars
      BY <1>2, <2>2 DEF LoadKeyFile
    <3> HIDE DEF r
    <3>3. b \in KeyLists /\ b.key \in 1..newKey /\ b.bytes = ConfigBytes + 2
      BY <1>0, <3>1 DEF KeyLists
    <3> HIDE DEF b
    <3> QED BY <3>2, <3>3, EarlyStepInv
  <2> QED BY <2>1, <2>2
<1>3. ASSUME NEW b \in KeyLists, b.key \in 1..newKey, UseKeys(c, b), Quiet, UNCHANGED relayVars,
             client[c] \in {"fetch", "wait"}
      PROVE  IInv'
  <2>1. CASE TooShort(b)
    BY <1>3, <2>1, FinishInv DEF UseKeys
  <2>2. CASE ~TooShort(b)
    <3>1. b.bytes = ConfigBytes + 2
      BY <2>2, UsedKeysAreWhole
    <3> QED BY <1>3, <2>2, <3>1, EarlyStepInv DEF UseKeys
  <2> QED BY <2>1, <2>2
<1>4. CASE FetchKeys(c)
  <2>1. CASE Finish(c, "failed") /\ UNCHANGED have
    BY <1>4, <2>1, FinishInv DEF FetchKeys
  <2>2. CASE Serving /\ UseKeys(c, PublishedKeys(ConfigBytes))
    <3>1. /\ PublishedKeys(ConfigBytes) \in KeyLists
          /\ PublishedKeys(ConfigBytes).key \in 1..newKey
      BY <1>0, <2>2, PublishedKeysAreWhole
    <3> QED BY <1>3, <1>4, <2>2, <3>1 DEF FetchKeys
  <2> QED BY <1>4, <2>1, <2>2 DEF FetchKeys
<1>5. CASE ReceiveKeys(c)
  <2> DEFINE a == answer[KeysOf(c)]
  <2>1. CASE a.kind = "keys"
    <3>1. a \in {Relay!Nothing, Relay!Error}
          \/ \E b \in KeyLists : a = Relay!Keys(b) /\ b.key \in 1..newKey
      BY DEF IInv, ClientInv, AnswerInv
    <3>2. a.body \in KeyLists /\ a.body.key \in 1..newKey
      BY <2>1, <3>1, Kinds
    <3> QED BY <1>3, <1>5, <2>1, <3>2 DEF ReceiveKeys
  <2>2. CASE a.kind # "keys"
    BY <1>5, <2>2, FinishInv DEF ReceiveKeys
  <2> QED BY <2>1, <2>2
<1>6. CASE ReceiveResponse(c)
  <2> DEFINE a == answer[RequestOf(c)]
             how == IF a.kind # "reply" \/ FailsChecks(a.body) THEN "failed" ELSE "passed"
  <2>1. how \in {"passed", "failed"} /\ Finish(c, how) /\ Quiet /\ UNCHANGED <<have, relayVars>>
    BY <1>6 DEF ReceiveResponse
  <2>2. how = "passed" => a.kind = "reply" /\ ~a.body.outer
    BY DEF FailsChecks
  <2> HIDE DEF how
  <2> QED BY <2>1, <2>2, FinishInv
<1>7. CASE GiveUp(c)
  BY <1>7, FinishInv DEF GiveUp
<1>8. CASE AskForKeys(c) \/ Encapsulate(c)
  BY <1>8, BeginInv
<1> QED BY <1>1, <1>2, <1>4, <1>5, <1>6, <1>7, <1>8 DEF ClientStep

-----------------------------------------------------------------------------
(* Steps of the relay and of the gateway's handlers.                       *)

\* An answer of the relay, of a kind that AnswerInv allows.
LEMMA AnswerStepInv ==
    ASSUME IInv, NEW c \in Clients, NEW x \in {KeysOf(c), RequestOf(c)}, NEW a,
           Relay!Answer(x, a), RelayQuiet, UNCHANGED <<inFlight, seen>>,
           \/ a = Relay!Error
           \/ x = RequestOf(c) /\ a = replied[x] /\ a # Relay!Nothing /\ got[x] = "whole"
           \/ x = KeysOf(c) /\ \E b \in KeyLists : a = Relay!Keys(b) /\ b.key \in 1..newKey
    PROVE  IInv'
<1> USE DEF IInv
<1>1. /\ answer[x] = Relay!Nothing /\ answer' = [answer EXCEPT ![x] = a]
      /\ UNCHANGED <<status, wants, asked, got, replied>>
  BY DEF Relay!Answer
<1>2. UNCHANGED <<newKey, seen, client, have, from, verdict>>
  BY DEF RelayQuiet, fileVars, clientVars
<1>3. ClientTypes' /\ RelayTypes'
  BY <1>1, <1>2 DEF ClientTypes, RelayTypes
<1>4. answer'[x] = a /\ \A y \in Exchanges \ {x} : answer'[y] = answer[y]
  BY <1>1, OwnExchanges DEF RelayTypes
<1>5. ClientInv(c)'
  <2>1. RequestInv(c)'
    BY <1>1, <1>2 DEF ClientInv, RequestInv, WholeKeys
  <2>2. CASE x = KeysOf(c)
    <3>1. answer'[RequestOf(c)] = answer[RequestOf(c)] /\ x # RequestOf(c)
      BY <1>4, <2>2, OwnExchanges
    <3> QED BY <1>1, <1>2, <1>4, <2>1, <2>2, <3>1 DEF ClientInv, AnswerInv
  <2>3. CASE x = RequestOf(c)
    <3>1. answer'[KeysOf(c)] = answer[KeysOf(c)] /\ x # KeysOf(c)
      BY <1>4, <2>3, OwnExchanges
    <3>2. verdict[c] # "passed"
      BY <1>1, <2>3, Kinds DEF ClientInv, AnswerInv
    <3> QED BY <1>1, <1>2, <1>4, <2>1, <2>3, <3>1, <3>2 DEF ClientInv, AnswerInv
  <2> QED BY <2>2, <2>3
<1>6. ASSUME NEW d \in Clients \ {c} PROVE Aside(d)
  <2>1. \A y \in {KeysOf(d), RequestOf(d)} : answer'[y] = answer[y]
    BY <1>4, OwnExchanges
  <2> QED BY <1>1, <1>2, <2>1 DEF Aside
<1>7. inFlight' \subseteq Clients /\ UNCHANGED <<fileVars, gw, exit, starts>>
  BY DEF RelayQuiet, GatewayInv, GatewayTypeOK
<1> QED BY <1>3, <1>5, <1>6, <1>7, OwnStep

\* The gateway opens a request only with the key it was sealed with, and the
\* relay passes on its reply or an error.
LEMMA RelayStepInv == ASSUME IInv, NEW c \in Clients, RelayStep(c) PROVE IInv'
<1> DEFINE x == RequestOf(c)
<1>0. KeysOf(c) \in Exchanges /\ x \in Exchanges /\ x # KeysOf(c)
  BY OwnExchanges
<1>1. ASSUME NEW n \in 0..(ConfigBytes + 2), RelayKeys(c, n) PROVE IInv'
  <2> DEFINE b == [PublishedKeys(ConfigBytes) EXCEPT !.bytes = n]
  <2>1. b \in KeyLists /\ b.key \in 1..newKey
    BY <1>1, PublishedKeysAreWhole DEF RelayKeys, IInv
  <2>2. Relay!Answer(KeysOf(c), Relay!Keys(b)) /\ RelayQuiet /\ UNCHANGED <<inFlight, seen>>
    BY <1>1 DEF RelayKeys
  <2> HIDE DEF b
  <2> QED BY <2>1, <2>2, AnswerStepInv
<1>2. CASE RelayForwards(c)
  <2> USE DEF IInv
  <2>0. PICK what \in {"whole", "other"} : Relay!Forward(x, what)
    BY <1>2 DEF RelayForwards
  <2>1. /\ what = "other" => answer[x] = Relay!Error
        /\ got' = [got EXCEPT ![x] = what]
        /\ UNCHANGED <<status, wants, asked, replied, answer, seen>>
        /\ inFlight' = inFlight \cup {c}
        /\ RelayQuiet
    BY <1>2, <2>0 DEF RelayForwards, Relay!Forward
  <2>2. UNCHANGED <<newKey, client, have, from, verdict>>
    BY <2>1 DEF RelayQuiet, fileVars, clientVars
  <2>3. ClientTypes' /\ RelayTypes'
    BY <2>1, <2>2 DEF ClientTypes, RelayTypes
  <2>4. got'[x] = what /\ \A y \in Exchanges \ {x} : got'[y] = got[y]
    BY <1>0, <2>1 DEF RelayTypes
  <2>5. ClientInv(c)'
    <3>1. RequestInv(c)'
      BY <2>1, <2>2 DEF ClientInv, RequestInv, WholeKeys
    <3>2. AnswerInv(c)'
      BY <2>1, <2>2, <2>4 DEF ClientInv, AnswerInv
    <3> QED BY <3>1, <3>2 DEF ClientInv
  <2>6. ASSUME NEW d \in Clients \ {c} PROVE Aside(d)
    <3>1. \A y \in {KeysOf(d), RequestOf(d)} : got'[y] = got[y]
      BY <2>4, OwnExchanges
    <3> QED BY <2>1, <2>2, <3>1 DEF Aside
  <2>7. inFlight' \subseteq Clients /\ UNCHANGED <<fileVars, gw, exit, starts>>
    BY <2>1 DEF RelayQuiet, GatewayInv, GatewayTypeOK
  <2> QED BY <2>3, <2>5, <2>6, <2>7, OwnStep
<1>3. ASSUME NEW ok \in BOOLEAN, NEW outer \in BOOLEAN, GatewayEchoes(c, ok, outer) PROVE IInv'
  <2> USE DEF IInv
  <2> DEFINE r == Relay!Opaque(Echo(ok, outer))
  <2>1. /\ replied[x] = Relay!Nothing /\ replied' = [replied EXCEPT ![x] = r]
        /\ status[x] = "open" /\ have[c].key = gw.secret
        /\ UNCHANGED <<status, wants, asked, got, answer>>
        /\ seen' = [seen EXCEPT ![c] = [key |-> gw.secret, outer |-> outer]]
        /\ inFlight' = inFlight \ {c}
        /\ RelayQuiet
    BY <1>3 DEF GatewayEchoes, Relay!Reply, Opens
  <2>2. UNCHANGED <<newKey, client, have, from, verdict>>
    BY <2>1 DEF RelayQuiet, fileVars, clientVars
  <2>3. gw.secret \in KeyNumbers
    BY DEF GatewayInv, GatewayTypeOK, Processes
  <2>4. ClientTypes' /\ RelayTypes'
    BY <2>1, <2>2, <2>3 DEF ClientTypes, RelayTypes
  <2>5. replied'[x] = r /\ \A y \in Exchanges \ {x} : replied'[y] = replied[y]
    BY <1>0, <2>1 DEF RelayTypes
  <2>6. seen'[c].key = gw.secret /\ seen'[c].outer = outer
    BY <2>1 DEF ClientTypes
  <2>7. r # Relay!Nothing
    BY Kinds
  <2>8. ClientInv(c)'
    <3>1. RequestInv(c)'
      BY <2>1, <2>2, <2>5, <2>6 DEF ClientInv, RequestInv, WholeKeys
    <3>2. AnswerInv(c)'
      BY <1>0, <2>1, <2>2, <2>5, <2>7 DEF ClientInv, AnswerInv
    <3> QED BY <3>1, <3>2 DEF ClientInv
  <2>9. ASSUME NEW d \in Clients \ {c} PROVE Aside(d)
    <3>1. \A y \in {KeysOf(d), RequestOf(d)} : replied'[y] = replied[y]
      BY <2>5, OwnExchanges
    <3>2. seen'[d] = seen[d]
      BY <2>1 DEF ClientTypes
    <3> QED BY <2>1, <2>2, <3>1, <3>2 DEF Aside
  <2>10. inFlight' \subseteq Clients /\ UNCHANGED <<fileVars, gw, exit, starts>>
    BY <2>1 DEF RelayQuiet, GatewayInv, GatewayTypeOK
  <2> QED BY <2>4, <2>8, <2>9, <2>10, OwnStep
<1>4. CASE GatewayFails(c)
  <2> USE DEF IInv
  <2>1. /\ UNCHANGED <<newKey, client, have, from, verdict, seen>>
        /\ UNCHANGED <<status, wants, asked, got, replied, answer>>
        /\ UNCHANGED <<fileVars, gw, exit, starts>>
    BY <1>4 DEF GatewayFails, RelayQuiet, fileVars, clientVars, relayVars
  <2>2. ClientTypes' /\ RelayTypes'
    BY <2>1 DEF ClientTypes, RelayTypes
  <2>3. ClientInv(c)'
    BY <2>1 DEF ClientInv, RequestInv, AnswerInv, WholeKeys
  <2>4. \A d \in Clients \ {c} : Aside(d)
    BY <2>1 DEF Aside
  <2>5. inFlight' \subseteq Clients
    BY <1>4 DEF GatewayFails, GatewayInv, GatewayTypeOK
  <2> QED BY <2>1, <2>2, <2>3, <2>4, <2>5, OwnStep
<1>5. CASE RelayAnswers(KeysOf(c))
  <2>1. replied[KeysOf(c)] = Relay!Nothing
    BY DEF IInv, ClientInv, AnswerInv
  <2>2. ~Relay!Answer(KeysOf(c), Relay!Nothing)
    BY <2>1, Kinds DEF Relay!Answer
  <2> QED BY <1>5, <2>1, <2>2, AnswerStepInv DEF RelayAnswers
<1>6. CASE RelayAnswers(x)
  <2>1. replied[x].kind \in {"nothing", "reply"}
    BY Kinds DEF IInv, ClientInv, RequestInv
  <2>2. Relay!Answer(x, replied[x]) => replied[x] # Relay!Nothing /\ got[x] = "whole"
    BY <2>1, Kinds DEF Relay!Answer
  <2> QED BY <1>6, <2>2, AnswerStepInv DEF RelayAnswers
<1> QED BY <1>1, <1>2, <1>3, <1>4, <1>5, <1>6 DEF RelayStep

-----------------------------------------------------------------------------
(* The theorems.                                                           *)

\* No client has anything, and the relay has done nothing yet.
LEMMA InitInv == Init => IInv
<1> SUFFICES ASSUME Init PROVE IInv
  OBVIOUS
<1>1. GatewayInv
  BY GatewayInitInv DEF Init
<1>2. NoKeys \in KeyLists /\ 0 \in KeyNumbers
  BY GatewayAssumption, ConfigAssumption DEF NoKeys, KeyLists, KeyNumbers
<1>3. ClientTypes
  BY <1>2 DEF Init, ClientTypes
<1>4. RelayTypes
  BY DEF Init, RelayTypes, Relay!RelayInit, Exchanges
<1>5. ASSUME NEW c \in Clients PROVE ClientInv(c)
  <2>1. \A x \in {KeysOf(c), RequestOf(c)} :
            status[x] = "new" /\ replied[x] = Relay!Nothing /\ answer[x] = Relay!Nothing
    BY OwnExchanges DEF Init, Relay!RelayInit, Exchanges
  <2>2. client[c] = "start" /\ verdict[c] = "none"
    BY DEF Init
  <2> QED BY <2>1, <2>2 DEF ClientInv, RequestInv, AnswerInv
<1> QED BY <1>1, <1>3, <1>4, <1>5 DEF IInv

\* Every step of gen-key, the gateway, the relay and the clients keeps it.
LEMMA StepInv == IInv /\ [Next]_vars => IInv'
<1> SUFFICES ASSUME IInv, [Next]_vars PROVE IInv'
  OBVIOUS
<1>0. newKey \in Nat
  BY GatewayAssumption DEF IInv, GatewayInv, GatewayTypeOK, KeyNumbers
<1>1. ASSUME GatewayInv', newKey' >= newKey, Surroundings PROVE IInv'
  <2>1. newKey' \in Nat
    BY <1>1, GatewayAssumption DEF GatewayInv, GatewayTypeOK, KeyNumbers
  <2>2. \A d \in Clients : Aside(d)
    BY <1>1 DEF Surroundings, Aside, clientVars, relayVars
  <2>3. ClientTypes' /\ RelayTypes'
    BY <1>1 DEF IInv, Surroundings, clientVars, relayVars, ClientTypes, RelayTypes
  <2>4. \A d \in Clients : ClientInv(d)'
    BY <1>0, <1>1, <2>1, <2>2, AsideInv DEF IInv
  <2> QED BY <1>1, <2>3, <2>4 DEF IInv
<1>2. CASE UNCHANGED vars
  <2>1. UNCHANGED <<fileVars, gw, exit, starts, inFlight>> /\ Surroundings
    BY <1>2 DEF vars, procVars, Surroundings
  <2>2. inFlight' \subseteq Clients
    BY <2>1 DEF IInv, GatewayInv, GatewayTypeOK
  <2> QED BY <1>0, <1>1, <2>1, <2>2, HandlersInv DEF IInv
<1>3. CASE GenStep /\ Surroundings
  BY <1>1, <1>3, GenStepInv DEF IInv
<1>4. CASE GatewayStep /\ Surroundings
  BY <1>0, <1>1, <1>4, GatewayStepInv DEF IInv
<1>5. ASSUME NEW c \in Clients, ClientStep(c) \/ RelayStep(c) PROVE IInv'
  BY <1>5, ClientStepInv, RelayStepInv
<1> QED BY <1>2, <1>3, <1>4, <1>5 DEF Next

\* The inductive invariant holds in every reachable state.
THEOREM Invariance == Spec => []IInv
BY InitInv, StepInv, PTL DEF Spec

\* Every variable keeps its type.
THEOREM TypeCorrect == Spec => []TypeOK
<1>1. IInv => TypeOK
  BY DEF IInv, GatewayInv, ClientTypes, TypeOK
<1> QED BY <1>1, Invariance, PTL

\* Whenever gen-key is interrupted and the gateway started, it never panics on
\* what it finds on disk and serves only with both halves of a pair
\* (loadKeyPairFromDisk, UnmarshalKeyConfig).
THEOREM TornFilesAreRefused == Spec => []TornFilesRefused
<1>1. IInv => TornFilesRefused
  BY DEF IInv, GatewayInv, LoadInv, TornFilesRefused
<1> QED BY <1>1, Invariance, PTL

\* A gateway that loaded its files while no gen-key was at work, and after none
\* had been interrupted, publishes the key that it can open requests with.
THEOREM PairsMatch == Spec => []PairsMatchUnlessTorn
<1>1. IInv => PairsMatchUnlessTorn
  BY DEF IInv, GatewayInv, LoadInv, PairsMatchUnlessTorn
<1> QED BY <1>1, Invariance, PTL

\* No client seals a request with a key list that broke off on its way through
\* the relay (fetchKeyConfig).
THEOREM KeysAreWhole == Spec => []SealsWithWholeKeys
<1>1. IInv => SealsWithWholeKeys
  BY DEF IInv, ClientInv, RequestInv, WholeKeys, SealsWithWholeKeys
<1> QED BY <1>1, Invariance, PTL

\* Success of the test client means that a gateway opened its whole request and
\* was not shown its headers (main of the test client), for any number of
\* clients, gen-keys and restarts of the gateway.
THEOREM SuccessIsARoundTrip == Spec => []PassedMeansRoundTrip
<1>1. ASSUME IInv PROVE PassedMeansRoundTrip
  <2> SUFFICES ASSUME NEW c \in Clients, verdict[c] = "passed"
               PROVE  /\ seen[c].key = have[c].key /\ seen[c].key # 0
                      /\ got[RequestOf(c)] = "whole"
                      /\ ~seen[c].outer
    BY DEF PassedMeansRoundTrip
  <2> DEFINE x == RequestOf(c)
  <2>1. RequestInv(c) /\ AnswerInv(c)
    BY <1>1 DEF IInv, ClientInv
  <2>2. answer[x].kind = "reply" /\ ~answer[x].body.outer
    BY <2>1 DEF AnswerInv
  <2>3. answer[x] = replied[x] /\ replied[x] # Relay!Nothing /\ got[x] = "whole"
    BY <2>1, <2>2, Kinds DEF AnswerInv
  <2>4. PICK ok \in BOOLEAN : replied[x] = Relay!Opaque(Echo(ok, seen[c].outer))
    BY <2>1, <2>3 DEF RequestInv
  <2>5. answer[x].body.outer = seen[c].outer
    BY <2>3, <2>4, Kinds DEF Echo
  <2>6. seen[c].key = have[c].key /\ have[c].key \in 1..newKey /\ newKey \in Nat
    BY <1>1, <2>1, <2>3, GatewayAssumption
       DEF RequestInv, WholeKeys, IInv, GatewayInv, GatewayTypeOK, KeyNumbers
  <2> QED BY <2>2, <2>3, <2>5, <2>6
<1>2. IInv => PassedMeansRoundTrip
  BY <1>1
<1> QED BY <1>2, Invariance, PTL

=============================================================================
