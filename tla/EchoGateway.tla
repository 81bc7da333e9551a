----------------------------- MODULE EchoGateway -----------------------------
(***************************************************************************)
(* The test gateway, cmd/echo-gateway: gen-key writes a key pair to two    *)
(* files, one after the other, and the gateway reads them when it starts,  *)
(* serves until a signal and then shuts down.                              *)
(*                                                                         *)
(* Either program may end at any time, and they may run at the same time;  *)
(* gen-key commands do not overlap.  os.WriteFile empties the file before  *)
(* it writes, and may leave a part of it behind when it fails.             *)
(***************************************************************************)
EXTENDS KeyConfigFile, FiniteSets

CONSTANTS
    Clients,  \* whose requests the gateway may be handling
    MaxKeys,  \* bound: runs of gen-key
    MaxStarts \* bound: starts of the gateway

ASSUME GatewayAssumption == IsFiniteSet(Clients) /\ MaxKeys \in Nat \ {0} /\ MaxStarts \in Nat

VARIABLES
    keyFile,  \* the key configuration on disk
    privFile, \* the private key on disk; 0 if missing, or not all there
    gen,      \* where gen-key is
    newKey,   \* the last key pair that was generated
    torn,     \* history: the last gen-key to touch the files did not finish
    gw,       \* the gateway's process
    exit,     \* how it ended the last time
    starts,   \* how often it was started
    inFlight  \* the requests its handlers work on

fileVars == <<keyFile, privFile, gen, newKey, torn>>
procVars == <<gw, exit, starts, inFlight>>

KeyNumbers == 0..MaxKeys

\* The configuration that genKeyCmd makes for a new pair.
KeyConfig(k) ==
    [KeyID |-> 1, KemID |-> "KEM_P256_HKDF_SHA256", PublicKey |-> k,
     SymmetricAlgorithms |-> <<[KDFID |-> "KDF_HKDF_SHA256", AEADID |-> "AEAD_AES128GCM"]>>]

FileOf(k, fields) == CutFile(MarshalKeyConfig(KeyConfig(k)), fields)
NoKeyFile == FileOf(0, 0)
KeyFiles  == {FileOf(k, n) : k \in KeyNumbers, n \in 0..WholeFile}

\* pc, the loaded pair, whether the load met a torn pair of files (history),
\* the signal goroutine and its channel, the context, and the HTTP server.
Down == [pc |-> "down", config |-> 0, secret |-> 0, raced |-> FALSE,
         handler |-> "none", pending |-> 0, ctxDone |-> FALSE, listener |-> "none"]

Processes ==
    [pc       : {"down", "readConfig", "readKey", "newGateway", "signals", "metrics",
                 "wait", "shutdown"},
     config   : KeyNumbers,
     secret   : KeyNumbers,
     raced    : BOOLEAN,
     handler  : {"none", "first", "second"},
     pending  : 0..2,
     ctxDone  : BOOLEAN,
     listener : {"none", "starting", "serving", "ended"}]

GatewayTypeOK ==
    /\ keyFile \in KeyFiles
    /\ privFile \in KeyNumbers
    /\ gen \in {"idle", "config", "configWrite", "priv", "privWrite"}
    /\ newKey \in KeyNumbers
    /\ torn \in BOOLEAN
    /\ gw \in Processes
    /\ exit \in {"none", "0", "1", "panic", "killed"}
    /\ starts \in 0..MaxStarts
    /\ inFlight \subseteq Clients

\* No files, or the pair of an earlier gen-key.
GatewayInit ==
    /\ newKey \in {0, 1}
    /\ keyFile = IF newKey = 0 THEN NoKeyFile ELSE FileOf(newKey, WholeFile)
    /\ privFile = newKey
    /\ gen = "idle"
    /\ torn = FALSE
    /\ gw = Down
    /\ exit = "none"
    /\ starts = 0
    /\ inFlight = {}

-----------------------------------------------------------------------------
(* genKeyCmd.                                                              *)

GenKey ==
    /\ gen = "idle" /\ newKey < MaxKeys
    /\ newKey' = newKey + 1
    /\ gen' = "config"
    /\ UNCHANGED <<keyFile, privFile, torn, procVars>>

Loading == gw.pc \in {"readConfig", "readKey"}

\* writeKeyConfigFile
OpenKeyConfig ==
    /\ gen = "config"
    /\ keyFile' = NoKeyFile
    /\ gen' = "configWrite"
    /\ torn' = TRUE
    /\ gw' = [gw EXCEPT !.raced = @ \/ Loading]
    /\ UNCHANGED <<privFile, newKey, exit, starts, inFlight>>

WriteKeyConfig ==
    /\ gen = "configWrite"
    /\ keyFile' = FileOf(newKey, WholeFile)
    /\ gen' = "priv"
    /\ UNCHANGED <<privFile, newKey, torn, procVars>>

\* writePrivateKeyFile
OpenPrivateKey ==
    /\ gen = "priv"
    /\ privFile' = 0
    /\ gen' = "privWrite"
    /\ UNCHANGED <<keyFile, newKey, torn, procVars>>

WritePrivateKey ==
    /\ gen = "privWrite"
    /\ privFile' = newKey
    /\ gen' = "idle"
    /\ torn' = FALSE
    /\ UNCHANGED <<keyFile, newKey, procVars>>

\* Mutant: a key configuration that cannot be opened is logged only.
GenFailsLate(fields) ==
    /\ gen = "config" /\ fields = 0
    /\ gen' = "priv"
    /\ UNCHANGED <<keyFile, privFile, newKey, torn, procVars>>

\* log.Fatalf, or the command is killed; a part of the file may be written.
GenFails(fields) ==
    /\ gen # "idle"
    /\ gen' = "idle"
    /\ keyFile' = IF gen = "configWrite" THEN FileOf(newKey, fields) ELSE keyFile
    /\ UNCHANGED <<privFile, newKey, torn, procVars>>

GenStep ==
    \/ GenKey \/ OpenKeyConfig \/ WriteKeyConfig \/ OpenPrivateKey \/ WritePrivateKey
    \/ \E fields \in 0..WholeFile : GenFails(fields)

-----------------------------------------------------------------------------
(* main, up to the server.                                                 *)

Exit(how) ==
    /\ gw' = Down
    /\ exit' = how
    /\ inFlight' = {}
    /\ UNCHANGED <<fileVars, starts>>

Becomes(g) == gw' = g /\ UNCHANGED <<fileVars, exit, starts, inFlight>>

Start ==
    /\ gw.pc = "down" /\ starts < MaxStarts
    /\ gw' = [Down EXCEPT !.pc = "readConfig", !.raced = torn]
    /\ starts' = starts + 1
    /\ exit' = "none"
    /\ UNCHANGED <<fileVars, inFlight>>

\* loadKeyPairFromDisk, first file.  Its check for a missing KEM comes after
\* UnmarshalKeyConfig, which does not return in that case.
ReadKeyConfigFile ==
    LET r == UnmarshalKeyConfig(keyFile) IN
    /\ gw.pc = "readConfig"
    /\ CASE r.failed = "no"    -> Becomes([gw EXCEPT !.pc = "readKey", !.config = r.kc.PublicKey])
         [] r.failed = "error" -> Exit("1")
         [] r.failed = "panic" -> Exit("panic")

\* Second file.  Nothing compares the two keys.
ReadPrivateKeyFile ==
    /\ gw.pc = "readKey"
    /\ IF privFile = 0 THEN Exit("1")
       ELSE Becomes([gw EXCEPT !.pc = "newGateway", !.secret = privFile])

NewGateway ==
    /\ gw.pc = "newGateway"
    /\ Exit("1") \/ Becomes([gw EXCEPT !.pc = "signals"])

\* From here on a signal is put in the channel of ctrl.SetupSignalHandler.
SetupSignalHandler ==
    /\ gw.pc = "signals"
    /\ Becomes([gw EXCEPT !.pc = "metrics", !.handler = "first"])

InitMetrics ==
    /\ gw.pc = "metrics"
    /\ Exit("1") \/ Becomes([gw EXCEPT !.pc = "wait", !.listener = "starting"])

-----------------------------------------------------------------------------
(* The server, signals and the end.                                        *)

\* The goroutine of ListenAndServe: it cannot open the port, which ends the
\* process, or it registers its listener and serves, unless Shutdown came first.
ListenAndServe ==
    /\ gw.listener = "starting"
    /\ \/ Exit("1")
       \/ Becomes([gw EXCEPT !.listener = IF gw.pc = "shutdown" THEN "ended" ELSE "serving"])

\* The accept loop fails, which is as fatal.
ServeFails ==
    /\ gw.listener = "serving"
    /\ Exit("1")

\* Mutant: signals queue up without a limit.
SignalsQueueUp ==
    /\ gw.handler # "none"
    /\ Becomes([gw EXCEPT !.pending = @ + 1])

\* SIGINT or SIGTERM.  The channel has room for two; more are dropped.
Signal ==
    /\ gw.handler # "none" /\ gw.pending < 2
    /\ Becomes([gw EXCEPT !.pending = @ + 1])

FirstSignal ==
    /\ gw.handler = "first" /\ gw.pending > 0
    /\ Becomes([gw EXCEPT !.handler = "second", !.pending = @ - 1, !.ctxDone = TRUE])

SecondSignal ==
    /\ gw.handler = "second" /\ gw.pending > 0
    /\ Exit("1")

Shutdown ==
    /\ gw.pc = "wait" /\ gw.ctxDone
    /\ Becomes([gw EXCEPT !.pc = "shutdown",
                          !.listener = IF @ = "serving" THEN "ended" ELSE @])

\* Mutant: Shutdown gets no deadline.
ShutdownWaits ==
    /\ gw.pc = "shutdown" /\ inFlight = {}
    /\ Exit("0")

\* Shutdown returns when no request is left, or after three seconds with an
\* error, which is fatal.
ShutdownReturns ==
    /\ gw.pc = "shutdown"
    /\ Exit(IF inFlight = {} THEN "0" ELSE "1")

\* SIGKILL, or another signal before there is a handler.
Killed == gw.pc # "down" /\ Exit("killed")

\* What the process does by itself once it was started.
GatewayProgress ==
    \/ ReadKeyConfigFile \/ ReadPrivateKeyFile \/ NewGateway \/ SetupSignalHandler
    \/ InitMetrics \/ Shutdown \/ ShutdownReturns

GatewayStep ==
    \/ GatewayProgress \/ Start \/ ListenAndServe \/ ServeFails
    \/ Signal \/ FirstSignal \/ SecondSignal \/ Killed

-----------------------------------------------------------------------------
(* Handlers.                                                               *)

Serving == gw.listener = "serving"

\* handleWellKnownKeyConfig: a list of one configuration of n bytes, after two
\* bytes with its length.
PublishedKeys(n) == [key |-> gw.config, declared |-> n, bytes |-> n + 2]

\* Only the private key of the public key it was sealed with opens a request.
Opens(key) == key = gw.secret

\* echoHandler answers with what it got: the request of the client and the
\* headers around it.  It may fail to read the body, and says so inside of the
\* sealed response, which is a success to everyone but the client.
\* captureOuterHeadersMiddleware keeps code and body; it copies the recorder's
\* headers onto themselves, so that X-Test-Gateway-Outer is not sent.
Echo(ok, outer) == [echoed |-> ok, outer |-> outer, marked |-> FALSE]

=============================================================================
