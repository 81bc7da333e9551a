------------------------------ MODULE RoundTrip ------------------------------
(***************************************************************************)
(* The end-to-end test of docker-compose.yml: cmd/test-client gets a key   *)
(* configuration, seals a request, sends it through the relay to the echo  *)
(* gateway, and checks what comes back.  The gateway is EchoGateway, which *)
(* may be stopped, killed, restarted and given new keys meanwhile; the     *)
(* relay is what RelaySpec promises and nothing more.                      *)
(***************************************************************************)
EXTENDS EchoGateway

CONSTANT ConfigBytes \* length of a key configuration in binary form

ASSUME ConfigAssumption == ConfigBytes \in Nat \ {0}

VARIABLES
    client,  \* where each test client is
    from,    \* where it gets its keys: "file", "gateway", "relay" or "both"
    have,    \* the key configuration that it uses
    verdict, \* "none", "passed" or "failed"
    seen,    \* history: the key with which the gateway opened its request, 0 if it
             \* did not, and whether the header around the request reached it
    \* RelaySpec
    status, wants, asked, got, replied, answer

clientVars == <<client, from, have, verdict>>
relayVars  == <<status, wants, asked, got, replied, answer>>
vars == <<fileVars, procVars, clientVars, seen, relayVars>>

KeysOf(c)    == <<c, "keys">>
RequestOf(c) == <<c, "ohttp">>

KeyLists == [key : KeyNumbers, declared : {ConfigBytes}, bytes : 0..(ConfigBytes + 2)]
NoKeys   == [key |-> 0, declared |-> ConfigBytes, bytes |-> 0]

Relay == INSTANCE RelaySpec WITH
    Exchanges  <- Clients \X {"keys", "ohttp"},
    Replies    <- {Echo(ok, outer) : ok, outer \in BOOLEAN},
    KeyAnswers <- KeyLists

TypeOK ==
    /\ GatewayTypeOK
    /\ client \in [Clients -> {"start", "load", "fetch", "wait", "seal", "request", "done"}]
    /\ from \in [Clients -> {"file", "gateway", "relay", "both"}]
    /\ have \in [Clients -> KeyLists]
    /\ verdict \in [Clients -> {"none", "passed", "failed"}]
    /\ seen \in [Clients -> [key : KeyNumbers, outer : BOOLEAN]]

Init ==
    /\ GatewayInit
    /\ client = [c \in Clients |-> "start"]
    /\ from \in [Clients -> {"file", "gateway", "relay", "both"}]
    /\ have = [c \in Clients |-> NoKeys]
    /\ verdict = [c \in Clients |-> "none"]
    /\ seen = [c \in Clients |-> [key |-> 0, outer |-> FALSE]]
    /\ Relay!RelayInit

-----------------------------------------------------------------------------
(* The test client.                                                        *)

Goto(c, next) == client' = [client EXCEPT ![c] = next] /\ UNCHANGED verdict

Finish(c, how) ==
    /\ client' = [client EXCEPT ![c] = "done"]
    /\ verdict' = [verdict EXCEPT ![c] = how]

Quiet == UNCHANGED <<fileVars, procVars, from, seen>>

StartRun(c) ==
    /\ client[c] = "start"
    /\ CASE from[c] = "both" -> Finish(c, "failed")
         [] from[c] = "file" -> Goto(c, "load")
         [] OTHER            -> Goto(c, "fetch")
    /\ Quiet /\ UNCHANGED <<have, relayVars>>

\* The file is the one that the gateway starts from.
LoadKeyFile(c) ==
    LET r == UnmarshalKeyConfig(keyFile) IN
    /\ client[c] = "load"
    /\ IF r.failed # "no" THEN Finish(c, "failed") /\ UNCHANGED have
       ELSE /\ have' = [have EXCEPT ![c] = [key |-> r.kc.PublicKey, declared |-> ConfigBytes,
                                            bytes |-> ConfigBytes + 2]]
            /\ Goto(c, "seal")
    /\ Quiet /\ UNCHANGED relayVars

\* Mutant: only the presence of the prefix is checked.
PrefixOnly(b) == b.bytes < 2

\* The checks of fetchKeyConfig on the body it got.
TooShort(b) == b.bytes < 2 \/ b.bytes < 2 + b.declared

UseKeys(c, b) ==
    IF TooShort(b) THEN Finish(c, "failed") /\ UNCHANGED have
    ELSE have' = [have EXCEPT ![c] = b] /\ Goto(c, "seal")

\* fetchKeyConfig from the gateway itself ...
FetchKeys(c) ==
    /\ client[c] = "fetch" /\ from[c] = "gateway"
    /\ \/ Serving /\ UseKeys(c, PublishedKeys(ConfigBytes))
       \/ Finish(c, "failed") /\ UNCHANGED have
    /\ Quiet /\ UNCHANGED relayVars

\* ... or from the relay.
AskForKeys(c) ==
    /\ client[c] = "fetch" /\ from[c] = "relay"
    /\ Goto(c, "wait")
    /\ Relay!Begin(KeysOf(c), "keys", TRUE)
    /\ Quiet /\ UNCHANGED have

Answered(x) == answer[x] # Relay!Nothing

ReceiveKeys(c) ==
    /\ client[c] = "wait" /\ Answered(KeysOf(c))
    /\ IF answer[KeysOf(c)].kind = "keys" THEN UseKeys(c, answer[KeysOf(c)].body)
       ELSE Finish(c, "failed") /\ UNCHANGED have
    /\ Quiet /\ UNCHANGED relayVars

\* RoundTrip: encapsulate, and send.
Encapsulate(c) ==
    /\ client[c] = "seal"
    /\ Goto(c, "request")
    /\ Relay!Begin(RequestOf(c), "ohttp", TRUE)
    /\ Quiet /\ UNCHANGED have

\* Mutant: the check for the outer header has gone.
FailsInner(r) == ~r.echoed \/ r.marked

\* The checks of main: the inner header was returned, the outer one was not,
\* and the gateway's own header did not come through.
FailsChecks(r) == ~r.echoed \/ r.outer \/ r.marked

\* Decapsulate fails on the relay's error.
ReceiveResponse(c) ==
    LET a == answer[RequestOf(c)] IN
    /\ client[c] = "request" /\ Answered(RequestOf(c))
    /\ Finish(c, IF a.kind # "reply" \/ FailsChecks(a.body) THEN "failed" ELSE "passed")
    /\ Quiet /\ UNCHANGED <<have, relayVars>>

\* A timeout of its HTTP client, Envoy ended the exchange without an answer, or
\* the OHTTP library refused the key configuration or the request.
GiveUp(c) ==
    /\ client[c] \in {"seal", "wait", "request"}
    /\ Finish(c, "failed")
    /\ Quiet /\ UNCHANGED <<have, relayVars>>

ClientStep(c) ==
    \/ StartRun(c) \/ LoadKeyFile(c) \/ FetchKeys(c) \/ AskForKeys(c) \/ ReceiveKeys(c)
    \/ Encapsulate(c) \/ ReceiveResponse(c) \/ GiveUp(c)

-----------------------------------------------------------------------------
(* The relay between client and gateway.                                   *)

RelayQuiet == UNCHANGED <<fileVars, gw, exit, starts, clientVars>>

\* The relay fetches the gateway's keys and answers with what it got of them.
RelayKeys(c, n) ==
    /\ Serving
    /\ Relay!Answer(KeysOf(c), Relay!Keys([PublishedKeys(ConfigBytes) EXCEPT !.bytes = n]))
    /\ RelayQuiet /\ UNCHANGED <<inFlight, seen>>

\* It may also forward something else, after it has answered with an error.
RelayForwards(c) ==
    /\ Serving
    /\ \E what \in {"whole", "other"} : Relay!Forward(RequestOf(c), what)
    /\ inFlight' = inFlight \cup {c}
    /\ RelayQuiet /\ UNCHANGED seen

\* The handler of the gateway opens the request if all of it has come, and
\* echoes it, with the header around it if the relay under test passes that on
\* (ours does not) ...
GatewayEchoes(c, ok, outer) ==
    /\ c \in inFlight /\ got[RequestOf(c)] = "whole" /\ Opens(have[c].key)
    /\ Relay!Reply(RequestOf(c), Echo(ok, outer))
    /\ seen' = [seen EXCEPT ![c] = [key |-> gw.secret, outer |-> outer]]
    /\ inFlight' = inFlight \ {c}
    /\ RelayQuiet

\* ... or answers with an error, or its response is lost.
GatewayFails(c) ==
    /\ c \in inFlight
    /\ inFlight' = inFlight \ {c}
    /\ RelayQuiet /\ UNCHANGED <<seen, relayVars>>

RelayAnswers(x) ==
    /\ Relay!Answer(x, Relay!Error) \/ Relay!Answer(x, replied[x])
    /\ RelayQuiet /\ UNCHANGED <<inFlight, seen>>

RelayStep(c) ==
    \/ \E n \in 0..(ConfigBytes + 2) : RelayKeys(c, n)
    \/ RelayForwards(c)
    \/ \E ok, outer \in BOOLEAN : GatewayEchoes(c, ok, outer)
    \/ GatewayFails(c)
    \/ RelayAnswers(KeysOf(c)) \/ RelayAnswers(RequestOf(c))

-----------------------------------------------------------------------------

Surroundings == UNCHANGED <<clientVars, seen, relayVars>>

Next ==
    \/ GenStep /\ Surroundings
    \/ GatewayStep /\ Surroundings
    \/ \E c \in Clients : ClientStep(c) \/ RelayStep(c)

Spec == Init /\ [][Next]_vars

\* The gateway's main goroutine runs and the deadline of Shutdown passes.
\* Nothing is assumed of its handlers, of signals or of clients.
FairSpec == Spec /\ WF_vars(GatewayProgress /\ Surroundings)

-----------------------------------------------------------------------------
(* Properties.                                                             *)

\* A key configuration file that gen-key left empty or cut off never makes
\* UnmarshalKeyConfig panic, and the gateway serves only with a public and a
\* private key: the name of the KEM is missing only where the public key, which
\* is written after it and checked before it, is missing too.  A file that ends
\* between the key and the algorithms is accepted.
TornFilesRefused ==
    /\ exit # "panic"
    /\ gw.pc \notin {"down", "readConfig", "readKey"} => gw.config # 0 /\ gw.secret # 0

\* The gateway publishes a key that it does not have the private key of only
\* after gen-key was interrupted between its two files, or was running when the
\* gateway read them.  Nothing detects this (loadKeyPairFromDisk).
PairsMatchUnlessTorn == gw.secret # 0 /\ ~gw.raced => gw.config = gw.secret

\* Although the relay passes on key lists that broke off as if they were whole,
\* a client seals its request only with a complete key configuration, which some
\* gen-key wrote (the length prefix, and fetchKeyConfig's check of it).
SealsWithWholeKeys ==
    \A c \in Clients : client[c] \in {"seal", "request"} =>
        have[c].key \in 1..newKey /\ have[c].bytes = ConfigBytes + 2

\* The test client reports success only if the request it sealed was opened by
\* a gateway with the matching private key, however keys and gateways changed in
\* between, and if the relay under test did not show the gateway its headers.
PassedMeansRoundTrip ==
    \A c \in Clients : verdict[c] = "passed" =>
        /\ seen[c].key = have[c].key /\ seen[c].key # 0
        /\ got[RequestOf(c)] = "whole"
        /\ ~seen[c].outer

\* A gateway that was told to stop ends, even if a handler never returns
\* (SetupSignalHandler, and the deadline of Shutdown).
StoppedGatewayEnds == gw.ctxDone ~> gw.pc = "down"

=============================================================================
