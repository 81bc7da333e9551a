# A TLA+ development of the OHTTP relay

This directory holds TLA+ modules that model the relay of this repository
(`cmd/ohttp-relay`, `pkg/ohttp-relay`, `internal`) and the programs of its
end-to-end test (`cmd/echo-gateway`, `cmd/test-client`), configurations that check
them with TLC on small instances, and theorems that TLAPS proves for all
instances. `PROJECT.json` says which definition models which lines, which run
checks what, and which change of the code each property would catch.

## The system

The relay sits behind Envoy. Envoy opens one gRPC stream per HTTP request and
sends headers, body chunks and perhaps trailers on it; the relay buffers the
body, looks up the gateway of the request's host, POSTs the body there and
answers on the stream with an *immediate response*, which Envoy hands to its
client. A GET of `/.well-known/ohttp-configs` is answered with the gateway's
key configuration instead.

| Component | State | Operations | Talks to |
|---|---|---|---|
| ExtProc server (`handlers/server.go`) | per stream: `streamState`, status | `Process`: receive, check, buffer, forward, answer | Envoy (gRPC), relayer, key-config source, metrics |
| HTTP relayer (`relay/relayer.go`) | none | `Relay` | gateway sources, gateways (HTTP) |
| Gateway sources (`gateway/`) | static map; Redis hashes | `TargetURL`, `KeyConfig` | Redis, gateways |
| Prometheus metrics (`metrics/`) | gauge and counters, shared | `Record...` | all streams |
| Traffic metrics (`traffic/metrics.go`) | one Redis hash per host and hour | `RecordTraffic` | Redis |
| Lifecycle (`app/`, `server/`, `internal/runnable`, `cmd/ohttp-relay`) | three servers in an errgroup | `Run`, `GRPCServer`, `runMetricsServer` | sockets, signals, Redis |
| Configuration (`config/`) | flags | `Load`, `parseDomainMap` | lifecycle, static map |
| Echo gateway (`cmd/echo-gateway`, `pkg/echo-gateway`) | two key files, a key pair, an HTTP server | `gen-key`, load, serve, `Shutdown` | the relay, signals |
| Signal handling (`internal/ctrl`) | a channel of two signals, a context | `SetupSignalHandler` | echo gateway |
| Test client (`cmd/test-client`) | a key configuration | fetch keys, seal, check the answer | the relay, the echo gateway |

What is hard about it, and hard to test:

* an error answer does not end a stream: Envoy's chunks that were in flight are
  still received and processed;
* Envoy may close or reset a stream wherever the handler waits, and the
  gateway, Redis and the transfer of a body may each fail half-way;
* mappings in Redis change between the steps of a request;
* streams run concurrently and share the metrics, which several early returns
  must keep in step;
* a Redis pipeline is not atomic, may be cut short, and is sent again after a
  timeout although it may have been executed;
* the three servers start, fail and shut down in any order;
* a key pair is two files that are written and read one after the other, by
  programs that may run at the same time or end half-way, and the keys may be
  replaced while a client still uses the old ones.

The full list, by line, is under `hazards` in `PROJECT.json`.

What makes each component correct: the server delivers a request at most once,
keeps its buffer bounded, forwards whole and valid requests for clients that
still wait, answers each of them, and passes on only complete successful
replies; the sources route by host with static entries first; the metrics agree
with what happened; the traffic buckets lose nothing that was acknowledged and
expire; the process ends as a whole, without cutting off calls, and shows it on
its health port; the flag is read as it was meant; the gateway refuses damaged
keys and ends when it is told to; and the test passes only if the relay works.

## Modules

| Module | Models |
|---|---|
| `GatewaySource` | The URL sources as operators on the host, the static map and the contents of Redis. |
| `ExtProcServer` | `Process` with the relayer, the key-config source and the metrics. Extends `GatewaySource`. |
| `RelaySpec` | What the relay promises a client and a gateway, without Envoy, streams and buffers. |
| `ExtProcRefinement` | The refinement mapping from `ExtProcServer` to `RelaySpec`. |
| `ExtProcServerProofs` | Proofs about `ExtProcServer`: types, the buffer, at most one delivery. |
| `ExtProcAnswerProofs` | Proofs about `ExtProcServer`: what is forwarded, to whom, and what is answered. |
| `ExtProcMetricsProofs` | Proofs about `ExtProcServer`: the metrics and the traffic counters. |
| `ExtProcRefinementProofs` | Proof that `ExtProcServer` implements `RelaySpec`. |
| `SumTheorems` | Lemmas on sums over finite sets, for the two modules that add up traffic. |
| `TrafficMetricsProofs`, `LifecycleProofs`, `RoundTripProofs` | Proofs about `TrafficMetrics`, `Lifecycle` and `RoundTrip`. |
| `TrafficMetrics` | `RecordTraffic`, the Redis client's retries, Redis executing the commands one by one, and expiry. |
| `Lifecycle` | `main`, `App.Run`, `GRPCServer`, the metrics server. |
| `DomainMap` | `config.Load`: the `--gateway-urls` flag as a sequence of tokens. |
| `KeyConfigFile` | Package `keyconfig`: key configurations as YAML files, whole or cut off. |
| `EchoGateway` | `gen-key` and the gateway's process, signals included. Extends `KeyConfigFile`. |
| `RoundTrip` | The end-to-end test: test client, relay, echo gateway. Extends `EchoGateway` and uses `RelaySpec` as the relay. |
| `MCExtProcServer`, `MCTrafficMetrics`, `MCRoundTrip` | Values for TLC; `RoutedAsConfigured`; the reference check of `parseDomainMap`. |

### ExtProcServer

Each stream has Envoy's half (`stage`, `headers`, `sent`, `link`, `inbox`) and
the handler's half: a program counter and the locals of `Process` (`st`,
`statusCode`, and the lookup, response and reply in hand). `outbox` and
`gateway` are what Envoy and the gateways have received. A step of the handler
runs from one point where it can wait to the next; the points are

    select -> recv -> lookup -> do -> await -> read -> record -> send -> select
                   -> kcLookup -> kcFetch ------------------------>

with `RespondError` going to `send` from any of them and `Finish`, which stands
for the deferred calls, to `done`. Between two steps Envoy, other streams and
Redis move.

The bytes of a body are numbered by their position in the client's body, so a
body that lost its beginning is not the same as a shorter one. Strings are
members of a set `Text` with `ToLower` and `TrimSpace` given as functions.
`Open`, `EnvoyBody`, `EnvoySide`, `EnvoyCloses` and `RedisSet` are the
environment. Envoy is taken to send the headers first, chunks in order, at most
one end of stream, and nothing after it has closed its half; it may send before
it has read an answer. `Recv` and `Send` may fail at any time, also on a stream
that Envoy has not reset (`RecvError`, `SendFailed`). A request without a body has length 0 or none, as HTTP
has it. `mappedSince` is a history variable for `RoutedByHost`.

Left out: request ids in logs, the wording of messages, the histograms
(durations, sizes) and the method label, and redirects that net/http follows: a
3xx status is one that the gateway's last response has, and is answered 502.

### RelaySpec and the refinement

In `RelaySpec` an exchange is opened, completed by its client, passed to a
gateway at most once, replied to and answered. A client without an answer has
only its whole and valid request passed on; an answer that is not an error is
the gateway's complete successful reply to that request, or keys for a client
that asked for keys. It does not promise that keys are whole, nor that nothing
reaches a gateway after an error was answered, since the code does neither.

`ExtProcRefinement` maps a stream to an exchange: its answer is the first
message in `outbox`, the request a gateway got is `whole` if the headers were
valid and the body is the client's, and the reply counts once it has been read
to its end. `ImplementsRelaySpec` says that every step is a step of `RelaySpec`
or a stutter. `RoundTrip` then composes `RelaySpec` with a gateway and a client,
so that what it shows holds of any relay that keeps those promises.

### DomainMap

The flag is a sequence of words and of the characters that the parser looks at.
`ParsePair` is one round of the loop of `parseDomainMap`. `MCExtProcServer` makes
the static map by `Load` from a flag with both separators, a
port, capitals, blanks, an empty pair and a domain mapped twice, for `routing`, and
`RoutedAsConfigured` follows it to the gateway that a request reaches.
`FlagReadAsDocumented`, an assumption of `MCRoundTrip` that TLC evaluates,
compares the parser with the documented format on all flags of up to two of
twelve mappings: they agree exactly if no `domain:url` mapping has an equals
sign in its URL. `ClientsAreRouted` does the flag of `docker-compose.yml`.

### EchoGateway and RoundTrip

`gen-key` truncates and writes the key configuration, then the private key; it
may end anywhere, and a file that it was writing may be cut off after any field
of the YAML (`CutFile`). The gateway is one record, `gw`: its program counter,
the pair it loaded, the goroutine of `SetupSignalHandler` with its channel of
two, the context and the state of its server. `torn` and `gw.raced` are history
variables: the files on disk, or those the gateway read, were left by a `gen-key`
that had not finished. HPKE is taken to be perfect: `Opens` lets a request be
opened with the private key of the public key it was sealed with and no other.

A client takes its keys from the file, the gateway or the relay, or is given
both and refuses. Through the relay a key list may have lost its end. A relay
under test may pass the header around a request on, which `RelaySpec` does not
mention and which the client's check is there to find; `seen` is what the gateway
saw. The gateway's own header
never gets out, because `captureOuterHeadersMiddleware` copies the recorder's
headers onto themselves (`Echo`), so the client's third check cannot fail.

### TrafficMetrics

The clock counts parts of an hour; `WindowLength` ticks make one bucket. A call
fixes its key when it is made. Its pipeline may be sent up to `MaxRetries`
times again, and `pos` says how many of the three commands of each attempt
Redis has executed, in any interleaving and up to `MaxDelay` after the call.
The ttl is assumed longer than a window and the delay (72 hours against one).
The early return for a missing client and `NoOpTrafficMetrics` touch no state.

### Lifecycle

Each of the three goroutines of the errgroup has a program counter, a result
and a port. For the gRPC servers, `server` follows `GracefulStop` through its
stages: close the listener (`quit`), wait for the accept loop, turn calls away
(`drain`), wait for the calls, `stopped`; `Serve` returns after that.
`ReturnError` is the errgroup's: the first error is kept and cancels the
context. `main` passes `context.Background()` and installs no signal handler,
so a signal (`Killed`) ends the process at any point. `LoadConfig`, `InitMetrics`
and `CreateSelfSignedTLSCertificate` succeed or fail. The five seconds of
`Shutdown` and the timeouts of the pings are choices: either outcome may occur.

The metrics server's goroutine goes through net/http's three steps, between
which the context may be done: `ListenAndServe` looks whether `Shutdown` was
called, `OpenMetricsPort` opens the port, and `TrackListener` registers the
listener or, if `Shutdown` was called meanwhile, closes it. `Shutdown`
(`MetricsCtxDone`, `MetricsShutdown`) closes a registered listener and waits for
its accept loop; of a listener that is not registered yet it knows nothing, so
`Run` may return while that port is open. In a gRPC server these steps are one
(`Serve` registers under the lock that `GracefulStop` takes).

## Runs

All runs disable the deadlock check: finished streams, an exited process and a
clock at its bound stop for good.

| Run | Instance | Shows |
|---|---|---|
| `serve_one` | 1 stream; 8 header maps (2 accepted, 3 rejected, 3 for keys); body up to 4 bytes against a limit of 2, chunks of 0 to 2; 3 messages in flight; under `FairSpec` | `BodyBounded`, `AtMostOnceDelivery`, `BadForwardsFollowTheirError`, `ClientAnswerSound`, `UnansweredIsUntouched`, `ImplementsRelaySpec`, `EventuallyAnswered`, `StreamReleased` |
| `serve_two` | 2 streams (symmetric) on two hosts or for keys, bodies of 2 bytes, replies of 1 | `TrafficAccounted`, `MetricsAgree` |
| `routing` | 1 stream to one of four hosts, Redis rewritten at any time, a malformed URL among the values | `RoutedByHost`, `RoutedAsConfigured` |
| `traffic` | 2 calls on one host, one retry, windows of 1 tick, commands up to 1 tick late, ttl 3, 4 ticks | `CountersExact`, `NothingAckedIsLost`, `OnlyCutPipelinesLeaveNoTTL`, `AckedBucketsLive`, `BucketsLiveOnce` |
| `lifecycle` | with Redis, 1 call per server, under `FairSpec` | `ServedToTheEnd`, `ExitCodeHonest`, `PortsReleased`, `FailTogether`, `HealthWithdrawn` |
| `round_trip` | 1 client, 2 key pairs, 2 starts of the gateway, under `FairSpec` | `TornFilesRefused`, `PairsMatchUnlessTorn`, `SealsWithWholeKeys`, `PassedMeansRoundTrip`, `StoppedGatewayEnds` |

The bounds. A body of twice the limit is the smallest one that is refused and
then has enough bytes left to fill the buffer again; three messages in flight
let headers, a chunk too large and the last chunk all be sent before the first
answer is read. Handlers share nothing but the metrics (lemma `OnlyOwnStream`),
so one stream shows all that a stream can do and two show how the metrics are
shared. Two calls with two attempts each are enough for an attempt to be
overtaken by its own retry and by another call, and four ticks for the
ttl of an early call to end while that of a later one still runs. Two key pairs
and two starts are what a client needs to hold the keys of a gateway that was
replaced, and a gateway to read one new file and one old; clients do not share
anything but the gateway. A key configuration of one byte leaves key lists cut
before, in and after their length.

Fairness. `FairSpec` of `ExtProcServer` asks only that a handler that can take
a step takes one: Go schedules its goroutine, and the gateway client and the
calls to Redis have timeouts, so every wait but `Recv` ends. Envoy, gateways and
Redis are under no obligation; a handler in `Recv` on an open stream with an
empty inbox (`Waiting`) may wait for ever, and is not obliged to fail either.
`FairSpec` of `Lifecycle` is the same for its goroutines and for the health
handler, which answers at once. The end of relay streams is no fairness
assumption there but a premise of `FailTogether` (`[]<>` no stream in flight):
`GracefulStop` has no time limit, and `StreamReleased` ties the end of a stream
to Envoy's closing it. `FairSpec` of `RoundTrip` asks that the gateway's main
goroutine takes its steps, the deadline of `Shutdown` included, and nothing of
its handlers, of signals, of clients or of the relay.

### Where documents and code differ

These runs check what a document, a comment or a test says, and TLC finds the
behaviour that contradicts it (`findings` in `PROJECT.json` has the quotations).

| Run | What happens |
|---|---|
| `status_preserved` | 411 and 415 are sent as 500: the switch of `immediateErrorResponse` does not have them. |
| `answered_forwarded` | After a failed header check, the body that follows is forwarded all the same. (Likewise, after a 413 the rest of the body is buffered from empty and forwarded; `serve_one` reaches this.) |
| `method_case` | The gateway receives the method `post`. |
| `keys_truncated` | Part of a key configuration is answered as 200. |
| `traffic_described` | A body that was received whole and answered 502 is not among the "total bytes received from clients". |
| `traffic_ttl` | Every call renews the ttl; the comment has it set once. |

The first answer is the one Envoy hands on, so the client of
`answered_forwarded` sees the right error; what is wrong is what reaches the
gateway. `BadForwardsFollowTheirError` states exactly that, and it holds.
`traffic_ttl` is a wrong comment: with `NX`, as the comment has it,
`NothingAckedIsLost` fails (this is its mutant). The traffic counters are
described as the bytes received from and sent to clients; what they hold is
stated by `TrafficAccounted`: the bytes of the exchanges that succeeded, counted
before the answer is sent and so also when it cannot be. The comment at
`server.go:246` calls the recording in Redis non-blocking, but the handler waits
for it (`record`).

Two more behaviours are worth knowing. A request that ends with trailers, so
that no chunk carries the end of stream, is not answered until Envoy gives up
(`RecvIgnored`; this is why `EventuallyAnswered` speaks only of requests whose
last chunk, or whose headers, mark the end); nothing of it reaches a gateway
either (`UnansweredIsUntouched`). And the health port answers SERVING as soon as
it is open, which may be before the relay's own port is; once anything has
failed it takes no new connections (`HealthWithdrawn`), though a connection that
is already there may be answered for as long as the process lives if it was the
health server's own `Accept` that failed.

In the echo gateway, two files that do not belong together are not noticed: the
gateway publishes one key and has another, and no request to it succeeds. This
takes a `gen-key` that ended between its files or ran while the gateway started
(`PairsMatchUnlessTorn`). A YAML file cut off right after the public key is
accepted, as a configuration without algorithms. In a flag, `domain:url` cannot
have a URL with an equals sign in it.

## Proofs

Eight modules hold theorems or lemmas. Seven of them are about a component and
follow the same course: an inductive invariant, which TLC checked first on the
instance of a run; lemmas that say what one kind of step does to it; a theorem
`...Invariance`; and the properties, which it implies. `SumTheorems` has what two
of them need to know about sums.

### The relay: ExtProcServerProofs

For any set of streams and header maps, any limit, chunk sizes, statuses and
mappings that satisfy the named assumptions:

* `TypeCorrect`: `Spec => []TypeOK`;
* `BodyStaysBounded`: `Spec => []BodyBounded`;
* `DeliversAtMostOnce`: `Spec => []AtMostOnceDelivery`.

All three follow from `Invariance`, which proves `IInv`, the types and, for each
stream, `StreamInv`. `AtMostOnceDelivery` is not inductive: it holds because a
body has one last chunk, and nothing in `Process` remembers that one was seen.
`StreamInv` follows the last chunk on its way: there is at most one in the
inbox, and while it is there nothing has been forwarded and the handler is not
forwarding (`Forwarded`); once the handler is, Envoy has ended the request, so
that no other last chunk can come; and a handler that is about to send has sent
nothing before. With it go the bounds on the buffer and on forwarded bodies, and
that a request about to be sent has a URL.

The argument has three parts: a step of Envoy or of the handler keeps the
invariant of its own stream (`EnvoyStepInv`, `HandlerStepInv`, one step per
action); it changes nothing of another stream (`OnlyOwnStream`); and types are
kept by each kind of step (`TypeEnvoyStep`, `TypeRecvStep`, `TypeLookup`,
`TypeRelayStep`, `TypeRedisStep`). `TargetIsTheHosts` says what the chain of
sources returns, and its corollary `FallbackIsChain` that `FallbackSource`,
which `app.go` does not use, is a chain that ends in a default.

### What is forwarded and answered: ExtProcAnswerProofs

* `BadForwardsAreTold`: `Spec => []BadForwardsFollowTheirError`;
* `RequestsGoToTheirHost`: `Spec => []RoutedByHost`;
* `AnswersAreTheGateways`: `Spec => []ClientAnswerSound`;
* `UnansweredStaysUntouched`: `Spec => []UnansweredIsUntouched`.

`AnswerInvariance` proves `AInv`, which adds `ExchangeInv` to `IInv`:

* `HeaderInv`: the headers are the first message or have been processed, and if
  they were bad their error is sent or about to be;
* `BodyInv`: the chunks in the inbox are consecutive pieces of the client's body.
  There is a function `e` of cut positions (`Cuts`) such that the i-th message
  holds the bytes after `e[i-1]` up to `e[i]`; the buffer is everything up to
  `e[0]`, *or* a 413 is sent or about to be. This alternative is what makes the
  invariant true of code that goes on buffering after an error answer;
* `ForwardInv`: what was forwarded went where the host was mapped, and each
  forward had its errors told before it (`Past`);
* `AnswerInv`: each answer has its reason: an OHTTP response a complete and
  successful reply, a key configuration a client that asked for keys.

The lemmas on `Cuts` (`CutsTail` and those that follow it) say what receiving a
message and sending one do to the positions.

### The metrics: ExtProcMetricsProofs

`MetricsAlwaysAgree` (`Spec => []MetricsAgree`) needs that a way out is recorded
only for a stream that is done (`MInv`), so that a step moves one stream from
one counted set to another; the theorems on cardinalities do the rest
(`CountOne`). It is for any finite set of streams.

`TrafficIsAccounted` (`Spec => []TrafficAccounted`) adds up bytes instead of
streams. `Process` meters the buffer it holds after the exchange, the property
speaks of what the gateway took; `Carried` ties the two together while a stream
waits for its gateway. A step is `Calm` for a stream if it neither completes its
exchange nor touches a completed one: every step is, for every stream, but `Read`
for its own (`HandlerCalm`, `EnvoyCalm`), and calm steps keep the sums
(`CalmTraffic`). `ReadTraffic` is the step that counts: `AInv` says that the
exchange was not complete before, so that it is counted once, and that the
buffered host is the one of the headers.

### The refinement: ExtProcRefinementProofs

`RelayImplementsSpec` is `Spec => ImplementsRelaySpec`. Initial states map to
initial states. For the steps, `Unseen` says that nothing that `RelaySpec` shows
of an exchange changes; a step of one stream is unseen in the others
(`StepOfOne`), and most of a handler's steps are unseen in its own
(`MostStepsAreQuiet`). The steps that show have a lemma each: `Open` and the end
of the request (`EnvoyRefines`), a request that reaches a gateway (`DoRefines`:
if it is not the client's whole and valid request, `Past` has an error as the
first answer), the complete reply and the first answer. `AInv` supplies the
guards of `RelaySpec`.

### Sums: SumTheorems

`MapThenSumSet` takes the elements of a set in an order that `CHOOSE` fixes. That
the order does not matter takes an induction. The library's induction theorems
are stated for a predicate that is a parameter, which the provers cannot
instantiate; `WFMin` is not, and says of a set of counterexamples that it has a
smallest one. `SmallestSubset` is this for subsets of a finite set. With it,
`AddsExists` shows that the recursive function behind a sum exists, `AddsAgree`
that it is determined by the weights, and `AddsAnyOrder` that any element may be
taken out first. The users are `TotalSame`, `TotalAdd` (one element more) and
`TotalEmbeds` (a sum over elements that others stand for one by one is no larger).
`PipelineSums` and `TrafficSums` say that the sums of the properties are of this
form.

### The buckets: TrafficMetricsProofs

For any finite set of calls, any hosts, sizes, number of retries and clock:

* `TypeCorrect`, `CompletePipelinesExpire` (`OnlyCutPipelinesLeaveNoTTL`),
  `AckedBucketsAreKept` (`AckedBucketsLive`), and the action property
  `BucketsAreCreatedOnce` (`BucketsLiveOnce`);
* `CountersAreExact` (`CountersExact`) and `AckedTrafficIsKept`
  (`NothingAckedIsLost`).

The heart of `TInv` is `LifeInv`: a bucket on which a command was executed is
missing only a ttl after its window began, and one with a complete pipeline has
the expiry of that pipeline or a later one. With `ExpiryInv` (no expiry lies
before the window's beginning and a ttl) the lemma `StragglersFindTheirBucket`
follows: a late command of a window finds the window's bucket in place if it was
ever there. This is where `TimeAssumption` is needed, that the ttl is longer than
a window and the delay; with a shorter ttl a straggler would create the bucket
anew, with an empty count. A bucket without a ttl has a command executed on it
(`SourceInv`), and by `LifeInv` no complete pipeline.

`CountersExact` needs that an absent bucket counts from zero (`SumInv`). A command
adds one pipeline to one of the two sets that are summed (`ExecuteRan`) and its
bytes to the counter (`ExecuteCounts`); if it creates the bucket, the same
straggler lemma says that both sets were empty. A bucket that expires takes its
whole count along, and is never created again. `NothingAckedIsLost` follows: the
bucket is there (`LifeInv`), and each call that returned nil has an attempt that
was executed whole, so the sum over the calls is no larger than the one over the
attempts (`AckedAreCounted`). That the calls are finitely many is part of
`CallsAssumption`: a sum over an infinite set means nothing.

### The process: LifecycleProofs

With and without Redis and for any calls in flight: `TypeCorrect`,
`CallsAreServedToTheEnd`, `ExitCodeIsHonest`, `PortsAreReleased`. `IInv` ties the
errgroup's bookkeeping to its members (`GroupInv`), the place of a server's
goroutine to the stage of `GracefulStop` and to its port (`ServerInv`), and the
metrics server's listener, channel and `Shutdown` to each other (`MetricsInv`).
`PortsReleased` is the least obvious: a gRPC server whose context was cancelled
between `Listen` and `Serve` has its port closed by `Serve`, which finds the
server stopped; and the metrics port is open only before it is registered, or
while it is served and `Shutdown` was not called, so that what `Run` leaves
behind is at most a port that nobody serves and `TrackListener` closes.

### The end-to-end test: RoundTripProofs

For any number of clients, keys and starts of the gateway and any length of a key
configuration: `TypeCorrect`, `TornFilesAreRefused`, `PairsMatch`, `KeysAreWhole`
and `SuccessIsARoundTrip`. The relay in it is any that keeps the promises of
`RelaySpec`, and `RelayImplementsSpec` is why this one does. `GatewayInv` relates
the files to the pair that the gateway has loaded; `ClientInv` says of each client
that its keys are whole before its request is sent, that the gateway's reply to
the request was made with the matching private key (`RequestInv`), and that an
answer is an error, that reply, or keys (`AnswerInv`). `FilesAreReadable` shows that what is left of a file never makes
`UnmarshalKeyConfig` panic. The proof needs `MaxKeys` to be at least 1: the first
key pair is there from the start.

### Model-checked only

* Liveness, which is beyond this prover: `EventuallyAnswered`, `StreamReleased`,
  `FailTogether`, `HealthWithdrawn`, `StoppedGatewayEnds`.
* What `parseDomainMap` computes, folds over sequences of tokens that are cut and
  trimmed, and with it `RoutedAsConfigured`, which joins it to `RoutedByHost` for
  the flag of the run.

## Not modelled

* The histograms and the method label of the Prometheus metrics, request ids,
  the wording of messages and logs, and the set-up of logging: nothing depends
  on them.
* The contents of the TLS certificate and HPKE: they are made by libraries.
* `NoOpTrafficMetrics`, `StaticMapKeyConfigSource` and
  `cmd/ohttp-relay/health.go`: no state, tests only, and not used.
* How long anything takes. Timeouts are choices; that a slow Redis delays an
  answer, which waits for `RecordTraffic`, is a delay and not a different answer.

`README.md` of the repository configures Envoy with `request_body_mode:
BUFFERED`, in which Envoy sends the body as one chunk; the model allows chunks,
which the code handles and the limit check is about, and contains that mode.

## Plan

1. Done: all modules of the model with their runs, the safety theorems above, the
   sums among them, and the refinement. Every invariant of a passing run but
   `RoutedAsConfigured` is a theorem.
2. Next: the lemmas on `DomainMap` (smallest counterexamples by the number of
   pairs, as in `SumTheorems`), and action properties that carry parts of the
   liveness properties (a port that was closed stays closed).
