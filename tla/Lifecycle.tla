------------------------------- MODULE Lifecycle -------------------------------
(***************************************************************************)
(* The relay's process from main to exit: App.Run starts a health gRPC     *)
(* server, a metrics HTTP server and the relay's gRPC server in an         *)
(* errgroup.  The first of them to return an error cancels the context of  *)
(* the others, each of which then shuts down on its own terms, and Run     *)
(* returns when the last of the three has.                                 *)
(*                                                                         *)
(* main hands Run context.Background(), so nothing else cancels the        *)
(* context, and a signal ends the process on the spot.                     *)
(*                                                                         *)
(* The gRPC and HTTP servers, sockets and Redis are external, and modelled *)
(* by what the code uses of them: in particular GracefulStop closes the    *)
(* listener, waits for Serve's accept loop, then for the calls in flight,  *)
(* and Serve returns only after that.                                      *)
(***************************************************************************)
EXTENDS Naturals, FiniteSets

CONSTANTS
    RedisEnable, \* --redis-enable with an address
    RPCs         \* bound: gRPC calls in flight on a server

ASSUME LifecycleAssumption == RedisEnable \in BOOLEAN /\ IsFiniteSet(RPCs)

GRPC    == {"health", "relay"}
Members == GRPC \cup {"metrics"}

VARIABLES
    process,  \* "running", "exited" (os.Exit(1)), "exited0" or "killed"
    run,      \* run and App.Run: "load", "start", "members", "wait", "nil" or "error"
    ctxDone,  \* the errgroup's context is cancelled
    firstErr, \* the errgroup's error: who returned it, or "none"
    pc,       \* where each member's goroutine is
    result,   \* what it returned: "none" so far, "nil" or "error"
    lis,      \* each member's port: "none", "open" or "closed"
    \* gRPC servers
    server,   \* "new", "serving", "quit", "drain" or "stopped"
    watcher,  \* the goroutine that waits for the context: "none", "select", "stopping", "gone"
    rpcs,     \* calls in flight
    cut,      \* calls that the end of the process cut off
    \* metrics server
    listener, \* its ListenAndServe goroutine: "none", "starting", "checked" (not
              \* shutting down), "opened" (the port), "serving" or "ended"
    errChan,  \* "empty", "error" (and closed) or "closed"
    shutdown, \* server.Shutdown was called
    scraping  \* a scrape is in flight

groupVars   == <<ctxDone, firstErr, pc, result>>
grpcVars    == <<server, watcher, rpcs, cut>>
metricsVars == <<listener, errChan, shutdown, scraping>>
vars == <<process, run, groupVars, lis, grpcVars, metricsVars>>

TypeOK ==
    /\ process \in {"running", "exited", "exited0", "killed"}
    /\ run \in {"load", "start", "members", "wait", "nil", "error"}
    /\ ctxDone \in BOOLEAN
    /\ firstErr \in Members \cup {"none"}
    /\ pc \in [Members -> {"idle", "ping", "traffic", "cert", "listen", "toServe", "serve",
                           "draining", "metrics", "select", "shutdown", "returned"}]
    /\ result \in [Members -> {"none", "nil", "error"}]
    /\ lis \in [Members -> {"none", "open", "closed"}]
    /\ server \in [GRPC -> {"new", "serving", "quit", "drain", "stopped"}]
    /\ watcher \in [GRPC -> {"none", "select", "stopping", "gone"}]
    /\ rpcs \in [GRPC -> SUBSET RPCs]
    /\ cut \in [GRPC -> SUBSET RPCs]
    /\ listener \in {"none", "starting", "checked", "opened", "serving", "ended"}
    /\ errChan \in {"empty", "error", "closed"}
    /\ shutdown \in BOOLEAN
    /\ scraping \in BOOLEAN

Init ==
    /\ process = "running"
    /\ run = "load"
    /\ ctxDone = FALSE
    /\ firstErr = "none"
    /\ pc = [m \in Members |-> "idle"]
    /\ result = [m \in Members |-> "none"]
    /\ lis = [m \in Members |-> "none"]
    /\ server = [g \in GRPC |-> "new"]
    /\ watcher = [g \in GRPC |-> "none"]
    /\ rpcs = [g \in GRPC |-> {}]
    /\ cut = [g \in GRPC |-> {}]
    /\ listener = "none"
    /\ errChan = "empty"
    /\ shutdown = FALSE
    /\ scraping = FALSE

-----------------------------------------------------------------------------
(* The errgroup: a member returns.                                         *)

StillRunning == process = "running" /\ UNCHANGED process

Goto(m, next) == pc' = [pc EXCEPT ![m] = next] /\ UNCHANGED <<ctxDone, firstErr, result>>

ReturnNil(m) ==
    /\ pc' = [pc EXCEPT ![m] = "returned"]
    /\ result' = [result EXCEPT ![m] = "nil"]
    /\ UNCHANGED <<ctxDone, firstErr>>

\* The first error is kept and cancels the context.
ReturnError(m) ==
    /\ pc' = [pc EXCEPT ![m] = "returned"]
    /\ result' = [result EXCEPT ![m] = "error"]
    /\ firstErr' = IF firstErr = "none" THEN m ELSE firstErr
    /\ ctxDone' = TRUE

-----------------------------------------------------------------------------
(* main, run and App.Run.                                                 *)

\* config.Load: a flag that parseDomainMap refuses is the end.
LoadConfig ==
    /\ run = "load"
    /\ run' \in {"start", "error"}
    /\ StillRunning /\ UNCHANGED <<groupVars, lis, grpcVars, metricsVars>>

\* The exporter and the instruments are created, or the first failure ends Run.
InitMetrics ==
    /\ run = "start"
    /\ run' \in {"members", "error"}
    /\ StillRunning /\ UNCHANGED <<groupVars, lis, grpcVars, metricsVars>>

\* The three members of the errgroup start.
RunStarts ==
    /\ run = "members"
    /\ run' = "wait"
    /\ pc' = [health  |-> "listen",
              metrics |-> "metrics",
              relay   |-> IF RedisEnable THEN "ping" ELSE "cert"]
    /\ StillRunning /\ UNCHANGED <<ctxDone, firstErr, result, lis, grpcVars, metricsVars>>

\* Mutant: the error of wg.Wait is logged and not returned.
RunReturnsNil ==
    /\ run = "wait" /\ \A m \in Members : pc[m] = "returned"
    /\ run' = "nil"
    /\ ctxDone' = TRUE
    /\ StillRunning /\ UNCHANGED <<firstErr, pc, result, lis, grpcVars, metricsVars>>

\* wg.Wait returns; it cancels the context too.
RunReturns ==
    /\ run = "wait" /\ \A m \in Members : pc[m] = "returned"
    /\ run' = IF firstErr = "none" THEN "nil" ELSE "error"
    /\ ctxDone' = TRUE
    /\ StillRunning /\ UNCHANGED <<firstErr, pc, result, lis, grpcVars, metricsVars>>

\* Whatever still runs is lost.
EndProcess(how) ==
    /\ process = "running"
    /\ process' = how
    /\ cut' = rpcs
    /\ rpcs' = [g \in GRPC |-> {}]
    /\ UNCHANGED <<run, groupVars, lis, server, watcher, metricsVars>>

MainExits ==
    /\ run \in {"nil", "error"}
    /\ EndProcess(IF run = "error" THEN "exited" ELSE "exited0")

\* SIGTERM or SIGINT: the relay's main installs no handler.
Killed == EndProcess("killed")

-----------------------------------------------------------------------------
(* runRelayServer and ExtProcServerRunner.Start, up to the gRPC server.    *)

\* The ping of runRelayServer ends with the context ...
RedisPing ==
    /\ pc["relay"] = "ping"
    /\ \/ ~ctxDone /\ Goto("relay", "traffic")
       \/ ReturnError("relay")
    /\ StillRunning /\ UNCHANGED <<run, lis, grpcVars, metricsVars>>

\* ... the one of NewRedisTrafficMetrics does not.
NewRedisTrafficMetrics ==
    /\ pc["relay"] = "traffic"
    /\ Goto("relay", "cert") \/ ReturnError("relay")
    /\ StillRunning /\ UNCHANGED <<run, lis, grpcVars, metricsVars>>

\* A certificate, or the error of one of the calls that make it.
CreateSelfSignedTLSCertificate == {"cert", "err"}

\* Start makes the gRPC server and registers the handlers.
CreateCertificate ==
    /\ pc["relay"] = "cert"
    /\ \E made \in CreateSelfSignedTLSCertificate :
          IF made = "cert" THEN Goto("relay", "listen") ELSE ReturnError("relay")
    /\ StillRunning /\ UNCHANGED <<run, lis, grpcVars, metricsVars>>

-----------------------------------------------------------------------------
(* runnable.GRPCServer.                                                    *)

\* net.Listen; the goroutine that waits for the context starts before Serve.
Listen(g) ==
    /\ pc[g] = "listen"
    /\ \/ /\ Goto(g, "toServe")
          /\ lis' = [lis EXCEPT ![g] = "open"]
          /\ watcher' = [watcher EXCEPT ![g] = "select"]
       \/ ReturnError(g) /\ UNCHANGED <<lis, watcher>>
    /\ StillRunning /\ UNCHANGED <<run, server, rpcs, cut, metricsVars>>

\* Serve after GracefulStop closes the listener and returns ErrServerStopped,
\* which GRPCServer takes for a normal end.
Serve(g) ==
    /\ pc[g] = "toServe"
    /\ IF server[g] = "new"
       THEN /\ Goto(g, "serve")
            /\ server' = [server EXCEPT ![g] = "serving"]
            /\ UNCHANGED lis
       ELSE /\ ReturnNil(g)
            /\ lis' = [lis EXCEPT ![g] = "closed"]
            /\ UNCHANGED server
    /\ StillRunning /\ UNCHANGED <<run, watcher, rpcs, cut, metricsVars>>

\* Accept fails for good: Serve returns the error, and neither it nor
\* GRPCServer does anything about the calls in flight.
AcceptFails(g) ==
    /\ pc[g] = "serve" /\ server[g] = "serving"
    /\ ReturnError(g)
    /\ lis' = [lis EXCEPT ![g] = "closed"]
    /\ StillRunning /\ UNCHANGED <<run, grpcVars, metricsVars>>

\* After quit, the accept loop ends and Serve waits for the server to stop ...
AcceptLoopEnds(g) ==
    /\ pc[g] = "serve" /\ server[g] = "quit"
    /\ Goto(g, "draining")
    /\ StillRunning /\ UNCHANGED <<run, lis, grpcVars, metricsVars>>

\* ... and returns nil.
ServeReturns(g) ==
    /\ pc[g] = "draining" /\ server[g] = "stopped"
    /\ ReturnNil(g)
    /\ StillRunning /\ UNCHANGED <<run, lis, grpcVars, metricsVars>>

CloseListener(g) == lis' = [lis EXCEPT ![g] = IF server[g] = "serving" THEN "closed" ELSE @]

\* Mutant: Stop, which breaks the connections, in place of GracefulStop.
WatcherStopsHard(g) ==
    /\ watcher[g] = "select" /\ ctxDone
    /\ watcher' = [watcher EXCEPT ![g] = "stopping"]
    /\ server' = [server EXCEPT ![g] = IF @ = "new" THEN "drain" ELSE "quit"]
    /\ cut' = [cut EXCEPT ![g] = rpcs[g]]
    /\ rpcs' = [rpcs EXCEPT ![g] = {}]
    /\ CloseListener(g)
    /\ StillRunning /\ UNCHANGED <<run, groupVars, metricsVars>>

\* Mutant: the health server runs under the context that Run was given.
WatcherStopsOthers(g) ==
    /\ watcher[g] = "select" /\ ctxDone /\ g # "health"
    /\ watcher' = [watcher EXCEPT ![g] = "stopping"]
    /\ server' = [server EXCEPT ![g] = IF @ = "new" THEN "drain" ELSE "quit"]
    /\ CloseListener(g)
    /\ StillRunning /\ UNCHANGED <<run, groupVars, rpcs, cut, metricsVars>>

\* case <-ctx.Done(): GracefulStop begins.
WatcherStops(g) ==
    /\ watcher[g] = "select" /\ ctxDone
    /\ watcher' = [watcher EXCEPT ![g] = "stopping"]
    /\ server' = [server EXCEPT ![g] = IF @ = "new" THEN "drain" ELSE "quit"]
    /\ CloseListener(g)
    /\ StillRunning /\ UNCHANGED <<run, groupVars, rpcs, cut, metricsVars>>

\* case <-doneCh: GRPCServer has returned.
WatcherReleased(g) ==
    /\ watcher[g] = "select" /\ pc[g] = "returned"
    /\ watcher' = [watcher EXCEPT ![g] = "gone"]
    /\ StillRunning /\ UNCHANGED <<run, groupVars, lis, server, rpcs, cut, metricsVars>>

\* GracefulStop turns new calls away once the accept loop is over ...
Drain(g) ==
    /\ server[g] = "quit" /\ pc[g] # "serve"
    /\ server' = [server EXCEPT ![g] = "drain"]
    /\ StillRunning /\ UNCHANGED <<run, groupVars, lis, watcher, rpcs, cut, metricsVars>>

\* ... and returns once the last call has ended.
Drained(g) ==
    /\ server[g] = "drain" /\ rpcs[g] = {}
    /\ server' = [server EXCEPT ![g] = "stopped"]
    /\ watcher' = [watcher EXCEPT ![g] = "gone"]
    /\ StillRunning /\ UNCHANGED <<run, groupVars, lis, rpcs, cut, metricsVars>>

\* A client calls Check or Watch (health) or Process (relay).
BeginRPC(g, r) ==
    /\ server[g] \in {"serving", "quit"} /\ r \notin rpcs[g]
    /\ rpcs' = [rpcs EXCEPT ![g] = @ \cup {r}]
    /\ StillRunning /\ UNCHANGED <<run, groupVars, lis, server, watcher, cut, metricsVars>>

\* The handler returns; the one of the health service has answered SERVING.
EndRPC(g, r) ==
    /\ r \in rpcs[g]
    /\ rpcs' = [rpcs EXCEPT ![g] = @ \ {r}]
    /\ StillRunning /\ UNCHANGED <<run, groupVars, lis, server, watcher, cut, metricsVars>>

-----------------------------------------------------------------------------
(* runMetricsServer.                                                       *)

RunMetricsServer ==
    /\ pc["metrics"] = "metrics"
    /\ Goto("metrics", "select")
    /\ listener' = "starting"
    /\ StillRunning /\ UNCHANGED <<run, lis, grpcVars, errChan, shutdown, scraping>>

\* Mutant: ErrServerClosed is sent to errChan.
ListenerReturnsUnfiltered(closed) ==
    /\ listener' = "ended"
    /\ errChan' = IF closed THEN "ErrServerClosed" ELSE "error"

\* The goroutine ends: it closes errChan, after sending an error other than
\* ErrServerClosed.
ListenerReturns(closed) ==
    /\ listener' = "ended"
    /\ errChan' = IF closed THEN "closed" ELSE "error"

\* ListenAndServe looks whether Shutdown was called ...
ListenAndServe ==
    /\ listener = "starting"
    /\ IF shutdown THEN ListenerReturns(TRUE)
       ELSE listener' = "checked" /\ UNCHANGED errChan
    /\ StillRunning /\ UNCHANGED <<run, groupVars, lis, grpcVars, shutdown, scraping>>

\* ... opens the port, or cannot ...
OpenMetricsPort ==
    /\ listener = "checked"
    /\ \/ /\ listener' = "opened"
          /\ lis' = [lis EXCEPT !["metrics"] = "open"]
          /\ UNCHANGED errChan
       \/ ListenerReturns(FALSE) /\ UNCHANGED lis
    /\ StillRunning /\ UNCHANGED <<run, groupVars, grpcVars, shutdown, scraping>>

\* ... and registers the listener, unless Shutdown has been called meanwhile:
\* then it closes the port itself.
TrackListener ==
    /\ listener = "opened"
    /\ IF shutdown
       THEN ListenerReturns(TRUE) /\ lis' = [lis EXCEPT !["metrics"] = "closed"]
       ELSE listener' = "serving" /\ UNCHANGED <<lis, errChan>>
    /\ StillRunning /\ UNCHANGED <<run, groupVars, grpcVars, shutdown, scraping>>

\* The accept loop ends, with ErrServerClosed after Shutdown.
ListenerEnds ==
    /\ listener = "serving"
    /\ ListenerReturns(shutdown)
    /\ lis' = [lis EXCEPT !["metrics"] = "closed"]
    /\ StillRunning /\ UNCHANGED <<run, groupVars, grpcVars, shutdown, scraping>>

\* Mutant: the server is left alone when the context is done.
MetricsCtxDoneReturns ==
    /\ pc["metrics"] = "select" /\ ctxDone
    /\ ReturnNil("metrics")
    /\ StillRunning /\ UNCHANGED <<run, lis, grpcVars, metricsVars>>

\* case <-ctx.Done(): Shutdown closes the port if its listener is registered.
MetricsCtxDone ==
    /\ pc["metrics"] = "select" /\ ctxDone
    /\ Goto("metrics", "shutdown")
    /\ shutdown' = TRUE
    /\ lis' = [lis EXCEPT !["metrics"] = IF listener = "serving" THEN "closed" ELSE @]
    /\ StillRunning /\ UNCHANGED <<run, grpcVars, listener, errChan, scraping>>

\* Mutant: a failed metrics server is logged only.
MetricsFailedNil ==
    /\ pc["metrics"] = "select" /\ errChan # "empty"
    /\ ReturnNil("metrics")
    /\ StillRunning /\ UNCHANGED <<run, lis, grpcVars, metricsVars>>

\* case err := <-errChan: also when the channel was closed without an error.
MetricsFailed ==
    /\ pc["metrics"] = "select" /\ errChan # "empty"
    /\ ReturnError("metrics")
    /\ StillRunning /\ UNCHANGED <<run, lis, grpcVars, metricsVars>>

\* Shutdown waits for the accept loop of a registered listener; it returns when
\* no request is left, or fails after five seconds.
MetricsShutdown ==
    /\ pc["metrics"] = "shutdown" /\ listener # "serving"
    /\ IF scraping THEN ReturnError("metrics") ELSE ReturnNil("metrics")
    /\ StillRunning /\ UNCHANGED <<run, lis, grpcVars, metricsVars>>

Scrape(on) ==
    /\ scraping # on
    /\ on => listener = "serving" /\ lis["metrics"] = "open"
    /\ scraping' = on
    /\ StillRunning /\ UNCHANGED <<run, groupVars, lis, grpcVars, listener, errChan, shutdown>>

-----------------------------------------------------------------------------

MainStep == LoadConfig \/ InitMetrics \/ RunStarts \/ RunReturns \/ MainExits

RelaySetup == RedisPing \/ NewRedisTrafficMetrics \/ CreateCertificate

\* What GRPCServer, its goroutine and the gRPC server do by themselves.
GRPCStep(g) ==
    \/ Listen(g) \/ Serve(g) \/ AcceptLoopEnds(g) \/ ServeReturns(g)
    \/ WatcherStops(g) \/ WatcherReleased(g) \/ Drain(g) \/ Drained(g)

MetricsStep == RunMetricsServer \/ MetricsCtxDone \/ MetricsFailed \/ MetricsShutdown

ListenerStep == ListenAndServe \/ OpenMetricsPort \/ TrackListener

Next ==
    \/ MainStep \/ RelaySetup \/ MetricsStep \/ ListenerStep \/ ListenerEnds
    \/ \E g \in GRPC : GRPCStep(g) \/ AcceptFails(g)
    \/ \E g \in GRPC, r \in RPCs : BeginRPC(g, r) \/ EndRPC(g, r)
    \/ \E on \in BOOLEAN : Scrape(on)
    \/ Killed

Spec == Init /\ [][Next]_vars

\* Every goroutine is scheduled, every call in the setup has a timeout or ends
\* by itself, and so does the health handler.  Failures, clients and signals
\* are under no obligation, and neither is the end of a relay stream.
FairSpec ==
    /\ Spec
    /\ WF_vars(MainStep) /\ WF_vars(RelaySetup)
    /\ WF_vars(MetricsStep) /\ WF_vars(ListenerStep \/ (shutdown /\ ListenerEnds))
    /\ \A g \in GRPC : WF_vars(GRPCStep(g))
    /\ \A r \in RPCs : WF_vars(EndRPC("health", r))

-----------------------------------------------------------------------------
(* Properties.                                                             *)

\* When the process ends by itself, no call in flight is cut off on a server
\* that was told to stop, whatever failed and whenever it did: Run waits for
\* GracefulStop, which waits for the calls (GRPCServer).  Only the calls of a
\* server whose own Accept failed are lost.
ServedToTheEnd ==
    \A g \in GRPC : cut[g] # {} => process = "killed" \/ result[g] = "error"

\* The process never ends with status 0, since Run only ends after a failure;
\* and the channel that the metrics goroutine closes after a normal end is
\* never taken for a failure (the select of runMetricsServer).
ExitCodeHonest ==
    /\ process # "exited0"
    /\ pc["metrics"] = "select" => errChan # "closed"

\* When Run has returned, no server takes a connection any more, even one whose
\* context was cancelled between Listen and Serve: the gRPC ports are closed
\* and no accept loop runs on the metrics port.  That port may still be open,
\* because Shutdown does not know of a listener that ListenAndServe has not
\* registered yet, but only in the hands of a goroutine that is to close it.
PortsReleased ==
    run \in {"nil", "error"} =>
        /\ \A g \in GRPC : lis[g] # "open"
        /\ listener # "serving"
        /\ lis["metrics"] = "open" => listener = "opened" /\ shutdown

\* Once any of the three has failed, the health port takes no new connection
\* any more, also while streams of the relay keep the process alive: Check
\* answers SERVING whatever happens, so that the closed port is all that tells
\* an orchestrator to send its traffic elsewhere.
HealthWithdrawn == ctxDone ~> [](lis["health"] # "open" \/ process # "running")

\* A server that ends takes the process down: no half of the relay stays up
\* without the other, provided that the relay's streams come to an end.
FailTogether ==
    []<>(rpcs["relay"] = {}) =>
        \A m \in Members : (pc[m] = "returned") ~> (process # "running")

=============================================================================
