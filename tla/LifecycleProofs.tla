--------------------------- MODULE LifecycleProofs ---------------------------
(***************************************************************************)
(* Proofs about Lifecycle, with and without Redis and for any number of    *)
(* calls in flight: how the relay's process ends.                          *)
(***************************************************************************)
EXTENDS Lifecycle, TLAPS

-----------------------------------------------------------------------------
(* The inductive invariant.                                                *)

\* The errgroup.  A member has a result once it has returned, it returns only
\* when it failed or was told to stop, and the context is cancelled only after
\* a failure.
GroupInv ==
    /\ \A m \in Members : pc[m] = "returned" <=> result[m] # "none"
    /\ \A m \in Members : pc[m] = "returned" => ctxDone
    /\ ctxDone => firstErr # "none"
    /\ run # "wait" => \A m \in Members : pc[m] \in {"idle", "returned"}
    /\ run \in {"load", "start", "members"} => \A m \in Members : pc[m] = "idle"
    /\ run # "nil" /\ process # "exited0"

\* A gRPC server, from GRPCServer's point of view: where its goroutine is, what
\* GracefulStop has done so far, and the port and the calls that are left.
ServerInv(g) ==
    /\ pc[g] \in {"idle", "ping", "traffic", "cert", "listen"} =>
          server[g] = "new" /\ watcher[g] = "none" /\ lis[g] = "none"
    /\ watcher[g] = "select" => server[g] \in {"new", "serving"}
    /\ pc[g] = "toServe" => server[g] \in {"new", "drain", "stopped"} /\ rpcs[g] = {}
    /\ pc[g] = "serve" => server[g] \in {"serving", "quit"}
    /\ pc[g] = "draining" => server[g] \in {"quit", "drain", "stopped"}
    /\ server[g] \in {"quit", "drain", "stopped"} => ctxDone
    /\ server[g] \in {"new", "stopped"} => rpcs[g] = {}
    /\ result[g] = "nil" => server[g] \in {"drain", "stopped"} /\ rpcs[g] = {}
    /\ lis[g] = "open" => pc[g] = "toServe" \/ (pc[g] = "serve" /\ server[g] = "serving")

\* The calls that were cut off.
CutInv ==
    /\ process = "running" => \A g \in GRPC : cut[g] = {}
    /\ ServedToTheEnd

\* runMetricsServer and its goroutine: Shutdown is called once the context is
\* done and leaves no accept loop behind, the channel speaks only after
\* ListenAndServe has ended, and the port is open while it serves and was not
\* told to stop, or before it is registered.
MetricsInv ==
    /\ pc["metrics"] \in {"idle", "metrics", "select", "shutdown", "returned"}
    /\ pc["metrics"] \in {"idle", "metrics"} => listener = "none"
    /\ pc["metrics"] \in {"idle", "metrics", "select"} => ~shutdown
    /\ pc["metrics"] = "shutdown" => shutdown
    /\ pc["metrics"] = "returned" => listener = "ended" \/ (shutdown /\ listener # "serving")
    /\ shutdown => ctxDone
    /\ errChan # "empty" => listener = "ended"
    /\ errChan = "closed" => shutdown
    /\ lis["metrics"] = "open" => listener = "opened" \/ (listener = "serving" /\ ~shutdown)

IInv ==
    /\ TypeOK
    /\ GroupInv
    /\ \A g \in GRPC : ServerInv(g)
    /\ CutInv
    /\ MetricsInv

-----------------------------------------------------------------------------
(* It holds when the process starts, and every step preserves it.          *)

\* Before config.Load nothing has been started.
LEMMA InitInv == Init => IInv
<1> SUFFICES ASSUME Init PROVE IInv
  OBVIOUS
<1> USE DEF Init, Members, GRPC
<1>1. TypeOK
  BY DEF TypeOK
<1>2. GroupInv
  BY DEF GroupInv
<1>3. \A g \in GRPC : ServerInv(g)
  BY DEF ServerInv
<1>4. CutInv /\ MetricsInv
  BY DEF CutInv, ServedToTheEnd, MetricsInv
<1> QED BY <1>1, <1>2, <1>3, <1>4 DEF IInv

\* The steps of main, run and App.Run, and the end of the process.  Run returns
\* an error, because a member that has returned has failed or was told to stop
\* by one that failed.
LEMMA MainStepInv == ASSUME IInv, MainStep \/ Killed PROVE IInv'
<1> USE DEF IInv, TypeOK, GroupInv, ServerInv, CutInv, MetricsInv, ServedToTheEnd,
            Members, GRPC, StillRunning, EndProcess, groupVars, grpcVars, metricsVars
<1>1. CASE LoadConfig \/ InitMetrics
  BY <1>1 DEF LoadConfig, InitMetrics
<1>2. CASE RunStarts
  <2>1. \A m \in Members : pc[m] # "returned" /\ pc'[m] # "returned" /\ result[m] = "none"
    BY <1>2 DEF RunStarts
  <2>2. UNCHANGED <<process, ctxDone, firstErr, result>> /\ run' = "wait"
    BY <1>2 DEF RunStarts
  <2>3. GroupInv'
    BY <2>1, <2>2
  <2>4. TypeOK' /\ CutInv' /\ MetricsInv'
    BY <1>2 DEF RunStarts
  <2>5. (\A g \in GRPC : ServerInv(g))'
    BY <1>2 DEF RunStarts
  <2> QED BY <2>3, <2>4, <2>5
<1>3. CASE RunReturns
  BY <1>3 DEF RunReturns
<1>4. CASE MainExits
  BY <1>4 DEF MainExits
<1>5. CASE Killed
  BY <1>5 DEF Killed
<1> QED BY <1>1, <1>2, <1>3, <1>4, <1>5 DEF MainStep

\* The steps of runRelayServer before there is a server: the next call, or an
\* error.
LEMMA RelaySetupInv == ASSUME IInv, RelaySetup PROVE IInv'
<1> USE DEF Members, GRPC, StillRunning, groupVars, grpcVars, metricsVars
<1>1. /\ pc["relay"] \in {"ping", "traffic", "cert"}
      /\ \/ \E next \in {"traffic", "cert", "listen"} : Goto("relay", next)
         \/ ReturnError("relay")
      /\ process = "running"
      /\ UNCHANGED <<process, run, lis, grpcVars, metricsVars>>
  BY DEF RelaySetup, RedisPing, NewRedisTrafficMetrics, CreateCertificate,
         CreateSelfSignedTLSCertificate
<1>2. ASSUME NEW next \in {"traffic", "cert", "listen"}, Goto("relay", next) PROVE IInv'
  BY <1>1, <1>2
     DEF Goto, IInv, TypeOK, GroupInv, ServerInv, CutInv, MetricsInv, ServedToTheEnd
<1>3. CASE ReturnError("relay")
  BY <1>1, <1>3
     DEF ReturnError, IInv, TypeOK, GroupInv, ServerInv, CutInv, MetricsInv, ServedToTheEnd
<1> QED BY <1>1, <1>2, <1>3

\* The steps of GRPCServer, its goroutine and the gRPC server.  A server that
\* was stopped before Serve has no calls, and one that GracefulStop has
\* finished with has none left.
LEMMA GRPCStepInv ==
    ASSUME IInv, NEW g \in GRPC, GRPCStep(g) \/ AcceptFails(g)
    PROVE  IInv'
<1> USE DEF IInv, TypeOK, GroupInv, ServerInv, CutInv, MetricsInv, ServedToTheEnd,
            Members, GRPC, StillRunning, Goto, ReturnNil, ReturnError,
            groupVars, grpcVars, metricsVars
<1>1. CASE Listen(g)
  <2>1. CASE Goto(g, "toServe")
    BY <1>1, <2>1 DEF Listen
  <2>2. CASE ReturnError(g) /\ UNCHANGED <<lis, watcher>>
    BY <1>1, <2>2 DEF Listen
  <2> QED BY <1>1, <2>1, <2>2 DEF Listen
<1>2. CASE Serve(g)
  BY <1>2 DEF Serve
<1>3. CASE AcceptFails(g)
  BY <1>3 DEF AcceptFails
<1>4. CASE AcceptLoopEnds(g)
  BY <1>4 DEF AcceptLoopEnds
<1>5. CASE ServeReturns(g)
  BY <1>5 DEF ServeReturns
<1>6. CASE WatcherStops(g)
  BY <1>6 DEF WatcherStops, CloseListener
<1>7. CASE WatcherReleased(g)
  BY <1>7 DEF WatcherReleased
<1>8. CASE Drain(g)
  BY <1>8 DEF Drain
<1>9. CASE Drained(g)
  BY <1>9 DEF Drained
<1> QED
  BY <1>1, <1>2, <1>3, <1>4, <1>5, <1>6, <1>7, <1>8, <1>9 DEF GRPCStep

\* Calls begin only on a server that serves, or is still accepting its last
\* connections.
LEMMA CallInv ==
    ASSUME IInv, NEW g \in GRPC, NEW r \in RPCs, BeginRPC(g, r) \/ EndRPC(g, r)
    PROVE  IInv'
<1> USE DEF IInv, TypeOK, GroupInv, ServerInv, CutInv, MetricsInv, ServedToTheEnd,
            Members, GRPC, StillRunning, groupVars, metricsVars
<1>1. CASE BeginRPC(g, r)
  BY <1>1 DEF BeginRPC
<1>2. CASE EndRPC(g, r)
  BY <1>2 DEF EndRPC
<1> QED BY <1>1, <1>2

\* The steps of runMetricsServer, its goroutine and the scrapes.  When the
\* channel is closed without an error, Shutdown was called and the select that
\* would read the channel is over.
LEMMA MetricsStepInv ==
    ASSUME IInv,
           \/ MetricsStep \/ ListenerStep \/ ListenerEnds
           \/ \E on \in BOOLEAN : Scrape(on)
    PROVE  IInv'
<1> USE DEF IInv, TypeOK, GroupInv, ServerInv, CutInv, MetricsInv, ServedToTheEnd,
            Members, GRPC, StillRunning, Goto, ReturnNil, ReturnError,
            ListenerReturns, groupVars, grpcVars, metricsVars
<1>1. CASE RunMetricsServer
  BY <1>1 DEF RunMetricsServer
<1>2. CASE MetricsCtxDone
  BY <1>2 DEF MetricsCtxDone
<1>3. CASE MetricsFailed
  BY <1>3 DEF MetricsFailed
<1>4. CASE MetricsShutdown
  <2>1. CASE ReturnError("metrics")
    BY <1>4, <2>1 DEF MetricsShutdown
  <2>2. CASE ReturnNil("metrics")
    BY <1>4, <2>2 DEF MetricsShutdown
  <2> QED BY <1>4, <2>1, <2>2 DEF MetricsShutdown
<1>5. CASE ListenAndServe
  BY <1>5 DEF ListenAndServe
<1>6. CASE OpenMetricsPort
  BY <1>6 DEF OpenMetricsPort
<1>7. CASE TrackListener
  BY <1>7 DEF TrackListener
<1>8. CASE ListenerEnds
  BY <1>8 DEF ListenerEnds
<1>9. ASSUME NEW on \in BOOLEAN, Scrape(on) PROVE IInv'
  BY <1>9 DEF Scrape
<1> QED
  BY <1>1, <1>2, <1>3, <1>4, <1>5, <1>6, <1>7, <1>8, <1>9 DEF MetricsStep, ListenerStep

\* Every step of the process, its servers and its callers keeps the invariant.
LEMMA StepInv == IInv /\ [Next]_vars => IInv'
<1> SUFFICES ASSUME IInv, [Next]_vars PROVE IInv'
  OBVIOUS
<1>1. CASE UNCHANGED vars
  BY <1>1 DEF vars, groupVars, grpcVars, metricsVars, IInv, TypeOK, GroupInv, ServerInv,
              CutInv, MetricsInv, ServedToTheEnd, Members, GRPC
<1>2. CASE Next
  BY <1>2, MainStepInv, RelaySetupInv, GRPCStepInv, CallInv, MetricsStepInv DEF Next
<1> QED BY <1>1, <1>2

-----------------------------------------------------------------------------
(* The theorems.                                                           *)

\* The inductive invariant holds in every reachable state.
THEOREM Invariance == Spec => []IInv
BY InitInv, StepInv, PTL DEF Spec

\* Every variable keeps its type, also under the failures of every member.
THEOREM TypeCorrect == Spec => []TypeOK
<1>1. IInv => TypeOK
  BY DEF IInv
<1> QED BY <1>1, Invariance, PTL

\* A process that ends by itself cuts off no call on a server that was told to
\* stop (GRPCServer and GracefulStop), for any number of calls in flight.
THEOREM CallsAreServedToTheEnd == Spec => []ServedToTheEnd
<1>1. IInv => ServedToTheEnd
  BY DEF IInv, CutInv
<1> QED BY <1>1, Invariance, PTL

\* The relay never exits with status 0, and the metrics server's channel is not
\* read as a failure after it was closed normally (App.Run, runMetricsServer).
THEOREM ExitCodeIsHonest == Spec => []ExitCodeHonest
<1>1. IInv => ExitCodeHonest
  BY DEF IInv, GroupInv, MetricsInv, ExitCodeHonest
<1> QED BY <1>1, Invariance, PTL

\* Once App.Run has returned, the gRPC ports are closed, and the metrics port is
\* served by nobody and open only until its goroutine has seen Shutdown.
THEOREM PortsAreReleased == Spec => []PortsReleased
<1>1. IInv => PortsReleased
  BY DEF IInv, TypeOK, GroupInv, ServerInv, MetricsInv, PortsReleased, Members, GRPC
<1> QED BY <1>1, Invariance, PTL

=============================================================================
