------------------------- MODULE ExtProcMetricsProofs ------------------------
(***************************************************************************)
(* Proofs about ExtProcServer: the request metrics agree with the streams, *)
(* however many there are and on whichever way Process returns, and the    *)
(* traffic counters with the successful exchanges.                         *)
(***************************************************************************)
EXTENDS ExtProcAnswerProofs, SumTheorems

USE DEF envoyVars, localVars, outsideVars, redisVars, endMetrics, ioMetrics

\* The streams that each metric counts.
Processing   == {s \in Streams : Running(s)}
Recorded(c)  == {s \in Streams : pc[s] = "done" /\ StatusCategory(statusCode[s]) = c}
FailedBy(e)  == {s \in Streams : exit[s] = e}

\* A stream has a way out recorded only once it is done, so that no error is
\* counted twice.
MInv ==
    /\ AInv
    /\ \A s \in Streams : pc[s] # "done" => exit[s] = "none"
    /\ active = Cardinality(Processing)
    /\ \A c \in Categories : requestsTotal[c] = Cardinality(Recorded(c))
    /\ \A e \in ErrorTypes : errorsTotal[e] = Cardinality(FailedBy(e))

\* What a metric counts is finite, and one stream more or less changes it by one.
LEMMA CountOne ==
    ASSUME NEW S, S \subseteq Streams, NEW x \in Streams
    PROVE  /\ Cardinality(S) \in Nat
           /\ x \notin S => Cardinality(S \cup {x}) = Cardinality(S) + 1
           /\ x \in S => Cardinality(S \ {x}) = Cardinality(S) - 1
<1>1. IsFiniteSet(S)
  BY StreamsAssumption, FS_Subset
<1> QED BY <1>1, FS_AddElement, FS_RemoveElement, FS_CardinalityType

\* A step on which no stream starts or ends leaves the metrics alone.
LEMMA QuietMetrics ==
    ASSUME MInv, AInv', UNCHANGED <<endMetrics, exit>>,
           \A q \in Streams : \/ pc'[q] = pc[q] /\ statusCode'[q] = statusCode[q]
                              \/ Running(q) /\ Running(q)'
    PROVE  MInv'
<1>1. \A q \in Streams : /\ Running(q)' <=> Running(q)
                         /\ pc'[q] = "done" <=> pc[q] = "done"
                         /\ pc[q] = "done" => statusCode'[q] = statusCode[q]
  BY DEF Running
<1>2. Processing' = Processing
  BY <1>1 DEF Processing
<1>3. \A c : Recorded(c)' = Recorded(c)
  <2> SUFFICES ASSUME NEW c PROVE Recorded(c)' = Recorded(c)
    OBVIOUS
  <2> QED BY <1>1 DEF Recorded
<1>4. \A e : FailedBy(e)' = FailedBy(e)
  BY DEF FailedBy
<1> QED BY <1>1, <1>2, <1>3, <1>4 DEF MInv

\* The deferred calls of Process count the stream that ends, once in each
\* metric that it belongs to.
LEMMA FinishMetrics ==
    ASSUME MInv, AInv', NEW s \in Streams, NEW why \in Exits \ {"none"}, NEW code \in Statuses,
           Running(s), Finish(s, why, code), statusCode'[s] = code,
           \A q \in Streams : q # s => statusCode'[q] = statusCode[q]
    PROVE  MInv'
<1>0. TypeOK /\ DOMAIN pc = Streams /\ DOMAIN exit = Streams
  BY DEF MInv, AInv, IInv, TypeOK
<1>1. /\ pc'[s] = "done" /\ exit'[s] = why /\ pc[s] \notin {"idle", "done"} /\ exit[s] = "none"
      /\ \A q \in Streams : q # s => pc'[q] = pc[q] /\ exit'[q] = exit[q]
  BY <1>0 DEF Finish, Goto, Running, MInv
<1>2. active' = Cardinality(Processing')
  <2>1. Processing' = Processing \ {s} /\ s \in Processing /\ Processing \subseteq Streams
    BY <1>1 DEF Processing, Running
  <2>2. Cardinality(Processing') = Cardinality(Processing) - 1
    BY <2>1, CountOne
  <2>3. active' = active - 1
    BY DEF Finish
  <2> QED BY <2>2, <2>3 DEF MInv
<1>3. ASSUME NEW c \in Categories PROVE requestsTotal'[c] = Cardinality(Recorded(c)')
  <2>0. Recorded(c) \subseteq Streams /\ s \notin Recorded(c)
    BY <1>1 DEF Recorded
  <2>1. requestsTotal[c] = Cardinality(Recorded(c)) /\ requestsTotal \in [Categories -> Nat]
    BY <1>0 DEF MInv, TypeOK
  <2>2. requestsTotal' = [requestsTotal EXCEPT ![StatusCategory(code)] = @ + 1]
    BY DEF Finish, RecordRequest
  <2>3. CASE c = StatusCategory(code)
    <3>1. Recorded(c)' = Recorded(c) \cup {s}
      BY <1>1, <2>3 DEF Recorded
    <3>2. requestsTotal'[c] = requestsTotal[c] + 1
      BY <2>1, <2>2, <2>3
    <3> QED BY <2>0, <2>1, <3>1, <3>2, CountOne
  <2>4. CASE c # StatusCategory(code)
    <3>1. Recorded(c)' = Recorded(c)
      BY <1>1, <2>4 DEF Recorded
    <3>2. requestsTotal'[c] = requestsTotal[c]
      BY <2>1, <2>2, <2>4
    <3> QED BY <2>1, <3>1, <3>2
  <2> QED BY <2>3, <2>4
<1>4. ASSUME NEW e \in ErrorTypes PROVE errorsTotal'[e] = Cardinality(FailedBy(e)')
  <2>0. FailedBy(e) \subseteq Streams /\ s \notin FailedBy(e)
    BY <1>1 DEF FailedBy, ErrorTypes
  <2>1. errorsTotal[e] = Cardinality(FailedBy(e)) /\ errorsTotal[e] \in Nat
    BY <1>0 DEF MInv, TypeOK
  <2>2. errorsTotal'[e] = errorsTotal[e] + (IF e = why THEN 1 ELSE 0)
    BY DEF Finish, RecordError
  <2>3. CASE e = why
    <3>1. FailedBy(e)' = FailedBy(e) \cup {s}
      BY <1>1, <2>3 DEF FailedBy
    <3> QED BY <2>0, <2>1, <2>2, <2>3, <3>1, CountOne
  <2>4. CASE e # why
    <3>1. FailedBy(e)' = FailedBy(e)
      BY <1>1, <2>0, <2>4 DEF FailedBy
    <3> QED BY <2>1, <2>2, <2>4, <3>1
  <2> QED BY <2>3, <2>4
<1>5. \A q \in Streams : pc'[q] # "done" => exit'[q] = "none"
  BY <1>1 DEF MInv
<1> QED BY <1>2, <1>3, <1>4, <1>5 DEF MInv

\* Opening a stream raises the gauge.
LEMMA OpenMetrics ==
    ASSUME MInv, AInv', NEW s \in Streams, NEW h \in HeaderMaps, NEW bodyless \in BOOLEAN,
           Open(s, h, bodyless)
    PROVE  MInv'
<1>0. DOMAIN pc = Streams /\ pc[s] = "idle"
  BY DEF MInv, AInv, IInv, TypeOK, ExchangeInv, HeaderInv, Open
<1>1. /\ pc'[s] = "select" /\ \A q \in Streams : q # s => pc'[q] = pc[q]
      /\ UNCHANGED <<exit, statusCode, requestsTotal, errorsTotal>> /\ active' = active + 1
  BY <1>0 DEF Open
<1>2. active' = Cardinality(Processing')
  <2>1. Processing' = Processing \cup {s} /\ s \notin Processing /\ Processing \subseteq Streams
    BY <1>0, <1>1 DEF Processing, Running
  <2> QED BY <1>1, <2>1, CountOne DEF MInv
<1>3. \A c : Recorded(c)' = Recorded(c)
  <2> SUFFICES ASSUME NEW c PROVE Recorded(c)' = Recorded(c)
    OBVIOUS
  <2> QED BY <1>0, <1>1 DEF Recorded
<1>4. \A e : FailedBy(e)' = FailedBy(e)
  BY <1>1 DEF FailedBy
<1>5. \A q \in Streams : pc'[q] # "done" => exit'[q] = "none"
  BY <1>0, <1>1 DEF MInv
<1> QED BY <1>1, <1>2, <1>3, <1>4, <1>5 DEF MInv

\* Every step of a handler either ends its stream, with the status and the way
\* out that Process has then, or leaves the request metrics alone.
LEMMA HandlerMetrics ==
    ASSUME TypeOK, NEW s \in Streams, HandlerStep(s)
    PROVE  /\ Running(s)
           /\ \/ \E why \in Exits \ {"none"}, code \in Statuses :
                    Finish(s, why, code) /\ statusCode'[s] = code
              \/ Running(s)' /\ UNCHANGED <<endMetrics, exit>>
<1>d. DOMAIN pc = Streams /\ DOMAIN statusCode = Streams /\ statusCode[s] \in Statuses
  BY DEF TypeOK, Statuses
<1>e. {"clean", "ctx", "recv_error", "unknown_request_type", "process_error", "send_error"}
         \subseteq Exits \ {"none"}
  BY DEF Exits, ErrorTypes
<1>1. CASE SelectCtxDone(s) \/ RecvEOF(s) \/ RecvError(s) \/ RecvUnknown(s)
  <2>1. \E why \in Exits \ {"none"} : Finish(s, why, statusCode[s])
    BY <1>1, <1>e DEF SelectCtxDone, RecvEOF, RecvError, RecvUnknown
  <2>2. statusCode'[s] = statusCode[s] /\ Running(s)
    BY <1>1 DEF SelectCtxDone, RecvEOF, RecvError, RecvUnknown, Recv, Running
  <2> QED BY <1>d, <2>1, <2>2
<1>2. CASE SelectDefault(s) \/ RecvHeaders(s) \/ RecvBodyTooLarge(s) \/ RecvIgnored(s)
  <2>1. /\ pc[s] \in {"select", "recv"} /\ UNCHANGED <<endMetrics, exit>>
        /\ pc'[s] \in {"recv", "send", "kcLookup", "select"}
    BY <1>d, <1>2 DEF SelectDefault, RecvHeaders, RecvBodyTooLarge, RecvIgnored, Recv,
                      Goto, RespondError, Respond
  <2> QED BY <2>1 DEF Running
<1>3. CASE RecvBody(s)
  <2>1. pc[s] = "recv" /\ statusCode'[s] = statusCode[s]
    BY <1>3 DEF RecvBody, Recv
  <2>2. \/ Finish(s, "process_error", statusCode[s])
        \/ pc'[s] \in {"lookup", "select"} /\ UNCHANGED <<endMetrics, exit>>
    BY <1>d, <1>3 DEF RecvBody, Goto
  <2> QED BY <1>d, <1>e, <2>1, <2>2 DEF Running
<1>4. CASE Lookup(s) \/ KcLookup(s)
  <2>1. /\ pc[s] \in {"lookup", "kcLookup"} /\ UNCHANGED <<endMetrics, exit>>
        /\ pc'[s] \in {"send", "do", "kcFetch"}
    BY <1>d, <1>4 DEF Lookup, KcLookup, LookupThen, Goto, RespondError, Respond
  <2> QED BY <2>1 DEF Running
<1>5. CASE Do(s) \/ DoFailed(s) \/ ReadFailed(s) \/ Record(s)
  <2>1. /\ pc[s] \in {"do", "await", "read", "record"} /\ UNCHANGED <<endMetrics, exit>>
        /\ pc'[s] \in {"await", "send"}
    BY <1>d, <1>5 DEF Do, DoFailed, ReadFailed, Record, Goto, RespondError, Respond
  <2> QED BY <2>1 DEF Running
<1>6. ASSUME NEW code \in GatewayStatuses, DoResponse(s, code)
      PROVE  Running(s) /\ Running(s)' /\ UNCHANGED <<endMetrics, exit>>
  BY <1>d, <1>6 DEF DoResponse, Goto, Running
<1>7. ASSUME NEW n \in ReplySizes, Read(s, n)
      PROVE  Running(s) /\ Running(s)' /\ UNCHANGED <<endMetrics, exit>>
  <2>1. pc[s] = "read" /\ pc'[s] \in {"record", "send"} /\ UNCHANGED <<endMetrics, exit>>
    BY <1>d, <1>7 DEF Read, Goto, RespondError, Respond
  <2> QED BY <2>1 DEF Running
<1>8. ASSUME NEW code \in {0} \cup GatewayStatuses, NEW n \in 0..KeyConfigSize, KcFetch(s, code, n)
      PROVE  Running(s) /\ Running(s)' /\ UNCHANGED <<endMetrics, exit>>
  <2>1. pc[s] = "kcFetch" /\ UNCHANGED <<endMetrics, exit>>
    BY <1>8 DEF KcFetch
  <2>2. Respond(s, OpaqueResponse(ContentTypeOHTTPKeys, n)) \/ RespondError(s, 500)
    BY <1>8 DEF KcFetch
  <2>3. pc'[s] = "send"
    BY <1>d, <2>2 DEF Goto, RespondError, Respond
  <2> QED BY <2>1, <2>3 DEF Running
<1>9. CASE SendOK(s)
  BY <1>d, <1>9 DEF SendOK, Goto, Running
<1>10. CASE SendFailed(s)
  <2>1. reply[s].status \in Statuses
    BY ReplyStatus DEF TypeOK, Statuses
  <2>2. /\ Finish(s, "send_error", reply[s].status) /\ statusCode'[s] = reply[s].status
        /\ pc[s] = "send"
    BY <1>d, <1>10 DEF SendFailed
  <2> QED BY <1>e, <2>1, <2>2 DEF Running
<1> QED BY <1>1, <1>2, <1>3, <1>4, <1>5, <1>6, <1>7, <1>8, <1>9, <1>10 DEF HandlerStep

\* The metrics are zero and nothing runs before the first request.
LEMMA InitMetrics == Init => MInv
<1> SUFFICES ASSUME Init PROVE MInv
  OBVIOUS
<1>1. \A s \in Streams : pc[s] = "idle" /\ exit[s] = "none"
  BY DEF Init
<1>2. Processing = {}
  BY <1>1 DEF Processing, Running
<1>3. \A c : Recorded(c) = {}
  BY <1>1 DEF Recorded
<1>4. \A e \in ErrorTypes : FailedBy(e) = {}
  BY <1>1 DEF FailedBy, ErrorTypes
<1>5. /\ active = 0 /\ \A c \in Categories : requestsTotal[c] = 0
      /\ \A e \in ErrorTypes : errorsTotal[e] = 0
  BY DEF Init
<1> QED BY <1>1, <1>2, <1>3, <1>4, <1>5, InitExchange, FS_EmptySet DEF MInv

\* Every step of the system keeps the metrics right.
LEMMA StepMetrics == MInv /\ [Next]_vars => MInv'
<1> SUFFICES ASSUME MInv, [Next]_vars PROVE MInv'
  OBVIOUS
<1>0. AInv' /\ TypeOK
  BY StepExchange DEF MInv, AInv, IInv
<1>1. ASSUME NEW s \in Streams, HandlerStep(s)
      PROVE  MInv'
  <2>1. \A q \in Streams : q # s => pc'[q] = pc[q] /\ statusCode'[q] = statusCode[q]
    BY <1>0, <1>1, OnlyOwnStream
  <2>2. CASE Running(s)' /\ UNCHANGED <<endMetrics, exit>>
    <3>1. Running(s)
      BY <1>0, <1>1, HandlerMetrics
    <3> QED BY <1>0, <2>1, <2>2, <3>1, QuietMetrics
  <2>3. CASE \E why \in Exits \ {"none"}, code \in Statuses :
                Finish(s, why, code) /\ statusCode'[s] = code
    <3>1. Running(s)
      BY <1>0, <1>1, HandlerMetrics
    <3> QED BY <1>0, <2>1, <2>3, <3>1, FinishMetrics
  <2> QED BY <1>0, <1>1, <2>2, <2>3, HandlerMetrics
<1>2. ASSUME NEW s \in Streams, EnvoyStep(s)
      PROVE  MInv'
  <2>1. CASE UNCHANGED <<endMetrics, exit, pc, statusCode>>
    BY <1>0, <2>1, QuietMetrics
  <2>2. ASSUME NEW n \in ChunkSizes, NEW eos \in BOOLEAN, EnvoyBody(s, n, eos)
        PROVE  UNCHANGED <<endMetrics, exit, pc, statusCode>>
    BY <2>2 DEF EnvoyBody
  <2>3. ASSUME NEW t \in SideMessages, EnvoySide(s, t)
        PROVE  UNCHANGED <<endMetrics, exit, pc, statusCode>>
    BY <2>3 DEF EnvoySide
  <2>4. ASSUME NEW how \in {"halfClosed", "cancelled"}, EnvoyCloses(s, how)
        PROVE  UNCHANGED <<endMetrics, exit, pc, statusCode>>
    BY <2>4 DEF EnvoyCloses
  <2> QED BY <1>0, <1>2, <2>1, <2>2, <2>3, <2>4, OpenMetrics DEF EnvoyStep
<1>3. CASE RedisStep
  <2>1. UNCHANGED <<endMetrics, exit, pc, statusCode>>
    BY <1>3 DEF RedisStep, RedisSet
  <2> QED BY <1>0, <2>1, QuietMetrics
<1>4. CASE UNCHANGED vars
  <2>1. UNCHANGED <<endMetrics, exit, pc, statusCode>>
    BY <1>4 DEF vars
  <2> QED BY <1>0, <2>1, QuietMetrics
<1> QED BY <1>1, <1>2, <1>3, <1>4 DEF Next

\* The gauge and the counters agree with the streams at every moment, on each of
\* Process's ways out (server.go, the deferred calls of Process).
THEOREM MetricsAlwaysAgree == Spec => []MetricsAgree
<1>1. MInv => MetricsAgree
  BY DEF MInv, MetricsAgree, Processing, Recorded, FailedBy
<1>2. Spec => []MInv
  BY InitMetrics, StepMetrics, PTL DEF Spec
<1> QED BY <1>1, <1>2, PTL

-----------------------------------------------------------------------------
(* The traffic counters.                                                   *)

\* While a stream waits for its gateway, the buffered body is the one that was
\* sent: what Process meters after the exchange is what the gateway took.
Carried(s) == pc[s] \in {"await", "read"} => gateway[s][1].body = st[s].body

\* The bytes a gateway took from a stream, and returned to it.
Took     == [s \in Streams |-> Len(gateway[s][1].body)]
Returned == [s \in Streams |-> rsp[s].bytes]

\* TrafficAccounted with the sums unfolded.
TrafficInv ==
    /\ AInv
    /\ \A s \in Streams : Carried(s)
    /\ \A h \in Text : /\ trafficBytes[h].in  = Total(Took, Metered(h))
                       /\ trafficBytes[h].out = Total(Returned, Metered(h))

\* A step leaves the exchange of q alone if it has been completed, and does not
\* complete it.
Calm(q) ==
    /\ rsp'[q].complete <=> rsp[q].complete
    /\ rsp[q].complete => rsp'[q] = rsp[q] /\ gateway'[q] = gateway[q] /\ headers'[q] = headers[q]
    /\ Carried(q)'

\* Until the gateway has answered, no exchange is complete.
LEMMA NotYetComplete ==
    ASSUME AInv, NEW s \in Streams,
           pc[s] \in {"idle", "lookup", "do", "await", "read"}
    PROVE  ~rsp[s].complete
<1>1. HeaderInv(s) /\ AnswerInv(s) /\ StreamInv(s)
  BY DEF AInv, IInv, ExchangeInv
<1>2. ~NoResponse.complete
  BY DEF NoResponse, Response
<1>3. CASE pc[s] = "idle"
  BY <1>1, <1>2, <1>3 DEF HeaderInv, Silent
<1>4. CASE pc[s] \in {"lookup", "do"}
  BY <1>1, <1>2, <1>4 DEF StreamInv, AnswerInv
<1>5. CASE pc[s] \in {"await", "read"}
  BY <1>1, <1>2, <1>5 DEF AnswerInv
<1> QED BY <1>3, <1>4, <1>5

\* The steps of a handler other than Read.
LEMMA HandlerCalm ==
    ASSUME AInv, NEW s \in Streams, Carried(s), HandlerStep(s),
           \A n \in ReplySizes : ~Read(s, n)
    PROVE  Calm(s) /\ trafficBytes' = trafficBytes
<1> USE DEF Calm, Carried
<1>0. /\ TypeOK /\ DOMAIN pc = Streams /\ DOMAIN rsp = Streams /\ DOMAIN gateway = Streams
      /\ gateway[s] \in Seq(GatewayRequests)
  BY DEF AInv, IInv, TypeOK
<1>1. CASE SelectCtxDone(s) \/ SelectDefault(s) \/ RecvEOF(s) \/ RecvError(s)
           \/ RecvIgnored(s) \/ RecvUnknown(s)
  <2>1. pc'[s] \in {"done", "recv", "select"} /\ UNCHANGED <<rsp, gateway, headers, trafficBytes>>
    BY <1>0, <1>1 DEF SelectCtxDone, SelectDefault, RecvEOF, RecvError, RecvIgnored,
                      RecvUnknown, Finish, Goto
  <2> QED BY <2>1
<1>2. CASE RecvHeaders(s) \/ RecvBodyTooLarge(s) \/ RecvBody(s)
  <2>1. /\ pc'[s] \in {"send", "kcLookup", "select", "done", "lookup"}
        /\ UNCHANGED <<rsp, gateway, headers, trafficBytes>>
    BY <1>0, <1>2 DEF RecvHeaders, RecvBodyTooLarge, RecvBody, Finish, Goto, RespondError, Respond
  <2> QED BY <2>1
<1>3. CASE Lookup(s) \/ KcLookup(s)
  <2>1. pc'[s] \in {"send", "do", "kcFetch"} /\ UNCHANGED <<rsp, gateway, headers, trafficBytes>>
    BY <1>0, <1>3 DEF Lookup, KcLookup, LookupThen, Goto, RespondError, Respond
  <2> QED BY <2>1
<1>4. CASE Do(s)
  <2>1. ~rsp[s].complete
    BY <1>4, NotYetComplete DEF Do
  <2>2. /\ gateway'[s] = Append(gateway[s], GatewayRequest(s)) /\ st' = st
        /\ UNCHANGED <<rsp, trafficBytes>>
    BY <1>0, <1>4 DEF Do
  <2>3. gateway[s] = <<>>
    BY <1>4 DEF Do, AInv, IInv, StreamInv
  <2>4. gateway'[s][1] = GatewayRequest(s)
    BY <2>2, <2>3
  <2>5. gateway'[s][1].body = st'[s].body
    BY <2>2, <2>4 DEF GatewayRequest
  <2> QED BY <2>1, <2>2, <2>5
<1>5. CASE DoFailed(s) \/ ReadFailed(s) \/ Record(s) \/ SendOK(s) \/ SendFailed(s)
  <2>1. pc'[s] \in {"send", "select", "done"} /\ UNCHANGED <<rsp, gateway, headers, trafficBytes>>
    BY <1>0, <1>5 DEF DoFailed, ReadFailed, Record, SendOK, SendFailed, Finish, Goto,
                      RespondError, Respond
  <2> QED BY <2>1
<1>6. ASSUME NEW code \in GatewayStatuses, DoResponse(s, code)
      PROVE  Calm(s) /\ trafficBytes' = trafficBytes
  <2>1. ~rsp[s].complete /\ pc[s] = "await"
    BY <1>6, NotYetComplete DEF DoResponse
  <2>2. rsp'[s] = Response(code, 0, FALSE) /\ UNCHANGED <<gateway, st, trafficBytes>>
    BY <1>0, <1>6 DEF DoResponse
  <2>3. ~rsp'[s].complete
    BY <2>2 DEF Response
  <2> QED BY <2>1, <2>2, <2>3
<1>7. ASSUME NEW code \in {0} \cup GatewayStatuses, NEW n \in 0..KeyConfigSize, KcFetch(s, code, n)
      PROVE  Calm(s) /\ trafficBytes' = trafficBytes
  <2>1. UNCHANGED <<rsp, gateway, headers, trafficBytes>>
    BY <1>7 DEF KcFetch
  <2>2. Respond(s, OpaqueResponse(ContentTypeOHTTPKeys, n)) \/ RespondError(s, 500)
    BY <1>7 DEF KcFetch
  <2>3. pc'[s] = "send"
    BY <1>0, <2>2 DEF Goto, RespondError, Respond
  <2> QED BY <2>1, <2>3
<1> QED BY <1>1, <1>2, <1>3, <1>4, <1>5, <1>6, <1>7 DEF HandlerStep

\* Envoy's steps: only an idle stream changes its headers.
LEMMA EnvoyCalm ==
    ASSUME AInv, NEW s \in Streams, Carried(s), EnvoyStep(s)
    PROVE  Calm(s) /\ trafficBytes' = trafficBytes
<1> USE DEF Calm, Carried
<1>1. ASSUME NEW h \in HeaderMaps, NEW bodyless \in BOOLEAN, Open(s, h, bodyless)
      PROVE  Calm(s) /\ trafficBytes' = trafficBytes
  <2>1. HeaderInv(s) /\ DOMAIN pc = Streams
    BY DEF AInv, IInv, TypeOK, ExchangeInv
  <2>2. pc[s] = "idle"
    BY <1>1, <2>1 DEF HeaderInv, Open
  <2>3. ~rsp[s].complete
    BY <2>2, NotYetComplete
  <2>4. pc'[s] = "select" /\ UNCHANGED <<rsp, gateway, trafficBytes>>
    BY <1>1, <2>1 DEF Open
  <2> QED BY <2>3, <2>4
<1>2. ASSUME NEW n \in ChunkSizes, NEW eos \in BOOLEAN, EnvoyBody(s, n, eos)
      PROVE  UNCHANGED <<rsp, gateway, headers, trafficBytes, pc, st>>
  BY <1>2 DEF EnvoyBody
<1>3. ASSUME NEW t \in SideMessages, EnvoySide(s, t)
      PROVE  UNCHANGED <<rsp, gateway, headers, trafficBytes, pc, st>>
  BY <1>3 DEF EnvoySide
<1>4. ASSUME NEW how \in {"halfClosed", "cancelled"}, EnvoyCloses(s, how)
      PROVE  UNCHANGED <<rsp, gateway, headers, trafficBytes, pc, st>>
  BY <1>4 DEF EnvoyCloses
<1>5. UNCHANGED <<rsp, gateway, headers, trafficBytes, pc, st>> => Calm(s) /\ trafficBytes' = trafficBytes
  OBVIOUS
<1> QED BY <1>1, <1>2, <1>3, <1>4, <1>5 DEF EnvoyStep

\* The sums range over finitely many streams, and Metered has natural weights.
LEMMA MeteredFacts ==
    ASSUME AInv, NEW h
    PROVE  /\ Metered(h) \in SUBSET Streams /\ IsFiniteSet(Metered(h))
           /\ \A s \in Metered(h) : Took[s] \in Nat /\ Returned[s] \in Nat
<1>1. Metered(h) \in SUBSET Streams /\ IsFiniteSet(Metered(h))
  BY StreamsAssumption, FS_Subset DEF Metered
<1>2. ASSUME NEW s \in Metered(h) PROVE Took[s] \in Nat /\ Returned[s] \in Nat
  <2>1. s \in Streams /\ rsp[s].complete
    BY DEF Metered
  <2>2. AnswerInv(s) /\ gateway[s] \in Seq(GatewayRequests) /\ rsp[s] \in Responses
    BY <2>1 DEF AInv, IInv, TypeOK, ExchangeInv
  <2>3. gateway[s] # <<>>
    BY <2>1, <2>2 DEF AnswerInv, NoResponse, Response
  <2>4. gateway[s][1] \in GatewayRequests
    BY <2>2, <2>3
  <2>5. Len(gateway[s][1].body) \in Nat
    BY <2>4 DEF GatewayRequests, Bytes
  <2>6. rsp[s].bytes \in Nat
    BY <2>2 DEF Responses
  <2> QED BY <2>1, <2>5, <2>6 DEF Took, Returned
<1> QED BY <1>1, <1>2

\* A step that is calm for every stream keeps the sums.
LEMMA CalmTraffic ==
    ASSUME TrafficInv, AInv', trafficBytes' = trafficBytes, \A q \in Streams : Calm(q)
    PROVE  TrafficInv'
<1>1. \A q \in Streams : Carried(q)'
  BY DEF Calm
<1> SUFFICES ASSUME NEW h \in Text
             PROVE  /\ trafficBytes[h].in  = Total(Took', Metered(h)')
                    /\ trafficBytes[h].out = Total(Returned', Metered(h)')
  BY <1>1 DEF TrafficInv
<1>2. Metered(h)' = Metered(h)
  BY DEF Metered, Calm
<1>3. \A q \in Metered(h) : Took'[q] = Took[q] /\ Returned'[q] = Returned[q]
  BY DEF Metered, Calm, Took, Returned
<1>4. IsFiniteSet(Metered(h))
  BY MeteredFacts DEF TrafficInv
<1> DEFINE M == Metered(h)
<1>5. Total(Took', M) = Total(Took, M) /\ Total(Returned', M) = Total(Returned, M)
  <2> HIDE DEF M
  <2>1. IsFiniteSet(M) /\ \A q \in M : Took'[q] = Took[q] /\ Returned'[q] = Returned[q]
    BY <1>3, <1>4 DEF M
  <2> QED BY <2>1, TotalSame
<1>6. trafficBytes[h].in = Total(Took, M) /\ trafficBytes[h].out = Total(Returned, M)
  BY DEF TrafficInv
<1>7. Metered(h)' = M
  BY <1>2
<1> HIDE DEF M
<1> QED BY <1>5, <1>6, <1>7, Zenon

\* Read completes an exchange: a success is metered once, under the request's
\* host, with what the gateway took and returned; another status is not metered.
LEMMA ReadTraffic ==
    ASSUME TrafficInv, AInv', NEW s \in Streams, NEW n \in ReplySizes, Read(s, n)
    PROVE  TrafficInv'
<1>0. /\ TypeOK /\ DOMAIN pc = Streams /\ DOMAIN rsp = Streams /\ DOMAIN trafficBytes = Text
      /\ pc[s] = "read" /\ HandlerStep(s)
  BY DEF TrafficInv, AInv, IInv, TypeOK, Read, HandlerStep
<1>1. /\ ~rsp[s].complete /\ rsp[s].status \in GatewayStatuses /\ gateway[s] # <<>>
      /\ st[s].host = HostOf(headers[s]) /\ gateway[s][1].body = st[s].body
  <2>1. HeaderInv(s) /\ AnswerInv(s) /\ Carried(s)
    BY DEF TrafficInv, AInv, ExchangeInv
  <2> QED BY <1>0, <2>1 DEF HeaderInv, AnswerInv, Carried
<1>2. /\ rsp'[s] = Response(rsp[s].status, n, TRUE) /\ pc'[s] \in {"record", "send"}
      /\ UNCHANGED <<gateway, headers, st>>
  BY <1>0 DEF Read, Goto, RespondError, Respond
<1>3. \A q \in Streams : q # s => rsp'[q] = rsp[q] /\ pc'[q] = pc[q]
  BY <1>0, OnlyOwnStream
<1>4. \A q \in Streams : Carried(q)'
  BY <1>2, <1>3 DEF TrafficInv, Carried
<1>5. rsp'[s].complete /\ rsp'[s].status = rsp[s].status /\ rsp'[s].bytes = n
  BY <1>2 DEF Response
<1> SUFFICES ASSUME NEW h \in Text
             PROVE  /\ trafficBytes'[h].in  = Total(Took', Metered(h)')
                    /\ trafficBytes'[h].out = Total(Returned', Metered(h)')
  BY <1>4 DEF TrafficInv
<1> DEFINE M == Metered(h)
<1>6. /\ trafficBytes[h].in = Total(Took, M) /\ trafficBytes[h].out = Total(Returned, M)
      /\ M \in SUBSET Streams /\ IsFiniteSet(M) /\ s \notin M
      /\ trafficBytes[h].in \in Nat /\ trafficBytes[h].out \in Nat
  <2>1. s \notin M
    BY <1>1 DEF Metered
  <2>2. trafficBytes[h] \in [in : Nat, out : Nat]
    BY <1>0 DEF TypeOK
  <2> QED BY <2>1, <2>2, MeteredFacts DEF TrafficInv
<1>7. \A q \in M : Took'[q] = Took[q] /\ Returned'[q] = Returned[q]
  BY <1>2, <1>3, <1>6 DEF Took, Returned
<1>8. Total(Took', M) = Total(Took, M) /\ Total(Returned', M) = Total(Returned, M)
  <2> HIDE DEF M
  <2> QED BY <1>6, <1>7, TotalSame
<1>9. CASE ~(IsSuccess(rsp[s].status) /\ HostOf(headers[s]) = h)
  <2>1. Metered(h)' = M
    <3>1. ~(rsp'[s].status \in 200..299 /\ HostOf(headers[s]) = h)
      BY <1>1, <1>5, <1>9, SuccessRange
    <3>2. s \notin Metered(h)'
      BY <1>2, <3>1 DEF Metered
    <3>3. \A q \in Streams : q # s => (q \in Metered(h)' <=> q \in M)
      BY <1>2, <1>3 DEF Metered
    <3>4. Metered(h)' \subseteq Streams
      BY DEF Metered
    <3> HIDE DEF M
    <3> QED BY <1>6, <3>2, <3>3, <3>4
  <2>2. trafficBytes'[h] = trafficBytes[h]
    <3>1. CASE IsSuccess(rsp[s].status)
      BY <1>0, <1>1, <1>9, <3>1 DEF Read, RecordTrafficIO
    <3>2. CASE ~IsSuccess(rsp[s].status)
      BY <3>2 DEF Read
    <3> QED BY <3>1, <3>2
  <2> HIDE DEF M
  <2> QED BY <1>6, <1>8, <2>1, <2>2, Zenon
<1>10. CASE IsSuccess(rsp[s].status) /\ HostOf(headers[s]) = h
  <2>1. Metered(h)' = M \cup {s}
    BY <1>1, <1>2, <1>3, <1>5, <1>10, SuccessRange DEF Metered
  <2>2. /\ trafficBytes'[h].in = trafficBytes[h].in + Len(st[s].body)
        /\ trafficBytes'[h].out = trafficBytes[h].out + n
    BY <1>0, <1>1, <1>10 DEF Read, RecordTrafficIO
  <2>3. Took'[s] = Len(st[s].body) /\ Returned'[s] = n
    BY <1>1, <1>2, <1>5 DEF Took, Returned
  <2>4. \A q \in M \cup {s} : Took'[q] \in Nat /\ Returned'[q] \in Nat
    <3>1. \A q \in M : Took[q] \in Nat /\ Returned[q] \in Nat
      BY MeteredFacts DEF TrafficInv
    <3>2. Len(st[s].body) \in Nat /\ n \in Nat
      BY <1>0, SizesAssumption DEF TypeOK, StreamStates, Bytes
    <3> HIDE DEF M
    <3> QED BY <1>7, <2>3, <3>1, <3>2
  <2> HIDE DEF M
  <2>5. /\ Total(Took', M \cup {s}) = Took'[s] + Total(Took', M)
        /\ Total(Returned', M \cup {s}) = Returned'[s] + Total(Returned', M)
    BY <1>6, <2>4, TotalAdd
  <2>6. /\ Total(Took', Metered(h)') = Took'[s] + Total(Took', M)
        /\ Total(Returned', Metered(h)') = Returned'[s] + Total(Returned', M)
    BY <2>1, <2>5, Zenon
  <2>7. Took'[s] \in Nat /\ Returned'[s] \in Nat
    BY <2>4
  <2> QED BY <1>6, <1>8, <2>2, <2>3, <2>6, <2>7
<1> QED BY <1>9, <1>10

\* The traffic that TrafficAccounted adds up.
LEMMA TrafficSums == TrafficInv => TrafficAccounted
<1> SUFFICES ASSUME TrafficInv, NEW h \in Text
             PROVE  /\ trafficBytes[h].in = MapThenSumSet(LAMBDA s : Len(gateway[s][1].body), Metered(h))
                    /\ trafficBytes[h].out = MapThenSumSet(LAMBDA s : rsp[s].bytes, Metered(h))
  BY DEF TrafficAccounted
<1> DEFINE M == Metered(h)
           in == [s \in M |-> Len(gateway[s][1].body)]
           out == [s \in M |-> rsp[s].bytes]
<1>1. MapThenSumSet(LAMBDA s : Len(gateway[s][1].body), M) = Total(in, M)
  BY Zenon DEF MapThenSumSet, MapThenFoldSet, Total, Adds, Pick
<1>2. MapThenSumSet(LAMBDA s : rsp[s].bytes, M) = Total(out, M)
  BY Zenon DEF MapThenSumSet, MapThenFoldSet, Total, Adds, Pick
<1>3. \A s \in M : in[s] = Took[s] /\ out[s] = Returned[s]
  BY DEF Metered, Took, Returned
<1>4. IsFiniteSet(M)
  BY MeteredFacts DEF TrafficInv
<1>5. trafficBytes[h].in = Total(Took, M) /\ trafficBytes[h].out = Total(Returned, M)
  BY DEF TrafficInv
<1> HIDE DEF in, out
<1>6. Total(in, M) = Total(Took, M) /\ Total(out, M) = Total(Returned, M)
  <2> HIDE DEF M
  <2> QED BY <1>3, <1>4, TotalSame
<1> QED BY <1>1, <1>2, <1>5, <1>6, Zenon

\* The traffic counters of every host are the bytes of its successful exchanges,
\* each counted once, in any interleaving of the streams (server.go,
\* forwardAndRespond; metrics.go, RecordTrafficIO).
THEOREM TrafficIsAccounted == Spec => []TrafficAccounted
<1>1. ASSUME Init PROVE TrafficInv
  <2>1. \A s \in Streams : pc[s] = "idle" /\ rsp[s] = NoResponse
    BY <1>1 DEF Init
  <2>2. \A h : Metered(h) = {}
    BY <2>1 DEF Metered, NoResponse, Response
  <2>3. \A h \in Text : trafficBytes[h].in = 0 /\ trafficBytes[h].out = 0
    BY <1>1 DEF Init
  <2>4. \A s \in Streams : Carried(s)
    BY <2>1 DEF Carried
  <2>5. Total(Took, {}) = 0 /\ Total(Returned, {}) = 0
    BY TotalEmpty
  <2> QED BY <1>1, <2>2, <2>3, <2>4, <2>5, InitExchange DEF TrafficInv
<1>2. ASSUME TrafficInv, [Next]_vars PROVE TrafficInv'
  <2>0. AInv /\ AInv' /\ TypeOK
    BY <1>2, StepExchange DEF TrafficInv, AInv, IInv
  <2>1. ASSUME NEW s \in Streams, HandlerStep(s) \/ EnvoyStep(s)
        PROVE  \A q \in Streams : q # s => Calm(q)
    <3> SUFFICES ASSUME NEW q \in Streams, q # s PROVE Calm(q)
      OBVIOUS
    <3>1. /\ rsp'[q] = rsp[q] /\ gateway'[q] = gateway[q] /\ headers'[q] = headers[q]
          /\ pc'[q] = pc[q] /\ st'[q] = st[q]
      BY <2>0, <2>1, OnlyOwnStream
    <3> QED BY <1>2, <3>1 DEF Calm, Carried, TrafficInv
  <2>2. ASSUME NEW s \in Streams, HandlerStep(s) PROVE TrafficInv'
    <3>1. CASE \E n \in ReplySizes : Read(s, n)
      BY <1>2, <2>0, <3>1, ReadTraffic
    <3>2. CASE \A n \in ReplySizes : ~Read(s, n)
      <4>1. Calm(s) /\ trafficBytes' = trafficBytes
        BY <1>2, <2>0, <2>2, <3>2, HandlerCalm DEF TrafficInv
      <4> QED BY <1>2, <2>0, <2>1, <2>2, <4>1, CalmTraffic
    <3> QED BY <3>1, <3>2
  <2>3. ASSUME NEW s \in Streams, EnvoyStep(s) PROVE TrafficInv'
    <3>1. Calm(s) /\ trafficBytes' = trafficBytes
      BY <1>2, <2>0, <2>3, EnvoyCalm DEF TrafficInv
    <3> QED BY <1>2, <2>0, <2>1, <2>3, <3>1, CalmTraffic
  <2>4. CASE RedisStep \/ UNCHANGED vars
    <3>1. UNCHANGED <<rsp, gateway, headers, trafficBytes, pc, st>>
      BY <2>4 DEF RedisStep, RedisSet, vars
    <3>2. \A q \in Streams : Calm(q)
      BY <1>2, <3>1 DEF Calm, Carried, TrafficInv
    <3> QED BY <1>2, <2>0, <3>1, <3>2, CalmTraffic
  <2> QED BY <1>2, <2>2, <2>3, <2>4 DEF Next
<1> QED BY <1>1, <1>2, TrafficSums, PTL DEF Spec

=============================================================================
