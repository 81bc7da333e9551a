---------------------------- MODULE ExtProcServer ----------------------------
(***************************************************************************)
(* The OHTTP relay's ExternalProcessor: handlers.Server.Process, which     *)
(* Envoy calls once per HTTP request, together with the HTTPRelayer, the   *)
(* key-config source and the metrics it calls.                             *)
(*                                                                         *)
(* Every gRPC stream runs its own copy of Process.  Envoy's half of a      *)
(* stream is external and appears as the actions that put messages in the  *)
(* stream's inbox and close or reset it; the relay's half is a handler     *)
(* with a program counter, which may be interleaved with Envoy, with the   *)
(* other streams and with writes to Redis wherever it waits for I/O.       *)
(*                                                                         *)
(* The bytes of a request body are named by their position in the client's *)
(* body, so that a body is a sequence of positions and the whole body of a *)
(* client that sent n bytes is <<1, ..., n>>.                              *)
(***************************************************************************)
EXTENDS GatewaySource, Integers, FiniteSetsExt

CONSTANTS
    Streams,            \* gRPC streams, one per HTTP request
    HeaderMaps,         \* header maps a client may send (lower-case keys)
    MaxRequestBodySize, \* --max-request-body-size
    RedisHosts,         \* Redis keys an operator may (re)write
    GatewayStatuses,    \* HTTP status codes a gateway may answer with
    KeyConfigSize,      \* length of the gateway's key configuration
    ReplySizes,         \* lengths of gateway responses
    ChunkSizes,         \* lengths of the body chunks Envoy sends
    SideMessages,       \* other messages Envoy may send
    MaxBodyBytes,       \* bound: bytes in a client's body
    MaxInbox            \* bound: messages in flight on a stream

ASSUME StreamsAssumption == IsFiniteSet(Streams)

ASSUME HeadersAssumption ==
    \A h \in HeaderMaps : \A k \in DOMAIN h : h[k] \in Text

ASSUME SizesAssumption ==
    /\ MaxRequestBodySize \in Nat
    /\ KeyConfigSize \in Nat
    /\ MaxBodyBytes \in Nat
    /\ MaxInbox \in Nat
    /\ ReplySizes \subseteq Nat
    /\ ChunkSizes \subseteq Nat

ASSUME DomainAssumption ==
    /\ RedisHosts \subseteq Text
    /\ GatewayStatuses \subseteq 200..599
    /\ SideMessages \subseteq {"trailers", "responseSide", "unknown"}

VARIABLES
    \* Envoy's half of each stream
    stage,      \* "new", "body" (the request is being sent) or "eos"
    headers,    \* the client's request headers
    sent,       \* body bytes sent so far
    link,       \* "open", "halfClosed" (CloseSend) or "cancelled" (context done)
    inbox,      \* messages Envoy sent and Process has not received
    \* Process's locals
    pc,         \* where the handler is
    st,         \* *streamState
    statusCode, \* status recorded when Process returns
    target,     \* URL of the lookup in progress
    rsp,        \* the gateway's response
    reply,      \* the response to send next
    \* what the outside sees of a stream
    outbox,     \* responses sent to Envoy, oldest first
    gateway,    \* requests the gateways received for this stream
    exit,       \* how Process returned
    \* shared
    redis,      \* Redis: the "url" field of each host's hash
    mappedSince,\* history: values redis had for the stream's host since it opened
    active,               \* metrics.ActiveRequests
    requestsTotal,        \* metrics.RequestsTotal by status category
    errorsTotal,          \* metrics.ErrorsTotal by error type
    gatewayRequestsTotal, \* metrics.GatewayRequestsTotal by status category
    trafficBytes          \* metrics.TrafficBytesIn and TrafficBytesOut by host

envoyVars   == <<stage, headers, sent, link>>
localVars   == <<st, statusCode, target, rsp, reply>>
outsideVars == <<outbox, gateway, exit>>
redisVars   == <<redis, mappedSince>>
endMetrics  == <<active, requestsTotal, errorsTotal>>
ioMetrics   == <<gatewayRequestsTotal, trafficBytes>>
vars == <<envoyVars, inbox, pc, localVars, outsideVars, redisVars,
          endMetrics, ioMetrics>>

-----------------------------------------------------------------------------
(* Request headers.                                                        *)

ContentTypeOHTTPReq  == "message/ohttp-req"
ContentTypeOHTTPRes  == "message/ohttp-res"
ContentTypeOHTTPKeys == "application/ohttp-keys"
ohttpConfigsPath     == "/.well-known/ohttp-configs"

extractHeaderValue(h, key) == IF key \in DOMAIN h THEN h[key] ELSE ""

FirstNonEmpty(a, b) == IF a # "" THEN a ELSE b

MethodOf(h) == FirstNonEmpty(ToLower[extractHeaderValue(h, ":method")],
                             ToLower[extractHeaderValue(h, "method")])

HostOf(h) == FirstNonEmpty(ToLower[extractHeaderValue(h, ":authority")],
                           ToLower[extractHeaderValue(h, "host")])

IsConfigRequest(h) == extractHeaderValue(h, ":path") = ohttpConfigsPath

UnexpectedType(ctype) == ctype # "" /\ ToLower[ctype] # ContentTypeOHTTPReq

\* The checks below give the HTTP status to fail with, or NoError.
NoError == 0

OHTTPRequestError(h) ==
    IF MethodOf(h) # "post" THEN 405
    ELSE IF UnexpectedType(extractHeaderValue(h, "content-type")) THEN 415
    ELSE IF extractHeaderValue(h, "content-length") \in {"", "0"} THEN 411
    ELSE NoError

KeyConfigRequestError(h) ==
    IF MethodOf(h) # "get" THEN 405
    ELSE IF ToLower[extractHeaderValue(h, "accept")] # ContentTypeOHTTPKeys THEN 400
    ELSE NoError

HeaderError(h) ==
    IF IsConfigRequest(h) THEN KeyConfigRequestError(h) ELSE OHTTPRequestError(h)

-----------------------------------------------------------------------------
(* Responses to Envoy.                                                     *)

\* The status codes immediateErrorResponse has an Envoy status for.
MappedCodes == {400, 401, 403, 404, 405, 413, 429, 502, 503, 504}

\* Mutant: the switch has no default.
EnvoyStatusNoDefault(code) == IF code \in MappedCodes THEN code ELSE 0

EnvoyStatus(code) == IF code \in MappedCodes THEN code ELSE 500

\* text is the code whose http.StatusText is the body of an error response;
\* bytes is the length of an opaque body.
immediateErrorResponse(code) ==
    [status |-> EnvoyStatus(code), ctype |-> "text/plain", text |-> code, bytes |-> 0]

OpaqueResponse(ctype, n) ==
    [status |-> 200, ctype |-> ctype, text |-> NoError, bytes |-> n]

NoReply == OpaqueResponse("", 0)

Replies == [status : {200, 500} \cup MappedCodes,
            ctype  : {"", "text/plain", ContentTypeOHTTPRes, ContentTypeOHTTPKeys},
            text   : {NoError, 411, 415, 500} \cup MappedCodes,
            bytes  : Nat]

StatusCategory(code) == code \div 100
Categories == 0..5

-----------------------------------------------------------------------------
(* State space.                                                            *)

Bytes == Seq(Nat)

StreamStates == [host : Text, configRequest : BOOLEAN, reqContentType : Text,
                 httpMethod : Text, body : Bytes]

\* What the headers message and the body messages change of it.
WithHeaders(x, h) ==
    [x EXCEPT !.httpMethod = MethodOf(h),
              !.host = HostOf(h),
              !.reqContentType = extractHeaderValue(h, "content-type"),
              !.configRequest = @ \/ IsConfigRequest(h)]

WithBody(x, b) == [x EXCEPT !.body = b]

EmptyState == [host |-> "", configRequest |-> FALSE, reqContentType |-> "",
               httpMethod |-> "", body |-> <<>>]

NoHeaders == [k \in {} |-> ""]

\* A gateway's response: its body is complete once ReadAll has returned it.
Response(code, n, done) == [status |-> code, bytes |-> n, complete |-> done]
NoResponse == Response(0, 0, FALSE)
Responses == [status : {0} \cup GatewayStatuses, bytes : Nat, complete : BOOLEAN]

HeadersMsg(h)      == [type |-> "headers", headers |-> h]
BodyMsg(b, eos)    == [type |-> "body", bytes |-> b, eos |-> eos]
SideMsg(t)         == [type |-> t]

Messages == [type : {"headers"}, headers : HeaderMaps]
            \cup [type : {"body"}, bytes : Bytes, eos : BOOLEAN]
            \cup [type : {"trailers", "responseSide", "unknown"}]

\* A request at a gateway; after is how many responses the client's Envoy had
\* already been sent.
GatewayRequests == [url : URLs, method : Text \cup {"GET"}, ctype : Text \cup {ContentTypeOHTTPReq},
                    body : Bytes, after : Nat]

ErrorTypes == {"recv_error", "unknown_request_type", "process_error", "send_error"}

PCs == {"idle", "select", "recv", "lookup", "do", "await", "read", "record",
        "kcLookup", "kcFetch", "send", "done"}

Running(s) == pc[s] \notin {"idle", "done"}

TypeOK ==
    /\ stage \in [Streams -> {"new", "body", "eos"}]
    /\ headers \in [Streams -> HeaderMaps \cup {NoHeaders}]
    /\ sent \in [Streams -> Nat]
    /\ link \in [Streams -> {"open", "halfClosed", "cancelled"}]
    /\ inbox \in [Streams -> Seq(Messages)]
    /\ pc \in [Streams -> PCs]
    /\ st \in [Streams -> StreamStates]
    /\ statusCode \in [Streams -> {200, 500} \cup MappedCodes]
    /\ target \in [Streams -> Targets]
    /\ rsp \in [Streams -> Responses]
    /\ reply \in [Streams -> Replies]
    /\ outbox \in [Streams -> Seq(Replies)]
    /\ gateway \in [Streams -> Seq(GatewayRequests)]
    /\ exit \in [Streams -> {"none", "clean", "ctx"} \cup ErrorTypes]
    /\ redis \in [Text -> Targets]
    /\ mappedSince \in [Streams -> SUBSET Targets]
    /\ active \in Int
    /\ requestsTotal \in [Categories -> Nat]
    /\ errorsTotal \in [ErrorTypes -> Nat]
    /\ gatewayRequestsTotal \in [Categories -> Nat]
    /\ trafficBytes \in [Text -> [in : Nat, out : Nat]]

Init ==
    /\ stage = [s \in Streams |-> "new"]
    /\ headers = [s \in Streams |-> NoHeaders]
    /\ sent = [s \in Streams |-> 0]
    /\ link = [s \in Streams |-> "open"]
    /\ inbox = [s \in Streams |-> <<>>]
    /\ pc = [s \in Streams |-> "idle"]
    /\ st = [s \in Streams |-> EmptyState]
    /\ statusCode = [s \in Streams |-> 200]
    /\ target = [s \in Streams |-> ""]
    /\ rsp = [s \in Streams |-> NoResponse]
    /\ reply = [s \in Streams |-> NoReply]
    /\ outbox = [s \in Streams |-> <<>>]
    /\ gateway = [s \in Streams |-> <<>>]
    /\ exit = [s \in Streams |-> "none"]
    /\ redis = [k \in Text |-> ""]
    /\ mappedSince = [s \in Streams |-> {}]
    /\ active = 0
    /\ requestsTotal = [c \in Categories |-> 0]
    /\ errorsTotal = [e \in ErrorTypes |-> 0]
    /\ gatewayRequestsTotal = [c \in Categories |-> 0]
    /\ trafficBytes = [h \in Text |-> [in |-> 0, out |-> 0]]

-----------------------------------------------------------------------------
(* Envoy and Redis (external).                                             *)

\* A client's request reaches Envoy, which opens a stream and sends the
\* headers; Process starts.  A request without a body carries no length or
\* length 0.
Open(s, h, bodyless) ==
    /\ stage[s] = "new"
    /\ bodyless => extractHeaderValue(h, "content-length") \in {"", "0"}
    /\ stage' = [stage EXCEPT ![s] = IF bodyless THEN "eos" ELSE "body"]
    /\ headers' = [headers EXCEPT ![s] = h]
    /\ inbox' = [inbox EXCEPT ![s] = <<HeadersMsg(h)>>]
    /\ pc' = [pc EXCEPT ![s] = "select"]
    /\ active' = active + 1
    /\ mappedSince' = [mappedSince EXCEPT ![s] = {redis[RedisKey(HostOf(h))]}]
    /\ UNCHANGED <<sent, link, localVars, outsideVars, redis, requestsTotal,
                   errorsTotal, ioMetrics>>

CanSend(s) == Running(s) /\ link[s] = "open" /\ Len(inbox[s]) < MaxInbox

EnvoySends(s, m) == inbox' = [inbox EXCEPT ![s] = Append(@, m)]

\* A chunk of n bytes.  Envoy may still send it after the relay has answered:
\* the answer may be on its way.
EnvoyBody(s, n, eos) ==
    /\ CanSend(s) /\ stage[s] = "body"
    /\ sent[s] + n <= MaxBodyBytes
    /\ n > 0 \/ eos
    /\ EnvoySends(s, BodyMsg([i \in 1..n |-> sent[s] + i], eos))
    /\ sent' = [sent EXCEPT ![s] = @ + n]
    /\ stage' = [stage EXCEPT ![s] = IF eos THEN "eos" ELSE "body"]
    /\ UNCHANGED <<headers, link, pc, localVars, outsideVars, redisVars,
                   endMetrics, ioMetrics>>

\* Trailers end a request whose last body chunk was not marked end-of-stream.
EnvoySide(s, t) ==
    /\ CanSend(s)
    /\ t = "trailers" => stage[s] = "body"
    /\ EnvoySends(s, SideMsg(t))
    /\ stage' = [stage EXCEPT ![s] = IF t = "trailers" THEN "eos" ELSE @]
    /\ UNCHANGED <<headers, sent, link, pc, localVars, outsideVars, redisVars,
                   endMetrics, ioMetrics>>

\* Envoy is done with the stream: it was answered, gave up waiting, or lost
\* its client.  It closes its half, or resets the stream.
EnvoyCloses(s, how) ==
    /\ Running(s)
    /\ \/ link[s] = "open" /\ how = "halfClosed"
       \/ link[s] # "cancelled" /\ how = "cancelled"
    /\ link' = [link EXCEPT ![s] = how]
    /\ UNCHANGED <<stage, headers, sent, inbox, pc, localVars, outsideVars,
                   redisVars, endMetrics, ioMetrics>>

\* An operator sets or deletes (u = "") a host's gateway in Redis.
RedisSet(k, u) ==
    /\ redis[k] # u
    /\ redis' = [redis EXCEPT ![k] = u]
    /\ mappedSince' = [s \in Streams |->
                         IF Running(s) /\ RedisKey(HostOf(headers[s])) = k
                         THEN mappedSince[s] \cup {u} ELSE mappedSince[s]]
    /\ UNCHANGED <<envoyVars, inbox, pc, localVars, outsideVars, endMetrics,
                   ioMetrics>>

-----------------------------------------------------------------------------
(* Process: the loop around Recv.                                          *)

Goto(s, next) == pc' = [pc EXCEPT ![s] = next]

RecordRequest(code) ==
    requestsTotal' = [requestsTotal EXCEPT ![StatusCategory(code)] = @ + 1]

\* Only the error returns of Process have a type to record.
RecordError(why) ==
    errorsTotal' = [e \in ErrorTypes |-> errorsTotal[e] + (IF e = why THEN 1 ELSE 0)]

\* Mutant: the gauge is decremented on the clean way out only.
FinishLeaky(s, why, code) ==
    /\ Goto(s, "done")
    /\ exit' = [exit EXCEPT ![s] = why]
    /\ active' = IF why \in ErrorTypes THEN active ELSE active - 1
    /\ RecordRequest(code)
    /\ RecordError(why)

\* Leave Process: the deferred calls record the request under the category
\* of code and decrement the gauge; an error return counts its type first.
Finish(s, why, code) ==
    /\ Goto(s, "done")
    /\ exit' = [exit EXCEPT ![s] = why]
    /\ active' = active - 1
    /\ RecordRequest(code)
    /\ RecordError(why)

Respond(s, r) ==
    /\ Goto(s, "send")
    /\ reply' = [reply EXCEPT ![s] = r]

RespondError(s, code) == Respond(s, immediateErrorResponse(code))

SelectCtxDone(s) ==
    /\ pc[s] = "select" /\ link[s] = "cancelled"
    /\ Finish(s, "ctx", statusCode[s])
    /\ UNCHANGED <<envoyVars, inbox, localVars, outbox, gateway, redisVars, ioMetrics>>

SelectDefault(s) ==
    /\ pc[s] = "select" /\ link[s] # "cancelled"
    /\ Goto(s, "recv")
    /\ UNCHANGED <<envoyVars, inbox, localVars, outsideVars, redisVars,
                   endMetrics, ioMetrics>>

\* Mutant: io.EOF is not told from "no message".
RecvEOFContinues(s) ==
    /\ pc[s] = "recv" /\ link[s] = "halfClosed" /\ inbox[s] = <<>>
    /\ Goto(s, "select")
    /\ UNCHANGED <<envoyVars, inbox, localVars, outsideVars, redisVars,
                   endMetrics, ioMetrics>>

RecvEOF(s) ==
    /\ pc[s] = "recv" /\ link[s] = "halfClosed" /\ inbox[s] = <<>>
    /\ Finish(s, "clean", statusCode[s])
    /\ UNCHANGED <<envoyVars, inbox, localVars, outbox, gateway, redisVars, ioMetrics>>

\* Recv may fail at any time, on a message over gRPC's limit say.  After the
\* context was cancelled it may also return context.Canceled, which is no
\* error to Process, or still hand out a message.
RecvError(s) ==
    /\ pc[s] = "recv"
    /\ \E why \in {"clean", "recv_error"} :
          /\ why = "clean" => link[s] = "cancelled"
          /\ Finish(s, why, statusCode[s])
    /\ UNCHANGED <<envoyVars, inbox, localVars, outbox, gateway, redisVars, ioMetrics>>

\* Recv returns the next message, which has type t.
Recv(s, t) ==
    /\ pc[s] = "recv" /\ inbox[s] # <<>> /\ Head(inbox[s]).type = t
    /\ inbox' = [inbox EXCEPT ![s] = Tail(@)]

RecvHeaders(s) ==
    LET h == Head(inbox[s]).headers IN
    /\ Recv(s, "headers")
    /\ st' = [st EXCEPT ![s] = WithHeaders(@, h)]
    /\ IF HeaderError(h) # NoError
       THEN RespondError(s, HeaderError(h))
       ELSE /\ Goto(s, IF IsConfigRequest(h) THEN "kcLookup" ELSE "select")
            /\ UNCHANGED reply
    /\ UNCHANGED <<envoyVars, statusCode, target, rsp, outsideVars, redisVars,
                   endMetrics, ioMetrics>>

\* Mutant: the limit is on a chunk.
ChunkTooLarge(body, chunk) == Len(chunk) > MaxRequestBodySize

TooLarge(body, chunk) == Len(body) + Len(chunk) > MaxRequestBodySize

\* Mutant: the body is dropped and nobody is told.
RecvBodyDropped(s) ==
    /\ Recv(s, "body")
    /\ TooLarge(st[s].body, Head(inbox[s]).bytes)
    /\ st' = [st EXCEPT ![s] = WithBody(@, <<>>)]
    /\ Goto(s, "select")
    /\ UNCHANGED <<envoyVars, statusCode, target, rsp, reply, outsideVars,
                   redisVars, endMetrics, ioMetrics>>

\* Over the limit: answer 413 and drop what was buffered, but keep reading.
RecvBodyTooLarge(s) ==
    /\ Recv(s, "body")
    /\ TooLarge(st[s].body, Head(inbox[s]).bytes)
    /\ st' = [st EXCEPT ![s] = WithBody(@, <<>>)]
    /\ RespondError(s, 413)
    /\ UNCHANGED <<envoyVars, statusCode, target, rsp, outsideVars, redisVars,
                   endMetrics, ioMetrics>>

\* Within the limit: buffer the chunk; the last one is forwarded, except that
\* forwardAndRespond refuses a key-config request and ends the stream.
RecvBody(s) ==
    LET m == Head(inbox[s]) IN
    /\ Recv(s, "body")
    /\ ~TooLarge(st[s].body, m.bytes)
    /\ st' = [st EXCEPT ![s] = WithBody(@, @.body \o m.bytes)]
    /\ IF m.eos /\ st[s].configRequest
       THEN Finish(s, "process_error", statusCode[s])
       ELSE /\ Goto(s, IF m.eos THEN "lookup" ELSE "select")
            /\ UNCHANGED <<exit, endMetrics>>
    /\ UNCHANGED <<envoyVars, statusCode, target, rsp, reply, outbox, gateway,
                   redisVars, ioMetrics>>

RecvIgnored(s) ==
    /\ Recv(s, "trailers") \/ Recv(s, "responseSide")
    /\ Goto(s, "select")
    /\ UNCHANGED <<envoyVars, localVars, outsideVars, redisVars, endMetrics, ioMetrics>>

RecvUnknown(s) ==
    /\ Recv(s, "unknown")
    /\ Finish(s, "unknown_request_type", statusCode[s])
    /\ UNCHANGED <<envoyVars, localVars, outbox, gateway, redisVars, ioMetrics>>

-----------------------------------------------------------------------------
(* forwardAndRespond and HTTPRelayer.Relay.                                *)

\* A lookup that leaves no URL to send a request to.
Unroutable(r) == r.err \/ r.url = "" \/ r.url \in MalformedURLs

\* gatewaySource.TargetURL and http.NewRequest; Redis may fail to answer.
LookupThen(s, next, code) ==
    \E fails \in BOOLEAN :
        LET r == TargetURL(st[s].host, redis, fails) IN
        /\ IF Unroutable(r)
           THEN RespondError(s, code) /\ UNCHANGED target
           ELSE /\ target' = [target EXCEPT ![s] = r.url]
                /\ Goto(s, next)
                /\ UNCHANGED reply
        /\ UNCHANGED <<envoyVars, inbox, st, statusCode, rsp, outsideVars,
                       redisVars, endMetrics, ioMetrics>>

Lookup(s) == pc[s] = "lookup" /\ LookupThen(s, "do", 502)

RecordGatewayRequest(code) ==
    gatewayRequestsTotal' = [gatewayRequestsTotal EXCEPT ![StatusCategory(code)] = @ + 1]

\* The method net/http writes: an empty method means GET, others as they are.
WireMethod(m) == IF m = "" THEN "GET" ELSE m

\* A fresh request: nothing of the client's headers but a content type that
\* is not the expected one.
GatewayRequest(s) ==
    [url    |-> target[s],
     method |-> WireMethod(st[s].httpMethod),
     ctype  |-> IF UnexpectedType(st[s].reqContentType)
                THEN st[s].reqContentType ELSE ContentTypeOHTTPReq,
     body   |-> st[s].body,
     after  |-> Len(outbox[s])]

\* client.Do writes the request to the gateway ...
Do(s) ==
    /\ pc[s] = "do" /\ link[s] # "cancelled"
    /\ gateway' = [gateway EXCEPT ![s] = Append(@, GatewayRequest(s))]
    /\ target' = [target EXCEPT ![s] = ""]
    /\ Goto(s, "await")
    /\ UNCHANGED <<envoyVars, inbox, st, statusCode, rsp, reply, outbox, exit,
                   redisVars, endMetrics, ioMetrics>>

\* Mutant: Relay tries again when the answer is late.
DoRetries(s) ==
    /\ pc[s] = "await"
    /\ Goto(s, "lookup")
    /\ RecordGatewayRequest(0)
    /\ UNCHANGED <<envoyVars, inbox, localVars, outsideVars, redisVars,
                   endMetrics, trafficBytes>>

\* ... or fails, before the gateway got it or after (a timeout, a reset) ...
DoFailed(s) ==
    /\ pc[s] \in {"do", "await"}
    /\ target' = [target EXCEPT ![s] = ""]
    /\ RecordGatewayRequest(0)
    /\ RespondError(s, 502)
    /\ UNCHANGED <<envoyVars, inbox, st, statusCode, rsp, outsideVars, redisVars,
                   endMetrics, trafficBytes>>

\* ... or returns the gateway's status and headers.
DoResponse(s, code) ==
    /\ pc[s] = "await"
    /\ rsp' = [rsp EXCEPT ![s] = Response(code, 0, FALSE)]
    /\ RecordGatewayRequest(code)
    /\ Goto(s, "read")
    /\ UNCHANGED <<envoyVars, inbox, st, statusCode, target, reply, outsideVars,
                   redisVars, endMetrics, trafficBytes>>

\* Mutant: the error of io.ReadAll is dropped.
ReadFailedDropped(s) ==
    /\ pc[s] = "read"
    /\ Respond(s, OpaqueResponse(ContentTypeOHTTPRes, 0))
    /\ UNCHANGED <<envoyVars, inbox, st, statusCode, target, rsp, outsideVars,
                   redisVars, endMetrics, ioMetrics>>

ReadFailed(s) ==
    /\ pc[s] = "read"
    /\ RespondError(s, 502)
    /\ UNCHANGED <<envoyVars, inbox, st, statusCode, target, rsp, outsideVars,
                   redisVars, endMetrics, ioMetrics>>

\* Mutant: any response of the gateway is passed on.
IsAnyStatus(code) == code > 0

IsSuccess(code) == StatusCategory(code) = 2

\* Mutant: the counters are set, not increased.
SetTrafficIO(host, bytesIn, bytesOut) ==
    trafficBytes' = [trafficBytes EXCEPT ![host] = [in |-> bytesIn, out |-> bytesOut]]

RecordTrafficIO(host, bytesIn, bytesOut) ==
    trafficBytes' = [trafficBytes EXCEPT ![host] = [in  |-> @.in + bytesIn,
                                                    out |-> @.out + bytesOut]]

\* io.ReadAll got all n bytes; a success is metered under the host.
Read(s, n) ==
    /\ pc[s] = "read"
    /\ rsp' = [rsp EXCEPT ![s] = Response(@.status, n, TRUE)]
    /\ IF IsSuccess(rsp[s].status)
       THEN /\ RecordTrafficIO(st[s].host, Len(st[s].body), n)
            /\ Goto(s, "record")
            /\ UNCHANGED reply
       ELSE RespondError(s, 502) /\ UNCHANGED trafficBytes
    /\ UNCHANGED <<envoyVars, inbox, st, statusCode, target, outsideVars,
                   redisVars, endMetrics, gatewayRequestsTotal>>

\* trafficMetrics.RecordTraffic returned; its error is only logged.
Record(s) ==
    /\ pc[s] = "record"
    /\ Respond(s, OpaqueResponse(ContentTypeOHTTPRes, rsp[s].bytes))
    /\ UNCHANGED <<envoyVars, inbox, st, statusCode, target, rsp, outsideVars,
                   redisVars, endMetrics, ioMetrics>>

-----------------------------------------------------------------------------
(* respondKeyConfig and the HTTP key-config source.                        *)

KcLookup(s) == pc[s] = "kcLookup" /\ LookupThen(s, "kcFetch", 500)

\* The GET ended with the given status (0: no response) and io.ReadAll
\* returned n bytes; its error, if it stopped short, is dropped.
KcFetch(s, code, n) ==
    /\ pc[s] = "kcFetch"
    /\ target' = [target EXCEPT ![s] = ""]
    /\ IF code = 200
       THEN Respond(s, OpaqueResponse(ContentTypeOHTTPKeys, n))
       ELSE RespondError(s, 500)
    /\ UNCHANGED <<envoyVars, inbox, st, statusCode, rsp, outsideVars, redisVars,
                   endMetrics, ioMetrics>>

-----------------------------------------------------------------------------
(* SendResponses.                                                          *)

SendOK(s) ==
    /\ pc[s] = "send" /\ link[s] # "cancelled"
    /\ statusCode' = [statusCode EXCEPT ![s] = reply[s].status]
    /\ outbox' = [outbox EXCEPT ![s] = Append(@, reply[s])]
    /\ reply' = [reply EXCEPT ![s] = NoReply]
    /\ Goto(s, "select")
    /\ UNCHANGED <<envoyVars, inbox, st, target, rsp, gateway, exit, redisVars,
                   endMetrics, ioMetrics>>

\* Send may fail with the context still alive.
SendFailed(s) ==
    /\ pc[s] = "send"
    /\ statusCode' = [statusCode EXCEPT ![s] = reply[s].status]
    /\ Finish(s, "send_error", reply[s].status)
    /\ reply' = [reply EXCEPT ![s] = NoReply]
    /\ UNCHANGED <<envoyVars, inbox, st, target, rsp, outbox, gateway, redisVars,
                   ioMetrics>>

-----------------------------------------------------------------------------

HandlerStep(s) ==
    \/ SelectCtxDone(s) \/ SelectDefault(s)
    \/ RecvEOF(s) \/ RecvError(s)
    \/ RecvHeaders(s) \/ RecvBodyTooLarge(s) \/ RecvBody(s)
    \/ RecvIgnored(s) \/ RecvUnknown(s)
    \/ Lookup(s) \/ Do(s) \/ DoFailed(s)
    \/ \E code \in GatewayStatuses : DoResponse(s, code)
    \/ ReadFailed(s)
    \/ \E n \in ReplySizes : Read(s, n)
    \/ Record(s)
    \/ KcLookup(s)
    \/ \E code \in {0} \cup GatewayStatuses, n \in 0..KeyConfigSize : KcFetch(s, code, n)
    \/ SendOK(s) \/ SendFailed(s)

EnvoyStep(s) ==
    \/ \E h \in HeaderMaps, bodyless \in BOOLEAN : Open(s, h, bodyless)
    \/ \E n \in ChunkSizes, eos \in BOOLEAN : EnvoyBody(s, n, eos)
    \/ \E t \in SideMessages : EnvoySide(s, t)
    \/ \E how \in {"halfClosed", "cancelled"} : EnvoyCloses(s, how)

RedisStep == \E k \in RedisHosts, u \in Targets : RedisSet(k, u)

Next == (\E s \in Streams : HandlerStep(s) \/ EnvoyStep(s)) \/ RedisStep

Spec == Init /\ [][Next]_vars

\* Recv with nothing to return: it waits, and is not obliged to fail.
Waiting(s) == pc[s] = "recv" /\ inbox[s] = <<>> /\ link[s] = "open"

\* Nothing else a handler does waits for ever: the gateway calls and the Redis
\* calls have a timeout.  Envoy and Redis are under no obligation.
FairSpec == Spec /\ \A s \in Streams : WF_vars(~Waiting(s) /\ HandlerStep(s))

-----------------------------------------------------------------------------
(* Properties.                                                             *)

\* The body the client of s has sent, and whether the client has been told
\* code among the first k answers.
ClientBody(s) == [i \in 1..sent[s] |-> i]
Told(s, code, k) == \E i \in 1..k : outbox[s][i].text = code

\* The memory a stream holds for a request, and what it passes on, stay within
\* --max-request-body-size however the body is cut into chunks (server.go's
\* check before append).
BodyBounded ==
    \A s \in Streams :
        /\ Len(st[s].body) <= MaxRequestBodySize
        /\ \A i \in DOMAIN gateway[s] : Len(gateway[s][i].body) <= MaxRequestBodySize

\* OHTTP requests are not replayed: whatever Envoy sends, late chunks after an
\* error answer included, the gateway gets at most one request per stream
\* (Process forwards on end-of-stream, and Relay does not retry).
AtMostOnceDelivery == \A s \in Streams : Len(gateway[s]) <= 1

\* A request reaches a gateway only once its last byte was sent, and never for
\* a key-config stream.  If its headers failed the checks, or if part of its
\* body is missing, then the client had already been sent the very error that
\* says so: no client that still waits for an answer has a bad request
\* forwarded for it.
BadForwardsFollowTheirError ==
    \A s \in Streams : \A i \in DOMAIN gateway[s] :
        LET r == gateway[s][i] IN
        /\ stage[s] = "eos"
        /\ ~IsConfigRequest(headers[s])
        /\ HeaderError(headers[s]) # NoError => Told(s, HeaderError(headers[s]), r.after)
        /\ r.body # ClientBody(s) => Told(s, 413, r.after)

\* Envoy hands its client the first answer.  If that is an OHTTP response, it
\* answers the client's own request: exactly one gateway got the whole body
\* and replied with a success, and all of its reply is passed on.
ClientAnswerSound ==
    \A s \in Streams :
        outbox[s] # <<>> /\ outbox[s][1].ctype = ContentTypeOHTTPRes =>
            /\ Len(gateway[s]) = 1
            /\ gateway[s][1].body = ClientBody(s)
            /\ rsp[s].complete /\ rsp[s].status \in 200..299
            /\ outbox[s][1].bytes = rsp[s].bytes

\* A request goes to the gateway of its own host: the static mapping if there
\* is one, whatever Redis says, and else a URL that Redis held for the host at
\* some moment since the stream opened (ChainSources, no caching).
RoutedByHost ==
    \A s \in Streams : \A i \in DOMAIN gateway[s] :
        LET host == HostOf(headers[s]) IN
        IF host \in DOMAIN DomainMap
        THEN gateway[s][i].url = DomainMap[host]
        ELSE RedisEnable /\ gateway[s][i].url \in mappedSince[s]

\* The gauge counts the streams being processed, every finished stream is
\* counted once under the category of its last status, and every error return
\* under its type, on each of Process's ways out (the deferred calls).
MetricsAgree ==
    /\ active = Cardinality({s \in Streams : Running(s)})
    /\ \A c \in Categories :
          requestsTotal[c] = Cardinality({s \in Streams :
                                 pc[s] = "done" /\ StatusCategory(statusCode[s]) = c})
    /\ \A e \in ErrorTypes : errorsTotal[e] = Cardinality({s \in Streams : exit[s] = e})

\* The streams whose gateway exchange for host h succeeded.
Metered(h) ==
    {s \in Streams : /\ rsp[s].complete /\ rsp[s].status \in 200..299
                     /\ HostOf(headers[s]) = h}

\* What the traffic counters of a host can be relied on for: over all streams,
\* each exchange of the host's that succeeded is in them once, with the bytes
\* its gateway took and returned, and nothing else is (RecordTrafficIO, called
\* after the checks of the response and before SendResponses).  That is less
\* than the counters' descriptions promise: see TrafficAsDescribed.
TrafficAccounted ==
    \A h \in Text :
        /\ trafficBytes[h].in = MapThenSumSet(LAMBDA s : Len(gateway[s][1].body), Metered(h))
        /\ trafficBytes[h].out = MapThenSumSet(LAMBDA s : rsp[s].bytes, Metered(h))

\* The last chunk of the client's body is on its way to Process, or the headers
\* of a request without a body are.
EndInFlight(s) ==
    \/ \E i \in DOMAIN inbox[s] : inbox[s][i].type = "body" /\ inbox[s][i].eos
    \/ stage[s] = "eos" /\ inbox[s] = <<HeadersMsg(headers[s])>>

\* A request that Envoy has sent to its end is answered, unless Envoy closes
\* the stream first or Process ends it with an error.  This is so when the last
\* chunk marks the end (Process forwards then), not when trailers do.
EventuallyAnswered ==
    \A s \in Streams :
        EndInFlight(s) ~> \/ outbox[s] # <<>>
                         \/ link[s] # "open"
                         \/ exit[s] \in ErrorTypes

\* A request that ended, with trailers say, and that the relay will not answer
\* by itself because it waits for more, has reached no gateway, and all of it
\* is still buffered: its client may ask again.
UnansweredIsUntouched ==
    \A s \in Streams :
        /\ stage[s] = "eos" /\ outbox[s] = <<>>
        /\ pc[s] = "recv" /\ inbox[s] = <<>>
        => gateway[s] = <<>> /\ st[s].body = ClientBody(s)

\* Process returns, and its goroutine and buffers are released, after Envoy
\* closed or reset the stream, wherever the handler was at that time.
StreamReleased == \A s \in Streams : link[s] # "open" ~> pc[s] = "done"

-----------------------------------------------------------------------------
(* What documents, comments and tests say and the code does not do.        *)

\* immediateErrorResponse(code) answers with the status it was given.
StatusPreserved ==
    \A s \in Streams : \A i \in DOMAIN outbox[s] :
        outbox[s][i].ctype = "text/plain" => outbox[s][i].status = outbox[s][i].text

\* A request that was answered with an error fails: it is not forwarded.
AnsweredNeverForwarded ==
    \A s \in Streams : \A i \in DOMAIN gateway[s] : gateway[s][i].after = 0

\* A valid OHTTP request is forwarded with the method POST.
ForwardedAsPOST ==
    \A s \in Streams : \A i \in DOMAIN gateway[s] :
        HeaderError(headers[s]) = NoError => gateway[s][i].method = "POST"

\* The streams of host h, and the length of the answer that a stream's client
\* was given.
StreamsOf(h) == {s \in Streams : HostOf(headers[s]) = h}
AnswerBytes(s) == IF outbox[s] = <<>> THEN 0 ELSE outbox[s][1].bytes

\* The traffic counters of a host are the total of the bytes received from its
\* clients, once all of their bodies were read and answered, and the total of
\* the bytes sent to them, once all streams have ended.
TrafficAsDescribed ==
    \A h \in Text :
        /\ (\A s \in StreamsOf(h) : stage[s] = "eos" /\ inbox[s] = <<>> /\ outbox[s] # <<>>)
           => trafficBytes[h].in = MapThenSumSet(LAMBDA s : sent[s], StreamsOf(h))
        /\ (\A s \in StreamsOf(h) : pc[s] = "done")
           => trafficBytes[h].out = MapThenSumSet(AnswerBytes, StreamsOf(h))

\* Keys are answered whole, or the request fails.
KeyConfigWhole ==
    \A s \in Streams : \A i \in DOMAIN outbox[s] :
        outbox[s][i].ctype = ContentTypeOHTTPKeys => outbox[s][i].bytes = KeyConfigSize

=============================================================================
