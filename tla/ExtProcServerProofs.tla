------------------------- MODULE ExtProcServerProofs -------------------------
(***************************************************************************)
(* Proofs about ExtProcServer, for every set of streams, header maps,      *)
(* strings, URLs and every limit.                                          *)
(***************************************************************************)
EXTENDS ExtProcServer, TLAPS

-----------------------------------------------------------------------------
(* What the operators return.                                              *)

\* Header extraction and lower-casing stay within Text (server.go,
\* extractHeaderValue and the header case of Process).
LEMMA HeaderTypes ==
    ASSUME NEW h \in HeaderMaps
    PROVE  /\ \A k : extractHeaderValue(h, k) \in Text
           /\ MethodOf(h) \in Text
           /\ HostOf(h) \in Text
<1>1. \A k : extractHeaderValue(h, k) \in Text
  BY HeadersAssumption, TextAssumption DEF extractHeaderValue
<1>2. \A x \in Text : ToLower[x] \in Text
  BY TextAssumption
<1>3. \A a, b \in Text : FirstNonEmpty(a, b) \in Text
  BY DEF FirstNonEmpty
<1> QED BY <1>1, <1>2, <1>3 DEF MethodOf, HostOf

\* The codes the header checks fail with.
LEMMA HeaderErrorType ==
    \A h : HeaderError(h) \in {NoError, 400, 405, 411, 415}
BY DEF HeaderError, KeyConfigRequestError, OHTTPRequestError, NoError

\* Every error code Process uses gives a well-formed response
\* (immediateErrorResponse).
LEMMA ErrorReplyType ==
    \A c \in {400, 405, 411, 413, 415, 500, 502} : immediateErrorResponse(c) \in Replies
BY DEF immediateErrorResponse, EnvoyStatus, MappedCodes, Replies, NoError

\* A gateway's body becomes a well-formed response.
LEMMA OpaqueReplyType ==
    \A n \in Nat : /\ OpaqueResponse(ContentTypeOHTTPRes, n) \in Replies
                   /\ OpaqueResponse(ContentTypeOHTTPKeys, n) \in Replies
                   /\ NoReply \in Replies
BY DEF OpaqueResponse, NoReply, Replies, NoError, ContentTypeOHTTPRes, ContentTypeOHTTPKeys

\* The metric labels "0xx" to "5xx" cover every status that is recorded.
LEMMA CategoryType ==
    \A c \in {0, 200, 500} \cup MappedCodes \cup GatewayStatuses :
        StatusCategory(c) \in Categories
<1>1. \A c \in 0..599 : c \div 100 \in 0..5
  BY SMT
<1>2. {0, 200, 500} \cup MappedCodes \cup GatewayStatuses \subseteq 0..599
  BY DomainAssumption DEF MappedCodes
<1> QED BY <1>1, <1>2 DEF StatusCategory, Categories

\* A lookup of a host returns a URL, the empty string or an error (the chain of
\* sources built in app.go).
LEMMA TargetURLType ==
    ASSUME NEW host \in Text, NEW db \in [Text -> Targets], NEW fails \in BOOLEAN
    PROVE  TargetURL(host, db, fails) \in LookupResults
<1>1. StaticMapURLSource(host) \in LookupResults
  BY URLAssumption DEF StaticMapURLSource, Found, LookupResults, Targets
<1>2. RedisTargetURL(host, db, fails) \in LookupResults
  <2>1. RedisKey(host) \in Text
    BY TextAssumption DEF RedisKey
  <2> QED BY <2>1 DEF RedisTargetURL, Found, Failed, LookupResults, Targets
<1>3. ASSUME NEW r \in LookupResults, NEW q \in LookupResults
      PROVE  ChainSources(<<r, q>>) \in LookupResults
  <2> DEFINE rs == <<r, q>>
             first == CHOOSE i \in Stops(rs) : \A j \in Stops(rs) : i <= j
  <2>0. DOMAIN rs = 1..2 /\ \A i \in 1..2 : rs[i] \in LookupResults
    OBVIOUS
  <2>1. CASE Stops(rs) = {}
    BY <2>1 DEF ChainSources, Found, LookupResults, Targets
  <2>2. CASE Stops(rs) # {}
    <3>1. Stops(rs) \subseteq 1..2
      BY <2>0 DEF Stops
    <3>2. \E i \in Stops(rs) : \A j \in Stops(rs) : i <= j
      BY <2>2, <3>1
    <3>3. first \in 1..2
      BY <3>1, <3>2
    <3>4. rs[first] \in LookupResults
      BY <2>0, <3>3
    <3> QED BY <2>2, <3>4 DEF ChainSources, Failed, LookupResults, Targets
  <2> QED BY <2>1, <2>2
<1> QED BY <1>1, <1>2, <1>3, URLAssumption DEF TargetURL

\* A chain of two sources asks the second one only if the first one knows no
\* gateway and does not fail (source.go, ChainSources).
LEMMA ChainOfTwo ==
    ASSUME NEW o \in LookupResults, NEW p \in LookupResults
    PROVE  ChainSources(<<o, p>>) =
              IF o.err THEN Failed ELSE IF o.url # "" THEN o
              ELSE IF p.err THEN Failed ELSE IF p.url # "" THEN p ELSE Found("")
<1> DEFINE rs == <<o, p>>
           first == CHOOSE i \in Stops(rs) : \A j \in Stops(rs) : i <= j
<1>1. DOMAIN rs = 1..2 /\ rs[1] = o /\ rs[2] = p
  OBVIOUS
<1> SUFFICES ChainSources(rs) =
                IF o.err THEN Failed ELSE IF o.url # "" THEN o
                ELSE IF p.err THEN Failed ELSE IF p.url # "" THEN p ELSE Found("")
  OBVIOUS
<1> HIDE DEF rs
<1>2. Stops(rs) \subseteq 1..2
  BY <1>1 DEF Stops
<1>3. 1 \in Stops(rs) <=> (o.err \/ o.url # "")
  <2>1. 1 \in DOMAIN rs
    BY <1>1
  <2> QED BY <1>1, <2>1, Zenon DEF Stops
<1>4. 2 \in Stops(rs) <=> (p.err \/ p.url # "")
  <2>1. 2 \in DOMAIN rs
    BY <1>1
  <2> QED BY <1>1, <2>1, Zenon DEF Stops
<1>5. ChainSources(rs) = IF Stops(rs) = {} THEN Found("")
                         ELSE IF rs[first].err THEN Failed ELSE rs[first]
  BY Zenon DEF ChainSources
<1>6. CASE o.err \/ o.url # ""
  <2>1. 1 \in Stops(rs)
    BY <1>3, <1>6
  <2>2. first \in Stops(rs) /\ first <= 1
    <3>1. \E i \in Stops(rs) : \A j \in Stops(rs) : i <= j
      <4>1. \A j \in Stops(rs) : 1 <= j
        BY <1>2
      <4> QED BY <2>1, <4>1
    <3> QED BY <2>1, <3>1
  <2>3. first = 1
    <3> HIDE DEF first
    <3> QED BY <1>2, <2>2
  <2> HIDE DEF first
  <2> QED BY <1>1, <1>5, <1>6, <2>1, <2>3, Zenon
<1>7. CASE ~(o.err \/ o.url # "") /\ (p.err \/ p.url # "")
  <2>1. 1 \notin Stops(rs) /\ 2 \in Stops(rs)
    BY <1>3, <1>4, <1>7, Zenon
  <2>2. first = 2
    <3>1. Stops(rs) = {2}
      BY <1>2, <2>1
    <3> QED BY <3>1
  <2> HIDE DEF first
  <2> QED BY <1>1, <1>5, <1>7, <2>1, <2>2, Zenon
<1>8. CASE ~(o.err \/ o.url # "") /\ ~(p.err \/ p.url # "")
  <2>1. 1 \notin Stops(rs) /\ 2 \notin Stops(rs)
    BY <1>3, <1>4, <1>8, Zenon
  <2>2. Stops(rs) = {}
    BY <1>2, <2>1
  <2> HIDE DEF first
  <2> QED BY <1>5, <1>8, <2>2, Zenon
<1> QED BY <1>6, <1>7, <1>8

\* A default gateway is the last link of a chain: FallbackSource does what
\* ChainSources does with a source that always knows the default (source.go).
LEMMA FallbackIsChain ==
    ASSUME NEW u \in Targets, NEW o \in LookupResults
    PROVE  FallbackSource(u, o) = ChainSources(<<o, Found(u)>>)
<1>1. Found(u) \in LookupResults /\ Found(u).err = FALSE /\ Found(u).url = u
  BY DEF Found, LookupResults
<1>2. u = "" => Found("") = Found(u)
  OBVIOUS
<1> QED BY <1>1, <1>2, ChainOfTwo DEF FallbackSource

\* The URL a lookup finds is the static mapping's if the host has one, and else
\* what Redis holds for it (app.go, the chain of sources).
LEMMA TargetIsTheHosts ==
    ASSUME NEW host \in Text, NEW db \in [Text -> Targets], NEW fails \in BOOLEAN,
           ~Unroutable(TargetURL(host, db, fails))
    PROVE  IF host \in DOMAIN DomainMap
           THEN TargetURL(host, db, fails).url = DomainMap[host]
           ELSE RedisEnable /\ TargetURL(host, db, fails).url = db[RedisKey(host)]
<1> DEFINE o == StaticMapURLSource(host)
           p == RedisTargetURL(host, db, fails)
<1>1. /\ o \in LookupResults /\ o.err = FALSE
      /\ o.url = IF host \in DOMAIN DomainMap THEN DomainMap[host] ELSE ""
      /\ host \in DOMAIN DomainMap => DomainMap[host] # ""
  BY URLAssumption DEF StaticMapURLSource, Found, LookupResults, Targets
<1>2. /\ p \in LookupResults
      /\ ~p.err => p.url = db[RedisKey(host)]
  <2>1. RedisKey(host) \in Text
    BY TextAssumption DEF RedisKey
  <2> QED BY <2>1 DEF RedisTargetURL, Found, Failed, LookupResults, Targets
<1>3. TargetURL(host, db, fails) = IF RedisEnable THEN ChainSources(<<o, p>>) ELSE o
  BY DEF TargetURL
<1> HIDE DEF o, p
<1>4. ChainSources(<<o, p>>) =
              IF o.err THEN Failed ELSE IF o.url # "" THEN o
              ELSE IF p.err THEN Failed ELSE IF p.url # "" THEN p ELSE Found("")
  BY <1>1, <1>2, ChainOfTwo
<1>5. Unroutable(Failed) /\ Unroutable(Found(""))
  BY DEF Unroutable, Failed, Found
<1>6. ~RedisEnable => o.url # ""
  BY <1>3 DEF Unroutable
<1> QED BY <1>1, <1>2, <1>3, <1>4, <1>5, <1>6, URLAssumption

-----------------------------------------------------------------------------
(* Type correctness.                                                       *)

USE DEF envoyVars, localVars, outsideVars, redisVars, endMetrics, ioMetrics

\* Every step of Envoy keeps the state well-typed.
LEMMA TypeEnvoyStep ==
    ASSUME TypeOK, NEW s \in Streams, EnvoyStep(s)
    PROVE  TypeOK'
<1>1. ASSUME NEW h \in HeaderMaps, NEW bodyless \in BOOLEAN, Open(s, h, bodyless)
      PROVE  TypeOK'
  <2>1. RedisKey(HostOf(h)) \in Text
    BY HeaderTypes, TextAssumption DEF RedisKey
  <2>2. <<HeadersMsg(h)>> \in Seq(Messages)
    BY DEF HeadersMsg, Messages
  <2>3. inbox' \in [Streams -> Seq(Messages)]
    BY <1>1, <2>2 DEF TypeOK, Open
  <2>4. mappedSince' \in [Streams -> SUBSET Targets]
    <3>1. {redis[RedisKey(HostOf(h))]} \in SUBSET Targets
      BY <2>1 DEF TypeOK
    <3> QED BY <1>1, <3>1 DEF TypeOK, Open
  <2>5. headers' \in [Streams -> HeaderMaps \cup {NoHeaders}]
    BY <1>1 DEF TypeOK, Open
  <2>6. stage' \in [Streams -> {"new", "body", "eos"}]
    BY <1>1 DEF TypeOK, Open
  <2>7. pc' \in [Streams -> PCs]
    BY <1>1 DEF TypeOK, Open, PCs
  <2>8. active' \in Int
    <3>1. active' = active + 1
      BY <1>1 DEF Open
    <3>2. active \in Int
      BY DEF TypeOK
    <3> QED BY <3>1, <3>2
  <2> QED BY <1>1, <2>3, <2>4, <2>5, <2>6, <2>7, <2>8 DEF TypeOK, Open
<1>2. ASSUME NEW n \in ChunkSizes, NEW eos \in BOOLEAN, EnvoyBody(s, n, eos)
      PROVE  TypeOK'
  <2>1. n \in Nat
    BY SizesAssumption
  <2>2. [i \in 1..n |-> sent[s] + i] \in Bytes
    BY <2>1 DEF TypeOK, Bytes
  <2>3. BodyMsg([i \in 1..n |-> sent[s] + i], eos) \in Messages
    BY <2>2 DEF BodyMsg, Messages
  <2>4. inbox' \in [Streams -> Seq(Messages)]
    <3> DEFINE m == BodyMsg([i \in 1..n |-> sent[s] + i], eos)
    <3>1. inbox' = [inbox EXCEPT ![s] = Append(@, m)]
      BY <1>2 DEF EnvoyBody, EnvoySends
    <3> HIDE DEF m
    <3> QED BY <2>3, <3>1 DEF TypeOK, m
  <2>5. sent' \in [Streams -> Nat]
    BY <1>2, <2>1 DEF TypeOK, EnvoyBody
  <2> QED BY <1>2, <2>4, <2>5 DEF TypeOK, EnvoyBody
<1>3. ASSUME NEW t \in SideMessages, EnvoySide(s, t)
      PROVE  TypeOK'
  <2>1. SideMsg(t) \in Messages
    BY DomainAssumption DEF SideMsg, Messages
  <2> QED BY <1>3, <2>1 DEF TypeOK, EnvoySide, EnvoySends
<1>4. ASSUME NEW how \in {"halfClosed", "cancelled"}, EnvoyCloses(s, how)
      PROVE  TypeOK'
  BY <1>4 DEF TypeOK, EnvoyCloses
<1> QED BY <1>1, <1>2, <1>3, <1>4 DEF EnvoyStep

\* A write to Redis keeps the state well-typed.
LEMMA TypeRedisStep ==
    ASSUME TypeOK, RedisStep
    PROVE  TypeOK'
<1>1. PICK k \in RedisHosts, u \in Targets : RedisSet(k, u)
  BY DEF RedisStep
<1> QED BY <1>1 DEF TypeOK, RedisSet

Exits == {"none", "clean", "ctx"} \cup ErrorTypes
Statuses == {200, 500} \cup MappedCodes

\* The variables Finish assigns have their types afterwards.
EndTyped ==
    /\ pc' \in [Streams -> PCs]
    /\ exit' \in [Streams -> Exits]
    /\ active' \in Int
    /\ requestsTotal' \in [Categories -> Nat]
    /\ errorsTotal' \in [ErrorTypes -> Nat]

\* The deferred calls of Process keep the metrics well-typed.
LEMMA FinishType ==
    ASSUME TypeOK, NEW s \in Streams, NEW why \in Exits, NEW code \in Statuses,
           Finish(s, why, code)
    PROVE  EndTyped
<1>1. pc' \in [Streams -> PCs]
  BY DEF TypeOK, Finish, RecordRequest, RecordError, Goto, PCs
<1>2. exit' \in [Streams -> Exits]
  BY DEF TypeOK, Finish, RecordRequest, RecordError, Exits
<1>3. active' = active - 1 /\ active \in Int
  BY DEF TypeOK, Finish, RecordRequest, RecordError
<1>4. requestsTotal' \in [Categories -> Nat]
  <2>1. StatusCategory(code) \in Categories
    BY CategoryType DEF Statuses
  <2>2. requestsTotal' = [requestsTotal EXCEPT ![StatusCategory(code)] = @ + 1]
    BY DEF Finish, RecordRequest, RecordError
  <2>3. requestsTotal \in [Categories -> Nat]
    BY DEF TypeOK
  <2> QED BY <2>1, <2>2, <2>3
<1>5. errorsTotal' \in [ErrorTypes -> Nat]
  <2>1. errorsTotal' = [e \in ErrorTypes |-> errorsTotal[e] + (IF e = why THEN 1 ELSE 0)]
    BY DEF Finish, RecordRequest, RecordError
  <2>2. errorsTotal \in [ErrorTypes -> Nat]
    BY DEF TypeOK
  <2> QED BY <2>1, <2>2
<1> QED BY <1>1, <1>2, <1>3, <1>4, <1>5 DEF EndTyped

\* Preparing a response keeps the handler's locals well-typed.
LEMMA RespondType ==
    ASSUME TypeOK, NEW s \in Streams, NEW r \in Replies, Respond(s, r)
    PROVE  pc' \in [Streams -> PCs] /\ reply' \in [Streams -> Replies]
BY DEF TypeOK, Respond, Goto, PCs

\* So does preparing an error response (immediateErrorResponse).
LEMMA RespondErrorType ==
    ASSUME TypeOK, NEW s \in Streams, NEW c \in {400, 405, 411, 413, 415, 500, 502},
           RespondError(s, c)
    PROVE  pc' \in [Streams -> PCs] /\ reply' \in [Streams -> Replies]
BY RespondType, ErrorReplyType DEF RespondError

\* Messages change streamState within its type.
LEMMA StreamStateType ==
    ASSUME NEW x \in StreamStates
    PROVE  /\ \A b \in Bytes : WithBody(x, b) \in StreamStates
           /\ \A h \in HeaderMaps : WithHeaders(x, h) \in StreamStates
<1>1. ASSUME NEW b \in Bytes PROVE [x EXCEPT !.body = b] \in StreamStates
  BY DEF StreamStates
<1>2. ASSUME NEW m \in Text, NEW h \in Text, NEW c \in Text, NEW config \in BOOLEAN
      PROVE  [x EXCEPT !.httpMethod = m, !.host = h, !.reqContentType = c,
                       !.configRequest = @ \/ config] \in StreamStates
  BY DEF StreamStates
<1>3. ASSUME NEW h \in HeaderMaps PROVE WithHeaders(x, h) \in StreamStates
  <2>1. IsConfigRequest(h) \in BOOLEAN
    BY DEF IsConfigRequest
  <2> QED BY <1>2, <2>1, HeaderTypes DEF WithHeaders
<1> QED BY <1>1, <1>3 DEF WithBody

\* The steps of the receive loop keep the state well-typed.
LEMMA TypeRecvStep ==
    ASSUME TypeOK, NEW s \in Streams,
           \/ SelectCtxDone(s) \/ SelectDefault(s)
           \/ RecvEOF(s) \/ RecvError(s)
           \/ RecvHeaders(s) \/ RecvBodyTooLarge(s) \/ RecvBody(s)
           \/ RecvIgnored(s) \/ RecvUnknown(s)
    PROVE  TypeOK'
<1> USE DEF Statuses, Exits
<1>0. st[s] \in StreamStates
  BY DEF TypeOK
<1>1. statusCode[s] \in Statuses
  BY DEF TypeOK
<1>2. \A t : Recv(s, t) =>
        /\ inbox' \in [Streams -> Seq(Messages)]
        /\ Head(inbox[s]) \in Messages /\ Head(inbox[s]).type = t
  BY DEF Recv, TypeOK
<1>3. CASE SelectCtxDone(s)
  <2>1. Finish(s, "ctx", statusCode[s])
    BY <1>3 DEF SelectCtxDone
  <2>2. EndTyped
    BY <1>1, <2>1, FinishType
  <2> QED BY <1>3, <2>2 DEF TypeOK, SelectCtxDone, EndTyped
<1>4. CASE SelectDefault(s)
  BY <1>4 DEF TypeOK, SelectDefault, Goto, PCs
<1>5. CASE RecvEOF(s)
  <2>1. Finish(s, "clean", statusCode[s])
    BY <1>5 DEF RecvEOF
  <2>2. EndTyped
    BY <1>1, <2>1, FinishType
  <2> QED BY <1>5, <2>2 DEF TypeOK, RecvEOF, EndTyped
<1>6. CASE RecvError(s)
  <2>1. PICK why \in {"clean", "recv_error"} : Finish(s, why, statusCode[s])
    BY <1>6 DEF RecvError
  <2>2. why \in Exits
    BY <2>1 DEF ErrorTypes
  <2>3. EndTyped
    BY <1>1, <2>1, <2>2, FinishType
  <2> QED BY <1>6, <2>3 DEF TypeOK, RecvError, EndTyped
<1>7. CASE RecvHeaders(s)
  <2> DEFINE h == Head(inbox[s]).headers
  <2>1. Recv(s, "headers")
    BY <1>7 DEF RecvHeaders
  <2>2. h \in HeaderMaps
    BY <1>2, <2>1 DEF Messages
  <2>3. st' \in [Streams -> StreamStates]
    <3>1. WithHeaders(st[s], h) \in StreamStates
      BY <1>0, <2>2, StreamStateType
    <3> QED BY <1>7, <3>1 DEF RecvHeaders, TypeOK
  <2>4. pc' \in [Streams -> PCs] /\ reply' \in [Streams -> Replies]
    <3>1. CASE HeaderError(h) # NoError
      <4>1. RespondError(s, HeaderError(h))
        BY <1>7, <3>1 DEF RecvHeaders
      <4>2. HeaderError(h) \in {400, 405, 411, 413, 415, 500, 502}
        BY <3>1, HeaderErrorType
      <4> QED BY <4>1, <4>2, RespondErrorType
    <3>2. CASE HeaderError(h) = NoError
      BY <1>7, <3>2 DEF RecvHeaders, Goto, TypeOK, PCs
    <3> QED BY <3>1, <3>2
  <2> QED BY <1>2, <1>7, <2>1, <2>3, <2>4 DEF TypeOK, RecvHeaders
<1>8. CASE RecvBodyTooLarge(s)
  <2>1. Recv(s, "body") /\ RespondError(s, 413)
    BY <1>8 DEF RecvBodyTooLarge
  <2>2. st' \in [Streams -> StreamStates]
    <3>1. <<>> \in Bytes
      BY DEF Bytes
    <3>2. WithBody(st[s], <<>>) \in StreamStates
      BY <1>0, <3>1, StreamStateType
    <3> QED BY <1>8, <3>2 DEF RecvBodyTooLarge, TypeOK
  <2>3. pc' \in [Streams -> PCs] /\ reply' \in [Streams -> Replies]
    BY <2>1, RespondErrorType
  <2> QED BY <1>2, <1>8, <2>1, <2>2, <2>3 DEF TypeOK, RecvBodyTooLarge
<1>9. CASE RecvBody(s)
  <2> DEFINE m == Head(inbox[s])
  <2>1. Recv(s, "body")
    BY <1>9 DEF RecvBody
  <2>2. m.bytes \in Bytes /\ m.eos \in BOOLEAN
    BY <1>2, <2>1 DEF Messages
  <2>3. st' \in [Streams -> StreamStates]
    <3>1. st[s].body \o m.bytes \in Bytes
      BY <2>2 DEF TypeOK, StreamStates, Bytes
    <3>2. WithBody(st[s], st[s].body \o m.bytes) \in StreamStates
      BY <1>0, <3>1, StreamStateType
    <3> QED BY <1>9, <3>2 DEF RecvBody, TypeOK
  <2>4. CASE m.eos /\ st[s].configRequest
    <3>1. Finish(s, "process_error", statusCode[s])
      BY <1>9, <2>4 DEF RecvBody
    <3>2. "process_error" \in Exits
      BY DEF ErrorTypes
    <3>3. EndTyped
      BY <1>1, <3>1, <3>2, FinishType
    <3> QED BY <1>2, <1>9, <2>1, <2>3, <3>3 DEF TypeOK, RecvBody, EndTyped
  <2>5. CASE ~(m.eos /\ st[s].configRequest)
    <3>1. pc' \in [Streams -> PCs] /\ UNCHANGED <<exit, endMetrics>>
      BY <1>9, <2>5 DEF RecvBody, Goto, TypeOK, PCs
    <3> QED BY <1>2, <1>9, <2>1, <2>3, <3>1 DEF TypeOK, RecvBody
  <2> QED BY <2>4, <2>5
<1>10. CASE RecvIgnored(s)
  <2>1. inbox' \in [Streams -> Seq(Messages)]
    BY <1>2, <1>10 DEF RecvIgnored
  <2> QED BY <1>10, <2>1 DEF TypeOK, RecvIgnored, Goto, PCs
<1>11. CASE RecvUnknown(s)
  <2>1. Recv(s, "unknown") /\ Finish(s, "unknown_request_type", statusCode[s])
    BY <1>11 DEF RecvUnknown
  <2>2. "unknown_request_type" \in Exits
    BY DEF ErrorTypes
  <2>3. EndTyped
    BY <1>1, <2>1, <2>2, FinishType
  <2> QED BY <1>2, <1>11, <2>1, <2>3 DEF TypeOK, RecvUnknown, EndTyped
<1> QED BY <1>3, <1>4, <1>5, <1>6, <1>7, <1>8, <1>9, <1>10, <1>11

\* Looking up the gateway keeps the state well-typed.
LEMMA TypeLookup ==
    ASSUME TypeOK, NEW s \in Streams, NEW next \in {"do", "kcFetch"}, NEW code \in {500, 502},
           LookupThen(s, next, code)
    PROVE  TypeOK'
<1>1. PICK fails \in BOOLEAN :
        LET r == TargetURL(st[s].host, redis, fails) IN
        /\ IF Unroutable(r)
           THEN RespondError(s, code) /\ UNCHANGED target
           ELSE /\ target' = [target EXCEPT ![s] = r.url]
                /\ Goto(s, next)
                /\ UNCHANGED reply
        /\ UNCHANGED <<envoyVars, inbox, st, statusCode, rsp, outsideVars,
                       redisVars, endMetrics, ioMetrics>>
  BY DEF LookupThen
<1> DEFINE r == TargetURL(st[s].host, redis, fails)
<1>2. r \in LookupResults
  <2>1. st[s].host \in Text /\ redis \in [Text -> Targets]
    BY DEF TypeOK, StreamStates
  <2> QED BY <2>1, TargetURLType
<1>3. r.url \in Targets
  BY <1>2 DEF LookupResults
<1> HIDE DEF r
<1>4. /\ pc' \in [Streams -> PCs] /\ reply' \in [Streams -> Replies]
      /\ target' \in [Streams -> Targets]
  <2>1. CASE Unroutable(r)
    <3>1. RespondError(s, code) /\ UNCHANGED target
      BY <1>1, <2>1 DEF r
    <3>2. pc' \in [Streams -> PCs] /\ reply' \in [Streams -> Replies]
      BY <3>1, RespondErrorType
    <3> QED BY <3>1, <3>2 DEF TypeOK
  <2>2. CASE ~Unroutable(r)
    <3>1. /\ target' = [target EXCEPT ![s] = r.url]
          /\ Goto(s, next) /\ UNCHANGED reply
      BY <1>1, <2>2 DEF r
    <3> QED BY <1>3, <3>1 DEF TypeOK, Goto, PCs
  <2> QED BY <2>1, <2>2
<1>5. UNCHANGED <<envoyVars, inbox, st, statusCode, rsp, outsideVars, redisVars,
                  endMetrics, ioMetrics>>
  BY <1>1
<1> QED BY <1>4, <1>5 DEF TypeOK

\* RecordGatewayRequest keeps its counter well-typed.
LEMMA GatewayMetricType ==
    ASSUME TypeOK, NEW code \in {0} \cup GatewayStatuses, RecordGatewayRequest(code)
    PROVE  gatewayRequestsTotal' \in [Categories -> Nat]
<1>1. StatusCategory(code) \in Categories
  BY CategoryType
<1>2. gatewayRequestsTotal \in [Categories -> Nat]
  BY DEF TypeOK
<1> QED BY <1>1, <1>2 DEF RecordGatewayRequest

\* What Relay sends is a well-formed request (relayer.go, NewRequest).
LEMMA GatewayRequestType ==
    ASSUME TypeOK, NEW s \in Streams, target[s] \in URLs
    PROVE  GatewayRequest(s) \in GatewayRequests
<1>1. /\ st[s].httpMethod \in Text /\ st[s].reqContentType \in Text
      /\ st[s].body \in Bytes /\ Len(outbox[s]) \in Nat
  BY DEF TypeOK, StreamStates
<1> QED BY <1>1 DEF GatewayRequest, GatewayRequests, WireMethod

\* The status of a response is one that Process may record.
LEMMA ReplyStatus == \A r \in Replies : r.status \in Statuses
BY DEF Replies, Statuses

\* The steps of forwardAndRespond, respondKeyConfig and the send loop keep the
\* state well-typed.
LEMMA TypeRelayStep ==
    ASSUME TypeOK, NEW s \in Streams, pc[s] = "do" => target[s] \in URLs,
           \/ Lookup(s) \/ Do(s) \/ DoFailed(s)
           \/ \E code \in GatewayStatuses : DoResponse(s, code)
           \/ ReadFailed(s)
           \/ \E n \in ReplySizes : Read(s, n)
           \/ Record(s)
           \/ KcLookup(s)
           \/ \E code \in {0} \cup GatewayStatuses, n \in 0..KeyConfigSize : KcFetch(s, code, n)
           \/ SendOK(s) \/ SendFailed(s)
    PROVE  TypeOK'
<1>0. "" \in Targets
  BY DEF Targets
<1>1. CASE Lookup(s) \/ KcLookup(s)
  BY <1>1, TypeLookup DEF Lookup, KcLookup
<1>2. CASE Do(s)
  <2>1. GatewayRequest(s) \in GatewayRequests
    BY <1>2, GatewayRequestType DEF Do
  <2>2. gateway' \in [Streams -> Seq(GatewayRequests)]
    <3>1. gateway[s] \in Seq(GatewayRequests)
      BY DEF TypeOK
    <3>2. Append(gateway[s], GatewayRequest(s)) \in Seq(GatewayRequests)
      BY <2>1, <3>1
    <3> QED BY <1>2, <3>2 DEF Do, TypeOK
  <2>3. pc' \in [Streams -> PCs]
    BY <1>2 DEF Do, TypeOK, Goto, PCs
  <2> QED BY <1>0, <1>2, <2>2, <2>3 DEF TypeOK, Do
<1>3. CASE DoFailed(s)
  <2>1. pc' \in [Streams -> PCs] /\ reply' \in [Streams -> Replies]
    <3>1. RespondError(s, 502)
      BY <1>3 DEF DoFailed
    <3> QED BY <3>1, RespondErrorType
  <2>2. gatewayRequestsTotal' \in [Categories -> Nat]
    BY <1>3, GatewayMetricType DEF DoFailed
  <2> QED BY <1>0, <1>3, <2>1, <2>2 DEF TypeOK, DoFailed
<1>4. ASSUME NEW code \in GatewayStatuses, DoResponse(s, code)
      PROVE  TypeOK'
  <2>1. gatewayRequestsTotal' \in [Categories -> Nat]
    BY <1>4, GatewayMetricType DEF DoResponse
  <2>2. rsp' \in [Streams -> Responses]
    <3>1. Response(code, 0, FALSE) \in Responses
      BY DEF Response, Responses
    <3> QED BY <1>4, <3>1 DEF DoResponse, TypeOK
  <2> QED BY <1>4, <2>1, <2>2 DEF TypeOK, DoResponse, Goto, PCs
<1>5. CASE ReadFailed(s)
  <2>1. pc' \in [Streams -> PCs] /\ reply' \in [Streams -> Replies]
    BY <1>5, RespondErrorType DEF ReadFailed
  <2> QED BY <1>5, <2>1 DEF TypeOK, ReadFailed
<1>6. ASSUME NEW n \in ReplySizes, Read(s, n)
      PROVE  TypeOK'
  <2>1. n \in Nat
    BY SizesAssumption
  <2>2. rsp' \in [Streams -> Responses]
    <3>1. rsp[s].status \in {0} \cup GatewayStatuses
      BY DEF TypeOK, Responses
    <3>2. Response(rsp[s].status, n, TRUE) \in Responses
      BY <2>1, <3>1 DEF Response, Responses
    <3> QED BY <1>6, <3>2 DEF Read, TypeOK
  <2>3. CASE IsSuccess(rsp[s].status)
    <3>1. RecordTrafficIO(st[s].host, Len(st[s].body), n) /\ Goto(s, "record") /\ UNCHANGED reply
      BY <1>6, <2>3 DEF Read
    <3>2. st[s].host \in Text /\ Len(st[s].body) \in Nat
      BY DEF TypeOK, StreamStates, Bytes
    <3>3. trafficBytes' \in [Text -> [in : Nat, out : Nat]]
      <4> DEFINE old == trafficBytes[st[s].host]
                 new == [in |-> old.in + Len(st[s].body), out |-> old.out + n]
      <4>1. old \in [in : Nat, out : Nat]
        BY <3>2 DEF TypeOK
      <4>2. new \in [in : Nat, out : Nat]
        <5>1. old.in \in Nat /\ old.out \in Nat
          BY <4>1
        <5> HIDE DEF old
        <5> QED BY <2>1, <3>2, <5>1
      <4>3. trafficBytes' = [trafficBytes EXCEPT ![st[s].host] = new]
        BY <3>1 DEF RecordTrafficIO
      <4> HIDE DEF new
      <4> QED BY <4>2, <4>3 DEF TypeOK
    <3>4. pc' \in [Streams -> PCs]
      BY <3>1 DEF TypeOK, Goto, PCs
    <3> QED BY <1>6, <2>2, <3>1, <3>3, <3>4 DEF TypeOK, Read
  <2>4. CASE ~IsSuccess(rsp[s].status)
    <3>1. RespondError(s, 502) /\ UNCHANGED trafficBytes
      BY <1>6, <2>4 DEF Read
    <3>2. pc' \in [Streams -> PCs] /\ reply' \in [Streams -> Replies]
      BY <3>1, RespondErrorType
    <3> QED BY <1>6, <2>2, <3>1, <3>2 DEF TypeOK, Read
  <2> QED BY <2>3, <2>4
<1>7. CASE Record(s)
  <2>1. rsp[s].bytes \in Nat
    BY DEF TypeOK, Responses
  <2>2. OpaqueResponse(ContentTypeOHTTPRes, rsp[s].bytes) \in Replies
    BY <2>1, OpaqueReplyType
  <2>3. pc' \in [Streams -> PCs] /\ reply' \in [Streams -> Replies]
    BY <1>7, <2>2, RespondType DEF Record
  <2> QED BY <1>7, <2>3 DEF TypeOK, Record
<1>8. ASSUME NEW code \in {0} \cup GatewayStatuses, NEW n \in 0..KeyConfigSize, KcFetch(s, code, n)
      PROVE  TypeOK'
  <2>1. n \in Nat
    BY SizesAssumption
  <2>2. OpaqueResponse(ContentTypeOHTTPKeys, n) \in Replies
    BY <2>1, OpaqueReplyType
  <2>3. pc' \in [Streams -> PCs] /\ reply' \in [Streams -> Replies]
    <3>1. CASE code = 200
      BY <1>8, <2>2, <3>1, RespondType DEF KcFetch
    <3>2. CASE code # 200
      <4>1. RespondError(s, 500)
        BY <1>8, <3>2 DEF KcFetch
      <4> QED BY <4>1, RespondErrorType
    <3> QED BY <3>1, <3>2
  <2> QED BY <1>0, <1>8, <2>3 DEF TypeOK, KcFetch
<1>9. CASE SendOK(s)
  <2>1. reply[s] \in Replies /\ reply[s].status \in {200, 500} \cup MappedCodes
    BY ReplyStatus DEF TypeOK, Statuses
  <2>2. outbox' \in [Streams -> Seq(Replies)]
    BY <1>9, <2>1 DEF SendOK, TypeOK
  <2>3. NoReply \in Replies
    BY OpaqueReplyType
  <2>4. reply' \in [Streams -> Replies]
    BY <1>9, <2>3 DEF SendOK, TypeOK
  <2>5. statusCode' \in [Streams -> {200, 500} \cup MappedCodes]
    BY <1>9, <2>1 DEF SendOK, TypeOK
  <2>6. pc' \in [Streams -> PCs]
    BY <1>9 DEF SendOK, TypeOK, Goto, PCs
  <2> QED BY <1>9, <2>2, <2>4, <2>5, <2>6 DEF TypeOK, SendOK
<1>10. CASE SendFailed(s)
  <2>1. reply[s].status \in {200, 500} \cup MappedCodes
    BY ReplyStatus DEF TypeOK, Statuses
  <2>2. "send_error" \in Exits
    BY DEF Exits, ErrorTypes
  <2>3. EndTyped
    BY <1>10, <2>1, <2>2, FinishType DEF SendFailed, Statuses
  <2>4. NoReply \in Replies
    BY OpaqueReplyType
  <2>5. reply' \in [Streams -> Replies]
    BY <1>10, <2>4 DEF SendFailed, TypeOK
  <2>6. statusCode' \in [Streams -> {200, 500} \cup MappedCodes]
    BY <1>10, <2>1 DEF SendFailed, TypeOK
  <2> QED BY <1>10, <2>3, <2>5, <2>6 DEF TypeOK, SendFailed, EndTyped, Exits
<1> QED BY <1>1, <1>2, <1>3, <1>4, <1>5, <1>6, <1>7, <1>8, <1>9, <1>10

-----------------------------------------------------------------------------
(* A stream's step touches no other stream.                                *)

\* A step of one stream's handler or of its Envoy leaves the other streams'
\* variables alone: Process shares nothing but the metrics.
LEMMA OnlyOwnStream ==
    ASSUME TypeOK, NEW s \in Streams, NEW q \in Streams, q # s,
           HandlerStep(s) \/ EnvoyStep(s)
    PROVE  /\ stage'[q] = stage[q] /\ headers'[q] = headers[q] /\ sent'[q] = sent[q]
           /\ inbox'[q] = inbox[q] /\ pc'[q] = pc[q] /\ st'[q] = st[q]
           /\ target'[q] = target[q] /\ outbox'[q] = outbox[q] /\ gateway'[q] = gateway[q]
           /\ exit'[q] = exit[q] /\ statusCode'[q] = statusCode[q]
           /\ mappedSince'[q] = mappedSince[q]
           /\ rsp'[q] = rsp[q] /\ reply'[q] = reply[q] /\ redis' = redis
<1> USE DEF Goto, Respond, RespondError, Finish, RecordRequest, RecordError, Recv, EnvoySends
<1>0. /\ DOMAIN stage = Streams /\ DOMAIN headers = Streams /\ DOMAIN sent = Streams
      /\ DOMAIN inbox = Streams /\ DOMAIN pc = Streams /\ DOMAIN st = Streams
      /\ DOMAIN target = Streams /\ DOMAIN outbox = Streams /\ DOMAIN gateway = Streams
      /\ DOMAIN exit = Streams /\ DOMAIN statusCode = Streams
      /\ DOMAIN mappedSince = Streams /\ DOMAIN rsp = Streams /\ DOMAIN reply = Streams
  BY DEF TypeOK
<1>1. CASE EnvoyStep(s)
  <2>1. ASSUME NEW h \in HeaderMaps, NEW bodyless \in BOOLEAN, Open(s, h, bodyless)
        PROVE  /\ stage'[q] = stage[q] /\ headers'[q] = headers[q] /\ inbox'[q] = inbox[q]
               /\ pc'[q] = pc[q] /\ mappedSince'[q] = mappedSince[q]
               /\ UNCHANGED <<sent, st, target, outbox, gateway, exit, statusCode, rsp, reply, redis>>
    BY <1>0, <2>1 DEF Open
  <2>2. ASSUME NEW n \in ChunkSizes, NEW eos \in BOOLEAN, EnvoyBody(s, n, eos)
        PROVE  /\ stage'[q] = stage[q] /\ inbox'[q] = inbox[q] /\ sent'[q] = sent[q]
               /\ UNCHANGED <<headers, pc, st, target, outbox, gateway, exit, statusCode,
                              rsp, reply, redisVars>>
    BY <1>0, <2>2 DEF EnvoyBody
  <2>3. ASSUME NEW t \in SideMessages, EnvoySide(s, t)
        PROVE  /\ stage'[q] = stage[q] /\ inbox'[q] = inbox[q]
               /\ UNCHANGED <<headers, sent, pc, st, target, outbox, gateway, exit, statusCode,
                              rsp, reply, redisVars>>
    BY <1>0, <2>3 DEF EnvoySide
  <2>4. ASSUME NEW how \in {"halfClosed", "cancelled"}, EnvoyCloses(s, how)
        PROVE  UNCHANGED <<stage, headers, sent, inbox, pc, st, target, outbox, gateway,
                           exit, statusCode, rsp, reply, redisVars>>
    BY <2>4 DEF EnvoyCloses
  <2> QED BY <1>1, <2>1, <2>2, <2>3, <2>4 DEF EnvoyStep
<1>2. CASE SelectCtxDone(s) \/ SelectDefault(s)
  BY <1>0, <1>2 DEF SelectCtxDone, SelectDefault
<1>3. CASE RecvEOF(s) \/ RecvError(s)
  BY <1>0, <1>3 DEF RecvEOF, RecvError
<1>4. CASE RecvIgnored(s) \/ RecvUnknown(s)
  BY <1>0, <1>4 DEF RecvIgnored, RecvUnknown
<1>5. CASE RecvHeaders(s)
  BY <1>0, <1>5 DEF RecvHeaders
<1>6. CASE RecvBodyTooLarge(s) \/ RecvBody(s)
  BY <1>0, <1>6 DEF RecvBodyTooLarge, RecvBody
<1>7. CASE Lookup(s) \/ KcLookup(s)
  <2>1. PICK next, code : LookupThen(s, next, code)
    BY <1>7 DEF Lookup, KcLookup
  <2>2. /\ pc'[q] = pc[q] /\ target'[q] = target[q] /\ reply'[q] = reply[q]
        /\ UNCHANGED <<stage, headers, sent, inbox, st, outbox, gateway, exit, statusCode,
                       rsp, redisVars>>
    BY <1>0, <2>1 DEF LookupThen
  <2> QED BY <2>2
<1>8. CASE Do(s) \/ DoFailed(s)
  <2>1. CASE Do(s)
    BY <1>0, <2>1 DEF Do
  <2>2. CASE DoFailed(s)
    BY <1>0, <2>2 DEF DoFailed
  <2> QED BY <1>8, <2>1, <2>2
<1>9. ASSUME NEW code \in GatewayStatuses, DoResponse(s, code)
      PROVE  /\ pc'[q] = pc[q] /\ rsp'[q] = rsp[q]
             /\ UNCHANGED <<stage, headers, sent, inbox, st, target, outbox, gateway, exit,
                            statusCode, reply, redisVars>>
  BY <1>0, <1>9 DEF DoResponse
<1>10. CASE ReadFailed(s) \/ Record(s)
  BY <1>0, <1>10 DEF ReadFailed, Record
<1>11. ASSUME NEW n \in ReplySizes, Read(s, n)
       PROVE  /\ pc'[q] = pc[q] /\ rsp'[q] = rsp[q] /\ reply'[q] = reply[q]
              /\ UNCHANGED <<stage, headers, sent, inbox, st, target, outbox, gateway, exit,
                             statusCode, redisVars>>
  BY <1>0, <1>11 DEF Read
<1>12. ASSUME NEW code \in {0} \cup GatewayStatuses, NEW n \in 0..KeyConfigSize, KcFetch(s, code, n)
       PROVE  /\ pc'[q] = pc[q] /\ target'[q] = target[q] /\ reply'[q] = reply[q]
              /\ UNCHANGED <<stage, headers, sent, inbox, st, outbox, gateway, exit,
                             statusCode, rsp, redisVars>>
  <2>1. CASE code = 200
    BY <1>0, <1>12, <2>1 DEF KcFetch
  <2>2. CASE code # 200
    <3>1. /\ pc' = [pc EXCEPT ![s] = "send"]
          /\ reply' = [reply EXCEPT ![s] = immediateErrorResponse(500)]
      BY <1>12, <2>2 DEF KcFetch
    <3>2. reply'[q] = reply[q] /\ pc'[q] = pc[q]
      BY <1>0, <3>1
    <3> QED BY <1>0, <1>12, <3>2 DEF KcFetch
  <2> QED BY <2>1, <2>2
<1>13. CASE SendOK(s)
  BY <1>0, <1>13 DEF SendOK
<1>14. CASE SendFailed(s)
  BY <1>0, <1>14 DEF SendFailed
<1> QED BY <1>1, <1>2, <1>3, <1>4, <1>5, <1>6, <1>7, <1>8, <1>9, <1>10, <1>11, <1>12,
           <1>13, <1>14 DEF HandlerStep

-----------------------------------------------------------------------------
(* The last chunk of a body.                                               *)

\* Process forwards when it receives a body message marked end-of-stream.
IsLast(m) == m.type = "body" /\ m.eos
HasLast(q) == \E i \in 1..Len(q) : IsLast(q[i])
UniqueLast(q) == \A i, j \in 1..Len(q) : IsLast(q[i]) /\ IsLast(q[j]) => i = j

\* Receiving a message: the rest of the queue has no last chunk that the queue
\* did not have, and none at all if the message was the last chunk.
LEMMA TailLast ==
    ASSUME NEW q \in Seq(Messages), q # <<>>, UniqueLast(q)
    PROVE  /\ HasLast(Tail(q)) => HasLast(q)
           /\ UniqueLast(Tail(q))
           /\ IsLast(Head(q)) => ~HasLast(Tail(q))
<1>1. /\ Len(Tail(q)) = Len(q) - 1 /\ Len(q) \in Nat \ {0}
      /\ \A i \in 1..Len(Tail(q)) : Tail(q)[i] = q[i+1] /\ i+1 \in 1..Len(q)
      /\ Head(q) = q[1] /\ 1 \in 1..Len(q)
  OBVIOUS
<1>2. HasLast(Tail(q)) => HasLast(q)
  BY <1>1 DEF HasLast
<1>3. UniqueLast(Tail(q))
  <2> SUFFICES ASSUME NEW i \in 1..Len(Tail(q)), NEW j \in 1..Len(Tail(q)),
                      IsLast(Tail(q)[i]), IsLast(Tail(q)[j])
               PROVE  i = j
    BY DEF UniqueLast
  <2>1. i + 1 = j + 1
    BY <1>1 DEF UniqueLast
  <2> QED BY <2>1
<1>4. ASSUME IsLast(Head(q)), HasLast(Tail(q)) PROVE FALSE
  <2>1. PICK i \in 1..Len(Tail(q)) : IsLast(Tail(q)[i])
    BY <1>4 DEF HasLast
  <2>2. 1 = i + 1
    BY <1>1, <1>4, <2>1 DEF UniqueLast
  <2> QED BY <2>2
<1> QED BY <1>2, <1>3, <1>4

\* Sending a message adds a last chunk only if it is one.
LEMMA AppendLast ==
    ASSUME NEW q \in Seq(Messages), NEW m \in Messages, UniqueLast(q), IsLast(m) => ~HasLast(q)
    PROVE  /\ HasLast(Append(q, m)) => HasLast(q) \/ IsLast(m)
           /\ UniqueLast(Append(q, m))
<1> DEFINE a == Append(q, m)
<1>1. /\ Len(a) = Len(q) + 1 /\ Len(q) \in Nat
      /\ \A i \in 1..Len(a) : a[i] = IF i <= Len(q) THEN q[i] ELSE m
  OBVIOUS
<1> HIDE DEF a
<1>2. HasLast(a) => HasLast(q) \/ IsLast(m)
  BY <1>1 DEF HasLast
<1>3. ASSUME NEW i \in 1..Len(a), NEW j \in 1..Len(a), IsLast(a[i]), IsLast(a[j])
      PROVE  i = j
  <2>1. CASE IsLast(m)
    BY <1>1, <1>3, <2>1 DEF HasLast
  <2>2. CASE ~IsLast(m)
    BY <1>1, <1>3, <2>2 DEF UniqueLast
  <2> QED BY <2>1, <2>2
<1> QED BY <1>2, <1>3 DEF a, UniqueLast

-----------------------------------------------------------------------------
(* The inductive invariant, stream by stream.                              *)

\* The stream has reached, or is about to reach, a gateway.
Forwarded(s) == gateway[s] # <<>> \/ pc[s] \in {"lookup", "do"}

\* A request is forwarded when its last chunk is received; Envoy marks one chunk
\* as the last and sends none after it.  So a last chunk still in flight means
\* that nothing was forwarded yet.
StreamInv(s) ==
    /\ pc[s] = "do" => target[s] \in URLs
    /\ Len(st[s].body) <= MaxRequestBodySize
    /\ \A i \in DOMAIN gateway[s] : Len(gateway[s][i].body) <= MaxRequestBodySize
    /\ UniqueLast(inbox[s])
    /\ HasLast(inbox[s]) => stage[s] = "eos" /\ ~Forwarded(s)
    /\ Forwarded(s) => stage[s] = "eos"
    /\ pc[s] \in {"lookup", "do"} => gateway[s] = <<>>
    /\ Len(gateway[s]) <= 1

IInv == TypeOK /\ \A s \in Streams : StreamInv(s)

\* What a step must leave alone for another stream's part to be kept.
LEMMA UntouchedStream ==
    ASSUME NEW s \in Streams, StreamInv(s),
           stage'[s] = stage[s], inbox'[s] = inbox[s], gateway'[s] = gateway[s],
           st'[s] = st[s], pc'[s] = pc[s], target'[s] = target[s]
    PROVE  StreamInv(s)'
BY DEF StreamInv, Forwarded

\* A step that forwards nothing, receives at most one message and buffers
\* within the limit keeps the invariant.
LEMMA QuietStep ==
    ASSUME TypeOK, NEW s \in Streams, StreamInv(s),
           stage'[s] = stage[s], gateway'[s] = gateway[s],
           \/ inbox'[s] = inbox[s]
           \/ inbox[s] # <<>> /\ inbox'[s] = Tail(inbox[s]),
           Len(st'[s].body) <= MaxRequestBodySize,
           pc'[s] \notin {"lookup", "do"}
    PROVE  StreamInv(s)'
<1>1. UniqueLast(inbox'[s]) /\ (HasLast(inbox'[s]) => HasLast(inbox[s]))
  <2>1. inbox[s] \in Seq(Messages)
    BY DEF TypeOK
  <2> QED BY <2>1, TailLast DEF StreamInv
<1> QED BY <1>1 DEF StreamInv, Forwarded

\* Every step of Envoy keeps the invariant of its own stream.
LEMMA EnvoyStepInv ==
    ASSUME TypeOK, NEW s \in Streams, StreamInv(s), EnvoyStep(s)
    PROVE  StreamInv(s)'
<1>0. inbox[s] \in Seq(Messages)
  BY DEF TypeOK
<1>1. ASSUME NEW h \in HeaderMaps, NEW bodyless \in BOOLEAN, Open(s, h, bodyless)
      PROVE  StreamInv(s)'
  <2>1. inbox'[s] = <<HeadersMsg(h)>> /\ pc'[s] = "select" /\ UNCHANGED <<st, gateway>>
    BY <1>1 DEF Open, TypeOK
  <2>2. gateway[s] = <<>>
    BY <1>1 DEF Open, StreamInv, Forwarded
  <2>3. ~HasLast(inbox'[s]) /\ UniqueLast(inbox'[s])
    <3> DEFINE q == <<HeadersMsg(h)>>
    <3>1. Len(q) = 1 /\ q[1].type = "headers"
      BY DEF HeadersMsg
    <3> QED BY <2>1, <3>1 DEF HasLast, UniqueLast, IsLast
  <2> QED BY <2>1, <2>2, <2>3 DEF StreamInv, Forwarded
<1>2. ASSUME NEW n \in ChunkSizes, NEW eos \in BOOLEAN, EnvoyBody(s, n, eos)
      PROVE  StreamInv(s)'
  <2> DEFINE m == BodyMsg([i \in 1..n |-> sent[s] + i], eos)
  <2>1. m \in Messages
    <3>1. n \in Nat /\ sent[s] \in Nat
      BY SizesAssumption DEF TypeOK
    <3>2. [i \in 1..n |-> sent[s] + i] \in Bytes
      BY <3>1 DEF Bytes
    <3> QED BY <3>2 DEF BodyMsg, Messages
  <2>2. IsLast(m) <=> eos
    BY DEF IsLast, BodyMsg
  <2>3. /\ inbox'[s] = Append(inbox[s], m) /\ stage[s] = "body"
        /\ stage'[s] = (IF eos THEN "eos" ELSE "body")
        /\ UNCHANGED <<pc, st, gateway, target>>
    BY <1>2 DEF EnvoyBody, EnvoySends, TypeOK
  <2> HIDE DEF m
  <2>4. ~HasLast(inbox[s]) /\ ~Forwarded(s) /\ UniqueLast(inbox[s])
    BY <2>3 DEF StreamInv
  <2>5. (HasLast(inbox'[s]) => IsLast(m)) /\ UniqueLast(inbox'[s])
    BY <1>0, <2>1, <2>3, <2>4, AppendLast
  <2> QED BY <2>2, <2>3, <2>4, <2>5 DEF StreamInv, Forwarded
<1>3. ASSUME NEW t \in SideMessages, EnvoySide(s, t)
      PROVE  StreamInv(s)'
  <2>1. SideMsg(t) \in Messages /\ ~IsLast(SideMsg(t))
    BY DomainAssumption DEF SideMsg, Messages, IsLast
  <2>2. /\ inbox'[s] = Append(inbox[s], SideMsg(t))
        /\ stage[s] = "eos" => stage'[s] = "eos"
        /\ UNCHANGED <<pc, st, gateway, target>>
    BY <1>3 DEF EnvoySide, EnvoySends, TypeOK
  <2>3. (HasLast(inbox'[s]) => HasLast(inbox[s])) /\ UniqueLast(inbox'[s])
    BY <1>0, <2>1, <2>2, AppendLast DEF StreamInv
  <2> QED BY <2>2, <2>3 DEF StreamInv, Forwarded
<1>4. ASSUME NEW how \in {"halfClosed", "cancelled"}, EnvoyCloses(s, how)
      PROVE  StreamInv(s)'
  BY <1>4, UntouchedStream DEF EnvoyCloses
<1> QED BY <1>1, <1>2, <1>3, <1>4 DEF EnvoyStep

\* A sum that is not over the limit is within it.
LEMMA WithinLimit ==
    ASSUME NEW a \in Nat, NEW b \in Nat, NEW c, c = a + b, ~(a + b > MaxRequestBodySize)
    PROVE  c <= MaxRequestBodySize
<1>1. MaxRequestBodySize \in Nat
  BY SizesAssumption
<1> QED BY <1>1

\* Every step of a handler keeps the invariant of its own stream.
LEMMA HandlerStepInv ==
    ASSUME TypeOK, NEW s \in Streams, StreamInv(s), HandlerStep(s)
    PROVE  StreamInv(s)'
<1> USE DEF Goto, Respond, RespondError, Finish, RecordRequest, RecordError
<1>0. Len(st[s].body) <= MaxRequestBodySize
  BY DEF StreamInv
<1>d. /\ DOMAIN pc = Streams /\ DOMAIN inbox = Streams /\ DOMAIN st = Streams
      /\ DOMAIN gateway = Streams /\ DOMAIN target = Streams
  BY DEF TypeOK
<1>1. CASE SelectCtxDone(s) \/ SelectDefault(s)
  BY <1>0, <1>d, <1>1, QuietStep DEF SelectCtxDone, SelectDefault
<1>2. CASE RecvEOF(s) \/ RecvError(s)
  BY <1>0, <1>d, <1>2, QuietStep DEF RecvEOF, RecvError
<1>3. CASE RecvHeaders(s)
  <2>1. /\ stage'[s] = stage[s] /\ gateway'[s] = gateway[s]
        /\ inbox[s] # <<>> /\ inbox'[s] = Tail(inbox[s])
        /\ pc'[s] \notin {"lookup", "do"}
    BY <1>d, <1>3 DEF RecvHeaders, Recv
  <2>2. st'[s].body = st[s].body
    <3>1. PICK h : st' = [st EXCEPT ![s] = WithHeaders(@, h)]
      BY <1>3 DEF RecvHeaders
    <3>2. st[s] \in StreamStates
      BY DEF TypeOK
    <3>3. WithHeaders(st[s], h).body = st[s].body
      BY <3>2 DEF WithHeaders, StreamStates
    <3> QED BY <1>d, <3>1, <3>3
  <2> QED BY <1>0, <2>1, <2>2, QuietStep
<1>4. CASE RecvBodyTooLarge(s)
  <2>1. /\ stage'[s] = stage[s] /\ gateway'[s] = gateway[s]
        /\ inbox[s] # <<>> /\ inbox'[s] = Tail(inbox[s])
        /\ pc'[s] \notin {"lookup", "do"}
        /\ st'[s] = WithBody(st[s], <<>>)
    BY <1>d, <1>4 DEF RecvBodyTooLarge, Recv
  <2>2. st[s] \in StreamStates
    BY DEF TypeOK
  <2>3. WithBody(st[s], <<>>).body = <<>>
    BY <2>2 DEF WithBody, StreamStates
  <2>4. Len(st'[s].body) <= MaxRequestBodySize
    BY <2>1, <2>3, SizesAssumption
  <2> QED BY <2>1, <2>4, QuietStep
<1>5. CASE RecvBody(s)
  <2> DEFINE m == Head(inbox[s])
  <2>1. /\ stage'[s] = stage[s] /\ gateway'[s] = gateway[s]
        /\ inbox[s] # <<>> /\ m.type = "body" /\ inbox'[s] = Tail(inbox[s])
        /\ st'[s] = WithBody(st[s], st[s].body \o m.bytes)
        /\ ~TooLarge(st[s].body, m.bytes)
        /\ pc'[s] \in {"done", "lookup", "select"}
        /\ pc'[s] = "lookup" => m.eos
    BY <1>d, <1>5 DEF RecvBody, Recv
  <2>2. inbox[s] \in Seq(Messages) /\ st[s] \in StreamStates
    BY DEF TypeOK
  <2>3. m.bytes \in Bytes /\ st[s].body \in Bytes
    BY <2>1, <2>2 DEF Messages, StreamStates
  <2>4. Len(st'[s].body) <= MaxRequestBodySize
    <3>1. WithBody(st[s], st[s].body \o m.bytes).body = st[s].body \o m.bytes
      BY <2>2 DEF WithBody, StreamStates
    <3>2. Len(st[s].body \o m.bytes) = Len(st[s].body) + Len(m.bytes)
      BY <2>3 DEF Bytes
    <3>3. Len(st[s].body) \in Nat /\ Len(m.bytes) \in Nat
      BY <2>3 DEF Bytes
    <3>4. Len(st'[s].body) = Len(st[s].body) + Len(m.bytes)
      BY <2>1, <3>1, <3>2
    <3>5. ~(Len(st[s].body) + Len(m.bytes) > MaxRequestBodySize)
      BY <2>1 DEF TooLarge
    <3> QED BY <3>3, <3>4, <3>5, WithinLimit
  <2>5. CASE pc'[s] # "lookup"
    BY <2>1, <2>4, <2>5, QuietStep
  <2>6. CASE pc'[s] = "lookup"
    <3>1. IsLast(m)
      BY <2>1, <2>6 DEF IsLast
    <3>2. HasLast(inbox[s])
      BY <2>1, <2>2, <3>1 DEF HasLast
    <3>3. stage[s] = "eos" /\ gateway[s] = <<>> /\ UniqueLast(inbox[s])
      BY <3>2 DEF StreamInv, Forwarded
    <3>4. ~HasLast(inbox'[s]) /\ UniqueLast(inbox'[s])
      BY <2>1, <2>2, <3>1, <3>3, TailLast
    <3> QED BY <2>1, <2>4, <2>6, <3>3, <3>4 DEF StreamInv, Forwarded
  <2> QED BY <2>5, <2>6
<1>6. CASE RecvIgnored(s) \/ RecvUnknown(s)
  BY <1>0, <1>d, <1>6, QuietStep DEF RecvIgnored, RecvUnknown, Recv
<1>7. CASE Lookup(s)
  <2>1. PICK fails \in BOOLEAN :
          LET r == TargetURL(st[s].host, redis, fails) IN
          /\ IF Unroutable(r)
             THEN RespondError(s, 502) /\ UNCHANGED target
             ELSE /\ target' = [target EXCEPT ![s] = r.url]
                  /\ Goto(s, "do")
                  /\ UNCHANGED reply
          /\ UNCHANGED <<envoyVars, inbox, st, statusCode, rsp, outsideVars,
                         redisVars, endMetrics, ioMetrics>>
    BY <1>7 DEF Lookup, LookupThen
  <2> DEFINE r == TargetURL(st[s].host, redis, fails)
  <2>2. r.url \in Targets
    <3>1. st[s].host \in Text /\ redis \in [Text -> Targets]
      BY DEF TypeOK, StreamStates
    <3> QED BY <3>1, TargetURLType DEF LookupResults
  <2> HIDE DEF r
  <2>3. CASE Unroutable(r)
    BY <1>0, <1>d, <2>1, <2>3, QuietStep DEF r
  <2>4. CASE ~Unroutable(r)
    <3>1. r.url \in URLs
      BY <2>2, <2>4 DEF Unroutable, Targets
    <3>2. target'[s] = r.url /\ pc'[s] = "do" /\ UNCHANGED <<stage, inbox, st, gateway>>
      BY <1>d, <2>1, <2>4 DEF r
    <3>3. pc[s] = "lookup"
      BY <1>7 DEF Lookup
    <3> QED BY <3>1, <3>2, <3>3 DEF StreamInv, Forwarded
  <2> QED BY <2>3, <2>4
<1>8. CASE Do(s)
  <2>1. /\ gateway[s] = <<>> /\ stage[s] = "eos" /\ ~HasLast(inbox[s])
    BY <1>8 DEF Do, StreamInv, Forwarded
  <2>2. /\ gateway'[s] = Append(gateway[s], GatewayRequest(s)) /\ pc'[s] = "await"
        /\ UNCHANGED <<stage, inbox, st>>
    BY <1>d, <1>8 DEF Do
  <2>3. gateway'[s] = <<GatewayRequest(s)>>
    BY <2>1, <2>2
  <2>4. GatewayRequest(s).body = st[s].body
    BY DEF GatewayRequest
  <2>5. /\ \A i \in DOMAIN gateway'[s] : Len(gateway'[s][i].body) <= MaxRequestBodySize
        /\ Len(gateway'[s]) <= 1
    BY <1>0, <2>3, <2>4
  <2> QED BY <2>1, <2>2, <2>5 DEF StreamInv, Forwarded
<1>9. CASE DoFailed(s)
  BY <1>0, <1>d, <1>9, QuietStep DEF DoFailed
<1>10. ASSUME NEW code \in GatewayStatuses, DoResponse(s, code)
       PROVE  StreamInv(s)'
  BY <1>0, <1>d, <1>10, QuietStep DEF DoResponse
<1>11. CASE ReadFailed(s) \/ Record(s)
  BY <1>0, <1>d, <1>11, QuietStep DEF ReadFailed, Record
<1>12. ASSUME NEW n \in ReplySizes, Read(s, n)
       PROVE  StreamInv(s)'
  BY <1>0, <1>d, <1>12, QuietStep DEF Read
<1>13. CASE KcLookup(s)
  BY <1>0, <1>d, <1>13, QuietStep DEF KcLookup, LookupThen
<1>14. ASSUME NEW code \in {0} \cup GatewayStatuses, NEW n \in 0..KeyConfigSize, KcFetch(s, code, n)
       PROVE  StreamInv(s)'
  <2>1. pc'[s] = "send" /\ UNCHANGED <<stage, inbox, st, gateway>>
    BY <1>d, <1>14 DEF KcFetch
  <2> QED BY <1>0, <2>1, QuietStep
<1>15. CASE SendOK(s) \/ SendFailed(s)
  <2>1. /\ pc'[s] \in {"select", "done"}
        /\ UNCHANGED <<stage, inbox, st, gateway>>
    BY <1>d, <1>15 DEF SendOK, SendFailed
  <2> QED BY <1>0, <2>1, QuietStep
<1> QED BY <1>1, <1>2, <1>3, <1>4, <1>5, <1>6, <1>7, <1>8, <1>9, <1>10, <1>11, <1>12,
           <1>13, <1>14, <1>15 DEF HandlerStep

-----------------------------------------------------------------------------
(* The invariant holds.                                                    *)

\* The invariant holds before the first request.
LEMMA InitInv == Init => IInv
<1> SUFFICES ASSUME Init PROVE IInv
  OBVIOUS
<1>1. TypeOK
  <2>1. "" \in Targets /\ NoReply \in Replies /\ NoResponse \in Responses
    BY OpaqueReplyType DEF Targets, NoResponse, Response, Responses
  <2>2. EmptyState \in StreamStates
    <3>1. <<>> \in Bytes
      BY DEF Bytes
    <3> QED BY <3>1, TextAssumption DEF EmptyState, StreamStates
  <2>3. trafficBytes \in [Text -> [in : Nat, out : Nat]]
    <3>1. [in |-> 0, out |-> 0] \in [in : Nat, out : Nat]
      OBVIOUS
    <3> QED BY <3>1 DEF Init
  <2>4. /\ inbox \in [Streams -> Seq(Messages)] /\ outbox \in [Streams -> Seq(Replies)]
        /\ gateway \in [Streams -> Seq(GatewayRequests)]
    <3>1. <<>> \in Seq(Messages) /\ <<>> \in Seq(Replies) /\ <<>> \in Seq(GatewayRequests)
      OBVIOUS
    <3> QED BY <3>1 DEF Init
  <2>5. statusCode \in [Streams -> {200, 500} \cup MappedCodes]
    BY DEF Init
  <2>6. /\ active \in Int /\ requestsTotal \in [Categories -> Nat]
        /\ errorsTotal \in [ErrorTypes -> Nat] /\ gatewayRequestsTotal \in [Categories -> Nat]
    <3>1. active = 0
      BY DEF Init
    <3>2. /\ requestsTotal = [c \in Categories |-> 0] /\ errorsTotal = [e \in ErrorTypes |-> 0]
          /\ gatewayRequestsTotal = [c \in Categories |-> 0]
      BY DEF Init
    <3> QED BY <3>1, <3>2
  <2>7. /\ stage \in [Streams -> {"new", "body", "eos"}] /\ sent \in [Streams -> Nat]
        /\ headers \in [Streams -> HeaderMaps \cup {NoHeaders}]
        /\ link \in [Streams -> {"open", "halfClosed", "cancelled"}]
    BY DEF Init
  <2>8. pc \in [Streams -> PCs] /\ st \in [Streams -> StreamStates]
    BY <2>2 DEF Init, PCs
  <2>9. /\ exit \in [Streams -> {"none", "clean", "ctx"} \cup ErrorTypes]
        /\ mappedSince \in [Streams -> SUBSET Targets]
    BY DEF Init
  <2>10. /\ target \in [Streams -> Targets] /\ rsp \in [Streams -> Responses]
         /\ reply \in [Streams -> Replies] /\ redis \in [Text -> Targets]
    BY <2>1 DEF Init
  <2> QED BY <2>3, <2>4, <2>5, <2>6, <2>7, <2>8, <2>9, <2>10 DEF TypeOK
<1>2. ASSUME NEW s \in Streams PROVE StreamInv(s)
  <2>1. st[s].body = <<>> /\ gateway[s] = <<>> /\ inbox[s] = <<>> /\ pc[s] = "idle"
    BY DEF Init, EmptyState
  <2>2. ~HasLast(inbox[s]) /\ UniqueLast(inbox[s])
    BY <2>1 DEF HasLast, UniqueLast
  <2> QED BY <2>1, <2>2, SizesAssumption DEF StreamInv, Forwarded
<1> QED BY <1>1, <1>2 DEF IInv

\* Every step of the system keeps the invariant.
LEMMA StepInv == IInv /\ [Next]_vars => IInv'
<1> SUFFICES ASSUME IInv, [Next]_vars PROVE IInv'
  OBVIOUS
<1> USE DEF IInv
<1>1. ASSUME NEW s \in Streams, HandlerStep(s) \/ EnvoyStep(s)
      PROVE  IInv'
  <2>1. TypeOK'
    <3>1. pc[s] = "do" => target[s] \in URLs
      BY DEF StreamInv
    <3> QED BY <1>1, <3>1, TypeEnvoyStep, TypeRecvStep, TypeRelayStep DEF HandlerStep
  <2>2. StreamInv(s)'
    BY <1>1, EnvoyStepInv, HandlerStepInv
  <2>3. ASSUME NEW q \in Streams, q # s PROVE StreamInv(q)'
    <3>1. /\ stage'[q] = stage[q] /\ inbox'[q] = inbox[q] /\ gateway'[q] = gateway[q]
          /\ st'[q] = st[q] /\ pc'[q] = pc[q] /\ target'[q] = target[q]
      BY <1>1, <2>3, OnlyOwnStream
    <3> QED BY <3>1, UntouchedStream
  <2> QED BY <2>1, <2>2, <2>3
<1>2. CASE RedisStep
  <2>1. UNCHANGED <<stage, inbox, gateway, st, pc, target>>
    BY <1>2 DEF RedisStep, RedisSet
  <2> QED BY <1>2, <2>1, TypeRedisStep, UntouchedStream
<1>3. CASE UNCHANGED vars
  <2>1. TypeOK'
    BY <1>3 DEF TypeOK, vars
  <2>2. UNCHANGED <<stage, inbox, gateway, st, pc, target>>
    BY <1>3 DEF vars
  <2> QED BY <2>1, <2>2, UntouchedStream
<1> QED BY <1>1, <1>2, <1>3 DEF Next

\* IInv holds in every reachable state of the relay.
THEOREM Invariance == Spec => []IInv
BY InitInv, StepInv, PTL DEF Spec

\* The variables of Process and its environment keep their types.
THEOREM TypeCorrect == Spec => []TypeOK
<1>1. IInv => TypeOK
  BY DEF IInv
<1> QED BY <1>1, Invariance, PTL

\* Whatever Envoy sends and however the streams interleave, a stream delivers at
\* most one request to a gateway (server.go, Process; relayer.go, Relay).
THEOREM DeliversAtMostOnce == Spec => []AtMostOnceDelivery
<1>1. IInv => AtMostOnceDelivery
  BY DEF IInv, StreamInv, AtMostOnceDelivery
<1> QED BY <1>1, Invariance, PTL

\* A stream never buffers or forwards more than --max-request-body-size bytes
\* (server.go, the check before append).
THEOREM BodyStaysBounded == Spec => []BodyBounded
<1>1. IInv => BodyBounded
  BY DEF IInv, StreamInv, BodyBounded
<1> QED BY <1>1, Invariance, PTL

=============================================================================
