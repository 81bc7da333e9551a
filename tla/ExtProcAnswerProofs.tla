------------------------- MODULE ExtProcAnswerProofs -------------------------
(***************************************************************************)
(* Proofs about ExtProcServer: what a stream forwards, where it forwards   *)
(* it to, and what it answers, for every set of streams, header maps and   *)
(* URLs and every limit.                                                   *)
(***************************************************************************)
EXTENDS ExtProcServerProofs

USE DEF envoyVars, localVars, outsideVars, redisVars, endMetrics, ioMetrics

-----------------------------------------------------------------------------
(* The inductive invariant, stream by stream.                              *)

\* The error code was sent to Envoy, or is about to be.
Tells(s, code) ==
    \/ Told(s, code, Len(outbox[s]))
    \/ pc[s] = "send" /\ reply[s].text = code

\* The handler has done nothing yet.
Silent(s) ==
    /\ st[s] = EmptyState /\ outbox[s] = <<>> /\ gateway[s] = <<>>
    /\ rsp[s] = NoResponse

\* The headers are still in flight.
Pending(s) == inbox[s] # <<>> /\ inbox[s][1].type = "headers"

\* Envoy sends the headers once, before anything else.  Process keeps of them
\* what it later routes by, and has their error answered first of all.
HeaderInv(s) ==
    /\ pc[s] = "idle" <=> stage[s] = "new"
    /\ pc[s] = "idle" => Silent(s) /\ inbox[s] = <<>> /\ sent[s] = 0
    /\ pc[s] # "idle" => headers[s] \in HeaderMaps
    /\ \A i \in 1..Len(inbox[s]) :
          inbox[s][i].type = "headers" => i = 1 /\ inbox[s][i].headers = headers[s]
    /\ Pending(s) => Silent(s) /\ pc[s] \in {"select", "recv", "done"}
    /\ pc[s] # "idle" /\ ~Pending(s) =>
          /\ st[s].host = HostOf(headers[s])
          /\ st[s].configRequest = IsConfigRequest(headers[s])
          /\ Running(s) /\ HeaderError(headers[s]) # NoError
                => Tells(s, HeaderError(headers[s]))

\* The first n bytes of a body, and its bytes after the a-th up to the b-th.
Upto(n) == [i \in 1..n |-> i]
Chunk(a, b) == [j \in 1..(b - a) |-> a + j]

\* The body messages of the queue q are cut at the positions e from a body of
\* which n bytes were sent: e[0] of them before the queue, e[i] up to the i-th
\* message.
Cuts(e, q, n) ==
    /\ e \in [0..Len(q) -> 0..n]
    /\ \A i \in 1..Len(q) :
          IF q[i].type = "body"
          THEN e[i-1] <= e[i] /\ q[i].bytes = Chunk(e[i-1], e[i])
          ELSE e[i] = e[i-1]
    /\ \A i \in 0..Len(q) :
          (\A j \in (i+1)..Len(q) : q[j].type # "body") => e[i] = n

NoBody(q) == \A i \in 1..Len(q) : q[i].type # "body"

\* The handler has buffered all that it received, or tells that it has not;
\* nothing of a body follows its last chunk, and none is left when that was
\* received.
BodyInv(s) ==
    /\ \E e \in [0..Len(inbox[s]) -> 0..sent[s]] :
          /\ Cuts(e, inbox[s], sent[s])
          /\ pc[s] # "done" => st[s].body = Upto(e[0]) \/ Tells(s, 413)
    /\ \A i, j \in 1..Len(inbox[s]) :
          i < j /\ IsLast(inbox[s][i]) => inbox[s][j].type # "body"
    /\ Forwarded(s) => NoBody(inbox[s])

\* The URL is the stream's host's.
Routed(s, u) ==
    LET host == HostOf(headers[s]) IN
    IF host \in DOMAIN DomainMap
    THEN u = DomainMap[host]
    ELSE RedisEnable /\ u \in mappedSince[s]

\* What was known when a request was forwarded.
Past(s) ==
    \A i \in DOMAIN gateway[s] :
        LET r == gateway[s][i] IN
        /\ ~IsConfigRequest(headers[s])
        /\ Routed(s, r.url)
        /\ r.after \in 0..Len(outbox[s])
        /\ \A k \in 1..r.after : outbox[s][k].ctype # ContentTypeOHTTPRes
        /\ HeaderError(headers[s]) # NoError => Told(s, HeaderError(headers[s]), r.after)
        /\ r.body # ClientBody(s) => Told(s, 413, r.after)

\* Only an OHTTP request is forwarded, to the gateway of its host.
ForwardInv(s) ==
    /\ Running(s) => redis[RedisKey(HostOf(headers[s]))] \in mappedSince[s]
    /\ pc[s] \in {"lookup", "do", "await", "read", "record"} => ~IsConfigRequest(headers[s])
    /\ pc[s] \in {"kcLookup", "kcFetch"} => IsConfigRequest(headers[s])
    /\ pc[s] = "do" => Routed(s, target[s])
    /\ Past(s)

\* A gateway has answered the stream's request with a success, completely.
Success(s) == gateway[s] # <<>> /\ rsp[s].complete /\ rsp[s].status \in 200..299

\* A response that is no error has its reason.
Justified(s, a) ==
    /\ a.ctype = ContentTypeOHTTPRes => Success(s) /\ a.bytes = rsp[s].bytes
    /\ a.ctype = ContentTypeOHTTPKeys => /\ IsConfigRequest(headers[s])
                                         /\ a.bytes \in 0..KeyConfigSize

\* Every response is justified, and the gateway's is the only one of its kind.
AnswerInv(s) ==
    /\ pc[s] \in {"await", "read", "record"} =>
          gateway[s] # <<>> /\ \A i \in 1..Len(outbox[s]) : outbox[s][i].ctype # ContentTypeOHTTPRes
    /\ gateway[s] # <<>> =>
          outbox[s] # <<>> \/ pc[s] \in {"await", "read", "record", "send", "done"}
    /\ gateway[s] = <<>> \/ pc[s] = "await" => rsp[s] = NoResponse
    /\ pc[s] = "read" => ~rsp[s].complete /\ rsp[s].status \in GatewayStatuses
    /\ pc[s] = "record" => Success(s)
    /\ pc[s] = "send" => Justified(s, reply[s])
    /\ \A i \in 1..Len(outbox[s]) : Justified(s, outbox[s][i])

ExchangeInv(s) == HeaderInv(s) /\ BodyInv(s) /\ ForwardInv(s) /\ AnswerInv(s)

AInv == IInv /\ \A s \in Streams : ExchangeInv(s)

-----------------------------------------------------------------------------
(* Queues of body messages.                                                *)

\* Receiving a message moves the cuts by one.
LEMMA CutsTail ==
    ASSUME NEW q \in Seq(Messages), q # <<>>, NEW n \in Nat, NEW e, Cuts(e, q, n)
    PROVE  Cuts([i \in 0..Len(Tail(q)) |-> e[i+1]], Tail(q), n)
<1> DEFINE t == Tail(q)
           f == [i \in 0..Len(t) |-> e[i+1]]
<1>1. /\ Len(t) \in Nat /\ Len(q) = Len(t) + 1
      /\ \A i \in 1..Len(t) : t[i] = q[i+1]
  OBVIOUS
<1> HIDE DEF t
<1>2. f \in [0..Len(t) -> 0..n]
  BY <1>1 DEF Cuts
<1>3. ASSUME NEW i \in 1..Len(t)
      PROVE  IF t[i].type = "body"
             THEN f[i-1] <= f[i] /\ t[i].bytes = Chunk(f[i-1], f[i])
             ELSE f[i] = f[i-1]
  <2>1. /\ f[i-1] = e[i] /\ f[i] = e[i+1] /\ t[i] = q[i+1]
        /\ i + 1 \in 1..Len(q) /\ (i + 1) - 1 = i
    BY <1>1
  <2>2. IF q[i+1].type = "body"
        THEN e[(i+1)-1] <= e[i+1] /\ q[i+1].bytes = Chunk(e[(i+1)-1], e[i+1])
        ELSE e[i+1] = e[(i+1)-1]
    BY <2>1 DEF Cuts
  <2> QED BY <2>1, <2>2
<1>4. ASSUME NEW i \in 0..Len(t), \A j \in (i+1)..Len(t) : t[j].type # "body"
      PROVE  f[i] = n
  <2>1. \A j \in ((i+1)+1)..Len(q) : q[j].type # "body"
    <3> SUFFICES ASSUME NEW j \in ((i+1)+1)..Len(q) PROVE q[j].type # "body"
      OBVIOUS
    <3>1. j - 1 \in (i+1)..Len(t) /\ q[j] = t[j-1]
      BY <1>1
    <3> QED BY <1>4, <3>1
  <2>2. i + 1 \in 0..Len(q) /\ f[i] = e[i+1]
    BY <1>1
  <2> QED BY <2>1, <2>2 DEF Cuts
<1> QED BY <1>2, <1>3, <1>4 DEF Cuts, t

\* Sending k more bytes, or a message of another kind, adds a cut.
LEMMA CutsAppend ==
    ASSUME NEW q \in Seq(Messages), NEW m \in Messages, NEW n \in Nat, NEW k \in Nat,
           NEW e, Cuts(e, q, n),
           IF m.type = "body" THEN m.bytes = Chunk(n, n + k) ELSE k = 0
    PROVE  Cuts([i \in 0..(Len(q)+1) |-> IF i <= Len(q) THEN e[i] ELSE n + k],
                Append(q, m), n + k)
<1> DEFINE a == Append(q, m)
           f == [i \in 0..(Len(q)+1) |-> IF i <= Len(q) THEN e[i] ELSE n + k]
<1>1. /\ Len(q) \in Nat /\ Len(a) = Len(q) + 1
      /\ \A i \in 1..Len(q) : a[i] = q[i]
      /\ a[Len(q) + 1] = m
  OBVIOUS
<1> HIDE DEF a
<1>2. e[Len(q)] = n
  BY <1>1 DEF Cuts
<1>3. f \in [0..Len(a) -> 0..(n+k)]
  <2>1. \A i \in 0..Len(q) : e[i] \in 0..n
    BY DEF Cuts
  <2> QED BY <1>1, <2>1
<1>4. ASSUME NEW i \in 1..Len(a)
      PROVE  IF a[i].type = "body"
             THEN f[i-1] <= f[i] /\ a[i].bytes = Chunk(f[i-1], f[i])
             ELSE f[i] = f[i-1]
  <2>1. CASE i <= Len(q)
    <3>1. i \in 1..Len(q) /\ f[i-1] = e[i-1] /\ f[i] = e[i] /\ a[i] = q[i]
      BY <1>1, <2>1
    <3> QED BY <3>1 DEF Cuts
  <2>2. CASE i = Len(q) + 1
    <3>1. f[i-1] = n /\ f[i] = n + k /\ a[i] = m
      BY <1>1, <1>2, <2>2
    <3> QED BY <3>1
  <2> QED BY <1>1, <2>1, <2>2
<1>5. ASSUME NEW i \in 0..Len(a), \A j \in (i+1)..Len(a) : a[j].type # "body"
      PROVE  f[i] = n + k
  <2>1. CASE i = Len(q) + 1
    BY <1>1, <2>1
  <2>2. CASE i <= Len(q)
    <3>1. m.type # "body"
      BY <1>1, <1>5, <2>2
    <3>2. \A j \in (i+1)..Len(q) : q[j].type # "body"
      BY <1>1, <1>5
    <3>3. i \in 0..Len(q) /\ f[i] = e[i]
      BY <1>1, <2>2
    <3>4. e[i] = n
      BY <3>2, <3>3 DEF Cuts
    <3> QED BY <3>1, <3>3, <3>4
  <2> QED BY <1>1, <2>1, <2>2
<1> QED BY <1>1, <1>3, <1>4, <1>5 DEF Cuts, a

\* Chunks are put together in order.
LEMMA UptoChunk ==
    ASSUME NEW a \in Nat, NEW b \in Nat, a <= b
    PROVE  Upto(a) \o Chunk(a, b) = Upto(b)
<1>1. /\ Upto(a) \in Seq(Nat) /\ Len(Upto(a)) = a
      /\ Chunk(a, b) \in Seq(Nat) /\ Len(Chunk(a, b)) = b - a
      /\ Upto(b) \in Seq(Nat) /\ Len(Upto(b)) = b
  BY DEF Upto, Chunk
<1> DEFINE c == Upto(a) \o Chunk(a, b)
<1>2. c \in Seq(Nat) /\ Len(c) = b
  BY <1>1
<1>3. \A i \in 1..b : c[i] = i
  <2> SUFFICES ASSUME NEW i \in 1..b PROVE c[i] = i
    OBVIOUS
  <2>1. c[i] = IF i <= a THEN Upto(a)[i] ELSE Chunk(a, b)[i - a]
    BY <1>1
  <2>2. CASE i <= a
    BY <2>1, <2>2 DEF Upto
  <2>3. CASE ~(i <= a)
    <3>1. i - a \in 1..(b - a) /\ a + (i - a) = i
      BY <2>3
    <3>2. Chunk(a, b)[i - a] = a + (i - a)
      BY <3>1 DEF Chunk
    <3> QED BY <2>1, <2>3, <3>1, <3>2
  <2> QED BY <2>2, <2>3
<1>4. \A i \in 1..b : Upto(b)[i] = i
  BY DEF Upto
<1> HIDE DEF c
<1>5. c = Upto(b)
  BY <1>1, <1>2, <1>3, <1>4
<1> QED BY <1>5 DEF c

-----------------------------------------------------------------------------
(* What a step may change and still keep each part of the invariant.       *)

\* Responses are only added.
Grown(s) ==
    /\ Len(outbox[s]) <= Len(outbox'[s])
    /\ \A i \in 1..Len(outbox[s]) : outbox'[s][i] = outbox[s][i]

\* The handler appends what it sends.
LEMMA AppendGrows ==
    ASSUME TypeOK, NEW s \in Streams, outbox'[s] = Append(outbox[s], reply[s])
    PROVE  /\ Grown(s) /\ Len(outbox'[s]) = Len(outbox[s]) + 1
           /\ outbox'[s][Len(outbox[s]) + 1] = reply[s]
           /\ Len(outbox[s]) \in Nat
<1>1. outbox[s] \in Seq(Replies) /\ reply[s] \in Replies
  BY DEF TypeOK
<1> QED BY <1>1 DEF Grown

\* An error that is sent, or waits to be sent next, is not forgotten.
LEMMA TellsKept ==
    ASSUME TypeOK, NEW s \in Streams,
           \/ pc[s] # "send" /\ outbox'[s] = outbox[s]
           \/ outbox'[s] = Append(outbox[s], reply[s])
    PROVE  \A code : Tells(s, code) => Tells(s, code)'
<1>0. Len(outbox[s]) \in Nat
  BY DEF TypeOK
<1>1. CASE pc[s] # "send" /\ outbox'[s] = outbox[s]
  BY <1>1 DEF Tells, Told
<1>2. CASE outbox'[s] = Append(outbox[s], reply[s])
  <2>1. /\ Grown(s) /\ Len(outbox'[s]) = Len(outbox[s]) + 1
        /\ outbox'[s][Len(outbox[s]) + 1] = reply[s]
    BY <1>2, AppendGrows
  <2>2. ASSUME NEW code, Tells(s, code) PROVE Told(s, code, Len(outbox[s]))'
    <3>1. CASE Told(s, code, Len(outbox[s]))
      BY <1>0, <2>1, <3>1 DEF Told, Grown
    <3>2. CASE pc[s] = "send" /\ reply[s].text = code
      BY <1>0, <2>1, <3>2 DEF Told
    <3> QED BY <2>2, <3>1, <3>2 DEF Tells
  <2> QED BY <2>2 DEF Tells
<1> QED BY <1>1, <1>2

\* What the headers say does not change while they do not.
LEMMA SameHeaders ==
    ASSUME NEW s \in Streams, headers'[s] = headers[s]
    PROVE  /\ HeaderError(headers[s])' = HeaderError(headers[s])
           /\ IsConfigRequest(headers[s])' = IsConfigRequest(headers[s])
           /\ HostOf(headers[s])' = HostOf(headers[s])
<1>1. HeaderError(headers[s])' = HeaderError(headers[s])
  BY DEF HeaderError, KeyConfigRequestError, OHTTPRequestError, IsConfigRequest, MethodOf
<1>2. IsConfigRequest(headers[s])' = IsConfigRequest(headers[s])
  BY DEF IsConfigRequest
<1>3. HostOf(headers[s])' = HostOf(headers[s])
  BY DEF HostOf
<1> QED BY <1>1, <1>2, <1>3

\* Once the headers were received, nothing changes what was kept of them.
LEMMA HeaderKept ==
    ASSUME TypeOK, NEW s \in Streams, HeaderInv(s), Running(s), ~Pending(s),
           pc'[s] # "idle", stage'[s] = stage[s], headers'[s] = headers[s],
           \/ inbox'[s] = inbox[s]
           \/ inbox[s] # <<>> /\ inbox'[s] = Tail(inbox[s]),
           st'[s].host = st[s].host, st'[s].configRequest = st[s].configRequest,
           Running(s)' => \A code : Tells(s, code) => Tells(s, code)'
    PROVE  HeaderInv(s)'
<1>0. inbox[s] \in Seq(Messages) /\ pc[s] # "idle"
  BY DEF TypeOK, Running
<1>1. \A i \in 1..Len(inbox[s]) : inbox[s][i].type # "headers"
  BY DEF HeaderInv, Pending
<1>2. \A i \in 1..Len(inbox'[s]) : inbox'[s][i].type # "headers"
  <2>1. CASE inbox'[s] = inbox[s]
    BY <1>1, <2>1
  <2>2. CASE inbox[s] # <<>> /\ inbox'[s] = Tail(inbox[s])
    <3>1. \A i \in 1..Len(inbox'[s]) : inbox'[s][i] = inbox[s][i+1] /\ i+1 \in 1..Len(inbox[s])
      BY <1>0, <2>2
    <3> QED BY <1>1, <3>1
  <2> QED BY <2>1, <2>2
<1>3. ~Pending(s)'
  <2>1. inbox'[s] \in Seq(Messages)
    <3>1. inbox[s] # <<>> => Tail(inbox[s]) \in Seq(Messages)
      BY <1>0
    <3> QED BY <1>0, <3>1
  <2> QED BY <1>2, <2>1 DEF Pending
<1>4. Running(s)' /\ HeaderError(headers[s]) # NoError => Tells(s, HeaderError(headers[s]))'
  <2>1. HeaderError(headers[s]) # NoError => Tells(s, HeaderError(headers[s]))
    BY <1>0 DEF HeaderInv
  <2>2. \A code : Running(s)' /\ Tells(s, code) => Tells(s, code)'
    OBVIOUS
  <2>3. Running(s)' /\ Tells(s, HeaderError(headers[s]))
           => \/ \E i \in 1..Len(outbox'[s]) : outbox'[s][i].text = HeaderError(headers[s])
              \/ pc'[s] = "send" /\ reply'[s].text = HeaderError(headers[s])
    BY <2>2 DEF Tells, Told
  <2> QED BY <2>1, <2>3, SameHeaders DEF Tells, Told
<1> QED BY <1>0, <1>2, <1>3, <1>4, SameHeaders DEF HeaderInv

\* A step that receives nothing of the body and buffers nothing.
LEMMA BodyKept ==
    ASSUME TypeOK, NEW s \in Streams, BodyInv(s), pc[s] # "done", sent'[s] = sent[s],
           \/ inbox'[s] = inbox[s]
           \/ /\ inbox[s] # <<>> /\ inbox'[s] = Tail(inbox[s])
              /\ inbox[s][1].type # "body" \/ pc'[s] = "done",
           pc'[s] # "done" => /\ st'[s].body = st[s].body
                              /\ Tells(s, 413) => Tells(s, 413)',
           Forwarded(s)' => Forwarded(s)
    PROVE  BodyInv(s)'
<1>0. inbox[s] \in Seq(Messages) /\ sent[s] \in Nat
  BY DEF TypeOK
<1>1. PICK e \in [0..Len(inbox[s]) -> 0..sent[s]] :
          /\ Cuts(e, inbox[s], sent[s])
          /\ st[s].body = Upto(e[0]) \/ Tells(s, 413)
  BY DEF BodyInv
<1>2. CASE inbox'[s] = inbox[s]
  BY <1>1, <1>2 DEF BodyInv, NoBody
<1>3. CASE /\ inbox[s] # <<>> /\ inbox'[s] = Tail(inbox[s])
           /\ inbox[s][1].type # "body" \/ pc'[s] = "done"
  <2> DEFINE q == inbox[s]
             t == Tail(q)
             f == [i \in 0..Len(t) |-> e[i+1]]
  <2>1. /\ Len(t) \in Nat /\ Len(q) = Len(t) + 1
        /\ \A i \in 1..Len(t) : t[i] = q[i+1] /\ i + 1 \in 1..Len(q)
    BY <1>0, <1>3
  <2>2. Cuts(f, t, sent[s])
    BY <1>0, <1>1, <1>3, CutsTail
  <2>3. f[0] = e[1] /\ 1 \in 1..Len(q)
    BY <2>1
  <2>4. pc'[s] # "done" => e[1] = e[0]
    BY <1>1, <1>3, <2>3 DEF Cuts
  <2>5. \A i, j \in 1..Len(t) : i < j /\ IsLast(t[i]) => t[j].type # "body"
    <3> SUFFICES ASSUME NEW i \in 1..Len(t), NEW j \in 1..Len(t), i < j, IsLast(t[i])
                 PROVE  t[j].type # "body"
      OBVIOUS
    <3>1. i + 1 < j + 1 /\ IsLast(q[i+1]) /\ i+1 \in 1..Len(q) /\ j+1 \in 1..Len(q)
      BY <2>1
    <3> QED BY <2>1, <3>1 DEF BodyInv
  <2>6. NoBody(q) => NoBody(t)
    BY <2>1 DEF NoBody
  <2>7. f \in [0..Len(t) -> 0..sent[s]]
    BY <2>2 DEF Cuts
  <2> HIDE DEF f, t
  <2>8. inbox'[s] = t
    BY <1>3 DEF t
  <2>9. pc'[s] # "done" => st'[s].body = Upto(f[0]) \/ Tells(s, 413)'
    BY <1>1, <2>3, <2>4
  <2> QED BY <2>2, <2>5, <2>6, <2>7, <2>8, <2>9 DEF BodyInv
<1> QED BY <1>2, <1>3

\* What was known when a request was forwarded stays so.
LEMMA PastKept ==
    ASSUME TypeOK, NEW s \in Streams, Past(s),
           gateway'[s] = gateway[s], headers'[s] = headers[s],
           gateway[s] # <<>> => sent'[s] = sent[s],
           mappedSince[s] \subseteq mappedSince'[s], Grown(s)
    PROVE  Past(s)'
<1>0. Len(outbox[s]) \in Nat /\ gateway[s] \in Seq(GatewayRequests)
  BY DEF TypeOK
<1> SUFFICES ASSUME NEW i \in DOMAIN gateway[s]
             PROVE  LET r == gateway[s][i] IN
                    /\ ~IsConfigRequest(headers[s])
                    /\ Routed(s, r.url)'
                    /\ r.after \in 0..Len(outbox'[s])
                    /\ \A k \in 1..r.after : outbox'[s][k].ctype # ContentTypeOHTTPRes
                    /\ HeaderError(headers[s]) # NoError
                          => \E k \in 1..r.after : outbox'[s][k].text = HeaderError(headers[s])
                    /\ r.body # ClientBody(s)
                          => \E k \in 1..r.after : outbox'[s][k].text = 413
  <2>1. gateway[s] # <<>> => ClientBody(s)' = ClientBody(s)
    BY DEF ClientBody
  <2>2. DOMAIN gateway[s] # {} => gateway[s] # <<>>
    BY <1>0
  <2> QED BY <2>1, <2>2, SameHeaders DEF Past, Told
<1> DEFINE r == gateway[s][i]
<1>1. /\ ~IsConfigRequest(headers[s])
      /\ Routed(s, r.url)
      /\ r.after \in 0..Len(outbox[s])
      /\ \A k \in 1..r.after : outbox[s][k].ctype # ContentTypeOHTTPRes
      /\ HeaderError(headers[s]) # NoError => Told(s, HeaderError(headers[s]), r.after)
      /\ r.body # ClientBody(s) => Told(s, 413, r.after)
  BY DEF Past
<1>2. Routed(s, r.url)'
  BY <1>1 DEF Routed, HostOf
<1> HIDE DEF r
<1>3. /\ r.after \in 0..Len(outbox'[s])
      /\ \A k \in 1..r.after : outbox'[s][k] = outbox[s][k]
  BY <1>0, <1>1 DEF Grown
<1> QED BY <1>1, <1>2, <1>3 DEF r, Told

\* A step of the handler that neither sends nor forwards, and that has the
\* reasons for where it goes to.
LEMMA CalmStep ==
    ASSUME TypeOK, NEW s \in Streams, ForwardInv(s), AnswerInv(s), Running(s),
           headers'[s] = headers[s], sent'[s] = sent[s], redis' = redis, mappedSince' = mappedSince,
           gateway'[s] = gateway[s], outbox'[s] = outbox[s], rsp'[s] = rsp[s],
           pc'[s] \in {"select", "recv", "lookup", "do", "kcLookup", "kcFetch", "send", "done"},
           pc'[s] \in {"select", "recv", "lookup", "do", "kcLookup", "kcFetch"}
              => pc[s] \in {"select", "recv", "lookup", "do", "kcLookup", "kcFetch"},
           pc'[s] \in {"lookup", "do"} => ~IsConfigRequest(headers[s]),
           pc'[s] \in {"kcLookup", "kcFetch"} => IsConfigRequest(headers[s]),
           pc'[s] = "do" => Routed(s, target[s])',
           pc'[s] = "send" =>
              \/ reply'[s].ctype \notin {ContentTypeOHTTPRes, ContentTypeOHTTPKeys}
              \/ Justified(s, reply'[s])
    PROVE  ForwardInv(s)' /\ AnswerInv(s)'
<1>1. Past(s)'
  <2>1. Grown(s)
    BY DEF Grown, TypeOK
  <2> QED BY <2>1, PastKept DEF ForwardInv
<1>2. ForwardInv(s)'
  <2>1. RedisKey(HostOf(headers[s]))' = RedisKey(HostOf(headers[s]))
    BY DEF RedisKey, HostOf
  <2> QED BY <1>1, <2>1, SameHeaders DEF ForwardInv
<1>3. Success(s)' = Success(s)
  BY DEF Success
<1>4. pc'[s] = "send" => Justified(s, reply[s])'
  BY <1>3 DEF Justified, IsConfigRequest
<1>5. \A i \in 1..Len(outbox'[s]) : Justified(s, outbox[s][i])'
  BY <1>3 DEF AnswerInv, Justified, IsConfigRequest
<1>6. gateway[s] = <<>> => rsp[s] = NoResponse
  BY DEF AnswerInv
<1>7. gateway[s] # <<>> =>
          outbox[s] # <<>> \/ pc'[s] \in {"send", "done"}
  BY DEF AnswerInv
<1> QED BY <1>2, <1>4, <1>5, <1>6, <1>7 DEF AnswerInv

-----------------------------------------------------------------------------
(* Each step of a handler keeps the invariant of its own stream.           *)

\* What most steps leave alone.
Steady(s) ==
    /\ stage'[s] = stage[s] /\ headers'[s] = headers[s] /\ sent'[s] = sent[s]
    /\ redis' = redis /\ mappedSince' = mappedSince

Mute(s) == outbox'[s] = outbox[s] /\ gateway'[s] = gateway[s] /\ rsp'[s] = rsp[s]

\* Process may return from anywhere.
LEMMA EndStep ==
    ASSUME TypeOK, NEW s \in Streams, ExchangeInv(s), Running(s), pc'[s] = "done",
           Steady(s), Mute(s),
           \/ inbox'[s] = inbox[s] /\ st'[s] = st[s]
           \/ /\ ~Pending(s) /\ inbox[s] # <<>> /\ inbox'[s] = Tail(inbox[s])
              /\ st'[s].host = st[s].host /\ st'[s].configRequest = st[s].configRequest
    PROVE  ExchangeInv(s)'
<1> USE DEF ExchangeInv
<1>0. ~Running(s)' /\ pc[s] \notin {"idle", "done"}
  BY DEF Running
<1>1. HeaderInv(s)'
  <2>1. CASE ~Pending(s)
    BY <1>0, <2>1, HeaderKept DEF Steady
  <2>2. CASE Pending(s)
    <3>1. inbox'[s] = inbox[s] /\ st'[s] = st[s] /\ Pending(s)'
      BY <2>2 DEF Pending
    <3>2. Silent(s)'
      BY <2>2, <3>1 DEF HeaderInv, Silent, Mute
    <3>3. headers[s] \in HeaderMaps /\ stage[s] # "new"
      BY <1>0 DEF HeaderInv
    <3> QED BY <3>1, <3>2, <3>3 DEF HeaderInv, Steady
  <2> QED BY <2>1, <2>2
<1>2. BodyInv(s)'
  <2>1. Forwarded(s)' => Forwarded(s)
    BY DEF Forwarded, Mute
  <2> QED BY <1>0, <2>1, BodyKept DEF Steady
<1>3. ForwardInv(s)' /\ AnswerInv(s)'
  BY CalmStep DEF Steady, Mute
<1> QED BY <1>1, <1>2, <1>3

\* A handler that has read nothing of the body, or nothing but a message it
\* ignores, goes on.
LEMMA IdleStep ==
    ASSUME TypeOK, NEW s \in Streams, ExchangeInv(s), pc[s] \in {"select", "recv"},
           pc'[s] \in {"select", "recv"}, Steady(s), Mute(s), st'[s] = st[s],
           \/ inbox'[s] = inbox[s]
           \/ /\ inbox[s] # <<>> /\ inbox'[s] = Tail(inbox[s])
              /\ inbox[s][1].type \notin {"body", "headers"}
    PROVE  ExchangeInv(s)'
<1> USE DEF ExchangeInv
<1>0. Running(s) /\ pc[s] \notin {"idle", "done", "send"}
  BY DEF Running
<1>t. \A code : Tells(s, code) => Tells(s, code)'
  BY <1>0, TellsKept DEF Mute
<1>1. HeaderInv(s)'
  <2>1. CASE ~Pending(s)
    BY <1>0, <1>t, <2>1, HeaderKept DEF Steady
  <2>2. CASE Pending(s)
    <3>1. inbox'[s] = inbox[s] /\ Pending(s)'
      BY <2>2 DEF Pending
    <3>2. Silent(s)'
      BY <2>2 DEF HeaderInv, Silent, Mute
    <3>3. headers[s] \in HeaderMaps /\ stage[s] # "new"
      BY <1>0 DEF HeaderInv
    <3> QED BY <3>1, <3>2, <3>3 DEF HeaderInv, Steady
  <2> QED BY <2>1, <2>2
<1>2. BodyInv(s)'
  <2>1. Forwarded(s)' => Forwarded(s)
    BY DEF Forwarded, Mute
  <2> QED BY <1>0, <1>t, <2>1, BodyKept DEF Steady
<1>3. ForwardInv(s)' /\ AnswerInv(s)'
  BY <1>0, CalmStep DEF Steady, Mute
<1> QED BY <1>1, <1>2, <1>3

\* An error response tells its code and is neither the gateway's nor keys.
LEMMA ErrorReply ==
    \A c : /\ immediateErrorResponse(c).text = c
           /\ immediateErrorResponse(c).ctype \notin {ContentTypeOHTTPRes, ContentTypeOHTTPKeys}
BY DEF immediateErrorResponse, ContentTypeOHTTPRes, ContentTypeOHTTPKeys

\* The headers: Process keeps what it needs of them, and answers their error.
LEMMA HeadersStep ==
    ASSUME TypeOK, NEW s \in Streams, ExchangeInv(s), RecvHeaders(s)
    PROVE  ExchangeInv(s)'
<1> USE DEF ExchangeInv
<1> DEFINE h == Head(inbox[s]).headers
<1>d. /\ DOMAIN pc = Streams /\ DOMAIN inbox = Streams /\ DOMAIN st = Streams
      /\ DOMAIN reply = Streams /\ inbox[s] \in Seq(Messages)
  BY DEF TypeOK
<1>1. /\ pc[s] = "recv" /\ inbox[s] # <<>> /\ inbox[s][1].type = "headers"
      /\ inbox'[s] = Tail(inbox[s]) /\ st'[s] = WithHeaders(st[s], h)
      /\ Steady(s) /\ Mute(s)
  <2>1. st' = [st EXCEPT ![s] = WithHeaders(@, h)]
    BY DEF RecvHeaders
  <2>2. Recv(s, "headers") /\ Steady(s) /\ Mute(s)
    BY DEF RecvHeaders, Steady, Mute
  <2>3. /\ pc[s] = "recv" /\ inbox[s] # <<>> /\ Head(inbox[s]).type = "headers"
        /\ inbox'[s] = Tail(inbox[s])
    BY <1>d, <2>2 DEF Recv
  <2> HIDE DEF h
  <2> QED BY <1>d, <2>1, <2>2, <2>3
<1>2. Pending(s) /\ Silent(s)
  BY <1>1 DEF Pending, HeaderInv
<1>3. h = headers[s]
  <2>1. 1 \in 1..Len(inbox[s]) /\ Head(inbox[s]) = inbox[s][1]
    BY <1>d, <1>1
  <2> QED BY <1>1, <2>1 DEF HeaderInv
<1>4. /\ HeaderError(h) # NoError =>
            pc'[s] = "send" /\ reply'[s] = immediateErrorResponse(HeaderError(h))
      /\ HeaderError(h) = NoError =>
            pc'[s] = (IF IsConfigRequest(h) THEN "kcLookup" ELSE "select")
  BY <1>d DEF RecvHeaders, RespondError, Respond, Goto
<1> HIDE DEF h
<1>5. headers[s] \in HeaderMaps /\ stage[s] # "new" /\ headers'[s] = headers[s] /\ stage'[s] = stage[s]
  BY <1>1 DEF HeaderInv, Steady
<1>6. \A i \in 1..Len(inbox'[s]) : inbox'[s][i].type # "headers"
  <2>1. \A i \in 1..Len(inbox'[s]) :
            inbox'[s][i] = inbox[s][i+1] /\ i+1 \in 1..Len(inbox[s]) /\ i+1 # 1
    BY <1>d, <1>1
  <2> QED BY <2>1 DEF HeaderInv
<1>7. ~Pending(s)'
  <2>1. inbox'[s] \in Seq(Messages)
    BY <1>d, <1>1
  <2> QED BY <1>6, <2>1 DEF Pending
<1>8. /\ st'[s].host = HostOf(h) /\ st'[s].configRequest = IsConfigRequest(h)
      /\ st'[s].body = st[s].body
  <2>1. st[s] = EmptyState /\ IsConfigRequest(h) \in BOOLEAN
    BY <1>2 DEF Silent, IsConfigRequest
  <2>2. st[s] \in StreamStates /\ st[s].configRequest = FALSE
    <3>1. st[s] \in StreamStates
      BY DEF TypeOK
    <3>2. EmptyState.configRequest = FALSE
      BY DEF EmptyState
    <3> QED BY <2>1, <3>1, <3>2
  <2>3. /\ WithHeaders(st[s], h).host = HostOf(h)
        /\ WithHeaders(st[s], h).configRequest = (st[s].configRequest \/ IsConfigRequest(h))
        /\ WithHeaders(st[s], h).body = st[s].body
    BY <2>2 DEF WithHeaders, StreamStates
  <2>4. (st[s].configRequest \/ IsConfigRequest(h)) = IsConfigRequest(h)
    BY <2>1, <2>2
  <2> QED BY <1>1, <2>3, <2>4
<1>9. HeaderError(headers[s])' # NoError => Tells(s, HeaderError(headers[s]))'
  <2>1. HeaderError(headers[s])' = HeaderError(headers[s])
    BY <1>5, SameHeaders
  <2>2. HeaderError(headers[s]) # NoError =>
            pc'[s] = "send" /\ reply'[s].text = HeaderError(headers[s])
    BY <1>3, <1>4, ErrorReply
  <2> QED BY <2>1, <2>2 DEF Tells
<1>10. HeaderInv(s)'
  <2>1. pc'[s] # "idle"
    BY <1>4
  <2>2. /\ st'[s].host = HostOf(headers[s])' /\ st'[s].configRequest = IsConfigRequest(headers[s])'
    BY <1>3, <1>5, <1>8, SameHeaders
  <2> QED BY <1>5, <1>6, <1>7, <1>9, <2>1, <2>2 DEF HeaderInv
<1>11. BodyInv(s)'
  <2>1. pc'[s] \in {"send", "kcLookup", "select"} /\ pc[s] # "send"
    BY <1>1, <1>4
  <2>2. Forwarded(s)' => Forwarded(s)
    BY <1>1, <2>1 DEF Forwarded, Mute
  <2>3. Tells(s, 413) => Tells(s, 413)'
    BY <1>1, TellsKept DEF Mute
  <2> QED BY <1>1, <1>8, <2>1, <2>2, <2>3, BodyKept DEF Steady
<1>12. ForwardInv(s)' /\ AnswerInv(s)'
  <2>1. pc'[s] = "kcLookup" => IsConfigRequest(headers[s])
    BY <1>3, <1>4
  <2>2. pc'[s] = "send" => reply'[s].ctype \notin {ContentTypeOHTTPRes, ContentTypeOHTTPKeys}
    BY <1>4, ErrorReply
  <2>3. Running(s)
    BY <1>1 DEF Running
  <2>4. pc'[s] \in {"send", "kcLookup", "select"}
    BY <1>4
  <2> QED BY <1>1, <2>1, <2>2, <2>3, <2>4, CalmStep DEF Steady, Mute
<1> QED BY <1>10, <1>11, <1>12

\* Receiving a message leaves the order of the others alone; nothing of the
\* body is left after the last chunk.
LEMMA TailBodies ==
    ASSUME TypeOK, NEW s \in Streams, BodyInv(s), inbox[s] # <<>>, inbox'[s] = Tail(inbox[s])
    PROVE  /\ \A i, j \in 1..Len(inbox'[s]) :
                 i < j /\ IsLast(inbox'[s][i]) => inbox'[s][j].type # "body"
           /\ NoBody(inbox[s]) => NoBody(inbox'[s])
           /\ IsLast(inbox[s][1]) => NoBody(inbox'[s])
<1> DEFINE q == inbox[s]
           t == inbox'[s]
<1>1. /\ Len(t) \in Nat /\ Len(q) = Len(t) + 1 /\ 1 \in 1..Len(q)
      /\ \A i \in 1..Len(t) : t[i] = q[i+1] /\ i + 1 \in 1..Len(q) /\ 1 < i + 1
  BY DEF TypeOK
<1>2. \A i, j \in 1..Len(q) : i < j /\ IsLast(q[i]) => q[j].type # "body"
  BY DEF BodyInv
<1> HIDE DEF q, t
<1>3. \A i, j \in 1..Len(t) : i < j /\ IsLast(t[i]) => t[j].type # "body"
  <2> SUFFICES ASSUME NEW i \in 1..Len(t), NEW j \in 1..Len(t), i < j, IsLast(t[i])
               PROVE  t[j].type # "body"
    OBVIOUS
  <2>1. i + 1 < j + 1 /\ IsLast(q[i+1]) /\ i+1 \in 1..Len(q) /\ j+1 \in 1..Len(q)
    BY <1>1
  <2> QED BY <1>1, <1>2, <2>1
<1>4. NoBody(q) => NoBody(t)
  BY <1>1 DEF NoBody
<1>5. IsLast(q[1]) => NoBody(t)
  BY <1>1, <1>2 DEF NoBody
<1> QED BY <1>3, <1>4, <1>5 DEF q, t

\* A chunk of the body is buffered or dropped with a 413, and the last one sends
\* the handler to the gateway, or ends the stream if it asked for keys.
LEMMA BodyStep ==
    ASSUME TypeOK, NEW s \in Streams, ExchangeInv(s), RecvBodyTooLarge(s) \/ RecvBody(s)
    PROVE  ExchangeInv(s)'
<1> USE DEF ExchangeInv
<1> DEFINE m == Head(inbox[s])
<1>d. /\ DOMAIN pc = Streams /\ DOMAIN inbox = Streams /\ DOMAIN st = Streams
      /\ DOMAIN reply = Streams /\ DOMAIN exit = Streams
      /\ inbox[s] \in Seq(Messages) /\ st[s] \in StreamStates /\ sent[s] \in Nat
  BY DEF TypeOK
<1>1. /\ pc[s] = "recv" /\ inbox[s] # <<>> /\ m.type = "body"
      /\ inbox'[s] = Tail(inbox[s]) /\ Steady(s) /\ Mute(s)
  <2>1. Recv(s, "body") /\ Steady(s) /\ Mute(s)
    <3>1. CASE RecvBodyTooLarge(s)
      BY <3>1 DEF RecvBodyTooLarge, Steady, Mute
    <3>2. CASE RecvBody(s)
      BY <3>2 DEF RecvBody, Steady, Mute
    <3> QED BY <3>1, <3>2
  <2> HIDE DEF m
  <2> QED BY <1>d, <2>1 DEF Recv, m
<1>2. m = inbox[s][1] /\ 1 \in 1..Len(inbox[s]) /\ ~Pending(s) /\ Running(s)
  BY <1>d, <1>1 DEF Pending, Running
<1>3. \E b \in Bytes : st'[s] = WithBody(st[s], b)
  <2>1. <<>> \in Bytes
    BY DEF Bytes
  <2>2. m.bytes \in Bytes /\ st[s].body \in Bytes
    <3>1. m \in Messages
      BY <1>d, <1>1
    <3> HIDE DEF m
    <3> QED BY <1>d, <1>1, <3>1 DEF Messages, StreamStates
  <2>3. st[s].body \o m.bytes \in Bytes
    BY <2>2 DEF Bytes
  <2>4. st'[s] = WithBody(st[s], <<>>) \/ st'[s] = WithBody(st[s], st[s].body \o m.bytes)
    BY <1>d DEF RecvBodyTooLarge, RecvBody
  <2> HIDE DEF m
  <2> QED BY <2>1, <2>3, <2>4
<1> HIDE DEF m
<1>4. st'[s].host = st[s].host /\ st'[s].configRequest = st[s].configRequest
  BY <1>d, <1>3 DEF WithBody, StreamStates
<1>5. \A code : Tells(s, code) => Tells(s, code)'
  BY <1>1, TellsKept DEF Mute
<1>6. pc'[s] # "idle" => HeaderInv(s)'
  BY <1>1, <1>2, <1>4, <1>5, HeaderKept DEF Steady
<1>7. /\ \A i, j \in 1..Len(inbox'[s]) :
            i < j /\ IsLast(inbox'[s][i]) => inbox'[s][j].type # "body"
      /\ NoBody(inbox[s]) => NoBody(inbox'[s])
      /\ IsLast(m) => NoBody(inbox'[s])
  BY <1>1, <1>2, TailBodies
<1>8. PICK e \in [0..Len(inbox[s]) -> 0..sent[s]] :
          /\ Cuts(e, inbox[s], sent[s])
          /\ st[s].body = Upto(e[0]) \/ Tells(s, 413)
  BY <1>1 DEF BodyInv
<1>9. \E f \in [0..Len(inbox'[s]) -> 0..sent[s]] :
          Cuts(f, inbox'[s], sent[s]) /\ f[0] = e[1]
  <2> DEFINE f == [i \in 0..Len(Tail(inbox[s])) |-> e[i+1]]
  <2>1. Cuts(f, Tail(inbox[s]), sent[s])
    BY <1>d, <1>1, <1>8, CutsTail
  <2>2. f[0] = e[1]
    BY <1>d, <1>1
  <2> HIDE DEF f
  <2>3. f \in [0..Len(Tail(inbox[s])) -> 0..sent[s]]
    BY <2>1 DEF Cuts
  <2> QED BY <1>1, <2>1, <2>2, <2>3
<1>10. CASE RecvBodyTooLarge(s)
  <2>1. pc'[s] = "send" /\ reply'[s] = immediateErrorResponse(413)
    BY <1>d, <1>10 DEF RecvBodyTooLarge, RespondError, Respond, Goto
  <2>2. Tells(s, 413)'
    BY <2>1, ErrorReply DEF Tells
  <2>3. BodyInv(s)'
    <3>1. Forwarded(s)' => Forwarded(s)
      BY <1>1, <2>1 DEF Forwarded, Mute
    <3>2. Forwarded(s)' => NoBody(inbox'[s])
      BY <1>7, <3>1 DEF BodyInv
    <3> QED BY <1>1, <1>7, <1>9, <2>2, <3>2 DEF BodyInv, Steady
  <2>4. ForwardInv(s)' /\ AnswerInv(s)'
    BY <1>1, <1>2, <2>1, ErrorReply, CalmStep DEF Steady, Mute
  <2> QED BY <1>6, <2>1, <2>3, <2>4
<1>11. CASE RecvBody(s)
  <2>1. /\ st'[s] = WithBody(st[s], st[s].body \o m.bytes)
        /\ \/ m.eos /\ st[s].configRequest /\ pc'[s] = "done"
           \/ ~(m.eos /\ st[s].configRequest) /\ pc'[s] = (IF m.eos THEN "lookup" ELSE "select")
    BY <1>d, <1>11 DEF RecvBody, Finish, Goto, m
  <2>2. st'[s].body = st[s].body \o m.bytes
    BY <1>d, <2>1 DEF WithBody, StreamStates
  <2>3. st[s].body = Upto(e[0]) => st'[s].body = Upto(e[1])
    <3>1. e[0] <= e[1] /\ m.bytes = Chunk(e[0], e[1])
      <4>1. inbox[s][1].type = "body" /\ 1 - 1 = 0
        BY <1>1, <1>2
      <4> QED BY <1>2, <1>8, <4>1 DEF Cuts
    <3>2. e[0] \in Nat /\ e[1] \in Nat
      BY <1>d, <1>2, <1>8
    <3> QED BY <2>2, <3>1, <3>2, UptoChunk
  <2>4. CASE pc'[s] = "done"
    BY <1>1, <1>2, <1>4, <2>4, EndStep
  <2>5. CASE pc'[s] # "done"
    <3>1. /\ pc'[s] \in {"lookup", "select"}
          /\ pc'[s] = "lookup" => m.eos /\ ~st[s].configRequest
      BY <2>1, <2>5
    <3>2. pc'[s] = "lookup" => NoBody(inbox'[s])
      BY <1>1, <1>7, <3>1 DEF IsLast
    <3>3. BodyInv(s)'
      <4>1. PICK f \in [0..Len(inbox'[s]) -> 0..sent[s]] :
                Cuts(f, inbox'[s], sent[s]) /\ f[0] = e[1]
        BY <1>9
      <4>2. st'[s].body = Upto(f[0]) \/ Tells(s, 413)'
        BY <1>5, <1>8, <2>3, <4>1
      <4>3. Forwarded(s)' => NoBody(inbox'[s])
        BY <1>1, <1>7, <3>1, <3>2 DEF Forwarded, Mute, BodyInv
      <4>4. sent'[s] = sent[s]
        BY <1>1 DEF Steady
      <4> QED BY <1>7, <4>1, <4>2, <4>3, <4>4 DEF BodyInv
    <3>4. pc'[s] = "lookup" => ~IsConfigRequest(headers[s])
      BY <1>1, <1>2, <3>1 DEF HeaderInv
    <3>5. ForwardInv(s)' /\ AnswerInv(s)'
      BY <1>1, <1>2, <3>1, <3>4, CalmStep DEF Steady, Mute
    <3> QED BY <1>6, <3>1, <3>3, <3>5
  <2> QED BY <2>4, <2>5
<1> QED BY <1>10, <1>11

\* Where the handler is after it received its headers and before it waits for
\* another message.
Busy == {"lookup", "do", "await", "read", "record", "kcLookup", "kcFetch", "send"}

\* While it is busy, the handler receives and buffers nothing.
LEMMA BusyStep ==
    ASSUME TypeOK, NEW s \in Streams, ExchangeInv(s), pc[s] \in Busy, Steady(s),
           inbox'[s] = inbox[s], st'[s] = st[s], pc'[s] \notin {"idle", "done"},
           \/ pc[s] # "send" /\ outbox'[s] = outbox[s]
           \/ outbox'[s] = Append(outbox[s], reply[s]),
           Forwarded(s)' => Forwarded(s)
    PROVE  HeaderInv(s)' /\ BodyInv(s)'
<1> USE DEF ExchangeInv
<1>1. \A code : Tells(s, code) => Tells(s, code)'
  BY TellsKept
<1>2. Running(s) /\ ~Pending(s) /\ pc[s] # "done"
  BY DEF Busy, Running, HeaderInv
<1>3. HeaderInv(s)'
  BY <1>1, <1>2, HeaderKept DEF Steady
<1>4. BodyInv(s)'
  BY <1>1, <1>2, BodyKept DEF Steady
<1> QED BY <1>3, <1>4

\* A handler that failed to get an answer prepares an error response.
LEMMA ErrorStep ==
    ASSUME TypeOK, NEW s \in Streams, ExchangeInv(s), pc[s] \in Busy \ {"send"},
           Steady(s), Mute(s), inbox'[s] = inbox[s], st'[s] = st[s],
           pc'[s] = "send", NEW c, reply'[s] = immediateErrorResponse(c)
    PROVE  ExchangeInv(s)'
<1> USE DEF ExchangeInv
<1>1. HeaderInv(s)' /\ BodyInv(s)'
  <2>1. Forwarded(s)' => Forwarded(s)
    BY DEF Forwarded, Mute
  <2> QED BY <2>1, BusyStep DEF Mute
<1>2. ForwardInv(s)' /\ AnswerInv(s)'
  <2>1. Running(s)
    BY DEF Running, Busy
  <2> QED BY <2>1, ErrorReply, CalmStep DEF Steady, Mute
<1> QED BY <1>1, <1>2

\* The lookup of the gateway finds the host's URL or fails.
LEMMA LookupStep ==
    ASSUME TypeOK, NEW s \in Streams, ExchangeInv(s), Lookup(s) \/ KcLookup(s)
    PROVE  ExchangeInv(s)'
<1> USE DEF ExchangeInv
<1>d. /\ DOMAIN pc = Streams /\ DOMAIN reply = Streams /\ DOMAIN target = Streams
  BY DEF TypeOK
<1>1. \/ pc[s] = "lookup" /\ LookupThen(s, "do", 502)
      \/ pc[s] = "kcLookup" /\ LookupThen(s, "kcFetch", 500)
  BY DEF Lookup, KcLookup
<1>2. PICK next, code :
        /\ LookupThen(s, next, code)
        /\ \/ pc[s] = "lookup" /\ next = "do"
           \/ pc[s] = "kcLookup" /\ next = "kcFetch"
  BY <1>1
<1>3. PICK fails \in BOOLEAN :
        LET r == TargetURL(st[s].host, redis, fails) IN
        /\ IF Unroutable(r)
           THEN RespondError(s, code) /\ UNCHANGED target
           ELSE /\ target' = [target EXCEPT ![s] = r.url]
                /\ Goto(s, next)
                /\ UNCHANGED reply
        /\ UNCHANGED <<envoyVars, inbox, st, statusCode, rsp, outsideVars,
                       redisVars, endMetrics, ioMetrics>>
  BY <1>2 DEF LookupThen
<1> DEFINE r == TargetURL(st[s].host, redis, fails)
<1> HIDE DEF r
<1>4. Steady(s) /\ Mute(s) /\ inbox'[s] = inbox[s] /\ st'[s] = st[s]
  BY <1>3 DEF Steady, Mute
<1>5. CASE Unroutable(r)
  <2>1. pc'[s] = "send" /\ reply'[s] = immediateErrorResponse(code)
    BY <1>d, <1>3, <1>5 DEF r, RespondError, Respond, Goto
  <2>2. pc[s] \in Busy \ {"send"}
    BY <1>2 DEF Busy
  <2> QED BY <1>4, <2>1, <2>2, ErrorStep
<1>6. CASE ~Unroutable(r)
  <2>1. target'[s] = r.url /\ pc'[s] = next
    BY <1>d, <1>3, <1>6 DEF r, Goto
  <2>2. ~Pending(s) /\ pc[s] \in Busy \ {"send"} /\ Running(s)
    BY <1>2 DEF HeaderInv, Busy, Running
  <2>3. st[s].host = HostOf(headers[s])
    BY <1>2, <2>2 DEF HeaderInv
  <2>4. IF HostOf(headers[s]) \in DOMAIN DomainMap
        THEN r.url = DomainMap[HostOf(headers[s])]
        ELSE RedisEnable /\ r.url = redis[RedisKey(HostOf(headers[s]))]
    <3>1. st[s].host \in Text /\ redis \in [Text -> Targets]
      BY DEF TypeOK, StreamStates
    <3> QED BY <1>6, <2>3, <3>1, TargetIsTheHosts DEF r
  <2>5. Routed(s, target[s])'
    <3>1. redis[RedisKey(HostOf(headers[s]))] \in mappedSince[s]
      BY <2>2 DEF ForwardInv
    <3>2. HostOf(headers[s])' = HostOf(headers[s]) /\ mappedSince' = mappedSince
      BY <1>4, SameHeaders DEF Steady
    <3> QED BY <2>1, <2>4, <3>1, <3>2 DEF Routed
  <2>6. HeaderInv(s)' /\ BodyInv(s)'
    <3>1. Forwarded(s)' => Forwarded(s)
      BY <1>2, <1>4, <2>1 DEF Forwarded, Mute
    <3> QED BY <1>2, <1>4, <2>1, <2>2, <3>1, BusyStep DEF Mute
  <2>7. /\ pc'[s] \in {"do", "kcFetch"}
        /\ pc'[s] = "do" => pc[s] = "lookup"
        /\ pc'[s] = "kcFetch" => pc[s] = "kcLookup"
        /\ pc[s] \in {"lookup", "kcLookup"}
    BY <1>2, <2>1
  <2>8. /\ pc[s] = "lookup" => ~IsConfigRequest(headers[s])
        /\ pc[s] = "kcLookup" => IsConfigRequest(headers[s])
    BY DEF ForwardInv
  <2>9. ForwardInv(s)' /\ AnswerInv(s)'
    BY <1>4, <2>2, <2>5, <2>7, <2>8, CalmStep DEF Steady, Mute
  <2> QED BY <2>6, <2>9
<1> QED BY <1>5, <1>6

\* A request is written to the gateway: it is the client's whole, valid request,
\* unless the client was told what is wrong with it.
LEMMA DoStep ==
    ASSUME TypeOK, NEW s \in Streams, StreamInv(s), ExchangeInv(s), Do(s)
    PROVE  ExchangeInv(s)'
<1> USE DEF ExchangeInv
<1> DEFINE r == GatewayRequest(s)
<1>d. DOMAIN pc = Streams /\ DOMAIN gateway = Streams /\ Len(outbox[s]) \in Nat
      /\ inbox[s] \in Seq(Messages) /\ sent[s] \in Nat
  BY DEF TypeOK
<1>1. /\ pc[s] = "do" /\ pc'[s] = "await" /\ gateway'[s] = Append(gateway[s], r)
      /\ outbox'[s] = outbox[s] /\ rsp'[s] = rsp[s] /\ Steady(s)
      /\ inbox'[s] = inbox[s] /\ st'[s] = st[s]
  BY <1>d DEF Do, Goto, Steady
<1>2. gateway[s] = <<>> /\ Running(s) /\ Forwarded(s)
  BY <1>1 DEF StreamInv, Running, Forwarded
<1>3. gateway'[s] = <<r>>
  BY <1>1, <1>2
<1>4. r.url = target[s] /\ r.body = st[s].body /\ r.after = Len(outbox[s])
  BY DEF GatewayRequest
<1> HIDE DEF r
<1>5. HeaderInv(s)' /\ BodyInv(s)'
  BY <1>1, <1>2, BusyStep DEF Busy
<1>6. \A i \in 1..Len(outbox[s]) : outbox[s][i].ctype # ContentTypeOHTTPRes
  BY <1>2 DEF AnswerInv, Justified, Success
<1>7. \A code : Tells(s, code) => Told(s, code, Len(outbox[s]))
  BY <1>1 DEF Tells
<1>8. HeaderError(headers[s]) # NoError => Told(s, HeaderError(headers[s]), Len(outbox[s]))
  <2>1. ~Pending(s) /\ pc[s] # "idle"
    BY <1>1 DEF HeaderInv
  <2> QED BY <1>2, <1>7, <2>1 DEF HeaderInv
<1>9. st[s].body # ClientBody(s) => Told(s, 413, Len(outbox[s]))
  <2>1. PICK e \in [0..Len(inbox[s]) -> 0..sent[s]] :
            /\ Cuts(e, inbox[s], sent[s])
            /\ st[s].body = Upto(e[0]) \/ Tells(s, 413)
    BY <1>1 DEF BodyInv
  <2>2. NoBody(inbox[s])
    BY <1>2 DEF BodyInv
  <2>3. e[0] = sent[s]
    <3>1. \A j \in (0+1)..Len(inbox[s]) : inbox[s][j].type # "body"
      BY <1>d, <2>2 DEF NoBody
    <3> QED BY <1>d, <2>1, <3>1 DEF Cuts
  <2> QED BY <1>7, <2>1, <2>3 DEF ClientBody, Upto
<1>10. ~IsConfigRequest(headers[s]) /\ Routed(s, target[s])
  BY <1>1 DEF ForwardInv
<1>11. Routed(s, target[s]) => /\ LET host == HostOf(headers'[s]) IN
                                   IF host \in DOMAIN DomainMap
                                   THEN r.url = DomainMap[host]
                                   ELSE RedisEnable /\ r.url \in mappedSince'[s]
  BY <1>1, <1>4 DEF Routed, Steady
<1>12. Past(s)'
  <2>1. /\ DOMAIN gateway'[s] = {1} /\ gateway'[s][1] = r
    BY <1>3
  <2>2. ClientBody(s)' = ClientBody(s)
    BY <1>1 DEF ClientBody, Steady
  <2>3. headers'[s] = headers[s]
    BY <1>1 DEF Steady
  <2> QED BY <1>d, <1>1, <1>4, <1>6, <1>8, <1>9, <1>10, <1>11, <2>1, <2>2, <2>3, SameHeaders
          DEF Past, Told, Routed
<1>13. ForwardInv(s)'
  <2>1. /\ redis' = redis /\ mappedSince' = mappedSince /\ headers'[s] = headers[s]
    BY <1>1 DEF Steady
  <2>2. redis[RedisKey(HostOf(headers[s]))] \in mappedSince[s]
    BY <1>2 DEF ForwardInv
  <2> QED BY <1>1, <1>10, <1>12, <2>1, <2>2, SameHeaders DEF ForwardInv
<1>14. AnswerInv(s)'
  <2>1. rsp[s] = NoResponse /\ gateway'[s] # <<>>
    BY <1>2, <1>3 DEF AnswerInv
  <2>2. headers'[s] = headers[s]
    BY <1>1 DEF Steady
  <2>3. \A i \in 1..Len(outbox[s]) : outbox[s][i].ctype = ContentTypeOHTTPKeys
            => IsConfigRequest(headers[s]) /\ outbox[s][i].bytes \in 0..KeyConfigSize
    BY DEF AnswerInv, Justified
  <2> QED BY <1>1, <1>6, <2>1, <2>2, <2>3, SameHeaders DEF AnswerInv, Justified
<1> QED BY <1>5, <1>13, <1>14

\* A status is a success exactly if it is one of the 200s.
LEMMA SuccessRange ==
    \A c \in GatewayStatuses : IsSuccess(c) <=> c \in 200..299
<1>1. \A c \in 200..599 : (c \div 100 = 2) <=> c \in 200..299
  BY SMT
<1> QED BY <1>1, DomainAssumption DEF IsSuccess, StatusCategory

\* What DoResponse and Read do: the answer to the request comes in, and no
\* OHTTP response was sent before it.
LEMMA ReplyStep ==
    ASSUME TypeOK, NEW s \in Streams, ExchangeInv(s), Steady(s),
           inbox'[s] = inbox[s], st'[s] = st[s],
           outbox'[s] = outbox[s], gateway'[s] = gateway[s],
           \/ /\ pc[s] = "await" /\ pc'[s] = "read"
              /\ ~rsp'[s].complete /\ rsp'[s].status \in GatewayStatuses
           \/ pc[s] = "read" /\ pc'[s] = "record" /\ Success(s)'
           \/ /\ pc[s] = "read" /\ pc'[s] = "send"
              /\ reply'[s].ctype \notin {ContentTypeOHTTPRes, ContentTypeOHTTPKeys}
    PROVE  ExchangeInv(s)'
<1> USE DEF ExchangeInv
<1>1. /\ pc[s] \in {"await", "read"} /\ pc'[s] \in {"read", "record", "send"}
      /\ pc[s] \in Busy \ {"send"} /\ Running(s)
  BY DEF Busy, Running
<1>2. HeaderInv(s)' /\ BodyInv(s)'
  <2>1. Forwarded(s)' => Forwarded(s)
    BY <1>1 DEF Forwarded
  <2> QED BY <1>1, <2>1, BusyStep
<1>3. /\ gateway[s] # <<>> /\ \A i \in 1..Len(outbox[s]) : outbox[s][i].ctype # ContentTypeOHTTPRes
      /\ ~IsConfigRequest(headers[s])
  BY <1>1 DEF AnswerInv, ForwardInv
<1>4. headers'[s] = headers[s] /\ sent'[s] = sent[s] /\ redis' = redis /\ mappedSince' = mappedSince
  BY DEF Steady
<1>5. ForwardInv(s)'
  <2>1. Past(s)'
    <3>1. Grown(s)
      BY DEF Grown, TypeOK
    <3> QED BY <1>4, <3>1, PastKept DEF ForwardInv
  <2>2. redis[RedisKey(HostOf(headers[s]))] \in mappedSince[s]
    BY <1>1 DEF ForwardInv
  <2> QED BY <1>1, <1>3, <1>4, <2>1, <2>2, SameHeaders DEF ForwardInv
<1>6. AnswerInv(s)'
  <2>1. \A i \in 1..Len(outbox[s]) : outbox[s][i].ctype = ContentTypeOHTTPKeys
            => IsConfigRequest(headers[s]) /\ outbox[s][i].bytes \in 0..KeyConfigSize
    BY DEF AnswerInv, Justified
  <2>2. \A i \in 1..Len(outbox'[s]) : Justified(s, outbox[s][i])'
    BY <1>3, <2>1 DEF Justified
  <2>3. pc'[s] = "send" => Justified(s, reply[s])'
    BY DEF Justified
  <2> QED BY <1>1, <1>3, <2>2, <2>3 DEF AnswerInv
<1> QED BY <1>2, <1>5, <1>6

\* The rest of Relay: the gateway answers, or fails to.
LEMMA GatewayStep ==
    ASSUME TypeOK, NEW s \in Streams, ExchangeInv(s),
           \/ DoFailed(s) \/ ReadFailed(s) \/ Record(s)
           \/ \E code \in GatewayStatuses : DoResponse(s, code)
           \/ \E n \in ReplySizes : Read(s, n)
    PROVE  ExchangeInv(s)'
<1> USE DEF Goto, Respond, RespondError
<1>d. DOMAIN pc = Streams /\ DOMAIN reply = Streams /\ DOMAIN rsp = Streams
  BY DEF TypeOK
<1>1. CASE DoFailed(s)
  <2>1. /\ pc[s] \in Busy \ {"send"} /\ Steady(s) /\ Mute(s)
        /\ inbox'[s] = inbox[s] /\ st'[s] = st[s]
        /\ pc'[s] = "send" /\ reply'[s] = immediateErrorResponse(502)
    BY <1>d, <1>1 DEF DoFailed, Busy, Steady, Mute
  <2> QED BY <2>1, ErrorStep
<1>2. CASE ReadFailed(s)
  <2>1. /\ pc[s] \in Busy \ {"send"} /\ Steady(s) /\ Mute(s)
        /\ inbox'[s] = inbox[s] /\ st'[s] = st[s]
        /\ pc'[s] = "send" /\ reply'[s] = immediateErrorResponse(502)
    BY <1>d, <1>2 DEF ReadFailed, Busy, Steady, Mute
  <2> QED BY <2>1, ErrorStep
<1>3. CASE Record(s)
  <2>1. /\ pc[s] = "record" /\ Steady(s) /\ Mute(s)
        /\ inbox'[s] = inbox[s] /\ st'[s] = st[s] /\ pc'[s] = "send"
        /\ reply'[s] = OpaqueResponse(ContentTypeOHTTPRes, rsp[s].bytes)
    BY <1>d, <1>3 DEF Record, Steady, Mute
  <2>2. Justified(s, reply'[s])
    <3>1. reply'[s].ctype = ContentTypeOHTTPRes /\ reply'[s].bytes = rsp[s].bytes
      BY <2>1 DEF OpaqueResponse
    <3>2. ContentTypeOHTTPRes # ContentTypeOHTTPKeys
      BY DEF ContentTypeOHTTPRes, ContentTypeOHTTPKeys
    <3>3. Success(s)
      BY <2>1 DEF ExchangeInv, AnswerInv
    <3> QED BY <3>1, <3>2, <3>3 DEF Justified
  <2>3. HeaderInv(s)' /\ BodyInv(s)'
    <3>1. Forwarded(s)' => Forwarded(s)
      BY <2>1 DEF Forwarded, Mute
    <3> QED BY <2>1, <3>1, BusyStep DEF Busy, Mute
  <2>4. ForwardInv(s)' /\ AnswerInv(s)'
    <3>1. Running(s)
      BY <2>1 DEF Running
    <3> QED BY <2>1, <2>2, <3>1, CalmStep DEF ExchangeInv, Steady, Mute
  <2> QED BY <2>3, <2>4 DEF ExchangeInv
<1>4. ASSUME NEW code \in GatewayStatuses, DoResponse(s, code)
      PROVE  ExchangeInv(s)'
  <2>1. /\ pc[s] = "await" /\ pc'[s] = "read" /\ Steady(s)
        /\ inbox'[s] = inbox[s] /\ st'[s] = st[s] /\ rsp'[s] = Response(code, 0, FALSE)
        /\ outbox'[s] = outbox[s] /\ gateway'[s] = gateway[s]
    BY <1>d, <1>4 DEF DoResponse, Steady
  <2>2. ~rsp'[s].complete /\ rsp'[s].status \in GatewayStatuses
    BY <2>1 DEF Response
  <2> QED BY <2>1, <2>2, ReplyStep
<1>5. ASSUME NEW n \in ReplySizes, Read(s, n)
      PROVE  ExchangeInv(s)'
  <2>1. /\ pc[s] = "read" /\ Steady(s) /\ inbox'[s] = inbox[s] /\ st'[s] = st[s]
        /\ rsp'[s] = Response(rsp[s].status, n, TRUE)
        /\ outbox'[s] = outbox[s] /\ gateway'[s] = gateway[s]
    BY <1>d, <1>5 DEF Read, Steady
  <2>2. gateway[s] # <<>> /\ rsp[s].status \in GatewayStatuses
    BY <2>1 DEF ExchangeInv, AnswerInv
  <2>3. CASE IsSuccess(rsp[s].status)
    <3>1. pc'[s] = "record"
      BY <1>d, <1>5, <2>3 DEF Read
    <3>2. Success(s)'
      BY <2>1, <2>2, <2>3, SuccessRange DEF Success, Response
    <3> QED BY <2>1, <3>1, <3>2, ReplyStep
  <2>4. CASE ~IsSuccess(rsp[s].status)
    <3>1. pc'[s] = "send" /\ reply'[s] = immediateErrorResponse(502)
      BY <1>d, <1>5, <2>4 DEF Read
    <3> QED BY <2>1, <3>1, ErrorReply, ReplyStep
  <2> QED BY <2>3, <2>4
<1> QED BY <1>1, <1>2, <1>3, <1>4, <1>5

\* Keys are answered to a stream that asked for them.
LEMMA KcFetchStep ==
    ASSUME TypeOK, NEW s \in Streams, ExchangeInv(s),
           NEW code \in {0} \cup GatewayStatuses, NEW n \in 0..KeyConfigSize, KcFetch(s, code, n)
    PROVE  ExchangeInv(s)'
<1>d. DOMAIN pc = Streams /\ DOMAIN reply = Streams
  BY DEF TypeOK
<1>1. /\ pc[s] = "kcFetch" /\ pc[s] \in Busy \ {"send"} /\ Steady(s) /\ Mute(s)
      /\ inbox'[s] = inbox[s] /\ st'[s] = st[s]
  BY DEF KcFetch, Busy, Steady, Mute
<1>2. CASE code # 200
  <2>1. RespondError(s, 500)
    BY <1>2 DEF KcFetch
  <2>2. pc'[s] = "send" /\ reply'[s] = immediateErrorResponse(500)
    BY <1>d, <2>1 DEF RespondError, Respond, Goto
  <2> QED BY <1>1, <2>2, ErrorStep
<1>3. CASE code = 200
  <2>1. Respond(s, OpaqueResponse(ContentTypeOHTTPKeys, n))
    BY <1>3 DEF KcFetch
  <2>2. pc'[s] = "send" /\ reply'[s] = OpaqueResponse(ContentTypeOHTTPKeys, n)
    BY <1>d, <2>1 DEF Respond, Goto
  <2>3. Justified(s, reply'[s])
    <3>1. reply'[s].ctype = ContentTypeOHTTPKeys /\ reply'[s].bytes = n
      BY <2>2 DEF OpaqueResponse
    <3>2. ContentTypeOHTTPRes # ContentTypeOHTTPKeys
      BY DEF ContentTypeOHTTPRes, ContentTypeOHTTPKeys
    <3>3. IsConfigRequest(headers[s])
      BY <1>1 DEF ExchangeInv, ForwardInv
    <3> QED BY <3>1, <3>2, <3>3 DEF Justified
  <2>4. HeaderInv(s)' /\ BodyInv(s)'
    <3>1. Forwarded(s)' => Forwarded(s)
      BY <1>1, <2>2 DEF Forwarded, Mute
    <3> QED BY <1>1, <2>2, <3>1, BusyStep DEF Mute
  <2>5. ForwardInv(s)' /\ AnswerInv(s)'
    <3>1. Running(s)
      BY <1>1 DEF Running
    <3> QED BY <1>1, <2>2, <2>3, <3>1, CalmStep DEF ExchangeInv, Steady, Mute
  <2> QED BY <2>4, <2>5 DEF ExchangeInv
<1> QED BY <1>2, <1>3

\* A response is sent to Envoy.
LEMMA SendStep ==
    ASSUME TypeOK, NEW s \in Streams, ExchangeInv(s), SendOK(s)
    PROVE  ExchangeInv(s)'
<1> USE DEF ExchangeInv
<1>d. DOMAIN pc = Streams /\ DOMAIN outbox = Streams
  BY DEF TypeOK
<1>1. /\ pc[s] = "send" /\ pc'[s] = "select" /\ Steady(s)
      /\ inbox'[s] = inbox[s] /\ st'[s] = st[s] /\ rsp'[s] = rsp[s] /\ gateway'[s] = gateway[s]
      /\ outbox'[s] = Append(outbox[s], reply[s])
  BY <1>d DEF SendOK, Steady, Goto
<1>2. /\ Grown(s) /\ Len(outbox'[s]) = Len(outbox[s]) + 1
      /\ outbox'[s][Len(outbox[s]) + 1] = reply[s] /\ Len(outbox[s]) \in Nat
  BY <1>1, AppendGrows
<1>3. HeaderInv(s)' /\ BodyInv(s)'
  <2>1. Forwarded(s)' => Forwarded(s)
    BY <1>1 DEF Forwarded
  <2> QED BY <1>1, <2>1, BusyStep DEF Busy
<1>4. headers'[s] = headers[s] /\ sent'[s] = sent[s] /\ redis' = redis /\ mappedSince' = mappedSince
  BY <1>1 DEF Steady
<1>5. ForwardInv(s)'
  <2>1. Past(s)'
    BY <1>1, <1>2, <1>4, PastKept DEF ForwardInv
  <2>2. redis[RedisKey(HostOf(headers[s]))] \in mappedSince[s]
    BY <1>1 DEF ForwardInv, Running
  <2> QED BY <1>1, <1>4, <2>1, <2>2, SameHeaders DEF ForwardInv
<1>6. AnswerInv(s)'
  <2>1. Success(s)' = Success(s)
    BY <1>1 DEF Success
  <2>2. \A i \in 1..Len(outbox'[s]) : Justified(s, outbox'[s][i])
    BY <1>1, <1>2 DEF AnswerInv, Grown
  <2>3. \A i \in 1..Len(outbox'[s]) : Justified(s, outbox[s][i])'
    BY <1>1, <1>4, <2>1, <2>2, SameHeaders DEF Justified
  <2>4. outbox'[s] # <<>>
    <3>1. Len(outbox'[s]) # 0
      BY <1>2
    <3> QED BY <3>1
  <2>5. gateway[s] = <<>> => rsp[s] = NoResponse
    BY DEF AnswerInv
  <2> QED BY <1>1, <2>3, <2>4, <2>5 DEF AnswerInv
<1> QED BY <1>3, <1>5, <1>6

\* Every step of a handler keeps the invariant of its own stream.
LEMMA HandlerStepExchange ==
    ASSUME TypeOK, NEW s \in Streams, StreamInv(s), ExchangeInv(s), HandlerStep(s)
    PROVE  ExchangeInv(s)'
<1> USE DEF Goto, Finish
<1>d. DOMAIN pc = Streams /\ DOMAIN inbox = Streams /\ inbox[s] \in Seq(Messages)
  BY DEF TypeOK
<1>1. CASE SelectCtxDone(s) \/ RecvEOF(s) \/ RecvError(s) \/ SendFailed(s)
  <2>1. /\ Running(s) /\ pc'[s] = "done" /\ Steady(s) /\ Mute(s)
        /\ inbox'[s] = inbox[s] /\ st'[s] = st[s]
    <3>1. CASE SelectCtxDone(s)
      BY <1>d, <3>1 DEF SelectCtxDone, Running, Steady, Mute
    <3>2. CASE RecvEOF(s)
      BY <1>d, <3>2 DEF RecvEOF, Running, Steady, Mute
    <3>3. CASE RecvError(s)
      BY <1>d, <3>3 DEF RecvError, Running, Steady, Mute
    <3>4. CASE SendFailed(s)
      BY <1>d, <3>4 DEF SendFailed, Running, Steady, Mute
    <3> QED BY <1>1, <3>1, <3>2, <3>3, <3>4
  <2> QED BY <2>1, EndStep
<1>2. CASE SelectDefault(s)
  <2>1. /\ pc[s] \in {"select", "recv"} /\ pc'[s] \in {"select", "recv"}
        /\ Steady(s) /\ Mute(s) /\ st'[s] = st[s] /\ inbox'[s] = inbox[s]
    BY <1>d, <1>2 DEF SelectDefault, Steady, Mute
  <2> QED BY <2>1, IdleStep
<1>3. CASE RecvIgnored(s)
  <2>1. /\ pc'[s] = "select" /\ Steady(s) /\ Mute(s) /\ st'[s] = st[s]
        /\ Recv(s, "trailers") \/ Recv(s, "responseSide")
    BY <1>d, <1>3 DEF RecvIgnored, Steady, Mute
  <2>2. /\ pc[s] = "recv" /\ inbox[s] # <<>> /\ inbox'[s] = Tail(inbox[s])
        /\ Head(inbox[s]).type \in {"trailers", "responseSide"}
    BY <1>d, <2>1 DEF Recv
  <2>3. inbox[s][1].type \notin {"body", "headers"}
    BY <1>d, <2>2
  <2> QED BY <2>1, <2>2, <2>3, IdleStep
<1>4. CASE RecvUnknown(s)
  <2>1. /\ pc'[s] = "done" /\ Steady(s) /\ Mute(s) /\ st'[s] = st[s] /\ Recv(s, "unknown")
    BY <1>d, <1>4 DEF RecvUnknown, Steady, Mute
  <2>2. /\ pc[s] = "recv" /\ inbox[s] # <<>> /\ inbox'[s] = Tail(inbox[s])
        /\ Head(inbox[s]).type = "unknown"
    BY <1>d, <2>1 DEF Recv
  <2>3. ~Pending(s) /\ Running(s)
    BY <1>d, <2>2 DEF Pending, Running
  <2> QED BY <2>1, <2>2, <2>3, EndStep
<1> QED BY <1>1, <1>2, <1>3, <1>4, HeadersStep, BodyStep, LookupStep, DoStep, GatewayStep,
           KcFetchStep, SendStep DEF HandlerStep

-----------------------------------------------------------------------------
(* The steps of Envoy and Redis.                                           *)

\* A stream is not disturbed by steps that leave its variables alone.
LEMMA UntouchedExchange ==
    ASSUME TypeOK, NEW s \in Streams, ExchangeInv(s),
           stage'[s] = stage[s], headers'[s] = headers[s], sent'[s] = sent[s],
           inbox'[s] = inbox[s], pc'[s] = pc[s], st'[s] = st[s], target'[s] = target[s],
           rsp'[s] = rsp[s], reply'[s] = reply[s], outbox'[s] = outbox[s],
           gateway'[s] = gateway[s], mappedSince[s] \subseteq mappedSince'[s],
           Running(s) => redis'[RedisKey(HostOf(headers[s]))] \in mappedSince'[s]
    PROVE  ExchangeInv(s)'
<1> USE DEF ExchangeInv
<1>1. \A code : Tells(s, code)' <=> Tells(s, code)
  BY DEF Tells, Told
<1>2. HeaderInv(s)'
  <2>1. (Silent(s)' <=> Silent(s)) /\ (Pending(s)' <=> Pending(s)) /\ (Running(s)' <=> Running(s))
    BY DEF Silent, Pending, Running
  <2>2. Tells(s, HeaderError(headers[s]))' <=> Tells(s, HeaderError(headers[s]))
    BY SameHeaders DEF Tells, Told
  <2> QED BY <2>1, <2>2, SameHeaders DEF HeaderInv
<1>3. BodyInv(s)'
  <2>1. PICK e \in [0..Len(inbox[s]) -> 0..sent[s]] :
            /\ Cuts(e, inbox[s], sent[s])
            /\ pc[s] # "done" => st[s].body = Upto(e[0]) \/ Tells(s, 413)
    BY DEF BodyInv
  <2>2. pc'[s] # "done" => st'[s].body = Upto(e[0]) \/ Tells(s, 413)'
    BY <1>1, <2>1
  <2>3. Forwarded(s)' => NoBody(inbox'[s])
    BY DEF BodyInv, Forwarded
  <2> QED BY <2>1, <2>2, <2>3 DEF BodyInv
<1>4. Past(s)'
  <2>1. Grown(s)
    BY DEF Grown, TypeOK
  <2> QED BY <2>1, PastKept DEF ForwardInv
<1>5. ForwardInv(s)'
  <2>1. pc[s] = "do" => Routed(s, target[s])'
    BY SameHeaders DEF ForwardInv, Routed
  <2> QED BY <1>4, <2>1, SameHeaders DEF ForwardInv, Running
<1>6. AnswerInv(s)'
  <2>1. Success(s)' <=> Success(s)
    BY DEF Success
  <2>2. /\ Justified(s, reply[s])' <=> Justified(s, reply[s])
        /\ \A i \in 1..Len(outbox[s]) : Justified(s, outbox[s][i]) => Justified(s, outbox[s][i])'
    BY <2>1, SameHeaders DEF Justified
  <2> QED BY <2>1, <2>2 DEF AnswerInv
<1> QED BY <1>2, <1>3, <1>5, <1>6

\* A request comes in.
LEMMA OpenStep ==
    ASSUME TypeOK, NEW s \in Streams, ExchangeInv(s),
           NEW h \in HeaderMaps, NEW bodyless \in BOOLEAN, Open(s, h, bodyless)
    PROVE  ExchangeInv(s)'
<1> USE DEF ExchangeInv
<1>d. /\ DOMAIN stage = Streams /\ DOMAIN headers = Streams /\ DOMAIN inbox = Streams
      /\ DOMAIN pc = Streams /\ DOMAIN mappedSince = Streams
  BY DEF TypeOK
<1>1. /\ stage[s] = "new" /\ stage'[s] \in {"body", "eos"} /\ headers'[s] = h
      /\ inbox'[s] = <<HeadersMsg(h)>> /\ pc'[s] = "select"
      /\ UNCHANGED <<sent, st, rsp, reply, outbox, gateway, redis>>
  BY <1>d DEF Open
<1>2. pc[s] = "idle" /\ Silent(s) /\ sent[s] = 0
  BY <1>1 DEF HeaderInv
<1>3. mappedSince'[s] = {redis[RedisKey(HostOf(h))]}
  BY <1>d DEF Open
<1>4. /\ Len(inbox'[s]) = 1 /\ inbox'[s][1].type = "headers"
      /\ inbox'[s][1].headers = h /\ inbox'[s] # <<>>
  BY <1>1 DEF HeadersMsg
<1>5. Silent(s)'
  BY <1>1, <1>2 DEF Silent
<1>6. HeaderInv(s)'
  <2>1. Pending(s)'
    BY <1>4 DEF Pending
  <2> QED BY <1>1, <1>4, <1>5, <2>1 DEF HeaderInv
<1>7. BodyInv(s)'
  <2> DEFINE e == [i \in 0..1 |-> 0]
  <2>1. e \in [0..1 -> 0..0] /\ e[0] = 0 /\ e[1] = 0
    OBVIOUS
  <2> HIDE DEF e
  <2>2. sent'[s] = 0
    BY <1>1, <1>2
  <2>3. Cuts(e, inbox'[s], 0)
    BY <1>4, <2>1 DEF Cuts
  <2>4. st'[s].body = Upto(e[0])
    <3>1. st'[s].body = <<>>
      <4>1. st'[s] = EmptyState
        BY <1>5 DEF Silent
      <4>2. EmptyState.body = <<>>
        BY DEF EmptyState
      <4> QED BY <4>1, <4>2
    <3>2. Upto(0) = <<>>
      BY DEF Upto
    <3> QED BY <2>1, <3>1, <3>2
  <2>5. ~Forwarded(s)'
    BY <1>1, <1>2 DEF Forwarded, Silent
  <2>6. \A i, j \in 1..Len(inbox'[s]) : ~(i < j)
    BY <1>4
  <2>7. e \in [0..Len(inbox'[s]) -> 0..sent'[s]] /\ Cuts(e, inbox'[s], sent'[s])
    BY <1>4, <2>1, <2>2, <2>3
  <2> QED BY <2>4, <2>5, <2>6, <2>7 DEF BodyInv
<1>8. ForwardInv(s)'
  <2>1. Past(s)'
    BY <1>1, <1>2 DEF Past, Silent
  <2>2. redis'[RedisKey(HostOf(headers'[s]))] \in mappedSince'[s]
    BY <1>1, <1>3
  <2> QED BY <1>1, <2>1, <2>2 DEF ForwardInv
<1>9. AnswerInv(s)'
  <2>1. outbox'[s] = <<>> /\ gateway'[s] = <<>> /\ rsp'[s] = NoResponse
    BY <1>5 DEF Silent
  <2> QED BY <1>1, <2>1 DEF AnswerInv
<1> QED BY <1>6, <1>7, <1>8, <1>9

\* Envoy sends another message: k more bytes of the body, or none.
LEMMA MessageStep ==
    ASSUME TypeOK, NEW s \in Streams, StreamInv(s), ExchangeInv(s), Running(s),
           NEW m \in Messages, m.type # "headers", NEW k \in Nat,
           IF m.type = "body"
           THEN m.bytes = Chunk(sent[s], sent[s] + k) /\ stage[s] = "body"
           ELSE k = 0,
           inbox'[s] = Append(inbox[s], m), sent'[s] = sent[s] + k, stage'[s] # "new",
           UNCHANGED <<headers, pc, st, target, rsp, reply, outbox, gateway, redis, mappedSince>>
    PROVE  ExchangeInv(s)'
<1> USE DEF ExchangeInv
<1> DEFINE q == inbox[s]
           a == inbox'[s]
<1>0. q \in Seq(Messages) /\ sent[s] \in Nat /\ pc[s] \notin {"idle", "done"}
  BY DEF TypeOK, Running
<1>1. /\ Len(q) \in Nat /\ Len(a) = Len(q) + 1 /\ a # <<>>
      /\ \A i \in 1..Len(q) : a[i] = q[i]
      /\ a[Len(q) + 1] = m
  BY <1>0
<1>2. q = <<>> <=> Len(q) = 0
  BY <1>0
<1> HIDE DEF q, a
<1>3. Pending(s)' <=> Pending(s)
  <2>1. CASE q = <<>>
    BY <1>1, <1>2, <2>1 DEF Pending, q, a
  <2>2. CASE q # <<>>
    BY <1>1, <1>2, <2>2 DEF Pending, q, a
  <2> QED BY <2>1, <2>2
<1>4. \A code : Tells(s, code)' <=> Tells(s, code)
  BY DEF Tells, Told
<1>5. HeaderInv(s)'
  <2>1. \A i \in 1..Len(a) : a[i].type = "headers" => i = 1 /\ a[i].headers = headers[s]
    <3>1. \A i \in 1..Len(q) : q[i].type = "headers" => i = 1 /\ q[i].headers = headers[s]
      BY DEF HeaderInv, q
    <3> QED BY <1>1, <3>1
  <2>2. (Silent(s)' <=> Silent(s)) /\ (Running(s)' <=> Running(s))
    BY DEF Silent, Running
  <2>3. Tells(s, HeaderError(headers[s]))' <=> Tells(s, HeaderError(headers[s]))
    BY SameHeaders DEF Tells, Told
  <2> QED BY <1>0, <1>3, <2>1, <2>2, <2>3, SameHeaders DEF HeaderInv, a
<1>6. m.type = "body" => ~HasLast(q) /\ ~Forwarded(s)
  BY DEF StreamInv, q
<1>7. BodyInv(s)'
  <2>1. PICK e \in [0..Len(q) -> 0..sent[s]] :
            Cuts(e, q, sent[s]) /\ (st[s].body = Upto(e[0]) \/ Tells(s, 413))
    BY <1>0 DEF BodyInv, q
  <2> DEFINE f == [i \in 0..(Len(q)+1) |-> IF i <= Len(q) THEN e[i] ELSE sent[s] + k]
  <2>2. Cuts(f, Append(q, m), sent[s] + k)
    BY <1>0, <2>1, CutsAppend
  <2>3. f[0] = e[0]
    BY <1>1
  <2> HIDE DEF f
  <2>4. a = Append(q, m)
    BY DEF a, q
  <2>5. f \in [0..Len(a) -> 0..sent'[s]] /\ Cuts(f, a, sent'[s])
    BY <2>2, <2>4 DEF Cuts
  <2>6. st'[s].body = Upto(f[0]) \/ Tells(s, 413)'
    BY <1>4, <2>1, <2>3
  <2>7. \A i, j \in 1..Len(a) : i < j /\ IsLast(a[i]) => a[j].type # "body"
    <3> SUFFICES ASSUME NEW i \in 1..Len(a), NEW j \in 1..Len(a), i < j, IsLast(a[i])
                 PROVE  a[j].type # "body"
      OBVIOUS
    <3>1. i \in 1..Len(q) /\ IsLast(q[i])
      BY <1>1
    <3>2. CASE j \in 1..Len(q)
      <4>1. \A x, y \in 1..Len(q) : x < y /\ IsLast(q[x]) => q[y].type # "body"
        BY DEF BodyInv, q
      <4> QED BY <1>1, <3>1, <3>2, <4>1
    <3>3. CASE j = Len(q) + 1
      BY <1>1, <1>6, <3>1, <3>3 DEF HasLast
    <3>4. j \in 1..Len(q) \/ j = Len(q) + 1
      BY <1>1
    <3> QED BY <3>2, <3>3, <3>4
  <2>8. Forwarded(s)' => NoBody(a)
    <3>1. Forwarded(s)' <=> Forwarded(s)
      BY DEF Forwarded
    <3>2. Forwarded(s) => NoBody(q) /\ m.type # "body"
      BY <1>6 DEF BodyInv, q
    <3> QED BY <1>1, <3>1, <3>2 DEF NoBody
  <2> QED BY <2>5, <2>6, <2>7, <2>8 DEF BodyInv, a
<1>8. Past(s)'
  <2>1. Grown(s)
    BY DEF Grown, TypeOK
  <2>2. gateway[s] # <<>> => sent'[s] = sent[s]
    BY <1>0, <1>6 DEF Forwarded
  <2> QED BY <2>1, <2>2, PastKept DEF ForwardInv
<1>9. ForwardInv(s)'
  <2>1. pc[s] = "do" => Routed(s, target[s])'
    BY SameHeaders DEF ForwardInv, Routed
  <2> QED BY <1>8, <2>1, SameHeaders DEF ForwardInv, Running
<1>10. AnswerInv(s)'
  <2>1. Success(s)' <=> Success(s)
    BY DEF Success
  <2>2. /\ Justified(s, reply[s])' <=> Justified(s, reply[s])
        /\ \A i \in 1..Len(outbox[s]) : Justified(s, outbox[s][i]) => Justified(s, outbox[s][i])'
    BY <2>1, SameHeaders DEF Justified
  <2> QED BY <2>1, <2>2 DEF AnswerInv
<1> QED BY <1>5, <1>7, <1>9, <1>10

\* Every step of Envoy keeps the invariant of its own stream.
LEMMA EnvoyStepExchange ==
    ASSUME TypeOK, NEW s \in Streams, StreamInv(s), ExchangeInv(s), EnvoyStep(s)
    PROVE  ExchangeInv(s)'
<1>d. DOMAIN stage = Streams /\ DOMAIN sent = Streams /\ DOMAIN inbox = Streams /\ sent[s] \in Nat
  BY DEF TypeOK
<1>1. ASSUME NEW n \in ChunkSizes, NEW eos \in BOOLEAN, EnvoyBody(s, n, eos)
      PROVE  ExchangeInv(s)'
  <2> DEFINE b == [i \in 1..n |-> sent[s] + i]
             m == BodyMsg(b, eos)
  <2>1. n \in Nat
    BY SizesAssumption
  <2>2. b = Chunk(sent[s], sent[s] + n) /\ b \in Bytes
    <3>1. (sent[s] + n) - sent[s] = n
      BY <1>d, <2>1
    <3>2. b \in Bytes
      BY <1>d, <2>1 DEF Bytes
    <3> QED BY <3>1, <3>2 DEF Chunk
  <2>3. /\ inbox'[s] = Append(inbox[s], m) /\ sent'[s] = sent[s] + n
        /\ stage[s] = "body" /\ stage'[s] # "new" /\ Running(s)
        /\ UNCHANGED <<headers, pc, st, target, rsp, reply, outbox, gateway, redis, mappedSince>>
    BY <1>d, <1>1 DEF EnvoyBody, EnvoySends, CanSend
  <2> HIDE DEF b
  <2>4. m \in Messages /\ m.type = "body" /\ m.bytes = b
    BY <2>2 DEF BodyMsg, Messages
  <2> HIDE DEF m
  <2> QED BY <2>1, <2>2, <2>3, <2>4, MessageStep
<1>2. ASSUME NEW t \in SideMessages, EnvoySide(s, t)
      PROVE  ExchangeInv(s)'
  <2>1. SideMsg(t) \in Messages /\ SideMsg(t).type \notin {"headers", "body"}
    BY DomainAssumption DEF SideMsg, Messages
  <2>2. /\ inbox'[s] = Append(inbox[s], SideMsg(t)) /\ sent'[s] = sent[s]
        /\ stage'[s] = (IF t = "trailers" THEN "eos" ELSE stage[s]) /\ Running(s)
        /\ UNCHANGED <<headers, pc, st, target, rsp, reply, outbox, gateway, redis, mappedSince>>
    BY <1>d, <1>2 DEF EnvoySide, EnvoySends, CanSend
  <2>3. stage'[s] # "new"
    BY <2>2 DEF ExchangeInv, HeaderInv, Running
  <2>4. sent'[s] = sent[s] + 0 /\ 0 \in Nat
    BY <1>d, <2>2
  <2> QED BY <2>1, <2>2, <2>3, <2>4, MessageStep
<1>3. ASSUME NEW how \in {"halfClosed", "cancelled"}, EnvoyCloses(s, how)
      PROVE  ExchangeInv(s)'
  <2>1. UNCHANGED <<stage, headers, sent, inbox, pc, st, target, rsp, reply, outbox, gateway,
                    redis, mappedSince>>
    BY <1>3 DEF EnvoyCloses
  <2> QED BY <2>1, UntouchedExchange DEF ExchangeInv, ForwardInv
<1> QED BY <1>1, <1>2, <1>3, OpenStep DEF EnvoyStep

\* A write to Redis is remembered for the streams it may concern.
LEMMA RedisStepExchange ==
    ASSUME TypeOK, NEW s \in Streams, ExchangeInv(s), RedisStep
    PROVE  ExchangeInv(s)'
<1>1. PICK k \in RedisHosts, u \in Targets : RedisSet(k, u)
  BY DEF RedisStep
<1> DEFINE key == RedisKey(HostOf(headers[s]))
<1>2. UNCHANGED <<stage, headers, sent, inbox, pc, st, target, rsp, reply, outbox, gateway>>
  BY <1>1 DEF RedisSet
<1>3. mappedSince[s] \subseteq mappedSince'[s]
  BY <1>1 DEF RedisSet
<1>4. Running(s) => redis'[key] \in mappedSince'[s]
  <2> SUFFICES ASSUME Running(s) PROVE redis'[key] \in mappedSince'[s]
    OBVIOUS
  <2>1. key \in Text
    <3>1. headers[s] \in HeaderMaps
      BY DEF ExchangeInv, HeaderInv, Running
    <3> QED BY <3>1, HeaderTypes, TextAssumption DEF RedisKey
  <2>2. redis[key] \in mappedSince[s]
    BY DEF ExchangeInv, ForwardInv
  <2> HIDE DEF key
  <2>3. redis' = [redis EXCEPT ![k] = u] /\ DOMAIN redis = Text /\ k \in Text
    BY <1>1, DomainAssumption DEF RedisSet, TypeOK
  <2>4. mappedSince'[s] = IF key = k THEN mappedSince[s] \cup {u} ELSE mappedSince[s]
    BY <1>1 DEF RedisSet, key
  <2> QED BY <2>1, <2>2, <2>3, <2>4
<1> QED BY <1>2, <1>3, <1>4, UntouchedExchange

-----------------------------------------------------------------------------
(* The invariant holds.                                                    *)

\* The invariant holds before the first request.
LEMMA InitExchange == Init => AInv
<1> SUFFICES ASSUME Init, NEW s \in Streams PROVE ExchangeInv(s)
  BY InitInv DEF AInv
<1>1. /\ stage[s] = "new" /\ pc[s] = "idle" /\ inbox[s] = <<>> /\ sent[s] = 0
      /\ outbox[s] = <<>> /\ gateway[s] = <<>> /\ rsp[s] = NoResponse /\ st[s] = EmptyState
  BY DEF Init
<1>2. HeaderInv(s)
  BY <1>1 DEF HeaderInv, Silent, Pending
<1>3. BodyInv(s)
  <2> DEFINE e == [i \in 0..0 |-> 0]
  <2>1. e \in [0..0 -> 0..0] /\ e[0] = 0
    OBVIOUS
  <2> HIDE DEF e
  <2>2. Len(inbox[s]) = 0
    BY <1>1
  <2>3. Cuts(e, inbox[s], sent[s])
    BY <1>1, <2>1, <2>2 DEF Cuts
  <2>4. st[s].body = Upto(e[0])
    <3>1. EmptyState.body = <<>>
      BY DEF EmptyState
    <3>2. Upto(0) = <<>>
      BY DEF Upto
    <3> QED BY <1>1, <2>1, <3>1, <3>2
  <2>5. ~Forwarded(s)
    BY <1>1 DEF Forwarded
  <2> QED BY <1>1, <2>1, <2>2, <2>3, <2>4, <2>5 DEF BodyInv
<1>4. ForwardInv(s)
  BY <1>1 DEF ForwardInv, Past, Running
<1>5. AnswerInv(s)
  BY <1>1 DEF AnswerInv
<1> QED BY <1>2, <1>3, <1>4, <1>5 DEF ExchangeInv

\* Every step of the system keeps the invariant.
LEMMA StepExchange == AInv /\ [Next]_vars => AInv'
<1> SUFFICES ASSUME AInv, [Next]_vars, NEW q \in Streams PROVE ExchangeInv(q)'
  BY StepInv DEF AInv
<1>0. TypeOK /\ StreamInv(q) /\ ExchangeInv(q)
  BY DEF AInv, IInv
<1>1. ASSUME NEW s \in Streams, HandlerStep(s) \/ EnvoyStep(s)
      PROVE  ExchangeInv(q)'
  <2>1. CASE q = s
    BY <1>0, <1>1, <2>1, HandlerStepExchange, EnvoyStepExchange
  <2>2. CASE q # s
    <3>1. /\ stage'[q] = stage[q] /\ headers'[q] = headers[q] /\ sent'[q] = sent[q]
          /\ inbox'[q] = inbox[q] /\ pc'[q] = pc[q] /\ st'[q] = st[q]
          /\ target'[q] = target[q] /\ outbox'[q] = outbox[q] /\ gateway'[q] = gateway[q]
          /\ mappedSince'[q] = mappedSince[q]
          /\ rsp'[q] = rsp[q] /\ reply'[q] = reply[q] /\ redis' = redis
      BY <1>0, <1>1, <2>2, OnlyOwnStream
    <3> QED BY <1>0, <3>1, UntouchedExchange DEF ExchangeInv, ForwardInv
  <2> QED BY <2>1, <2>2
<1>2. CASE RedisStep
  BY <1>0, <1>2, RedisStepExchange
<1>3. CASE UNCHANGED vars
  <2>1. UNCHANGED <<stage, headers, sent, inbox, pc, st, target, rsp, reply, outbox, gateway,
                    redis, mappedSince>>
    BY <1>3 DEF vars
  <2> QED BY <1>0, <2>1, UntouchedExchange DEF ExchangeInv, ForwardInv
<1> QED BY <1>1, <1>2, <1>3 DEF Next

\* AInv holds in every reachable state of the relay.
THEOREM AnswerInvariance == Spec => []AInv
BY InitExchange, StepExchange, PTL DEF Spec

-----------------------------------------------------------------------------
(* What follows for the relay's clients.                                   *)

\* Whatever Envoy sends and in whatever pieces, late chunks included, a request
\* that fails a check of its headers or misses part of its body is forwarded
\* only after the client was told so (server.go, Process).
THEOREM BadForwardsAreTold == Spec => []BadForwardsFollowTheirError
<1>1. AInv => BadForwardsFollowTheirError
  <2> SUFFICES ASSUME AInv, NEW s \in Streams, NEW i \in DOMAIN gateway[s]
               PROVE  LET r == gateway[s][i] IN
                      /\ stage[s] = "eos"
                      /\ ~IsConfigRequest(headers[s])
                      /\ HeaderError(headers[s]) # NoError
                            => Told(s, HeaderError(headers[s]), r.after)
                      /\ r.body # ClientBody(s) => Told(s, 413, r.after)
    BY DEF BadForwardsFollowTheirError
  <2>1. Past(s) /\ StreamInv(s) /\ gateway[s] \in Seq(GatewayRequests)
    BY DEF AInv, IInv, ExchangeInv, ForwardInv, TypeOK
  <2>2. gateway[s] # <<>>
    BY <2>1
  <2> QED BY <2>1, <2>2 DEF Past, StreamInv, Forwarded
<1> QED BY <1>1, AnswerInvariance, PTL

\* A request goes to the gateway of its own host, whenever the lookup happens
\* and whatever is written to Redis meanwhile (app.go, the chain of sources).
THEOREM RequestsGoToTheirHost == Spec => []RoutedByHost
<1>1. AInv => RoutedByHost
  BY DEF AInv, ExchangeInv, ForwardInv, Past, Routed, RoutedByHost
<1> QED BY <1>1, AnswerInvariance, PTL

\* If Envoy's client is handed an OHTTP response, it is the complete, successful
\* answer to the client's whole request (server.go, forwardAndRespond;
\* relayer.go, Relay).
THEOREM AnswersAreTheGateways == Spec => []ClientAnswerSound
<1>1. AInv => ClientAnswerSound
  <2> SUFFICES ASSUME AInv, NEW s \in Streams,
                      outbox[s] # <<>>, outbox[s][1].ctype = ContentTypeOHTTPRes
               PROVE  /\ Len(gateway[s]) = 1
                      /\ gateway[s][1].body = ClientBody(s)
                      /\ rsp[s].complete /\ rsp[s].status \in 200..299
                      /\ outbox[s][1].bytes = rsp[s].bytes
    BY DEF ClientAnswerSound
  <2>1. /\ outbox[s] \in Seq(Replies) /\ gateway[s] \in Seq(GatewayRequests)
        /\ Len(gateway[s]) <= 1 /\ Past(s) /\ AnswerInv(s)
    BY DEF AInv, IInv, StreamInv, ExchangeInv, ForwardInv, TypeOK
  <2>2. 1 \in 1..Len(outbox[s])
    BY <2>1
  <2>3. Success(s) /\ outbox[s][1].bytes = rsp[s].bytes
    BY <2>1, <2>2 DEF AnswerInv, Justified
  <2>4. Len(gateway[s]) = 1 /\ 1 \in DOMAIN gateway[s]
    <3>1. gateway[s] # <<>>
      BY <2>3 DEF Success
    <3>2. Len(gateway[s]) \in Nat /\ Len(gateway[s]) # 0
      BY <2>1, <3>1
    <3>3. Len(gateway[s]) = 1
      <4>1. \A n \in Nat : n # 0 /\ n <= 1 => n = 1
        OBVIOUS
      <4> QED BY <2>1, <3>2, <4>1
    <3> QED BY <2>1, <3>3
  <2>5. /\ gateway[s][1].after \in 0..Len(outbox[s])
        /\ \A k \in 1..gateway[s][1].after : outbox[s][k].ctype # ContentTypeOHTTPRes
        /\ gateway[s][1].body # ClientBody(s) => Told(s, 413, gateway[s][1].after)
    BY <2>1, <2>4 DEF Past
  <2>6. gateway[s][1].after = 0
    BY <2>5
  <2>7. ~Told(s, 413, gateway[s][1].after)
    BY <2>6 DEF Told
  <2> QED BY <2>3, <2>4, <2>5, <2>7 DEF Success
<1> QED BY <1>1, AnswerInvariance, PTL

\* A request that ended without an answer and without a last chunk, because
\* trailers ended it, is buffered whole and was sent to nobody (server.go,
\* Process, the trailers case).
THEOREM UnansweredStaysUntouched == Spec => []UnansweredIsUntouched
<1>1. AInv => UnansweredIsUntouched
  <2> SUFFICES ASSUME AInv, NEW s \in Streams, outbox[s] = <<>>, pc[s] = "recv", inbox[s] = <<>>
               PROVE  gateway[s] = <<>> /\ st[s].body = ClientBody(s)
    BY DEF UnansweredIsUntouched
  <2>1. BodyInv(s) /\ AnswerInv(s) /\ sent[s] \in Nat
    BY DEF AInv, IInv, ExchangeInv, TypeOK
  <2>2. gateway[s] = <<>>
    BY <2>1 DEF AnswerInv
  <2>3. ~Tells(s, 413)
    BY DEF Tells, Told
  <2>4. PICK e \in [0..Len(inbox[s]) -> 0..sent[s]] :
            Cuts(e, inbox[s], sent[s]) /\ st[s].body = Upto(e[0])
    BY <2>1, <2>3 DEF BodyInv
  <2>5. e[0] = sent[s]
    <3>1. Len(inbox[s]) = 0
      OBVIOUS
    <3> QED BY <2>4, <3>1 DEF Cuts
  <2> QED BY <2>2, <2>4, <2>5 DEF ClientBody, Upto
<1> QED BY <1>1, AnswerInvariance, PTL

=============================================================================
