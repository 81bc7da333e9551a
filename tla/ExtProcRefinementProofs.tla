----------------------- MODULE ExtProcRefinementProofs -----------------------
(***************************************************************************)
(* Proof that ExtProcServer implements RelaySpec: every step of a stream   *)
(* is a step of its exchange, or changes nothing that RelaySpec shows.     *)
(***************************************************************************)
EXTENDS ExtProcMetricsProofs, ExtProcRefinement

USE DEF envoyVars, localVars, outsideVars, redisVars, endMetrics, ioMetrics

-----------------------------------------------------------------------------
(* Steps of an exchange.                                                   *)

\* Nothing that RelaySpec shows of the exchange changes.
Unseen(s) ==
    /\ StatusOf(s)' = StatusOf(s) /\ WantsOf(s)' = WantsOf(s) /\ AskedOf(s)' = AskedOf(s)
    /\ GotOf(s)' = GotOf(s) /\ RepliedOf(s)' = RepliedOf(s) /\ AnswerOf(s)' = AnswerOf(s)

OthersUnseen(s) == \A q \in Streams : q # s => Unseen(q)

\* A step that changes nothing visible is a stutter of RelaySpec.
LEMMA UnseenStep ==
    ASSUME \A q \in Streams : Unseen(q)
    PROVE  UNCHANGED Relay!relayVars
BY DEF Unseen, Relay!relayVars

\* A client opens an exchange.
LEMMA BeginStep ==
    ASSUME NEW s \in Streams, OthersUnseen(s), NEW what \in {"ohttp", "keys"}, NEW ended \in BOOLEAN,
           StatusOf(s) = "new", StatusOf(s)' = "open", WantsOf(s)' = what, AskedOf(s)' = ended,
           GotOf(s)' = GotOf(s), RepliedOf(s)' = RepliedOf(s), AnswerOf(s)' = AnswerOf(s)
    PROVE  Relay!RelayNext
<1>1. Relay!Begin(s, what, ended)
  BY DEF OthersUnseen, Unseen, Relay!Begin
<1> QED BY <1>1 DEF Relay!RelayNext

\* A client has sent the end of its request.
LEMMA CompleteStep ==
    ASSUME NEW s \in Streams, OthersUnseen(s),
           StatusOf(s) = "open", StatusOf(s)' = "open", WantsOf(s)' = WantsOf(s), AskedOf(s)' = TRUE,
           GotOf(s)' = GotOf(s), RepliedOf(s)' = RepliedOf(s), AnswerOf(s)' = AnswerOf(s)
    PROVE  Relay!RelayNext
<1>1. Relay!Complete(s)
  BY DEF OthersUnseen, Unseen, Relay!Complete
<1> QED BY <1>1 DEF Relay!RelayNext

\* A request is passed on, a bad one only after an error was answered.
LEMMA ForwardStep ==
    ASSUME NEW s \in Streams, OthersUnseen(s), NEW what \in {"whole", "other"},
           StatusOf(s) = "open", WantsOf(s) = "ohttp", AskedOf(s), GotOf(s) = "no",
           what = "other" => AnswerOf(s) = [kind |-> "error"],
           StatusOf(s)' = "open", WantsOf(s)' = WantsOf(s), AskedOf(s)' = AskedOf(s),
           GotOf(s)' = what, RepliedOf(s)' = RepliedOf(s), AnswerOf(s)' = AnswerOf(s)
    PROVE  Relay!RelayNext
<1>1. Relay!Forward(s, what)
  BY DEF OthersUnseen, Unseen, Relay!Forward, Relay!Error
<1> QED BY <1>1 DEF Relay!RelayNext

\* A gateway's reply is complete.
LEMMA ReplyComesIn ==
    ASSUME NEW s \in Streams, OthersUnseen(s), NEW n \in ReplySizes,
           StatusOf(s) = "open", GotOf(s) # "no", RepliedOf(s) = [kind |-> "nothing"],
           StatusOf(s)' = "open", WantsOf(s)' = WantsOf(s), AskedOf(s)' = AskedOf(s),
           GotOf(s)' = GotOf(s), RepliedOf(s)' = [kind |-> "reply", body |-> n],
           AnswerOf(s)' = AnswerOf(s)
    PROVE  Relay!RelayNext
<1>1. Relay!Reply(s, n)
  BY DEF OthersUnseen, Unseen, Relay!Reply, Relay!Nothing, Relay!Opaque
<1> QED BY <1>1 DEF Relay!RelayNext

\* The client gets its answer.
LEMMA AnswerStep ==
    ASSUME NEW s \in Streams, OthersUnseen(s), NEW a,
           StatusOf(s) = "open", AnswerOf(s) = [kind |-> "nothing"],
           \/ a = [kind |-> "error"]
           \/ a = RepliedOf(s) /\ a # [kind |-> "nothing"] /\ GotOf(s) = "whole"
           \/ WantsOf(s) = "keys" /\ \E k \in 0..KeyConfigSize : a = [kind |-> "keys", body |-> k],
           StatusOf(s)' = "open", WantsOf(s)' = WantsOf(s), AskedOf(s)' = AskedOf(s),
           GotOf(s)' = GotOf(s), RepliedOf(s)' = RepliedOf(s), AnswerOf(s)' = a
    PROVE  Relay!RelayNext
<1>1. Relay!Answer(s, a)
  BY DEF OthersUnseen, Unseen, Relay!Answer, Relay!Nothing, Relay!Error, Relay!Keys
<1>2. a \in Relay!Answers(s)
  BY DEF Relay!Answers, Relay!Error, Relay!Keys
<1> QED BY <1>1, <1>2 DEF Relay!RelayNext

\* An exchange ends.
LEMMA OverStep ==
    ASSUME NEW s \in Streams, OthersUnseen(s),
           StatusOf(s) = "open", StatusOf(s)' = "over", WantsOf(s)' = WantsOf(s),
           AskedOf(s)' = AskedOf(s), GotOf(s)' = GotOf(s), RepliedOf(s)' = RepliedOf(s),
           AnswerOf(s)' = AnswerOf(s)
    PROVE  Relay!RelayNext
<1>1. Relay!Over(s)
  BY DEF OthersUnseen, Unseen, Relay!Over
<1> QED BY <1>1 DEF Relay!RelayNext

-----------------------------------------------------------------------------
(* The steps of a stream.                                                  *)

\* What RelaySpec shows of a stream changes only with what it is made of.
LEMMA SeenParts ==
    ASSUME NEW s \in Streams
    PROVE  /\ pc'[s] = pc[s] => StatusOf(s)' = StatusOf(s)
           /\ headers'[s] = headers[s] => WantsOf(s)' = WantsOf(s)
           /\ stage'[s] = stage[s] => AskedOf(s)' = AskedOf(s)
           /\ /\ headers'[s] = headers[s] /\ gateway'[s] = gateway[s]
              /\ gateway[s] = <<>> \/ sent'[s] = sent[s]
              => GotOf(s)' = GotOf(s)
           /\ rsp'[s] = rsp[s] => RepliedOf(s)' = RepliedOf(s)
           /\ outbox'[s] = outbox[s] => AnswerOf(s)' = AnswerOf(s)
<1>1. pc'[s] = pc[s] => StatusOf(s)' = StatusOf(s)
  BY DEF StatusOf, Running
<1>2. headers'[s] = headers[s] => WantsOf(s)' = WantsOf(s)
  BY SameHeaders DEF WantsOf
<1>3. stage'[s] = stage[s] => AskedOf(s)' = AskedOf(s)
  BY DEF AskedOf
<1>4. ASSUME headers'[s] = headers[s], gateway'[s] = gateway[s],
             gateway[s] = <<>> \/ sent'[s] = sent[s]
      PROVE  GotOf(s)' = GotOf(s)
  <2>1. CASE gateway[s] = <<>>
    BY <1>4, <2>1 DEF GotOf
  <2>2. CASE sent'[s] = sent[s]
    <3>1. ClientBody(s)' = ClientBody(s)
      BY <2>2 DEF ClientBody
    <3> QED BY <1>4, <3>1, SameHeaders DEF GotOf
  <2> QED BY <1>4, <2>1, <2>2
<1>5. rsp'[s] = rsp[s] => RepliedOf(s)' = RepliedOf(s)
  BY DEF RepliedOf
<1>6. outbox'[s] = outbox[s] => AnswerOf(s)' = AnswerOf(s)
  BY DEF AnswerOf, Abstract
<1> QED BY <1>1, <1>2, <1>3, <1>4, <1>5, <1>6

\* A step of one stream is not seen on the others.
LEMMA StepOfOne ==
    ASSUME TypeOK, NEW s \in Streams, HandlerStep(s) \/ EnvoyStep(s)
    PROVE  OthersUnseen(s)
<1> SUFFICES ASSUME NEW q \in Streams, q # s PROVE Unseen(q)
  BY DEF OthersUnseen
<1>1. /\ stage'[q] = stage[q] /\ headers'[q] = headers[q] /\ sent'[q] = sent[q]
      /\ pc'[q] = pc[q] /\ outbox'[q] = outbox[q] /\ gateway'[q] = gateway[q]
      /\ rsp'[q] = rsp[q]
  BY OnlyOwnStream
<1> QED BY <1>1, SeenParts DEF Unseen

\* Most steps of a handler touch nothing that is seen, but for its end.
LEMMA MostStepsAreQuiet ==
    ASSUME TypeOK, NEW s \in Streams, HandlerStep(s)
    PROVE  \/ Steady(s) /\ Mute(s)
           \/ Do(s) \/ SendOK(s)
           \/ \E code \in GatewayStatuses : DoResponse(s, code)
           \/ \E n \in ReplySizes : Read(s, n)
<1> USE DEF Steady, Mute
<1>1. CASE SelectCtxDone(s) \/ SelectDefault(s) \/ RecvEOF(s) \/ RecvError(s)
  BY <1>1 DEF SelectCtxDone, SelectDefault, RecvEOF, RecvError
<1>2. CASE RecvHeaders(s)
  BY <1>2 DEF RecvHeaders
<1>3. CASE RecvBodyTooLarge(s)
  BY <1>3 DEF RecvBodyTooLarge
<1>4. CASE RecvBody(s)
  BY <1>4 DEF RecvBody
<1>5. CASE RecvIgnored(s) \/ RecvUnknown(s)
  BY <1>5 DEF RecvIgnored, RecvUnknown
<1>6. CASE Lookup(s) \/ KcLookup(s)
  BY <1>6 DEF Lookup, KcLookup, LookupThen
<1>7. CASE DoFailed(s)
  BY <1>7 DEF DoFailed
<1>9. CASE ReadFailed(s)
  BY <1>9 DEF ReadFailed
<1>10. CASE Record(s)
  BY <1>10 DEF Record
<1>11. CASE SendFailed(s)
  BY <1>11 DEF SendFailed
<1>8. ASSUME NEW code \in {0} \cup GatewayStatuses, NEW n \in 0..KeyConfigSize, KcFetch(s, code, n)
      PROVE  Steady(s) /\ Mute(s)
  BY <1>8 DEF KcFetch
<1> QED BY <1>1, <1>2, <1>3, <1>4, <1>5, <1>6, <1>7, <1>8, <1>9, <1>10, <1>11
       DEF HandlerStep

\* A request is passed on when its last chunk was received; if it is a bad one,
\* the first response on the stream is an error.
LEMMA DoRefines ==
    ASSUME AInv, NEW s \in Streams, OthersUnseen(s), Do(s), Past(s)', ExchangeInv(s)
    PROVE  Relay!RelayNext
<1>d. DOMAIN pc = Streams /\ DOMAIN gateway = Streams /\ Len(outbox[s]) \in Nat
      /\ outbox[s] \in Seq(Replies)
  BY DEF AInv, IInv, TypeOK
<1>1. /\ pc[s] = "do" /\ pc'[s] = "await" /\ Steady(s)
      /\ gateway'[s] = Append(gateway[s], GatewayRequest(s))
      /\ outbox'[s] = outbox[s] /\ rsp'[s] = rsp[s]
  BY <1>d DEF Do, Goto, Steady
<1>2. gateway[s] = <<>> /\ stage[s] = "eos" /\ ~IsConfigRequest(headers[s])
  BY <1>1 DEF AInv, IInv, StreamInv, Forwarded, ExchangeInv, ForwardInv
<1>3. gateway'[s] = <<GatewayRequest(s)>>
  BY <1>1, <1>2
<1> DEFINE r == GatewayRequest(s)
           what == IF HeaderError(headers[s]) = NoError /\ r.body = ClientBody(s)
                   THEN "whole" ELSE "other"
<1>4. r.after = Len(outbox[s])
  BY DEF GatewayRequest
<1> HIDE DEF r
<1>5. gateway'[s] # <<>> /\ Len(gateway'[s]) = 1 /\ gateway'[s][1] = r /\ 1 \in DOMAIN gateway'[s]
  BY <1>3 DEF r
<1>6. headers'[s] = headers[s] /\ sent'[s] = sent[s] /\ stage'[s] = stage[s]
  BY <1>1 DEF Steady
<1>7. ClientBody(s)' = ClientBody(s)
  BY <1>6 DEF ClientBody
<1>8. GotOf(s)' = what
  BY <1>5, <1>6, <1>7, SameHeaders DEF GotOf
<1>9. what = "other" => AnswerOf(s) = [kind |-> "error"]
  <2> SUFFICES ASSUME what = "other" PROVE AnswerOf(s) = [kind |-> "error"]
    OBVIOUS
  <2>1. /\ HeaderError(headers[s]) # NoError
              => \E i \in 1..Len(outbox[s]) : outbox[s][i].text = HeaderError(headers[s])
        /\ r.body # ClientBody(s) => \E i \in 1..Len(outbox[s]) : outbox[s][i].text = 413
    BY <1>1, <1>4, <1>5, <1>6, <1>7, SameHeaders DEF Past, Told
  <2>2. outbox[s] # <<>> /\ 1 \in 1..Len(outbox[s])
    BY <1>d, <2>1
  <2>3. Justified(s, outbox[s][1])
    BY <2>2 DEF ExchangeInv, AnswerInv
  <2>4. outbox[s][1].ctype \notin {ContentTypeOHTTPRes, ContentTypeOHTTPKeys}
    BY <1>2, <2>3 DEF Justified, Success
  <2> QED BY <2>2, <2>4 DEF AnswerOf, Abstract
<1>10. /\ StatusOf(s) = "open" /\ StatusOf(s)' = "open" /\ WantsOf(s) = "ohttp"
       /\ AskedOf(s) /\ GotOf(s) = "no"
  BY <1>1, <1>2 DEF StatusOf, Running, WantsOf, AskedOf, GotOf
<1>11. what \in {"whole", "other"}
  OBVIOUS
<1> HIDE DEF what
<1> QED BY <1>1, <1>6, <1>8, <1>9, <1>10, <1>11, SeenParts, ForwardStep

\* The gateway's answer counts once it is complete and a success.
LEMMA ReadRefines ==
    ASSUME AInv, NEW s \in Streams, OthersUnseen(s), NEW n \in ReplySizes, Read(s, n), ExchangeInv(s)
    PROVE  Relay!RelayNext \/ Unseen(s)
<1>d. DOMAIN pc = Streams /\ DOMAIN rsp = Streams
  BY DEF AInv, IInv, TypeOK
<1>1. /\ pc[s] = "read" /\ Steady(s) /\ rsp'[s] = Response(rsp[s].status, n, TRUE)
      /\ outbox'[s] = outbox[s] /\ gateway'[s] = gateway[s]
      /\ pc'[s] \in {"record", "send"}
  BY <1>d DEF Read, Steady, Goto, RespondError, Respond
<1>2. gateway[s] # <<>> /\ rsp[s].status \in GatewayStatuses /\ ~rsp[s].complete
  BY <1>1 DEF ExchangeInv, AnswerInv
<1>3. headers'[s] = headers[s] /\ sent'[s] = sent[s] /\ stage'[s] = stage[s]
  BY <1>1 DEF Steady
<1>4. /\ WantsOf(s)' = WantsOf(s) /\ AskedOf(s)' = AskedOf(s) /\ GotOf(s)' = GotOf(s)
      /\ AnswerOf(s)' = AnswerOf(s)
  BY <1>1, <1>3, SeenParts
<1>5. /\ StatusOf(s) = "open" /\ StatusOf(s)' = "open" /\ GotOf(s) # "no"
      /\ RepliedOf(s) = [kind |-> "nothing"]
  BY <1>1, <1>2 DEF StatusOf, Running, GotOf, RepliedOf
<1>6. rsp'[s].complete /\ rsp'[s].status = rsp[s].status /\ rsp'[s].bytes = n
  BY <1>1 DEF Response
<1>7. CASE rsp[s].status \in 200..299
  <2>1. RepliedOf(s)' = [kind |-> "reply", body |-> n]
    BY <1>6, <1>7 DEF RepliedOf
  <2> QED BY <1>4, <1>5, <2>1, ReplyComesIn
<1>8. CASE rsp[s].status \notin 200..299
  <2>1. RepliedOf(s)' = [kind |-> "nothing"]
    BY <1>6, <1>8 DEF RepliedOf
  <2> QED BY <1>4, <1>5, <2>1 DEF Unseen
<1> QED BY <1>7, <1>8

\* The first response on a stream is its client's answer.
LEMMA SendRefines ==
    ASSUME AInv, NEW s \in Streams, OthersUnseen(s), SendOK(s), ExchangeInv(s), ExchangeInv(s)'
    PROVE  Relay!RelayNext \/ Unseen(s)
<1>d. /\ DOMAIN pc = Streams /\ DOMAIN outbox = Streams /\ outbox[s] \in Seq(Replies)
      /\ reply[s] \in Replies /\ gateway[s] \in Seq(GatewayRequests) /\ Len(gateway[s]) <= 1
  BY DEF AInv, IInv, TypeOK, StreamInv
<1>1. /\ pc[s] = "send" /\ pc'[s] = "select" /\ Steady(s)
      /\ rsp'[s] = rsp[s] /\ gateway'[s] = gateway[s]
      /\ outbox'[s] = Append(outbox[s], reply[s])
  BY <1>d DEF SendOK, Steady, Goto
<1>2. /\ headers'[s] = headers[s] /\ sent'[s] = sent[s] /\ stage'[s] = stage[s]
  BY <1>1 DEF Steady
<1>3. /\ WantsOf(s)' = WantsOf(s) /\ AskedOf(s)' = AskedOf(s) /\ GotOf(s)' = GotOf(s)
      /\ RepliedOf(s)' = RepliedOf(s)
  BY <1>1, <1>2, SeenParts
<1>4. StatusOf(s) = "open" /\ StatusOf(s)' = "open"
  BY <1>1 DEF StatusOf, Running
<1>5. CASE outbox[s] # <<>>
  <2>1. outbox'[s] # <<>> /\ outbox'[s][1] = outbox[s][1]
    BY <1>d, <1>1, <1>5
  <2>2. AnswerOf(s)' = AnswerOf(s)
    BY <1>5, <2>1 DEF AnswerOf, Abstract
  <2> QED BY <1>3, <1>4, <2>2 DEF Unseen
<1>6. CASE outbox[s] = <<>>
  <2> DEFINE a == Abstract(reply[s])
  <2>1. outbox'[s] = <<reply[s]>>
    BY <1>1, <1>6
  <2>2. AnswerOf(s) = [kind |-> "nothing"] /\ AnswerOf(s)' = a
    <3>1. outbox'[s] # <<>> /\ outbox'[s][1] = reply[s]
      BY <2>1
    <3> QED BY <1>6, <3>1 DEF AnswerOf, Abstract
  <2>3. Justified(s, reply[s])
    BY <1>1 DEF ExchangeInv, AnswerInv
  <2>4. \/ a = [kind |-> "error"]
        \/ a = RepliedOf(s) /\ a # [kind |-> "nothing"] /\ GotOf(s) = "whole"
        \/ WantsOf(s) = "keys" /\ \E k \in 0..KeyConfigSize : a = [kind |-> "keys", body |-> k]
    <3>0. ContentTypeOHTTPRes # ContentTypeOHTTPKeys
      BY DEF ContentTypeOHTTPRes, ContentTypeOHTTPKeys
    <3>1. CASE reply[s].ctype = ContentTypeOHTTPRes
      <4>1. Success(s) /\ reply[s].bytes = rsp[s].bytes
        BY <2>3, <3>1 DEF Justified
      <4>2. a = [kind |-> "reply", body |-> rsp[s].bytes]
        BY <3>0, <3>1, <4>1 DEF Abstract
      <4>3. a = RepliedOf(s) /\ a # [kind |-> "nothing"]
        BY <4>1, <4>2 DEF Success, RepliedOf
      <4>4. Len(gateway[s]) = 1 /\ 1 \in DOMAIN gateway[s] /\ gateway[s] # <<>>
        <5>1. gateway[s] # <<>>
          BY <4>1 DEF Success
        <5>2. Len(gateway[s]) \in Nat /\ Len(gateway[s]) # 0
          BY <1>d, <5>1
        <5>3. \A k \in Nat : k # 0 /\ k <= 1 => k = 1
          OBVIOUS
        <5>4. Len(gateway[s]) = 1
          BY <1>d, <5>2, <5>3
        <5> QED BY <1>d, <5>1, <5>4
      <4>5. /\ gateway[s][1].after \in 0..Len(outbox[s])
            /\ HeaderError(headers[s]) # NoError
                  => Told(s, HeaderError(headers[s]), gateway[s][1].after)
            /\ gateway[s][1].body # ClientBody(s) => Told(s, 413, gateway[s][1].after)
        BY <4>4 DEF ExchangeInv, ForwardInv, Past
      <4>6. gateway[s][1].after = 0
        <5>1. Len(outbox[s]) = 0
          BY <1>6
        <5> QED BY <4>5, <5>1
      <4>7. \A code : ~Told(s, code, gateway[s][1].after)
        BY <4>6 DEF Told
      <4>8. GotOf(s) = "whole"
        BY <4>4, <4>5, <4>7 DEF GotOf
      <4> QED BY <4>3, <4>8
    <3>2. CASE reply[s].ctype = ContentTypeOHTTPKeys
      <4>1. IsConfigRequest(headers[s]) /\ reply[s].bytes \in 0..KeyConfigSize
        BY <2>3, <3>2 DEF Justified
      <4>2. a = [kind |-> "keys", body |-> reply[s].bytes]
        BY <3>0, <3>2 DEF Abstract
      <4> QED BY <4>1, <4>2 DEF WantsOf
    <3>3. CASE reply[s].ctype \notin {ContentTypeOHTTPRes, ContentTypeOHTTPKeys}
      BY <3>3 DEF Abstract
    <3> QED BY <3>1, <3>2, <3>3
  <2> HIDE DEF a
  <2> QED BY <1>3, <1>4, <2>2, <2>4, AnswerStep
<1> QED BY <1>5, <1>6

\* Every step of a handler is a step of RelaySpec, or is not seen.
LEMMA HandlerRefines ==
    ASSUME AInv, AInv', NEW s \in Streams, HandlerStep(s)
    PROVE  Relay!RelayNext \/ UNCHANGED Relay!relayVars
<1>0. /\ TypeOK /\ ExchangeInv(s) /\ ExchangeInv(s)' /\ Past(s)'
      /\ DOMAIN pc = Streams
  BY DEF AInv, IInv, ExchangeInv, ForwardInv, TypeOK
<1>1. OthersUnseen(s)
  BY <1>0, StepOfOne
<1>2. Unseen(s) => UNCHANGED Relay!relayVars
  BY <1>1, UnseenStep DEF OthersUnseen
<1>3. /\ Running(s) /\ (Running(s)' \/ pc'[s] = "done")
  <2>1. \A why, code : Finish(s, why, code) => pc'[s] = "done"
    BY <1>0 DEF Finish, Goto
  <2> QED BY <1>0, <2>1, HandlerMetrics
<1>4. CASE Steady(s) /\ Mute(s)
  <2>1. /\ WantsOf(s)' = WantsOf(s) /\ AskedOf(s)' = AskedOf(s) /\ GotOf(s)' = GotOf(s)
        /\ RepliedOf(s)' = RepliedOf(s) /\ AnswerOf(s)' = AnswerOf(s)
    BY <1>4, SeenParts DEF Steady, Mute
  <2>2. CASE Running(s)'
    <3>1. StatusOf(s)' = StatusOf(s)
      BY <1>3, <2>2 DEF StatusOf
    <3> QED BY <1>2, <2>1, <3>1 DEF Unseen
  <2>3. CASE pc'[s] = "done"
    <3>1. StatusOf(s) = "open" /\ StatusOf(s)' = "over"
      BY <1>3, <2>3 DEF StatusOf, Running
    <3> QED BY <1>1, <2>1, <3>1, OverStep
  <2> QED BY <1>3, <2>2, <2>3
<1>5. CASE Do(s)
  BY <1>0, <1>1, <1>5, DoRefines
<1>6. ASSUME NEW code \in GatewayStatuses, DoResponse(s, code)
      PROVE  Unseen(s)
  <2>1. /\ pc[s] = "await" /\ pc'[s] = "read" /\ Steady(s) /\ rsp'[s] = Response(code, 0, FALSE)
        /\ outbox'[s] = outbox[s] /\ gateway'[s] = gateway[s]
    <3>1. DOMAIN rsp = Streams
      BY <1>0 DEF TypeOK
    <3> QED BY <1>0, <1>6, <3>1 DEF DoResponse, Steady, Goto
  <2>2. /\ WantsOf(s)' = WantsOf(s) /\ AskedOf(s)' = AskedOf(s) /\ GotOf(s)' = GotOf(s)
        /\ AnswerOf(s)' = AnswerOf(s)
    BY <2>1, SeenParts DEF Steady
  <2>3. StatusOf(s)' = StatusOf(s)
    BY <2>1 DEF StatusOf, Running
  <2>4. ~rsp[s].complete /\ ~rsp'[s].complete
    BY <1>0, <2>1 DEF ExchangeInv, AnswerInv, NoResponse, Response
  <2>5. RepliedOf(s)' = RepliedOf(s)
    BY <2>4 DEF RepliedOf
  <2> QED BY <2>2, <2>3, <2>5 DEF Unseen
<1>7. ASSUME NEW n \in ReplySizes, Read(s, n)
      PROVE  Relay!RelayNext \/ Unseen(s)
  BY <1>0, <1>1, <1>7, ReadRefines
<1>8. CASE SendOK(s)
  BY <1>0, <1>1, <1>2, <1>8, SendRefines
<1> QED BY <1>0, <1>2, <1>4, <1>5, <1>6, <1>7, <1>8, MostStepsAreQuiet

\* Envoy opens the exchange and ends the client's request.
LEMMA EnvoyRefines ==
    ASSUME AInv, NEW s \in Streams, EnvoyStep(s)
    PROVE  Relay!RelayNext \/ UNCHANGED Relay!relayVars
<1>0. /\ TypeOK /\ ExchangeInv(s) /\ StreamInv(s)
      /\ DOMAIN pc = Streams /\ DOMAIN stage = Streams /\ DOMAIN headers = Streams
  BY DEF AInv, IInv, TypeOK
<1>1. OthersUnseen(s)
  BY <1>0, StepOfOne
<1>2. Unseen(s) => UNCHANGED Relay!relayVars
  BY <1>1, UnseenStep DEF OthersUnseen
<1>3. ASSUME NEW h \in HeaderMaps, NEW bodyless \in BOOLEAN, Open(s, h, bodyless)
      PROVE  Relay!RelayNext
  <2>1. /\ stage[s] = "new" /\ stage'[s] = (IF bodyless THEN "eos" ELSE "body")
        /\ headers'[s] = h /\ pc'[s] = "select" /\ UNCHANGED <<sent, rsp, outbox, gateway>>
    BY <1>0, <1>3 DEF Open
  <2>2. pc[s] = "idle" /\ gateway[s] = <<>>
    BY <1>0, <2>1 DEF ExchangeInv, HeaderInv, Silent
  <2>3. /\ StatusOf(s) = "new" /\ StatusOf(s)' = "open"
        /\ WantsOf(s)' = (IF IsConfigRequest(h) THEN "keys" ELSE "ohttp")
        /\ AskedOf(s)' = bodyless
    BY <2>1, <2>2 DEF StatusOf, Running, WantsOf, AskedOf
  <2>4. GotOf(s)' = GotOf(s)
    BY <2>1, <2>2 DEF GotOf
  <2>5. RepliedOf(s)' = RepliedOf(s) /\ AnswerOf(s)' = AnswerOf(s)
    BY <2>1, SeenParts
  <2>6. (IF IsConfigRequest(h) THEN "keys" ELSE "ohttp") \in {"ohttp", "keys"}
    OBVIOUS
  <2> QED BY <1>1, <2>3, <2>4, <2>5, <2>6, BeginStep
<1>4. ASSUME Running(s), UNCHANGED <<headers, pc, rsp, outbox, gateway>>,
             gateway[s] = <<>> \/ sent'[s] = sent[s],
             stage'[s] \in {stage[s], "eos"}
      PROVE  Relay!RelayNext \/ UNCHANGED Relay!relayVars
  <2>1. /\ StatusOf(s)' = StatusOf(s) /\ WantsOf(s)' = WantsOf(s) /\ GotOf(s)' = GotOf(s)
        /\ RepliedOf(s)' = RepliedOf(s) /\ AnswerOf(s)' = AnswerOf(s)
    BY <1>4, SeenParts
  <2>2. CASE stage'[s] = stage[s]
    <3>1. AskedOf(s)' = AskedOf(s)
      BY <2>2, SeenParts
    <3> QED BY <1>2, <2>1, <3>1 DEF Unseen
  <2>3. CASE stage'[s] = "eos"
    <3>1. AskedOf(s)' = TRUE /\ StatusOf(s) = "open"
      BY <1>4, <2>3 DEF AskedOf, StatusOf
    <3> QED BY <1>1, <2>1, <3>1, CompleteStep
  <2> QED BY <1>4, <2>2, <2>3
<1>5. ASSUME NEW n \in ChunkSizes, NEW eos \in BOOLEAN, EnvoyBody(s, n, eos)
      PROVE  Relay!RelayNext \/ UNCHANGED Relay!relayVars
  <2>1. /\ Running(s) /\ UNCHANGED <<headers, pc, rsp, outbox, gateway>>
        /\ stage[s] = "body" /\ stage'[s] \in {stage[s], "eos"}
    BY <1>0, <1>5 DEF EnvoyBody, CanSend
  <2>2. gateway[s] = <<>>
    BY <1>0, <2>1 DEF StreamInv, Forwarded
  <2> QED BY <1>4, <2>1, <2>2
<1>6. ASSUME NEW t \in SideMessages, EnvoySide(s, t)
      PROVE  Relay!RelayNext \/ UNCHANGED Relay!relayVars
  <2>1. /\ Running(s) /\ UNCHANGED <<headers, pc, rsp, outbox, gateway, sent>>
        /\ stage'[s] \in {stage[s], "eos"}
    BY <1>0, <1>6 DEF EnvoySide, CanSend
  <2> QED BY <1>4, <2>1
<1>7. ASSUME NEW how \in {"halfClosed", "cancelled"}, EnvoyCloses(s, how)
      PROVE  Relay!RelayNext \/ UNCHANGED Relay!relayVars
  <2>1. /\ Running(s) /\ UNCHANGED <<headers, pc, rsp, outbox, gateway, sent, stage>>
    BY <1>7 DEF EnvoyCloses
  <2> QED BY <1>4, <2>1
<1> QED BY <1>3, <1>5, <1>6, <1>7 DEF EnvoyStep

\* The relay keeps RelaySpec's promises: a stream is an exchange whose answer is
\* the first response (server.go, Process; relayer.go, Relay; static.go, KeyConfig).
THEOREM RelayImplementsSpec == Spec => ImplementsRelaySpec
<1>1. Init => Relay!RelayInit
  <2> SUFFICES ASSUME Init PROVE Relay!RelayInit
    OBVIOUS
  <2>1. ASSUME NEW s \in Streams
        PROVE  /\ StatusOf(s) = "new" /\ WantsOf(s) = "ohttp" /\ AskedOf(s) = FALSE
               /\ GotOf(s) = "no" /\ RepliedOf(s) = [kind |-> "nothing"]
               /\ AnswerOf(s) = [kind |-> "nothing"]
    <3>1. /\ pc[s] = "idle" /\ stage[s] = "new" /\ gateway[s] = <<>> /\ outbox[s] = <<>>
          /\ rsp[s] = NoResponse /\ headers[s] = NoHeaders
      BY DEF Init
    <3>2. ~IsConfigRequest(NoHeaders)
      BY DEF IsConfigRequest, extractHeaderValue, NoHeaders, ohttpConfigsPath
    <3>3. ~rsp[s].complete
      BY <3>1 DEF NoResponse, Response
    <3> QED BY <3>1, <3>2, <3>3
            DEF StatusOf, Running, WantsOf, AskedOf, GotOf, RepliedOf, AnswerOf
  <2> QED BY <2>1 DEF Relay!RelayInit, Relay!Nothing
<1>2. AInv /\ AInv' /\ [Next]_vars => [Relay!RelayNext]_(Relay!relayVars)
  <2> SUFFICES ASSUME AInv, AInv', [Next]_vars
               PROVE  Relay!RelayNext \/ UNCHANGED Relay!relayVars
    OBVIOUS
  <2>1. ASSUME UNCHANGED <<stage, headers, sent, pc, rsp, outbox, gateway>>
        PROVE  UNCHANGED Relay!relayVars
    <3>1. \A q \in Streams : Unseen(q)
      BY <2>1, SeenParts DEF Unseen
    <3> QED BY <3>1, UnseenStep
  <2>2. CASE RedisStep
    BY <2>1, <2>2 DEF RedisStep, RedisSet
  <2>3. CASE UNCHANGED vars
    BY <2>1, <2>3 DEF vars
  <2> QED BY <2>2, <2>3, HandlerRefines, EnvoyRefines DEF Next
<1> QED BY <1>1, <1>2, AnswerInvariance, PTL DEF Spec, ImplementsRelaySpec, Relay!RelaySpec

=============================================================================
