-------------------------- MODULE ExtProcRefinement --------------------------
(***************************************************************************)
(* ExtProcServer implements RelaySpec: an exchange is a stream, and its    *)
(* answer is the first response sent on it, the one that Envoy uses.       *)
(***************************************************************************)
EXTENDS ExtProcServer

\* What a response on the stream is to the client.
Abstract(r) ==
    CASE r.ctype = ContentTypeOHTTPRes  -> [kind |-> "reply", body |-> r.bytes]
      [] r.ctype = ContentTypeOHTTPKeys -> [kind |-> "keys", body |-> r.bytes]
      [] OTHER                          -> [kind |-> "error"]

\* The state of an exchange, as RelaySpec has it.
StatusOf(s) ==
    IF Running(s) THEN "open" ELSE IF pc[s] = "done" THEN "over" ELSE "new"

WantsOf(s) == IF IsConfigRequest(headers[s]) THEN "keys" ELSE "ohttp"

AskedOf(s) == stage[s] = "eos"

GotOf(s) ==
    IF gateway[s] = <<>> THEN "no"
    ELSE IF /\ HeaderError(headers[s]) = NoError
            /\ gateway[s][Len(gateway[s])].body = ClientBody(s)
         THEN "whole" ELSE "other"

RepliedOf(s) ==
    IF rsp[s].complete /\ rsp[s].status \in 200..299
    THEN [kind |-> "reply", body |-> rsp[s].bytes]
    ELSE [kind |-> "nothing"]

AnswerOf(s) ==
    IF outbox[s] = <<>> THEN [kind |-> "nothing"] ELSE Abstract(outbox[s][1])

Relay == INSTANCE RelaySpec WITH
    Exchanges  <- Streams,
    Replies    <- ReplySizes,
    KeyAnswers <- 0..KeyConfigSize,
    status     <- [s \in Streams |-> StatusOf(s)],
    wants      <- [s \in Streams |-> WantsOf(s)],
    asked      <- [s \in Streams |-> AskedOf(s)],
    got        <- [s \in Streams |-> GotOf(s)],
    replied    <- [s \in Streams |-> RepliedOf(s)],
    answer     <- [s \in Streams |-> AnswerOf(s)]

\* The relay keeps RelaySpec's promises: whatever Process, Relay and the
\* key-config source do, step by step, is a step of RelaySpec or none at all.
ImplementsRelaySpec == Relay!RelaySpec

=============================================================================
