------------------------------ MODULE RelaySpec ------------------------------
(***************************************************************************)
(* What the relay promises, without Envoy, streams and buffers.  A client  *)
(* opens an exchange, in which it wants a request passed to a gateway or   *)
(* the gateway's keys, and is given at most one answer.                    *)
(*                                                                         *)
(*   - A request reaches a gateway at most once, after its end was sent.   *)
(*   - A client that has no answer yet has only its whole, valid request   *)
(*     passed on.                                                          *)
(*   - An answer that is no error is the complete reply of the gateway to  *)
(*     that request, or keys to a client that asked for keys.              *)
(*   - An answer is final.                                                 *)
(*                                                                         *)
(* ExtProcServer is shown to implement this (ExtProcRefinement), and       *)
(* RoundTrip uses it in place of the relay.                                *)
(***************************************************************************)
CONSTANTS
    Exchanges,  \* a client's calls
    Replies,    \* the bodies of a gateway's successful replies
    KeyAnswers  \* what may be answered to a client that asks for keys

VARIABLES
    status, \* of an exchange: "new", "open" or "over"
    wants,  \* "ohttp" or "keys"
    asked,  \* the client has sent all of its request
    got,    \* what a gateway got: "no" request, the "whole" one or an "other"
    replied,\* the gateway's successful reply, once complete
    answer  \* what the client was answered

relayVars == <<status, wants, asked, got, replied, answer>>

Nothing   == [kind |-> "nothing"]
Error     == [kind |-> "error"]
Opaque(r) == [kind |-> "reply", body |-> r]
Keys(k)   == [kind |-> "keys", body |-> k]

RelayInit ==
    /\ status = [x \in Exchanges |-> "new"]
    /\ wants = [x \in Exchanges |-> "ohttp"]
    /\ asked = [x \in Exchanges |-> FALSE]
    /\ got = [x \in Exchanges |-> "no"]
    /\ replied = [x \in Exchanges |-> Nothing]
    /\ answer = [x \in Exchanges |-> Nothing]

Begin(x, what, ended) ==
    /\ status[x] = "new"
    /\ status' = [status EXCEPT ![x] = "open"]
    /\ wants' = [wants EXCEPT ![x] = what]
    /\ asked' = [asked EXCEPT ![x] = ended]
    /\ UNCHANGED <<got, replied, answer>>

Complete(x) ==
    /\ status[x] = "open"
    /\ asked' = [asked EXCEPT ![x] = TRUE]
    /\ UNCHANGED <<status, wants, got, replied, answer>>

\* Something else than the client's valid request only if its client was told.
Forward(x, what) ==
    /\ status[x] = "open" /\ wants[x] = "ohttp" /\ asked[x] /\ got[x] = "no"
    /\ what = "other" => answer[x] = Error
    /\ got' = [got EXCEPT ![x] = what]
    /\ UNCHANGED <<status, wants, asked, replied, answer>>

Reply(x, r) ==
    /\ status[x] = "open" /\ got[x] # "no" /\ replied[x] = Nothing
    /\ replied' = [replied EXCEPT ![x] = Opaque(r)]
    /\ UNCHANGED <<status, wants, asked, got, answer>>

\* Keys may be cut short: the relay does not look at them.
Answer(x, a) ==
    /\ status[x] = "open" /\ answer[x] = Nothing
    /\ \/ a = Error
       \/ a = replied[x] /\ a # Nothing /\ got[x] = "whole"
       \/ wants[x] = "keys" /\ \E k \in KeyAnswers : a = Keys(k)
    /\ answer' = [answer EXCEPT ![x] = a]
    /\ UNCHANGED <<status, wants, asked, got, replied>>

Over(x) ==
    /\ status[x] = "open"
    /\ status' = [status EXCEPT ![x] = "over"]
    /\ UNCHANGED <<wants, asked, got, replied, answer>>

Answers(x) == {Error, replied[x]} \cup {Keys(k) : k \in KeyAnswers}

RelayNext ==
    \E x \in Exchanges :
        \/ \E what \in {"ohttp", "keys"}, ended \in BOOLEAN : Begin(x, what, ended)
        \/ Complete(x)
        \/ \E what \in {"whole", "other"} : Forward(x, what)
        \/ \E r \in Replies : Reply(x, r)
        \/ \E a \in Answers(x) : Answer(x, a)
        \/ Over(x)

RelaySpec == RelayInit /\ [][RelayNext]_relayVars

=============================================================================
