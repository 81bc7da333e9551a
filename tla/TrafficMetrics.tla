---------------------------- MODULE TrafficMetrics ----------------------------
(***************************************************************************)
(* RedisTrafficMetrics: the traffic of a host is added up in one Redis     *)
(* hash per hour, which expires a fixed time (ttl) after it was last       *)
(* written.                                                                *)
(*                                                                         *)
(* A call of RecordTraffic sends HINCRBY, HINCRBY, EXPIRE in one pipeline, *)
(* not in a transaction: Redis executes the three one by one, between the  *)
(* commands of other calls, and stops at any of them when the connection   *)
(* is lost.  The Redis client (external) sends the whole pipeline again    *)
(* when an attempt ends in a network error or a timeout, and Redis may     *)
(* still be working on the earlier attempt.                                *)
(***************************************************************************)
EXTENDS Naturals, FiniteSetsExt

CONSTANTS
    Calls,        \* calls of RecordTraffic
    Hosts,
    Host,         \* the arguments of each call
    BytesIn,
    BytesOut,
    TTL,          \* r.ttl
    WindowLength, \* the time between two keys of a host (one hour)
    MaxDelay,     \* how long after a call Redis may still execute its commands
    MaxRetries,   \* the Redis client's limit
    MaxTime       \* bound on the clock

ASSUME CallsAssumption ==
    /\ IsFiniteSet(Calls)
    /\ Host \in [Calls -> Hosts]
    /\ BytesIn \in [Calls -> Nat]
    /\ BytesOut \in [Calls -> Nat]

\* A bucket's ttl (72 hours) is longer than its window and the stragglers.
ASSUME TimeAssumption ==
    /\ WindowLength \in Nat \ {0}
    /\ MaxDelay \in Nat
    /\ TTL \in Nat /\ TTL > WindowLength + MaxDelay
    /\ MaxRetries \in Nat
    /\ MaxTime \in Nat

Attempts == 0..MaxRetries

VARIABLES
    now,     \* the clock
    state,   \* of each call: "idle", "waiting", "ok" or "failed"
    started, \* when the call was made
    attempt, \* the attempt the call waits for
    pos,     \* commands of each attempt that Redis executed; Unsent before it is sent
    lastExec,\* history: when Redis executed the last of those commands
    db       \* Redis: the buckets

vars == <<now, state, started, attempt, pos, lastExec, db>>

Unsent == 9

\* The time window of a key.
Window(t) == t \div WindowLength

\* Mutant: one bucket per host, the hour is left out of the key.
generateKeyOfHost(host, t) == <<host, 0>>

\* The host and the window are formatted into the key.
generateKey(host, t) == <<host, Window(t)>>

Keys == Hosts \X (0..MaxTime)

\* The fields of a hash; ttl is when it expires, NoTTL if it does not.
NoTTL == 0
Absent == [exists |-> FALSE, bytes_in |-> 0, bytes_out |-> 0, ttl |-> NoTTL]
Buckets == [exists : BOOLEAN, bytes_in : Nat, bytes_out : Nat, ttl : Nat]

KeyOf(c) == generateKey(Host[c], started[c])

TypeOK ==
    /\ now \in 0..MaxTime
    /\ state \in [Calls -> {"idle", "waiting", "ok", "failed"}]
    /\ started \in [Calls -> 0..MaxTime]
    /\ attempt \in [Calls -> Attempts]
    /\ pos \in [Calls \X Attempts -> (0..3) \cup {Unsent}]
    /\ lastExec \in [Calls \X Attempts -> 0..MaxTime]
    /\ db \in [Keys -> Buckets]

Init ==
    /\ now = 0
    /\ state = [c \in Calls |-> "idle"]
    /\ started = [c \in Calls |-> 0]
    /\ attempt = [c \in Calls |-> 0]
    /\ pos = [b \in Calls \X Attempts |-> Unsent]
    /\ lastExec = [b \in Calls \X Attempts |-> 0]
    /\ db = [k \in Keys |-> Absent]

-----------------------------------------------------------------------------
(* The caller and the Redis client.                                        *)

\* RecordTraffic: the key is chosen once, from the time of the call.
RecordTraffic(c) ==
    /\ state[c] = "idle"
    /\ state' = [state EXCEPT ![c] = "waiting"]
    /\ started' = [started EXCEPT ![c] = now]
    /\ pos' = [pos EXCEPT ![<<c, 0>>] = 0]
    /\ UNCHANGED <<now, attempt, lastExec, db>>

\* Exec returns nil: the three replies arrived.
ExecOK(c) ==
    /\ state[c] = "waiting" /\ pos[<<c, attempt[c]>>] = 3
    /\ state' = [state EXCEPT ![c] = "ok"]
    /\ UNCHANGED <<now, started, attempt, pos, lastExec, db>>

\* The client gives up waiting for an attempt and sends the pipeline again.
Retry(c) ==
    /\ state[c] = "waiting" /\ attempt[c] < MaxRetries
    /\ attempt' = [attempt EXCEPT ![c] = @ + 1]
    /\ pos' = [pos EXCEPT ![<<c, attempt[c] + 1>>] = 0]
    /\ UNCHANGED <<now, state, started, lastExec, db>>

\* Exec returns an error: no retries are left, the context is done, or the
\* relay dies.
ExecFailed(c) ==
    /\ state[c] = "waiting"
    /\ state' = [state EXCEPT ![c] = "failed"]
    /\ UNCHANGED <<now, started, attempt, pos, lastExec, db>>

-----------------------------------------------------------------------------
(* Redis.                                                                  *)

HIncrByIn(b, n)  == [b EXCEPT !.exists = TRUE, !.bytes_in = @ + n]
HIncrByOut(b, n) == [b EXCEPT !.exists = TRUE, !.bytes_out = @ + n]

\* EXPIRE replaces the time to live of a key that exists.
Expire(b, t) == IF b.exists THEN [b EXCEPT !.ttl = t] ELSE b

\* Mutant: EXPIRE key ttl NX, as the comment at the call has it.
CommandExpireNX(c, i, b) ==
    CASE i = 1 -> HIncrByIn(b, BytesIn[c])
      [] i = 2 -> HIncrByOut(b, BytesOut[c])
      [] i = 3 -> IF b.ttl = NoTTL THEN Expire(b, now + TTL) ELSE b

\* Mutant: one counter holds the balance of the traffic.
CommandBalance(c, i, b) ==
    CASE i = 1 -> HIncrByIn(b, BytesIn[c] - BytesOut[c])
      [] i = 2 -> HIncrByOut(b, BytesOut[c])
      [] i = 3 -> Expire(b, now + TTL)

\* Mutant: EXPIRE leads the pipeline.
CommandExpireFirst(c, i, b) ==
    CASE i = 2 -> HIncrByIn(b, BytesIn[c])
      [] i = 3 -> HIncrByOut(b, BytesOut[c])
      [] i = 1 -> Expire(b, now + TTL)

\* Mutant: the response is added to both counters.
CommandMixedUp(c, i, b) ==
    CASE i = 1 -> HIncrByIn(b, BytesIn[c])
      [] i = 2 -> HIncrByOut(b, BytesIn[c])
      [] i = 3 -> Expire(b, now + TTL)

\* The i-th command of c's pipeline, applied to its bucket.
Command(c, i, b) ==
    CASE i = 1 -> HIncrByIn(b, BytesIn[c])
      [] i = 2 -> HIncrByOut(b, BytesOut[c])
      [] i = 3 -> Expire(b, now + TTL)

\* Redis executes the next command of an attempt; it may never come to it.
Execute(c, a) ==
    /\ pos[<<c, a>>] \in 0..2
    /\ now <= started[c] + MaxDelay
    /\ pos' = [pos EXCEPT ![<<c, a>>] = @ + 1]
    /\ db' = [db EXCEPT ![KeyOf(c)] = Command(c, pos[<<c, a>>] + 1, @)]
    /\ lastExec' = [lastExec EXCEPT ![<<c, a>>] = now]
    /\ UNCHANGED <<now, state, started, attempt>>

\* Time passes, and keys whose time to live is over disappear.
Tick ==
    /\ now < MaxTime
    /\ now' = now + 1
    /\ db' = [k \in Keys |-> IF db[k].ttl # NoTTL /\ db[k].ttl <= now + 1
                             THEN Absent ELSE db[k]]
    /\ UNCHANGED <<state, started, attempt, pos, lastExec>>

Next ==
    \/ \E c \in Calls : RecordTraffic(c) \/ ExecOK(c) \/ Retry(c) \/ ExecFailed(c)
    \/ \E c \in Calls, a \in Attempts : Execute(c, a)
    \/ Tick

Spec == Init /\ [][Next]_vars

-----------------------------------------------------------------------------
(* Properties.                                                             *)

\* The attempts on a bucket of which Redis executed at least n commands.
Ran(k, n) == {b \in Calls \X Attempts : KeyOf(b[1]) = k /\ pos[b] \in n..3}

\* The calls on a bucket that returned nil.
Acked(k) == {c \in Calls : KeyOf(c) = k /\ state[c] = "ok"}

\* A bucket holds what the executed commands added, whatever was interleaved,
\* cut short or retried: nothing is lost or mixed up between hosts, windows and
\* directions, and only a repeated attempt is counted twice (RecordTraffic).
CountersExact ==
    \A k \in Keys : db[k].exists =>
        /\ db[k].bytes_in  = MapThenSumSet(LAMBDA b : BytesIn[b[1]], Ran(k, 1))
        /\ db[k].bytes_out = MapThenSumSet(LAMBDA b : BytesOut[b[1]], Ran(k, 2))

\* While any call that returned nil is younger than the ttl, its bucket holds at
\* least the traffic of every call on it that returned nil: the expiry of an
\* early call never takes a later one's bytes along.
NothingAckedIsLost ==
    \A k \in Keys : \A c \in Acked(k) :
        now < lastExec[<<c, attempt[c]>>] + TTL =>
            /\ db[k].bytes_in  >= MapThenSumSet(LAMBDA d : BytesIn[d], Acked(k))
            /\ db[k].bytes_out >= MapThenSumSet(LAMBDA d : BytesOut[d], Acked(k))

\* A bucket without a ttl has a pipeline of which Redis executed a part only, so
\* that no bucket outlives its ttl once its pipelines are complete.
OnlyCutPipelinesLeaveNoTTL ==
    \A k \in Keys : db[k].exists /\ db[k].ttl = NoTTL =>
        \E b \in Ran(k, 1) : pos[b] # 3

\* The bucket of a call that returned nil is there until the ttl has passed since
\* Redis executed the call's last command, whoever else writes to the bucket.
AckedBucketsLive ==
    \A c \in Calls :
        state[c] = "ok" /\ now < lastExec[<<c, attempt[c]>>] + TTL =>
            /\ db[KeyOf(c)].exists
            /\ db[KeyOf(c)].ttl >= lastExec[<<c, attempt[c]>>] + TTL

\* A bucket is never created a second time: no straggler and no retry counts in
\* a bucket that has forgotten what was counted before.
BucketsLiveOnce ==
    [][\A k \in Keys : ~db[k].exists /\ db'[k].exists => Ran(k, 1) = {}]_vars

-----------------------------------------------------------------------------
(* What the code's comment says and the code does not do.                  *)

\* The ttl of a bucket is set once, when the key is created.
TTLSetOnce ==
    [][\A k \in Keys : db[k].exists /\ db[k].ttl # NoTTL /\ db'[k].exists
            => db'[k].ttl = db[k].ttl]_vars

=============================================================================
