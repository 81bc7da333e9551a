------------------------ MODULE TrafficMetricsProofs ------------------------
(***************************************************************************)
(* Proofs about TrafficMetrics, for any calls, hosts, sizes, number of     *)
(* retries and times that meet TimeAssumption: how long a bucket lives,    *)
(* and what it holds.                                                      *)
(***************************************************************************)
EXTENDS TrafficMetrics, SumTheorems

-----------------------------------------------------------------------------
(* The inductive invariant.                                                *)

\* The Redis client: nothing is sent for a call that was not made, attempts are
\* sent in order, and a call returns nil for an attempt that was executed whole.
ClientInv ==
    /\ \A c \in Calls : started[c] <= now
    /\ \A c \in Calls, a \in Attempts : lastExec[<<c, a>>] <= now
    /\ \A c \in Calls, a \in Attempts :
          state[c] = "idle" \/ a > attempt[c] => pos[<<c, a>>] = Unsent
    /\ \A c \in Calls : state[c] = "ok" => pos[<<c, attempt[c]>>] = 3

\* An expiry is set on a bucket that exists, and never before its window.
ExpiryInv ==
    \A k \in Keys : db[k].ttl # NoTTL =>
        db[k].exists /\ db[k].ttl >= k[2] * WindowLength + TTL

\* A bucket exists because a command was executed on it.
SourceInv ==
    \A k \in Keys : db[k].exists =>
        \E c \in Calls, a \in Attempts : KeyOf(c) = k /\ pos[<<c, a>>] \in 1..3

\* A bucket on which a command was executed is missing only when its window
\* began a ttl ago, and a pipeline executed whole keeps it for a ttl of its own.
LifeInv ==
    \A c \in Calls, a \in Attempts : pos[<<c, a>>] \in 1..3 =>
        LET bucket == db[KeyOf(c)] IN
        /\ ~bucket.exists => now >= Window(started[c]) * WindowLength + TTL
        /\ pos[<<c, a>>] = 3 =>
              IF bucket.exists THEN bucket.ttl >= lastExec[<<c, a>>] + TTL
                               ELSE now >= lastExec[<<c, a>>] + TTL

TInv == TypeOK /\ ClientInv /\ ExpiryInv /\ SourceInv /\ LifeInv

-----------------------------------------------------------------------------
(* The windows.                                                            *)

\* A time lies in its window (generateKey).
LEMMA InWindow ==
    ASSUME NEW t \in 0..MaxTime
    PROVE  /\ Window(t) \in 0..MaxTime
           /\ Window(t) * WindowLength \in Nat
           /\ Window(t) * WindowLength <= t
           /\ t < Window(t) * WindowLength + WindowLength
<1> DEFINE w == WindowLength
           q == t \div w
<1>1. w \in Nat /\ w >= 1 /\ t \in Nat /\ t <= MaxTime /\ MaxTime \in Nat
  BY TimeAssumption
<1>2. q \in Int /\ t % w \in 0..(w - 1) /\ t = w * q + (t % w)
  BY <1>1
<1>3. q * w <= t /\ t < q * w + w
  BY <1>1, <1>2
<1>4. q >= 0
  BY <1>1, <1>2
<1>5. q <= t
  BY <1>1, <1>3, <1>4
<1> QED BY <1>1, <1>2, <1>3, <1>4, <1>5 DEF Window

\* A call's key is one of Redis's keys, and its window is the one it was made in.
LEMMA KeyTypes ==
    ASSUME TypeOK, NEW c \in Calls
    PROVE  /\ KeyOf(c) \in Keys
           /\ KeyOf(c)[2] = Window(started[c])
           /\ db[KeyOf(c)] \in Buckets
<1>1. started[c] \in 0..MaxTime /\ Host[c] \in Hosts
  BY CallsAssumption DEF TypeOK
<1>2. Window(started[c]) \in 0..MaxTime
  BY <1>1, InWindow
<1> QED BY <1>1, <1>2 DEF TypeOK, KeyOf, generateKey, Keys

-----------------------------------------------------------------------------
(* Redis executes a command.                                               *)

\* A straggler finds the bucket of its window in place if any command was ever
\* executed on it: the ttl is longer than the window and the delay.
LEMMA StragglersFindTheirBucket ==
    ASSUME TInv, NEW c \in Calls, NEW a \in Attempts, Execute(c, a),
           NEW d \in Calls, NEW e \in Attempts, pos[<<d, e>>] \in 1..3, KeyOf(d) = KeyOf(c)
    PROVE  db[KeyOf(c)].exists
<1>1. /\ now \in Nat /\ started[c] \in 0..MaxTime /\ MaxDelay \in Nat /\ TTL \in Nat
      /\ WindowLength \in Nat /\ TTL > WindowLength + MaxDelay
      /\ now <= started[c] + MaxDelay
  BY TimeAssumption DEF TInv, TypeOK, Execute
<1>2. Window(started[d]) = Window(started[c])
  BY KeyTypes DEF TInv
<1>3. /\ Window(started[c]) * WindowLength \in Nat
      /\ started[c] < Window(started[c]) * WindowLength + WindowLength
  BY <1>1, InWindow
<1>4. db[KeyOf(c)].exists \/ now >= Window(started[c]) * WindowLength + TTL
  BY <1>2 DEF TInv, LifeInv
<1> HIDE DEF TInv
<1>5. ASSUME NEW n \in Nat, NEW x \in Nat, NEW y \in Nat,
             n <= x + MaxDelay, x < y + WindowLength
      PROVE  ~(n >= y + TTL)
  BY <1>1, <1>5
<1>6. ~(now >= Window(started[c]) * WindowLength + TTL)
  BY <1>1, <1>3, <1>5
<1> QED BY <1>4, <1>6

\* HINCRBY makes a bucket that exists and leaves its ttl alone.
LEMMA HIncrByFacts ==
    ASSUME NEW b \in Buckets, NEW n \in Nat
    PROVE  /\ HIncrByIn(b, n) \in Buckets /\ HIncrByOut(b, n) \in Buckets
           /\ HIncrByIn(b, n).exists /\ HIncrByOut(b, n).exists
           /\ HIncrByIn(b, n).ttl = b.ttl /\ HIncrByOut(b, n).ttl = b.ttl
<1>1. b.bytes_in + n \in Nat /\ b.bytes_out + n \in Nat
  BY DEF Buckets
<1>2. /\ HIncrByIn(b, n) = [b EXCEPT !.exists = TRUE, !.bytes_in = b.bytes_in + n]
      /\ HIncrByOut(b, n) = [b EXCEPT !.exists = TRUE, !.bytes_out = b.bytes_out + n]
  BY DEF HIncrByIn, HIncrByOut
<1>3. \A m \in Nat : /\ [b EXCEPT !.exists = TRUE, !.bytes_in = m] \in Buckets
                     /\ [b EXCEPT !.exists = TRUE, !.bytes_out = m] \in Buckets
  BY DEF Buckets
<1>4. HIncrByIn(b, n).exists /\ HIncrByOut(b, n).exists
  BY DEF HIncrByIn, HIncrByOut, Buckets
<1>5. HIncrByIn(b, n).ttl = b.ttl /\ HIncrByOut(b, n).ttl = b.ttl
  BY DEF HIncrByIn, HIncrByOut, Buckets
<1> QED BY <1>1, <1>2, <1>3, <1>4, <1>5

\* The bucket after a command: it exists, and only EXPIRE touches its ttl.
LEMMA ExecutedBucket ==
    ASSUME TInv, NEW c \in Calls, NEW a \in Attempts, Execute(c, a)
    PROVE  /\ db' = [db EXCEPT ![KeyOf(c)] = db'[KeyOf(c)]]
           /\ db'[KeyOf(c)] \in Buckets /\ db'[KeyOf(c)].exists
           /\ pos[<<c, a>>] = 2 => db'[KeyOf(c)].ttl = now + TTL
           /\ pos[<<c, a>>] # 2 => db'[KeyOf(c)].ttl = db[KeyOf(c)].ttl
<1> DEFINE k == KeyOf(c)
           old == db[k]
<1>1. /\ k \in Keys /\ old \in Buckets /\ DOMAIN db = Keys
      /\ BytesIn[c] \in Nat /\ BytesOut[c] \in Nat /\ now + TTL \in Nat
      /\ pos[<<c, a>>] \in 0..2
  BY KeyTypes, CallsAssumption, TimeAssumption DEF TInv, TypeOK, Execute
<1>2. db' = [db EXCEPT ![k] = Command(c, pos[<<c, a>>] + 1, old)]
  BY DEF Execute
<1>3. db'[k] = Command(c, pos[<<c, a>>] + 1, old)
  BY <1>1, <1>2
<1>4. pos[<<c, a>>] = 2 => old.exists
  BY StragglersFindTheirBucket
<1> HIDE DEF k, old
<1> DEFINE Bucket(b) == /\ b \in Buckets /\ b.exists
                        /\ pos[<<c, a>>] = 2 => b.ttl = now + TTL
                        /\ pos[<<c, a>>] # 2 => b.ttl = old.ttl
<1> SUFFICES Bucket(db'[k])
  BY <1>2, <1>3 DEF k, old
<1>5. CASE pos[<<c, a>>] = 0
  <2>1. db'[k] = HIncrByIn(old, BytesIn[c])
    BY <1>3, <1>5 DEF Command
  <2>2. pos[<<c, a>>] # 2
    BY <1>5
  <2>3. old \in Buckets /\ BytesIn[c] \in Nat
    BY <1>1
  <2> DEFINE b == HIncrByIn(old, BytesIn[c])
  <2>4. b \in Buckets /\ b.exists /\ b.ttl = old.ttl
    BY <2>3, HIncrByFacts, Zenon
  <2> HIDE DEF b
  <2>5. Bucket(b)
    BY <2>2, <2>4, Zenon
  <2> QED BY <2>1, <2>5 DEF b
<1>6. CASE pos[<<c, a>>] = 1
  <2>1. db'[k] = HIncrByOut(old, BytesOut[c])
    BY <1>3, <1>6 DEF Command
  <2>2. pos[<<c, a>>] # 2
    BY <1>6
  <2>3. old \in Buckets /\ BytesOut[c] \in Nat
    BY <1>1
  <2> DEFINE b == HIncrByOut(old, BytesOut[c])
  <2>4. b \in Buckets /\ b.exists /\ b.ttl = old.ttl
    BY <2>3, HIncrByFacts, Zenon
  <2> HIDE DEF b
  <2>5. Bucket(b)
    BY <2>2, <2>4, Zenon
  <2> QED BY <2>1, <2>5 DEF b
<1>7. CASE pos[<<c, a>>] = 2
  <2>1. db'[k] = [old EXCEPT !.ttl = now + TTL]
    BY <1>3, <1>4, <1>7 DEF Command, Expire
  <2> QED BY <1>1, <1>4, <1>7, <2>1 DEF Buckets
<1> QED BY <1>1, <1>5, <1>6, <1>7

-----------------------------------------------------------------------------
(* Every step keeps the invariant.                                         *)

\* Nothing has been sent yet.
LEMMA InitTInv == Init => TInv
<1> SUFFICES ASSUME Init PROVE TInv
  OBVIOUS
<1>1. Absent \in Buckets /\ ~Absent.exists /\ Absent.ttl = NoTTL
  BY DEF Absent, Buckets, NoTTL
<1>2. TypeOK
  BY <1>1, TimeAssumption DEF Init, TypeOK, Attempts, Unsent
<1>3. ClientInv
  BY DEF Init, ClientInv, Attempts
<1>4. ExpiryInv /\ SourceInv
  BY <1>1 DEF Init, ExpiryInv, SourceInv
<1>5. LifeInv
  BY DEF Init, LifeInv, Unsent
<1> QED BY <1>2, <1>3, <1>4, <1>5 DEF TInv

\* A step of the caller that starts a call or an attempt, or ends a call, moves
\* no bucket: the keys of the calls that were made stay what they are.
LEMMA CallerStep ==
    ASSUME TInv, TypeOK', UNCHANGED <<now, lastExec, db>>,
           \A c \in Calls : state[c] # "idle" => started'[c] = started[c],
           \A c \in Calls, a \in Attempts :
              pos[<<c, a>>] \in 1..3 \/ pos'[<<c, a>>] \in 1..3 => pos'[<<c, a>>] = pos[<<c, a>>]
    PROVE  ExpiryInv' /\ SourceInv' /\ LifeInv'
<1>1. ASSUME NEW c \in Calls, NEW a \in Attempts, pos[<<c, a>>] \in 1..3
      PROVE  started'[c] = started[c] /\ KeyOf(c)' = KeyOf(c)
  BY <1>1 DEF TInv, ClientInv, Unsent, KeyOf
<1>2. ExpiryInv'
  BY DEF TInv, ExpiryInv
<1>3. SourceInv'
  <2> SUFFICES ASSUME NEW k \in Keys, db[k].exists
               PROVE  \E c \in Calls, a \in Attempts : KeyOf(c)' = k /\ pos'[<<c, a>>] \in 1..3
    BY DEF SourceInv
  <2>1. PICK c \in Calls, a \in Attempts : KeyOf(c) = k /\ pos[<<c, a>>] \in 1..3
    BY DEF TInv, SourceInv
  <2> QED BY <1>1, <2>1
<1>4. LifeInv'
  <2> SUFFICES ASSUME NEW c \in Calls, NEW a \in Attempts, pos'[<<c, a>>] \in 1..3
               PROVE  LET bucket == db'[KeyOf(c)'] IN
                      /\ ~bucket.exists => now' >= Window(started'[c]) * WindowLength + TTL
                      /\ pos'[<<c, a>>] = 3 =>
                           IF bucket.exists THEN bucket.ttl >= lastExec'[<<c, a>>] + TTL
                                            ELSE now' >= lastExec'[<<c, a>>] + TTL
    BY DEF LifeInv, Window
  <2>1. pos'[<<c, a>>] = pos[<<c, a>>]
    OBVIOUS
  <2>2. started'[c] = started[c] /\ KeyOf(c)' = KeyOf(c)
    BY <1>1, <2>1
  <2> QED BY <2>1, <2>2 DEF TInv, LifeInv
<1> QED BY <1>2, <1>3, <1>4

\* RecordTraffic.
LEMMA RecordTrafficTInv ==
    ASSUME TInv, NEW c \in Calls, RecordTraffic(c)
    PROVE  TInv'
<1>0. 0 \in Attempts /\ <<c, 0>> \in Calls \X Attempts
  BY TimeAssumption DEF Attempts
<1>1. TypeOK'
  BY <1>0 DEF TInv, TypeOK, RecordTraffic
<1>2. \A d \in Calls, a \in Attempts :
        pos'[<<d, a>>] = IF d = c /\ a = 0 THEN 0 ELSE pos[<<d, a>>]
  BY <1>0 DEF TInv, TypeOK, RecordTraffic
<1>3. \A d \in Calls : d # c => state'[d] = state[d] /\ started'[d] = started[d]
  BY DEF TInv, TypeOK, RecordTraffic
<1>4. state'[c] = "waiting" /\ started'[c] = now /\ state[c] = "idle"
  BY DEF TInv, TypeOK, RecordTraffic
<1>5. UNCHANGED <<now, attempt, lastExec, db>>
  BY DEF RecordTraffic
<1>6. \A a \in Attempts : pos[<<c, a>>] = Unsent
  BY <1>4 DEF TInv, ClientInv
<1>7. now \in 0..MaxTime /\ attempt \in [Calls -> Nat]
  BY TimeAssumption DEF TInv, TypeOK, Attempts
<1>8. ClientInv'
  <2>1. \A d \in Calls : started'[d] <= now'
    BY <1>3, <1>4, <1>5, <1>7 DEF TInv, ClientInv
  <2>2. \A d \in Calls, a \in Attempts : lastExec'[<<d, a>>] <= now'
    BY <1>5 DEF TInv, ClientInv
  <2>3. \A d \in Calls, a \in Attempts :
          state'[d] = "idle" \/ a > attempt'[d] => pos'[<<d, a>>] = Unsent
    BY <1>2, <1>3, <1>4, <1>5, <1>6, <1>7 DEF TInv, ClientInv
  <2>4. \A d \in Calls : state'[d] = "ok" => pos'[<<d, attempt'[d]>>] = 3
    BY <1>2, <1>3, <1>4, <1>5 DEF TInv, TypeOK, ClientInv
  <2> QED BY <2>1, <2>2, <2>3, <2>4 DEF ClientInv
<1>9. \A d \in Calls, a \in Attempts :
        pos[<<d, a>>] \in 1..3 \/ pos'[<<d, a>>] \in 1..3 => pos'[<<d, a>>] = pos[<<d, a>>]
  BY <1>2, <1>6 DEF Unsent
<1>10. ExpiryInv' /\ SourceInv' /\ LifeInv'
  BY <1>1, <1>3, <1>4, <1>5, <1>9, CallerStep
<1> QED BY <1>1, <1>8, <1>10 DEF TInv

\* The client sends the pipeline again.
LEMMA RetryTInv ==
    ASSUME TInv, NEW c \in Calls, Retry(c)
    PROVE  TInv'
<1>0. /\ attempt[c] \in Nat /\ attempt[c] + 1 \in Attempts /\ attempt[c] + 1 > attempt[c]
      /\ <<c, attempt[c] + 1>> \in Calls \X Attempts
  BY TimeAssumption DEF TInv, TypeOK, Attempts, Retry
<1>1. TypeOK'
  BY <1>0 DEF TInv, TypeOK, Retry
<1>2. \A d \in Calls, a \in Attempts :
        pos'[<<d, a>>] = IF d = c /\ a = attempt[c] + 1 THEN 0 ELSE pos[<<d, a>>]
  BY <1>0 DEF TInv, TypeOK, Retry
<1>3. \A d \in Calls : attempt'[d] = IF d = c THEN attempt[c] + 1 ELSE attempt[d]
  BY DEF TInv, TypeOK, Retry
<1>4. UNCHANGED <<now, state, started, lastExec, db>> /\ state[c] = "waiting"
  BY DEF Retry
<1>5. pos[<<c, attempt[c] + 1>>] = Unsent
  BY <1>0 DEF TInv, ClientInv
<1>6. attempt \in [Calls -> Nat] /\ Attempts \subseteq Nat
  BY TimeAssumption DEF TInv, TypeOK, Attempts
<1>7. ClientInv'
  <2>1. \A d \in Calls : started'[d] <= now'
    BY <1>4 DEF TInv, ClientInv
  <2>2. \A d \in Calls, a \in Attempts : lastExec'[<<d, a>>] <= now'
    BY <1>4 DEF TInv, ClientInv
  <2>3. \A d \in Calls, a \in Attempts :
          state'[d] = "idle" \/ a > attempt'[d] => pos'[<<d, a>>] = Unsent
    BY <1>2, <1>3, <1>4, <1>6 DEF TInv, ClientInv
  <2>4. \A d \in Calls : state'[d] = "ok" => pos'[<<d, attempt'[d]>>] = 3
    BY <1>2, <1>3, <1>4 DEF TInv, TypeOK, ClientInv
  <2> QED BY <2>1, <2>2, <2>3, <2>4 DEF ClientInv
<1>8. \A d \in Calls, a \in Attempts :
        pos[<<d, a>>] \in 1..3 \/ pos'[<<d, a>>] \in 1..3 => pos'[<<d, a>>] = pos[<<d, a>>]
  BY <1>2, <1>5 DEF Unsent
<1>9. ExpiryInv' /\ SourceInv' /\ LifeInv'
  BY <1>1, <1>4, <1>8, CallerStep
<1> QED BY <1>1, <1>7, <1>9 DEF TInv

\* Exec returns.
LEMMA ExecReturnsTInv ==
    ASSUME TInv, NEW c \in Calls, ExecOK(c) \/ ExecFailed(c)
    PROVE  TInv'
<1>1. TypeOK'
  BY DEF TInv, TypeOK, ExecOK, ExecFailed
<1>2. /\ UNCHANGED <<now, started, attempt, pos, lastExec, db>>
      /\ \A d \in Calls : d # c => state'[d] = state[d]
      /\ state[c] = "waiting" /\ state'[c] # "idle"
      /\ state'[c] = "ok" => pos[<<c, attempt[c]>>] = 3
  BY DEF TInv, TypeOK, ExecOK, ExecFailed
<1>3. ClientInv'
  BY <1>2 DEF TInv, ClientInv
<1>4. ExpiryInv' /\ SourceInv' /\ LifeInv'
  BY <1>1, <1>2, CallerStep
<1> QED BY <1>1, <1>3, <1>4 DEF TInv

\* Redis executes a command.
LEMMA ExecuteTInv ==
    ASSUME TInv, NEW c \in Calls, NEW a \in Attempts, Execute(c, a)
    PROVE  TInv'
<1> DEFINE k == KeyOf(c)
           new == db'[k]
<1>0. /\ <<c, a>> \in Calls \X Attempts /\ k \in Keys /\ k[2] = Window(started[c])
      /\ pos[<<c, a>>] \in 0..2 /\ now \in 0..MaxTime /\ TTL \in Nat /\ TTL > 0
      /\ now \in Nat /\ started[c] \in 0..MaxTime /\ started[c] <= now
  BY KeyTypes, TimeAssumption DEF TInv, TypeOK, ClientInv, Execute
<1>1. /\ db' = [db EXCEPT ![k] = new] /\ new \in Buckets /\ new.exists
      /\ pos[<<c, a>>] = 2 => new.ttl = now + TTL
      /\ pos[<<c, a>>] # 2 => new.ttl = db[k].ttl
  BY ExecutedBucket
<1>2. UNCHANGED <<now, state, started, attempt>>
  BY DEF Execute
<1>3. \A d \in Calls, e \in Attempts :
        /\ pos'[<<d, e>>] = IF d = c /\ e = a THEN pos[<<c, a>>] + 1 ELSE pos[<<d, e>>]
        /\ lastExec'[<<d, e>>] = IF d = c /\ e = a THEN now ELSE lastExec[<<d, e>>]
  BY <1>0 DEF TInv, TypeOK, Execute
<1>4. \A d \in Calls : KeyOf(d)' = KeyOf(d)
  BY <1>2 DEF KeyOf
<1>5. \A j \in Keys : j # k => db'[j] = db[j]
  BY <1>1 DEF TInv, TypeOK
<1> HIDE DEF k, new
<1>6. TypeOK'
  <2>1. db' \in [Keys -> Buckets]
    BY <1>0, <1>1 DEF TInv, TypeOK
  <2>2. pos' \in [Calls \X Attempts -> (0..3) \cup {Unsent}]
    BY <1>0 DEF TInv, TypeOK, Execute
  <2>3. lastExec' \in [Calls \X Attempts -> 0..MaxTime]
    BY <1>0 DEF TInv, TypeOK, Execute
  <2> QED BY <1>2, <2>1, <2>2, <2>3 DEF TInv, TypeOK
<1>7. ClientInv'
  <2>1. \A d \in Calls : started'[d] <= now'
    BY <1>2 DEF TInv, ClientInv
  <2>2. ASSUME NEW d \in Calls, NEW e \in Attempts PROVE lastExec'[<<d, e>>] <= now'
    <3>1. CASE d = c /\ e = a
      BY <1>0, <1>2, <1>3, <3>1
    <3>2. CASE ~(d = c /\ e = a)
      BY <1>2, <1>3, <3>2 DEF TInv, ClientInv
    <3> QED BY <3>1, <3>2
  <2>3. ~(state[c] = "idle" \/ a > attempt[c])
    BY <1>0 DEF TInv, ClientInv, Unsent
  <2>4. \A d \in Calls, e \in Attempts :
          state'[d] = "idle" \/ e > attempt'[d] => pos'[<<d, e>>] = Unsent
    BY <1>2, <1>3, <2>3 DEF TInv, ClientInv
  <2>5. \A d \in Calls : state'[d] = "ok" => pos'[<<d, attempt'[d]>>] = 3
    BY <1>0, <1>2, <1>3 DEF TInv, TypeOK, ClientInv
  <2> QED BY <2>1, <2>2, <2>4, <2>5 DEF ClientInv
<1>8. ExpiryInv'
  <2> SUFFICES ASSUME NEW j \in Keys, db'[j].ttl # NoTTL
               PROVE  db'[j].exists /\ db'[j].ttl >= j[2] * WindowLength + TTL
    BY DEF ExpiryInv
  <2>1. CASE j # k
    BY <1>5, <2>1 DEF TInv, ExpiryInv
  <2>2. CASE j = k /\ pos[<<c, a>>] # 2
    BY <1>0, <1>1, <2>2 DEF TInv, ExpiryInv, new
  <2>3. CASE j = k /\ pos[<<c, a>>] = 2
    <3>1. Window(started[c]) * WindowLength \in Nat /\ Window(started[c]) * WindowLength <= now
      BY <1>0, InWindow
    <3>2. db'[j].ttl = now + TTL /\ db'[j].exists
      BY <1>1, <2>3 DEF new
    <3> QED BY <1>0, <2>3, <3>1, <3>2
  <2> QED BY <2>1, <2>2, <2>3
<1>9. SourceInv'
  <2> SUFFICES ASSUME NEW j \in Keys, db'[j].exists
               PROVE  \E d \in Calls, e \in Attempts : KeyOf(d)' = j /\ pos'[<<d, e>>] \in 1..3
    BY DEF SourceInv
  <2>1. CASE j = k
    BY <1>0, <1>3, <1>4, <2>1 DEF k
  <2>2. CASE j # k
    <3>1. PICK d \in Calls, e \in Attempts : KeyOf(d) = j /\ pos[<<d, e>>] \in 1..3
      BY <1>5, <2>2 DEF TInv, SourceInv
    <3>2. d # c
      BY <2>2, <3>1 DEF k
    <3> QED BY <1>3, <1>4, <3>1, <3>2
  <2> QED BY <2>1, <2>2
<1>10. LifeInv'
  <2> SUFFICES ASSUME NEW d \in Calls, NEW e \in Attempts, pos'[<<d, e>>] \in 1..3
               PROVE  LET bucket == db'[KeyOf(d)] IN
                      /\ ~bucket.exists => now >= Window(started[d]) * WindowLength + TTL
                      /\ pos'[<<d, e>>] = 3 =>
                           IF bucket.exists THEN bucket.ttl >= lastExec'[<<d, e>>] + TTL
                                            ELSE now >= lastExec'[<<d, e>>] + TTL
    BY <1>2, <1>4 DEF LifeInv, Window
  <2>1. CASE KeyOf(d) # k
    <3>1. db'[KeyOf(d)] = db[KeyOf(d)] /\ d # c
      BY <1>5, <2>1, KeyTypes DEF TInv, k
    <3> QED BY <1>3, <3>1 DEF TInv, LifeInv
  <2>2. CASE KeyOf(d) = k
    <3>1. db'[KeyOf(d)] = new /\ new.exists
      BY <1>1, <2>2 DEF new
    <3> SUFFICES ASSUME pos'[<<d, e>>] = 3 PROVE new.ttl >= lastExec'[<<d, e>>] + TTL
      BY <3>1
    <3>2. lastExec'[<<d, e>>] \in Nat /\ lastExec'[<<d, e>>] <= now
      BY <1>2, <1>6, <1>7 DEF TypeOK, ClientInv
    <3>3. CASE pos[<<c, a>>] = 2
      BY <1>0, <1>1, <3>2, <3>3
    <3>4. CASE pos[<<c, a>>] # 2
      <4>1. pos[<<d, e>>] = 3 /\ lastExec'[<<d, e>>] = lastExec[<<d, e>>]
        BY <1>0, <1>3, <3>4
      <4>2. db[KeyOf(d)].exists
        BY <2>2, <4>1, StragglersFindTheirBucket DEF k
      <4>3. db[KeyOf(d)].ttl >= lastExec[<<d, e>>] + TTL
        BY <4>1, <4>2 DEF TInv, LifeInv
      <4> QED BY <1>1, <2>2, <3>4, <4>1, <4>3
    <3> QED BY <3>3, <3>4
  <2> QED BY <2>1, <2>2
<1> QED BY <1>6, <1>7, <1>8, <1>9, <1>10 DEF TInv

\* Time passes.  A bucket expires a ttl after its window began, and no sooner than
\* the last complete pipeline said.
LEMMA TickTInv ==
    ASSUME TInv, Tick
    PROVE  TInv'
<1>0. /\ now \in Nat /\ now' = now + 1 /\ now' \in 0..MaxTime /\ TTL \in Nat
      /\ UNCHANGED <<state, started, attempt, pos, lastExec>>
  BY TimeAssumption DEF TInv, TypeOK, Tick
<1>1. Absent \in Buckets /\ ~Absent.exists /\ Absent.ttl = NoTTL
  BY DEF Absent, Buckets, NoTTL
<1>2. ASSUME NEW k \in Keys
      PROVE  \/ db'[k] = db[k]
             \/ /\ db'[k] = Absent /\ db[k].exists /\ db[k].ttl <= now'
                /\ db[k].ttl >= k[2] * WindowLength + TTL
  BY <1>0, <1>2 DEF TInv, ExpiryInv, Tick
<1>3. TypeOK'
  <2>1. db' \in [Keys -> Buckets]
    BY <1>1 DEF TInv, TypeOK, Tick
  <2> QED BY <1>0, <2>1 DEF TInv, TypeOK
<1>4. \A c \in Calls : KeyOf(c)' = KeyOf(c)
  BY <1>0 DEF KeyOf
<1>5. ClientInv'
  <2>1. \A c \in Calls : started[c] \in Nat
    BY TimeAssumption DEF TInv, TypeOK
  <2>2. \A c \in Calls, a \in Attempts : lastExec[<<c, a>>] \in Nat
    BY TimeAssumption DEF TInv, TypeOK
  <2> QED BY <1>0, <2>1, <2>2 DEF TInv, ClientInv
<1>6. ExpiryInv'
  BY <1>1, <1>2 DEF TInv, ExpiryInv
<1>7. SourceInv'
  BY <1>0, <1>1, <1>2, <1>4 DEF TInv, SourceInv
<1>8. LifeInv'
  <2> SUFFICES ASSUME NEW c \in Calls, NEW a \in Attempts, pos[<<c, a>>] \in 1..3
               PROVE  LET bucket == db'[KeyOf(c)] IN
                      /\ ~bucket.exists => now' >= Window(started[c]) * WindowLength + TTL
                      /\ pos[<<c, a>>] = 3 =>
                           IF bucket.exists THEN bucket.ttl >= lastExec[<<c, a>>] + TTL
                                            ELSE now' >= lastExec[<<c, a>>] + TTL
    BY <1>0, <1>4 DEF LifeInv, Window
  <2>0. KeyOf(c) \in Keys /\ KeyOf(c)[2] = Window(started[c]) /\ db[KeyOf(c)] \in Buckets
    BY KeyTypes DEF TInv
  <2>a. started[c] \in 0..MaxTime /\ lastExec[<<c, a>>] \in Nat
    BY TimeAssumption DEF TInv, TypeOK
  <2>1. /\ KeyOf(c) \in Keys /\ KeyOf(c)[2] = Window(started[c])
        /\ db[KeyOf(c)].ttl \in Nat /\ lastExec[<<c, a>>] \in Nat
        /\ Window(started[c]) * WindowLength \in Nat
    BY <2>0, <2>a, InWindow DEF Buckets
  <2>2. CASE db'[KeyOf(c)] = db[KeyOf(c)]
    BY <1>0, <2>1, <2>2 DEF TInv, LifeInv
  <2>3. CASE db'[KeyOf(c)] # db[KeyOf(c)]
    <3>1. /\ db'[KeyOf(c)] = Absent /\ db[KeyOf(c)].exists /\ db[KeyOf(c)].ttl <= now'
          /\ db[KeyOf(c)].ttl >= Window(started[c]) * WindowLength + TTL
      BY <1>2, <2>1, <2>3
    <3>2. pos[<<c, a>>] = 3 => db[KeyOf(c)].ttl >= lastExec[<<c, a>>] + TTL
      BY <3>1 DEF TInv, LifeInv
    <3> QED BY <1>0, <1>1, <2>1, <3>1, <3>2
  <2> QED BY <2>2, <2>3
<1> QED BY <1>3, <1>5, <1>6, <1>7, <1>8 DEF TInv

-----------------------------------------------------------------------------
(* The theorems.                                                           *)

\* The inductive invariant, for any interleaving, cut and retry of the pipelines
\* of RecordTraffic.
THEOREM TrafficInvariance == Spec => []TInv
<1>1. ASSUME TInv, [Next]_vars PROVE TInv'
  <2>1. CASE UNCHANGED vars
    BY <1>1, <2>1 DEF vars, TInv, TypeOK, ClientInv, ExpiryInv, SourceInv, LifeInv, KeyOf, Window
  <2>2. CASE \E c \in Calls : RecordTraffic(c) \/ ExecOK(c) \/ Retry(c) \/ ExecFailed(c)
    BY <1>1, <2>2, RecordTrafficTInv, RetryTInv, ExecReturnsTInv
  <2>3. CASE \E c \in Calls, a \in Attempts : Execute(c, a)
    BY <1>1, <2>3, ExecuteTInv
  <2>4. CASE Tick
    BY <1>1, <2>4, TickTInv
  <2> QED BY <1>1, <2>1, <2>2, <2>3, <2>4 DEF Next
<1> QED BY <1>1, InitTInv, PTL DEF Spec

\* RecordTraffic and Redis keep the types, the counters natural numbers.
THEOREM TypeCorrect == Spec => []TypeOK
BY TrafficInvariance, PTL DEF TInv

\* A bucket that never expires is owed to a pipeline of RecordTraffic that Redis
\* executed in part: a complete one always leaves a ttl.
THEOREM CompletePipelinesExpire == Spec => []OnlyCutPipelinesLeaveNoTTL
<1>1. TInv => OnlyCutPipelinesLeaveNoTTL
  <2> SUFFICES ASSUME TInv, NEW k \in Keys, db[k].exists, db[k].ttl = NoTTL
               PROVE  \E b \in Ran(k, 1) : pos[b] # 3
    BY DEF OnlyCutPipelinesLeaveNoTTL
  <2>1. PICK c \in Calls, a \in Attempts : KeyOf(c) = k /\ pos[<<c, a>>] \in 1..3
    BY DEF TInv, SourceInv
  <2>2. lastExec[<<c, a>>] \in Nat /\ TTL \in Nat /\ TTL > 0
    BY TimeAssumption DEF TInv, TypeOK
  <2>3. pos[<<c, a>>] # 3
    BY <2>1, <2>2 DEF TInv, LifeInv, NoTTL
  <2>4. <<c, a>> \in Ran(k, 1)
    BY <2>1 DEF Ran
  <2> QED BY <2>3, <2>4
<1> QED BY <1>1, TrafficInvariance, PTL

\* The bucket of a RecordTraffic that returned nil is kept for the whole ttl.
THEOREM AckedBucketsAreKept == Spec => []AckedBucketsLive
<1>1. TInv => AckedBucketsLive
  <2> SUFFICES ASSUME TInv, NEW c \in Calls, state[c] = "ok",
                      now < lastExec[<<c, attempt[c]>>] + TTL
               PROVE  /\ db[KeyOf(c)].exists
                      /\ db[KeyOf(c)].ttl >= lastExec[<<c, attempt[c]>>] + TTL
    BY DEF AckedBucketsLive
  <2>1. attempt[c] \in Attempts /\ pos[<<c, attempt[c]>>] = 3
    BY DEF TInv, TypeOK, ClientInv
  <2>2. now \in Nat /\ lastExec[<<c, attempt[c]>>] \in Nat /\ TTL \in Nat
    BY <2>1, TimeAssumption DEF TInv, TypeOK
  <2> QED BY <2>1, <2>2 DEF TInv, LifeInv
<1> QED BY <1>1, TrafficInvariance, PTL

\* Redis creates a bucket of RecordTraffic once: the commands of stragglers and
\* retries go to the bucket that holds what was counted before, or to none.
THEOREM BucketsAreCreatedOnce == Spec => BucketsLiveOnce
<1> DEFINE Once == \A k \in Keys : ~db[k].exists /\ db'[k].exists => Ran(k, 1) = {}
<1>1. ASSUME TInv, [Next]_vars PROVE [Once]_vars
  <2> SUFFICES ASSUME Next, NEW k \in Keys, ~db[k].exists, db'[k].exists, NEW b \in Ran(k, 1)
               PROVE  FALSE
    BY <1>1
  <2>1. PICK d \in Calls, e \in Attempts : b = <<d, e>>
    BY DEF Ran
  <2>2. KeyOf(d) = k /\ pos[<<d, e>>] \in 1..3
    BY <2>1 DEF Ran
  <2>3. ASSUME NEW c \in Calls, RecordTraffic(c) \/ ExecOK(c) \/ Retry(c) \/ ExecFailed(c)
        PROVE  db' = db
    BY <2>3 DEF RecordTraffic, ExecOK, Retry, ExecFailed
  <2>4. ASSUME Tick PROVE FALSE
    BY <1>1, <2>4 DEF Tick, Absent
  <2>5. ASSUME NEW c \in Calls, NEW a \in Attempts, Execute(c, a) PROVE FALSE
    <3>1. k = KeyOf(c)
      BY <1>1, <2>5 DEF TInv, TypeOK, Execute
    <3> QED BY <1>1, <2>2, <2>5, <3>1, StragglersFindTheirBucket
  <2> QED BY <2>3, <2>4, <2>5 DEF Next
<1> QED BY <1>1, TrafficInvariance, PTL DEF BucketsLiveOnce, Spec

-----------------------------------------------------------------------------
(* What a bucket holds.                                                    *)

Pipelines == Calls \X Attempts

\* The traffic of a call, whichever attempt counts it.
InOf  == [b \in Pipelines |-> BytesIn[b[1]]]
OutOf == [b \in Pipelines |-> BytesOut[b[1]]]

\* CountersExact with the sums unfolded, and an absent bucket counts from zero.
SumInv ==
    \A k \in Keys :
        /\ db[k].exists  => /\ db[k].bytes_in  = Total(InOf, Ran(k, 1))
                            /\ db[k].bytes_out = Total(OutOf, Ran(k, 2))
        /\ ~db[k].exists => db[k].bytes_in = 0 /\ db[k].bytes_out = 0

\* The sums range over finite sets of natural numbers.
LEMMA PipelineFacts ==
    /\ IsFiniteSet(Pipelines)
    /\ \A b \in Pipelines : InOf[b] \in Nat /\ OutOf[b] \in Nat
<1>1. IsFiniteSet(Attempts)
  BY FS_Interval, TimeAssumption DEF Attempts
<1>2. IsFiniteSet(Pipelines)
  BY <1>1, FS_Product, CallsAssumption DEF Pipelines
<1> QED BY <1>2, CallsAssumption DEF Pipelines, InOf, OutOf

\* The sums of CountersExact are the sums of SumInv.
LEMMA PipelineSums ==
    ASSUME NEW S \in SUBSET Pipelines
    PROVE  /\ IsFiniteSet(S)
           /\ MapThenSumSet(LAMBDA b : BytesIn[b[1]], S) = Total(InOf, S)
           /\ MapThenSumSet(LAMBDA b : BytesOut[b[1]], S) = Total(OutOf, S)
<1> DEFINE in == [b \in S |-> BytesIn[b[1]]]
           out == [b \in S |-> BytesOut[b[1]]]
<1>1. IsFiniteSet(S)
  BY PipelineFacts, FS_Subset
<1>2. MapThenSumSet(LAMBDA b : BytesIn[b[1]], S) = Total(in, S)
  BY Zenon DEF MapThenSumSet, MapThenFoldSet, Total, Adds, Pick
<1>3. MapThenSumSet(LAMBDA b : BytesOut[b[1]], S) = Total(out, S)
  BY Zenon DEF MapThenSumSet, MapThenFoldSet, Total, Adds, Pick
<1>4. \A b \in S : in[b] = InOf[b] /\ out[b] = OutOf[b]
  BY DEF InOf, OutOf
<1> HIDE DEF in, out
<1>5. Total(in, S) = Total(InOf, S) /\ Total(out, S) = Total(OutOf, S)
  BY <1>1, <1>4, TotalSame
<1> QED BY <1>1, <1>2, <1>3, <1>5

\* The pipelines of a bucket.
LEMMA RanFacts ==
    ASSUME NEW k, NEW n
    PROVE  Ran(k, n) \in SUBSET Pipelines
BY DEF Ran, Pipelines

\* SumInv is what CountersExact says.
LEMMA SumsAreExact == SumInv => CountersExact
<1> SUFFICES ASSUME SumInv, NEW k \in Keys, db[k].exists
             PROVE  /\ db[k].bytes_in  = MapThenSumSet(LAMBDA b : BytesIn[b[1]], Ran(k, 1))
                    /\ db[k].bytes_out = MapThenSumSet(LAMBDA b : BytesOut[b[1]], Ran(k, 2))
  BY DEF CountersExact
<1>1. /\ MapThenSumSet(LAMBDA b : BytesIn[b[1]], Ran(k, 1)) = Total(InOf, Ran(k, 1))
      /\ MapThenSumSet(LAMBDA b : BytesOut[b[1]], Ran(k, 2)) = Total(OutOf, Ran(k, 2))
  BY RanFacts, PipelineSums
<1> QED BY <1>1, Zenon DEF SumInv

\* HINCRBY adds to its own counter, EXPIRE to none.
LEMMA CommandSums ==
    ASSUME NEW b \in Buckets, NEW n \in Nat, NEW t \in Nat
    PROVE  /\ HIncrByIn(b, n).bytes_in = b.bytes_in + n
           /\ HIncrByIn(b, n).bytes_out = b.bytes_out
           /\ HIncrByOut(b, n).bytes_in = b.bytes_in
           /\ HIncrByOut(b, n).bytes_out = b.bytes_out + n
           /\ Expire(b, t).bytes_in = b.bytes_in
           /\ Expire(b, t).bytes_out = b.bytes_out
BY DEF Buckets, HIncrByIn, HIncrByOut, Expire

\* The bucket of an executed command counts its bytes on top of what was counted
\* before, which is nothing if the bucket was missing.
LEMMA ExecuteCounts ==
    ASSUME TInv, SumInv, NEW c \in Calls, NEW a \in Attempts, Execute(c, a)
    PROVE  LET k == KeyOf(c) IN
           /\ db'[k].bytes_in = Total(InOf, Ran(k, 1))
                                  + (IF pos[<<c, a>>] = 0 THEN BytesIn[c] ELSE 0)
           /\ db'[k].bytes_out = Total(OutOf, Ran(k, 2))
                                  + (IF pos[<<c, a>>] = 1 THEN BytesOut[c] ELSE 0)
<1> DEFINE k == KeyOf(c)
           old == db[k]
           i == pos[<<c, a>>]
<1>1. /\ k \in Keys /\ old \in Buckets /\ DOMAIN db = Keys
      /\ BytesIn[c] \in Nat /\ BytesOut[c] \in Nat /\ now + TTL \in Nat /\ i \in 0..2
  BY KeyTypes, CallsAssumption, TimeAssumption DEF TInv, TypeOK, Execute
<1>2. db'[k] = Command(c, i + 1, old)
  BY <1>1 DEF Execute
<1>3. old.bytes_in = Total(InOf, Ran(k, 1)) /\ old.bytes_out = Total(OutOf, Ran(k, 2))
  <2>1. CASE old.exists
    BY <1>1, <2>1, Zenon DEF SumInv
  <2>2. CASE ~old.exists
    <3>1. ASSUME NEW b \in Ran(k, 1) PROVE FALSE
      <4>1. PICK d \in Calls, e \in Attempts : b = <<d, e>>
        BY DEF Ran
      <4>2. KeyOf(d) = k /\ pos[<<d, e>>] \in 1..3
        BY <4>1 DEF Ran
      <4> QED BY <2>2, <4>2, StragglersFindTheirBucket
    <3>2. Ran(k, 1) = {} /\ Ran(k, 2) = {}
      BY <3>1 DEF Ran
    <3>3. old.bytes_in = 0 /\ old.bytes_out = 0
      BY <1>1, <2>2, Zenon DEF SumInv
    <3> QED BY <3>2, <3>3, TotalEmpty
  <2> QED BY <2>1, <2>2
<1>4. old.bytes_in \in Nat /\ old.bytes_out \in Nat
  BY <1>1 DEF Buckets
<1> HIDE DEF k, old, i
<1> SUFFICES /\ db'[k].bytes_in = old.bytes_in + (IF i = 0 THEN BytesIn[c] ELSE 0)
             /\ db'[k].bytes_out = old.bytes_out + (IF i = 1 THEN BytesOut[c] ELSE 0)
  BY <1>3 DEF k, i
<1>5. CASE i = 0
  <2>1. db'[k] = HIncrByIn(old, BytesIn[c])
    BY <1>2, <1>5 DEF Command
  <2>2. db'[k].bytes_in = old.bytes_in + BytesIn[c] /\ db'[k].bytes_out = old.bytes_out
    BY <1>1, <2>1, CommandSums
  <2> QED BY <1>4, <1>5, <2>2
<1>6. CASE i = 1
  <2>1. db'[k] = HIncrByOut(old, BytesOut[c])
    BY <1>2, <1>6 DEF Command
  <2>2. db'[k].bytes_in = old.bytes_in /\ db'[k].bytes_out = old.bytes_out + BytesOut[c]
    BY <1>1, <2>1, CommandSums
  <2> QED BY <1>4, <1>6, <2>2
<1>7. CASE i = 2
  <2>1. db'[k] = Expire(old, now + TTL)
    BY <1>2, <1>7 DEF Command
  <2>2. db'[k].bytes_in = old.bytes_in /\ db'[k].bytes_out = old.bytes_out
    BY <1>1, <2>1, CommandSums
  <2> QED BY <1>4, <1>7, <2>2
<1> QED BY <1>1, <1>5, <1>6, <1>7

\* The sums after one more command: only the command's own set grows, by the
\* pipeline it belongs to.
LEMMA ExecuteRan ==
    ASSUME TInv, NEW c \in Calls, NEW a \in Attempts, Execute(c, a), NEW k \in Keys, NEW n \in 1..2
    PROVE  Ran(k, n)' = IF k = KeyOf(c) /\ pos[<<c, a>>] = n - 1
                        THEN Ran(k, n) \cup {<<c, a>>} ELSE Ran(k, n)
<1>1. <<c, a>> \in Calls \X Attempts /\ pos[<<c, a>>] \in 0..2
  BY DEF Execute
<1>2. \A b \in Calls \X Attempts : pos'[b] = IF b = <<c, a>> THEN pos[b] + 1 ELSE pos[b]
  BY <1>1 DEF TInv, TypeOK, Execute
<1>3. \A d \in Calls : KeyOf(d)' = KeyOf(d)
  BY DEF KeyOf, Execute
<1>4. Ran(k, n)' = {b \in Calls \X Attempts : KeyOf(b[1]) = k /\ pos'[b] \in n..3}
  BY <1>3 DEF Ran
<1>5. Ran(k, n) = {b \in Calls \X Attempts : KeyOf(b[1]) = k /\ pos[b] \in n..3}
  BY DEF Ran
<1>6. \A b \in Calls \X Attempts : b # <<c, a>> => (b \in Ran(k, n)' <=> b \in Ran(k, n))
  BY <1>2, <1>4, <1>5
<1>7. <<c, a>> \in Ran(k, n) <=> KeyOf(c) = k /\ pos[<<c, a>>] \in n..3
  BY <1>1, <1>5
<1>8. <<c, a>> \in Ran(k, n)' <=> KeyOf(c) = k /\ pos[<<c, a>>] + 1 \in n..3
  BY <1>1, <1>2, <1>4
<1>9. Ran(k, n)' \subseteq Calls \X Attempts /\ Ran(k, n) \subseteq Calls \X Attempts
  BY <1>4, <1>5
<1> HIDE DEF Ran
<1>10. CASE k = KeyOf(c) /\ pos[<<c, a>>] = n - 1
  <2>1. <<c, a>> \in Ran(k, n)'
    BY <1>1, <1>8, <1>10
  <2> QED BY <1>1, <1>6, <1>9, <1>10, <2>1
<1>11. CASE ~(k = KeyOf(c) /\ pos[<<c, a>>] = n - 1)
  <2>1. <<c, a>> \in Ran(k, n)' <=> <<c, a>> \in Ran(k, n)
    BY <1>1, <1>7, <1>8, <1>11
  <2> QED BY <1>6, <1>9, <1>11, <2>1
<1> QED BY <1>10, <1>11

\* Redis executes a command.
LEMMA ExecuteSums ==
    ASSUME TInv, SumInv, NEW c \in Calls, NEW a \in Attempts, Execute(c, a)
    PROVE  SumInv'
<1> DEFINE key == KeyOf(c)
           i == pos[<<c, a>>]
           p == <<c, a>>
<1>1. /\ key \in Keys /\ p \in Pipelines /\ i \in 0..2
      /\ InOf[p] = BytesIn[c] /\ OutOf[p] = BytesOut[c]
      /\ BytesIn[c] \in Nat /\ BytesOut[c] \in Nat
  BY KeyTypes, CallsAssumption DEF TInv, Execute, Pipelines, InOf, OutOf
<1>2. db'[key].exists
  BY ExecutedBucket
<1>3. \A k \in Keys : k # key => db'[k] = db[k]
  BY DEF TInv, TypeOK, Execute
<1>4. ASSUME NEW n \in 1..2, i = n - 1 PROVE p \notin Ran(key, n)
  BY <1>1, <1>4 DEF Ran
<1> SUFFICES ASSUME NEW k \in Keys
             PROVE  /\ db'[k].exists  => /\ db'[k].bytes_in  = Total(InOf, Ran(k, 1)')
                                         /\ db'[k].bytes_out = Total(OutOf, Ran(k, 2)')
                    /\ ~db'[k].exists => db'[k].bytes_in = 0 /\ db'[k].bytes_out = 0
  BY DEF SumInv
<1> DEFINE R1 == Ran(k, 1)
           R2 == Ran(k, 2)
<1>5. /\ R1 \in SUBSET Pipelines /\ IsFiniteSet(R1)
      /\ R2 \in SUBSET Pipelines /\ IsFiniteSet(R2)
  BY RanFacts, PipelineSums
<1>6. /\ Ran(k, 1)' = IF k = key /\ i = 0 THEN R1 \cup {p} ELSE R1
      /\ Ran(k, 2)' = IF k = key /\ i = 1 THEN R2 \cup {p} ELSE R2
  BY ExecuteRan
<1>7. CASE k # key
  <2>1. Ran(k, 1)' = R1 /\ Ran(k, 2)' = R2 /\ db'[k] = db[k]
    BY <1>3, <1>6, <1>7
  <2> QED BY <2>1, Zenon DEF SumInv
<1>8. CASE k = key
  <2>1. /\ db'[k].bytes_in = Total(InOf, R1) + (IF i = 0 THEN BytesIn[c] ELSE 0)
        /\ db'[k].bytes_out = Total(OutOf, R2) + (IF i = 1 THEN BytesOut[c] ELSE 0)
    BY <1>8, ExecuteCounts
  <2>2. Total(InOf, R1) \in Nat /\ Total(OutOf, R2) \in Nat
    BY <1>5, PipelineFacts, TotalNat
  <2>3. Total(InOf, Ran(k, 1)') = Total(InOf, R1) + (IF i = 0 THEN BytesIn[c] ELSE 0)
    <3>1. CASE i = 0
      <4>1. p \notin R1 /\ \A b \in R1 \cup {p} : InOf[b] \in Nat
        BY <1>1, <1>4, <1>5, <1>8, <3>1, PipelineFacts
      <4>2. Ran(k, 1)' = R1 \cup {p}
        BY <1>6, <1>8, <3>1
      <4> HIDE DEF R1, p, i
      <4>3. Total(InOf, R1 \cup {p}) = InOf[p] + Total(InOf, R1)
        BY <1>5, <4>1, TotalAdd
      <4>4. Total(InOf, Ran(k, 1)') = InOf[p] + Total(InOf, R1)
        BY <4>2, <4>3, Zenon
      <4> QED BY <1>1, <2>2, <3>1, <4>4
    <3>2. CASE i # 0
      BY <1>6, <2>2, <3>2
    <3> QED BY <3>1, <3>2
  <2>4. Total(OutOf, Ran(k, 2)') = Total(OutOf, R2) + (IF i = 1 THEN BytesOut[c] ELSE 0)
    <3>1. CASE i = 1
      <4>1. p \notin R2 /\ \A b \in R2 \cup {p} : OutOf[b] \in Nat
        BY <1>1, <1>4, <1>5, <1>8, <3>1, PipelineFacts
      <4>2. Ran(k, 2)' = R2 \cup {p}
        BY <1>6, <1>8, <3>1
      <4> HIDE DEF R2, p, i
      <4>3. Total(OutOf, R2 \cup {p}) = OutOf[p] + Total(OutOf, R2)
        BY <1>5, <4>1, TotalAdd
      <4>4. Total(OutOf, Ran(k, 2)') = OutOf[p] + Total(OutOf, R2)
        BY <4>2, <4>3, Zenon
      <4> QED BY <1>1, <2>2, <3>1, <4>4
    <3>2. CASE i # 1
      BY <1>6, <2>2, <3>2
    <3> QED BY <3>1, <3>2
  <2>5. db'[k].exists
    BY <1>2, <1>8
  <2> QED BY <2>1, <2>3, <2>4, <2>5
<1> QED BY <1>7, <1>8

\* Any other step leaves the sets of executed commands alone, and a bucket stays
\* or disappears with all it counted.
LEMMA QuietSums ==
    ASSUME TInv, SumInv,
           \A k \in Keys : db'[k] = db[k] \/ db'[k] = Absent,
           \A k \in Keys, n \in 1..2 : Ran(k, n)' = Ran(k, n)
    PROVE  SumInv'
<1>1. ~Absent.exists /\ Absent.bytes_in = 0 /\ Absent.bytes_out = 0
  BY DEF Absent
<1> SUFFICES ASSUME NEW k \in Keys
             PROVE  /\ db'[k].exists  => /\ db'[k].bytes_in  = Total(InOf, Ran(k, 1)')
                                         /\ db'[k].bytes_out = Total(OutOf, Ran(k, 2)')
                    /\ ~db'[k].exists => db'[k].bytes_in = 0 /\ db'[k].bytes_out = 0
  BY DEF SumInv
<1>2. Ran(k, 1)' = Ran(k, 1) /\ Ran(k, 2)' = Ran(k, 2)
  OBVIOUS
<1>3. CASE db'[k] = db[k]
  BY <1>2, <1>3, Zenon DEF SumInv
<1>4. CASE db'[k] = Absent
  BY <1>1, <1>4
<1> QED BY <1>3, <1>4

\* The caller and the client: a call or an attempt that starts has executed
\* nothing yet.
LEMMA CallerSums ==
    ASSUME TInv, SumInv, NEW c \in Calls,
           RecordTraffic(c) \/ ExecOK(c) \/ Retry(c) \/ ExecFailed(c)
    PROVE  SumInv'
<1>1. db' = db
  BY DEF RecordTraffic, ExecOK, Retry, ExecFailed
<1>2. ASSUME NEW b \in Calls \X Attempts
      PROVE  /\ pos'[b] \in 1..3 \/ pos[b] \in 1..3 => pos'[b] = pos[b]
             /\ pos[b] \in 1..3 => KeyOf(b[1])' = KeyOf(b[1])
  <2>1. PICK d \in Calls, a \in Attempts : b = <<d, a>>
    OBVIOUS
  <2>2. pos[b] \in 1..3 => state[d] # "idle"
    BY <2>1 DEF TInv, ClientInv, Unsent
  <2>3. CASE RecordTraffic(c)
    <3>1. pos[<<c, 0>>] = Unsent /\ <<c, 0>> \in Calls \X Attempts
      BY <2>3, TimeAssumption DEF TInv, ClientInv, RecordTraffic, Attempts
    <3>2. pos'[b] = IF b = <<c, 0>> THEN 0 ELSE pos[b]
      BY <2>3, <3>1 DEF TInv, TypeOK, RecordTraffic
    <3>3. state[d] # "idle" => started'[d] = started[d]
      BY <2>3 DEF TInv, TypeOK, RecordTraffic
    <3> QED BY <2>1, <2>2, <3>1, <3>2, <3>3 DEF KeyOf, Unsent
  <2>4. CASE Retry(c)
    <3>1. attempt[c] \in Nat /\ attempt[c] + 1 \in Attempts /\ attempt[c] + 1 > attempt[c]
      BY <2>4, TimeAssumption DEF TInv, TypeOK, Retry, Attempts
    <3>2. pos[<<c, attempt[c] + 1>>] = Unsent
      BY <3>1 DEF TInv, ClientInv
    <3>3. pos'[b] = IF b = <<c, attempt[c] + 1>> THEN 0 ELSE pos[b]
      BY <2>4, <3>1 DEF TInv, TypeOK, Retry
    <3>4. started' = started
      BY <2>4 DEF Retry
    <3> QED BY <3>2, <3>3, <3>4 DEF KeyOf, Unsent
  <2>5. CASE ExecOK(c) \/ ExecFailed(c)
    BY <2>5 DEF ExecOK, ExecFailed, KeyOf
  <2> QED BY <2>3, <2>4, <2>5
<1>3. ASSUME NEW k \in Keys, NEW n \in 1..2 PROVE Ran(k, n)' = Ran(k, n)
  <2>1. ASSUME NEW b \in Calls \X Attempts
        PROVE  KeyOf(b[1])' = k /\ pos'[b] \in n..3 <=> KeyOf(b[1]) = k /\ pos[b] \in n..3
    BY <1>2
  <2> QED BY <2>1 DEF Ran
<1> QED BY <1>1, <1>3, QuietSums

\* A bucket counts every command of RecordTraffic that Redis executed on it, once
\* and in the direction it belongs to, in any interleaving of cut and repeated
\* pipelines.
THEOREM CountersAreExact == Spec => []CountersExact
<1>1. ASSUME Init PROVE SumInv
  <2>1. \A k \in Keys : db[k] = Absent
    BY <1>1 DEF Init
  <2>2. ~Absent.exists /\ Absent.bytes_in = 0 /\ Absent.bytes_out = 0
    BY DEF Absent
  <2> QED BY <2>1, <2>2 DEF SumInv
<1>2. ASSUME TInv, SumInv, [Next]_vars PROVE SumInv'
  <2>1. CASE UNCHANGED vars
    <3>1. db' = db /\ \A k \in Keys, n \in 1..2 : Ran(k, n)' = Ran(k, n)
      BY <2>1 DEF vars, Ran, KeyOf
    <3> QED BY <1>2, <3>1, QuietSums
  <2>2. CASE \E c \in Calls : RecordTraffic(c) \/ ExecOK(c) \/ Retry(c) \/ ExecFailed(c)
    BY <1>2, <2>2, CallerSums
  <2>3. CASE \E c \in Calls, a \in Attempts : Execute(c, a)
    BY <1>2, <2>3, ExecuteSums
  <2>4. CASE Tick
    <3>1. \A k \in Keys : db'[k] = db[k] \/ db'[k] = Absent
      BY <2>4 DEF Tick
    <3>2. ASSUME NEW k \in Keys, NEW n \in 1..2 PROVE Ran(k, n)' = Ran(k, n)
      BY <2>4 DEF Tick, Ran, KeyOf
    <3> QED BY <1>2, <3>1, <3>2, QuietSums
  <2> QED BY <1>2, <2>1, <2>2, <2>3, <2>4 DEF Next
<1> QED BY <1>1, <1>2, TrafficInvariance, SumsAreExact, PTL DEF Spec

\* The sum over the calls that returned nil is no larger than the sum over the
\* pipelines that Redis executed: each of those calls has one, executed whole.
LEMMA AckedAreCounted ==
    ASSUME TInv, NEW k \in Keys
    PROVE  /\ MapThenSumSet(LAMBDA d : BytesIn[d], Acked(k)) <= Total(InOf, Ran(k, 1))
           /\ MapThenSumSet(LAMBDA d : BytesOut[d], Acked(k)) <= Total(OutOf, Ran(k, 2))
<1> DEFINE A == Acked(k)
           R1 == Ran(k, 1)
           R2 == Ran(k, 2)
           h == [d \in A |-> <<d, attempt[d]>>]
<1>1. IsFiniteSet(A)
  BY CallsAssumption, FS_Subset DEF Acked
<1>2. /\ R1 \in SUBSET Pipelines /\ IsFiniteSet(R1)
      /\ R2 \in SUBSET Pipelines /\ IsFiniteSet(R2)
  BY RanFacts, PipelineSums
<1>3. \A d \in A : /\ d \in Calls /\ KeyOf(d) = k /\ attempt[d] \in Attempts
                   /\ pos[<<d, attempt[d]>>] = 3
  BY DEF TInv, TypeOK, ClientInv, Acked
<1>4. h \in [A -> R1] /\ h \in [A -> R2]
  BY <1>3 DEF Ran
<1>5. \A x, y \in A : h[x] = h[y] => x = y
  OBVIOUS
<1>6. \A x \in A : BytesIn[x] = InOf[h[x]] /\ BytesOut[x] = OutOf[h[x]]
  BY <1>3 DEF InOf, OutOf, Pipelines
<1>7. (\A y \in R1 : InOf[y] \in Nat) /\ (\A y \in R2 : OutOf[y] \in Nat)
  BY <1>2, PipelineFacts
<1>8. MapThenSumSet(LAMBDA d : BytesIn[d], A) = Total(BytesIn, A)
  BY Zenon DEF MapThenSumSet, MapThenFoldSet, Total, Adds, Pick
<1>9. MapThenSumSet(LAMBDA d : BytesOut[d], A) = Total(BytesOut, A)
  BY Zenon DEF MapThenSumSet, MapThenFoldSet, Total, Adds, Pick
<1> HIDE DEF A, R1, R2, h
<1>10. Total(BytesIn, A) <= Total(InOf, R1)
  BY <1>1, <1>2, <1>4, <1>5, <1>6, <1>7, TotalEmbeds
<1>11. Total(BytesOut, A) <= Total(OutOf, R2)
  BY <1>1, <1>2, <1>4, <1>5, <1>6, <1>7, TotalEmbeds
<1>12. /\ MapThenSumSet(LAMBDA d : BytesIn[d], A) <= Total(InOf, R1)
       /\ MapThenSumSet(LAMBDA d : BytesOut[d], A) <= Total(OutOf, R2)
  BY <1>8, <1>9, <1>10, <1>11, Zenon
<1> QED BY <1>12 DEF A, R1, R2

\* The traffic of the calls of RecordTraffic that returned nil stays in the bucket
\* as long as one of them is younger than the ttl.
THEOREM AckedTrafficIsKept == Spec => []NothingAckedIsLost
<1>1. ASSUME TInv, CountersExact PROVE NothingAckedIsLost
  <2> DEFINE in(k) == MapThenSumSet(LAMBDA d : BytesIn[d], Acked(k))
             out(k) == MapThenSumSet(LAMBDA d : BytesOut[d], Acked(k))
  <2> SUFFICES ASSUME NEW k \in Keys, NEW c \in Acked(k),
                      now < lastExec[<<c, attempt[c]>>] + TTL
               PROVE  db[k].bytes_in >= in(k) /\ db[k].bytes_out >= out(k)
    BY DEF NothingAckedIsLost
  <2>1. /\ c \in Calls /\ KeyOf(c) = k /\ attempt[c] \in Attempts
        /\ pos[<<c, attempt[c]>>] = 3
    BY <1>1 DEF TInv, TypeOK, ClientInv, Acked
  <2>2. now \in Nat /\ lastExec[<<c, attempt[c]>>] \in Nat /\ TTL \in Nat
    BY <1>1, <2>1, TimeAssumption DEF TInv, TypeOK
  <2>3. db[k].exists
    BY <1>1, <2>1, <2>2 DEF TInv, LifeInv
  <2>4. db[k].bytes_in = Total(InOf, Ran(k, 1)) /\ db[k].bytes_out = Total(OutOf, Ran(k, 2))
    <3>1. /\ db[k].bytes_in  = MapThenSumSet(LAMBDA b : BytesIn[b[1]], Ran(k, 1))
          /\ db[k].bytes_out = MapThenSumSet(LAMBDA b : BytesOut[b[1]], Ran(k, 2))
      BY <1>1, <2>3, Zenon DEF CountersExact
    <3>2. /\ MapThenSumSet(LAMBDA b : BytesIn[b[1]], Ran(k, 1)) = Total(InOf, Ran(k, 1))
          /\ MapThenSumSet(LAMBDA b : BytesOut[b[1]], Ran(k, 2)) = Total(OutOf, Ran(k, 2))
      BY RanFacts, PipelineSums
    <3> QED BY <3>1, <3>2, Zenon
  <2>5. in(k) <= Total(InOf, Ran(k, 1)) /\ out(k) <= Total(OutOf, Ran(k, 2))
    BY <1>1, AckedAreCounted
  <2> HIDE DEF in, out
  <2> QED BY <2>4, <2>5
<1> QED BY <1>1, TrafficInvariance, CountersAreExact, PTL

=============================================================================
