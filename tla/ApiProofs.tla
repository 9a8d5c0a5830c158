------------------------------ MODULE ApiProofs ------------------------------
(***************************************************************************)
(* Proofs about ApiInstances, for any instances, requests in flight,       *)
(* limits, windows, signals and failures.                                  *)
(***************************************************************************)
EXTENDS ApiInstances, TLAPS

\* The invariant is inductive as it stands.
IInv == TypeOK /\ NoRequestCut

LEMMA IdleIsRequest ==
  Idle \in Request /\ Idle.pc = "idle"
<1>1. (CHOOSE i \in Instance : TRUE) \in Instance
  BY InstanceAssumption
<1>2. "global" \in Limiter
  BY LimitersAssumption
<1> QED
  BY <1>1, <1>2 DEF Idle, Request

\* INCR leaves a key that is there, counted up to the first value over the
\* limit, with the expiry it had or with none.
LEMMA IncrementedIsKey ==
  ASSUME RateLimitTypeOK, NEW l \in Limiter
  PROVE  /\ Incremented(l) \in [hits : Nat, ttl : Forever..windowMs]
         /\ Incremented(l).hits <= limit[l] + 1
         /\ Incremented(l).hits # 0 /\ Incremented(l).ttl # 0
<1> DEFINE key == counter[l]
<1>1. /\ key \in [hits : Nat, ttl : Forever..windowMs]
      /\ key.hits <= limit[l] + 1 /\ (key.hits = 0 <=> key.ttl = 0)
  BY DEF RateLimitTypeOK
<1>2. limit[l] \in Nat \ {0} /\ windowMs \in Nat \ {0}
  BY LimitsAssumption, WindowAssumption
<1> HIDE DEF key
<1>3. CASE key.hits = 0
  BY <1>1, <1>2, <1>3 DEF Incremented, Forever, key
<1>4. CASE key.hits # 0
  BY <1>1, <1>2, <1>4 DEF Incremented, Forever, key
<1> QED
  BY <1>3, <1>4

\* The three steps of the counters keep their types.
LEMMA CounterSteps ==
  ASSUME RateLimitTypeOK
  PROVE  /\ \A l \in Limiter : Increment(l) => RateLimitTypeOK'
         /\ \A l \in Limiter : SetExpiry(l) => RateLimitTypeOK'
         /\ WindowsElapse => RateLimitTypeOK'
<1>0. /\ windowMs \in Nat \ {0} /\ 1 \in Slot
      /\ \A l \in Limiter : limit[l] \in Nat \ {0}
  BY LimitsAssumption, WindowAssumption DEF Slot
<1>1. ASSUME NEW l \in Limiter, Increment(l) PROVE RateLimitTypeOK'
  <2>1. recent' \in [Limiter -> [Slot -> Nat]]
    BY <1>0, <1>1 DEF Increment, RateLimitTypeOK
  <2>2. counter' = [counter EXCEPT ![l] = Incremented(l)]
    BY <1>1 DEF Increment
  <2> QED
    BY <2>1, <2>2, IncrementedIsKey DEF RateLimitTypeOK
<1>2. ASSUME NEW l \in Limiter, SetExpiry(l) PROVE RateLimitTypeOK'
  <2> DEFINE ttl == IF counter[l].hits = 0 THEN 0 ELSE windowMs
             key == [counter[l] EXCEPT !.ttl = ttl]
  <2>1. /\ key \in [hits : Nat, ttl : Forever..windowMs]
        /\ key.hits <= limit[l] + 1 /\ (key.hits = 0 <=> key.ttl = 0)
    BY <1>0 DEF RateLimitTypeOK, Forever
  <2>2. counter' = [counter EXCEPT ![l] = key] /\ UNCHANGED recent
    BY <1>2 DEF SetExpiry
  <2> HIDE DEF key
  <2> QED
    BY <2>1, <2>2 DEF RateLimitTypeOK
<1>3. ASSUME WindowsElapse PROVE RateLimitTypeOK'
  <2>1. recent' \in [Limiter -> [Slot -> Nat]]
    <3>1. \A l \in Limiter, k \in Slot : k # 1 => k - 1 \in Slot /\ recent[l][k - 1] \in Nat
      BY <1>0 DEF RateLimitTypeOK, Slot
    <3>2. \A l \in Limiter : [k \in Slot |-> IF k = 1 THEN 0 ELSE recent[l][k - 1]] \in [Slot -> Nat]
      BY <3>1
    <3> QED
      BY <1>3, <3>2 DEF WindowsElapse
  <2>2. ASSUME NEW l \in Limiter
        PROVE  /\ counter'[l] \in [hits : Nat, ttl : Forever..windowMs]
               /\ counter'[l].hits <= limit[l] + 1
               /\ (counter'[l].hits = 0 <=> counter'[l].ttl = 0)
    <3>1. /\ counter[l] \in [hits : Nat, ttl : Forever..windowMs]
          /\ counter[l].hits <= limit[l] + 1
          /\ (counter[l].hits = 0 <=> counter[l].ttl = 0)
      BY DEF RateLimitTypeOK
    <3>2. CASE counter[l].ttl = Forever
      BY <1>3, <3>1, <3>2 DEF WindowsElapse
    <3>3. CASE counter[l].ttl # Forever /\ counter[l].ttl <= 1
      <4>1. counter'[l] = NoKey
        BY <1>3, <3>3 DEF WindowsElapse
      <4> QED
        BY <1>0, <4>1 DEF NoKey, Forever
    <3>4. CASE counter[l].ttl # Forever /\ ~(counter[l].ttl <= 1)
      <4>1. counter'[l] = [counter[l] EXCEPT !.ttl = counter[l].ttl - 1]
        BY <1>3, <3>4 DEF WindowsElapse
      <4> QED
        BY <1>0, <3>1, <3>4, <4>1 DEF Forever
    <3> QED
      BY <3>2, <3>3, <3>4
  <2>3. counter' = [l \in Limiter |-> counter'[l]]
    BY <1>3 DEF WindowsElapse
  <2> QED
    BY <2>1, <2>2, <2>3 DEF RateLimitTypeOK
<1> QED
  BY <1>1, <1>2, <1>3

\* What becomes of a request that its limiter has counted.
LEMMA PassedFields ==
  ASSUME NEW q \in Request
  PROVE  /\ Passed(q) \in Request
         /\ Passed(q).pc # "idle" => Passed(q).on = q.on
<1>1. "login" \in Limiter
  BY LimitersAssumption
<1> QED
  BY <1>1, IdleIsRequest DEF Passed, Request

\* A request that goes on where it was, or is over, cuts nothing.
LEMMA NobodyArrives ==
  ASSUME IInv, UNCHANGED phase, req' \in [Req -> Request],
         \A r \in Req : req'[r].pc # "idle" => req[r].pc # "idle" /\ req'[r].on = req[r].on
  PROVE  NoRequestCut'
  BY DEF IInv, NoRequestCut, On
-----------------------------------------------------------------------------
\* A request arrives where it is accepted.
LEMMA ArriveStep ==
  ASSUME IInv, NEW r \in Req, NEW i \in Instance, NEW login \in BOOLEAN,
         Arrive(r, i, login) \/ Probe(r, i)
  PROVE  IInv'
<1>0. TypeOK
  BY DEF IInv
<1>1. PICK q \in Request : q.on = i /\ req' = [req EXCEPT ![r] = q]
  <2>1. [Idle EXCEPT !.pc = "count", !.on = i, !.login = login] \in Request
        /\ [Idle EXCEPT !.pc = "count", !.on = i, !.login = login].on = i
    BY IdleIsRequest DEF Request
  <2>2. [Idle EXCEPT !.pc = "handle", !.on = i] \in Request
        /\ [Idle EXCEPT !.pc = "handle", !.on = i].on = i
    BY IdleIsRequest DEF Request
  <2> QED
    BY <2>1, <2>2 DEF Arrive, Probe
<1>2. Accepts(i) /\ UNCHANGED <<redis, process, failures>>
  BY DEF Arrive, Probe
<1>3. TypeOK'
  BY <1>0, <1>1, <1>2 DEF TypeOK, RateLimitTypeOK, ShutdownTypeOK, redis, process
<1>4. NoRequestCut'
  BY <1>0, <1>1, <1>2 DEF IInv, NoRequestCut, On, Accepts, TypeOK, process
<1> QED
  BY <1>3, <1>4 DEF IInv

\* The limiters and the handler, and a Redis that fails.
LEMMA WorkStep ==
  ASSUME IInv, NEW r \in Req, Work(r) \/ RedisFails(r)
  PROVE  IInv'
<1>0. TypeOK /\ RateLimitTypeOK /\ req[r] \in Request /\ req[r].at \in Limiter
  BY DEF IInv, TypeOK, Request
<1>1. RateLimitTypeOK' /\ UNCHANGED process /\ failures' \in Nat
  <2>1. CASE Count(r)
    BY <1>0, <2>1, CounterSteps DEF Count, TypeOK
  <2>2. CASE Expire(r)
    BY <1>0, <2>2, CounterSteps DEF Expire, TypeOK
  <2>3. CASE Handle(r) \/ RedisFails(r)
    BY <1>0, <2>3 DEF Handle, RedisFails, Fail, TypeOK, RateLimitTypeOK, redis, process
  <2> QED
    BY <2>1, <2>2, <2>3 DEF Work
<1>2. PICK q \in Request :
        /\ req' = [req EXCEPT ![r] = q]
        /\ q.pc # "idle" => req[r].pc # "idle" /\ q.on = req[r].on
  <2>1. CASE Count(r)
    <3> DEFINE counted == [req[r] EXCEPT !.allowed =
                             Allowed(Incremented(req[r].at).hits, req[r].at)]
    <3>0. Allowed(Incremented(req[r].at).hits, req[r].at) \in BOOLEAN
      BY DEF Allowed
    <3>1. counted \in Request /\ counted.on = req[r].on /\ req[r].pc = "count"
      BY <1>0, <2>1, <3>0 DEF Count, Request
    <3>2. [counted EXCEPT !.pc = "expire"] \in Request
          /\ [counted EXCEPT !.pc = "expire"].on = counted.on
      BY <3>1 DEF Request
    <3>3. req' = [req EXCEPT ![r] = IF NeedsExpiry(req[r].at) THEN [counted EXCEPT !.pc = "expire"]
                                    ELSE Passed(counted)]
      BY <2>1 DEF Count
    <3> HIDE DEF counted
    <3> QED
      BY <3>1, <3>2, <3>3, PassedFields
  <2>2. CASE Expire(r)
    BY <1>0, <2>2, PassedFields DEF Expire
  <2>3. CASE Handle(r) \/ RedisFails(r)
    BY <2>3, IdleIsRequest DEF Handle, RedisFails, Answer
  <2> QED
    BY <2>1, <2>2, <2>3 DEF Work
<1>3. TypeOK'
  BY <1>0, <1>1, <1>2 DEF TypeOK, ShutdownTypeOK, process
<1>4. NoRequestCut'
  BY <1>0, <1>1, <1>2, <1>3, NobodyArrives DEF TypeOK, process
<1> QED
  BY <1>3, <1>4 DEF IInv

\* A process disconnects when nothing is under way, and nothing comes after.
LEMMA StopStepStep ==
  ASSUME IInv, NEW i \in Instance, StopStep(i)
  PROVE  IInv'
<1>0. TypeOK /\ ShutdownTypeOK /\ UNCHANGED <<redis, req, failures>>
  BY DEF IInv, TypeOK, StopStep
<1>1. ShutdownTypeOK'
  BY <1>0, SignalsAssumption DEF StopStep, Signal, ServerClosed, CloseFails, Disconnect, DisconnectFails, CloseRedis, Start,
                                 Enter, ShutdownTypeOK, Phase
<1>2. TypeOK'
  BY <1>0, <1>1 DEF TypeOK, RateLimitTypeOK, redis
<1>3. ASSUME NEW j \in Instance, phase'[j] \in {"disconnecting", "closers", "exited"}
      PROVE  On(j) = {}
  <2>1. CASE phase[j] \in {"disconnecting", "closers", "exited"}
    BY <2>1 DEF IInv, NoRequestCut
  <2>2. CASE phase[j] \notin {"disconnecting", "closers", "exited"}
    <3>1. j = i /\ (ServerClosed(i, On(i) = {}) \/ CloseFails(i, On(i) = {}))
      BY <1>0, <1>3, <2>2 DEF StopStep, Signal, ServerClosed, CloseFails, Disconnect, DisconnectFails, CloseRedis, Start,
                              Enter, ShutdownTypeOK
    <3> QED
      BY <3>1 DEF ServerClosed, CloseFails
  <2> QED
    BY <2>1, <2>2
<1>4. NoRequestCut'
  BY <1>0, <1>3 DEF NoRequestCut, On
<1> QED
  BY <1>2, <1>4 DEF IInv

\* A process that dies takes its requests with it.
LEMMA CrashStep ==
  ASSUME IInv, NEW i \in Instance, Crash(i)
  PROVE  IInv'
<1>0. /\ TypeOK /\ ShutdownTypeOK
      /\ phase' = [phase EXCEPT ![i] = "exited"]
      /\ req' = [r \in Req |-> IF r \in On(i) THEN Idle ELSE req[r]]
      /\ failures' = failures + 1 /\ UNCHANGED <<redis, signals>>
  BY DEF IInv, TypeOK, Crash, Fail, Dies, Enter
<1>1. TypeOK'
  BY <1>0, IdleIsRequest DEF TypeOK, RateLimitTypeOK, ShutdownTypeOK, Phase, redis
<1>2. NoRequestCut'
  BY <1>0, IdleIsRequest DEF IInv, NoRequestCut, On, ShutdownTypeOK
<1> QED
  BY <1>1, <1>2 DEF IInv
-----------------------------------------------------------------------------
\* The invariant of the instances: rateLimit.ts:34-48, shutdown.ts:30-53.
THEOREM Invariance == Spec => []IInv
<1>1. Init => IInv
  <2> SUFFICES ASSUME Init PROVE IInv
    OBVIOUS
  <2>1. RateLimitTypeOK
    BY LimitsAssumption, WindowAssumption
       DEF Init, RateLimitInit, RateLimitTypeOK, NoKey, Forever
  <2>2. ShutdownTypeOK
    BY DEF Init, ShutdownInit, ShutdownTypeOK, Phase
  <2>3. NoRequestCut
    BY DEF Init, ShutdownInit, NoRequestCut
  <2> QED
    BY <2>1, <2>2, <2>3, IdleIsRequest DEF Init, IInv, TypeOK
<1>2. IInv /\ [Next]_vars => IInv'
  <2> SUFFICES ASSUME IInv, [Next]_vars PROVE IInv'
    OBVIOUS
  <2>1. CASE \E r \in Req, i \in Instance, login \in BOOLEAN : Arrive(r, i, login)
    BY <2>1, ArriveStep
  <2>2. CASE \E r \in Req, i \in Instance : Probe(r, i)
    BY <2>2, ArriveStep
  <2>3. CASE \E r \in Req : Work(r) \/ RedisFails(r)
    BY <2>3, WorkStep
  <2>4. CASE \E i \in Instance : StopStep(i)
    BY <2>4, StopStepStep
  <2>5. CASE \E i \in Instance : Crash(i)
    BY <2>5, CrashStep
  <2>6. CASE Tick
    <3>1. TypeOK'
      BY <2>6, CounterSteps DEF IInv, TypeOK, Tick, ShutdownTypeOK, process
    <3> QED
      BY <2>6, <3>1 DEF IInv, Tick, NoRequestCut, On, process
  <2>7. CASE UNCHANGED vars
    BY <2>7 DEF vars, redis, process, IInv, TypeOK, RateLimitTypeOK, ShutdownTypeOK, NoRequestCut, On
  <2> QED
    BY <2>1, <2>2, <2>3, <2>4, <2>5, <2>6, <2>7 DEF Next
<1> QED
  BY <1>1, <1>2, PTL DEF Spec

\* Every counter has an expiry to come or none, and is never far over its
\* limit; every request is on an instance.
THEOREM TypeCorrectness == Spec => []TypeOK
<1>1. IInv => TypeOK
  BY DEF IInv
<1> QED
  BY <1>1, Invariance, PTL

\* H0.3 (shutdown.ts:40): whatever signals, failures and requests come, no
\* process that ends by itself has a request under way once it disconnects.
THEOREM NobodyIsCut == Spec => []NoRequestCut
<1>1. IInv => NoRequestCut
  BY DEF IInv
<1> QED
  BY <1>1, Invariance, PTL
-----------------------------------------------------------------------------
(* The windows.  The invariant is one of the counters alone: every step of *)
(* the instances is one step of them, or leaves them as they are.          *)

WindowsInv == RateLimitTypeOK /\ \A l \in Limiter : TwoKeys(l)

\* What the type and the constants say of one limiter.
LEMMA LimiterFacts ==
  ASSUME RateLimitTypeOK, NEW l \in Limiter
  PROVE  /\ recent[l] \in [Slot -> Nat] /\ \A k \in Slot : recent[l][k] \in Nat
         /\ counter[l].hits \in Nat /\ counter[l].ttl \in Forever..windowMs
         /\ (counter[l].hits = 0 <=> counter[l].ttl = 0)
         /\ limit[l] \in Nat \ {0} /\ windowMs \in Nat \ {0} /\ 1 \in Slot /\ windowMs \in Slot
  BY LimitsAssumption, WindowAssumption DEF RateLimitTypeOK, Slot

\* A limiter whose key and history stay keeps what is known of it.
LEMMA LimiterKept ==
  ASSUME NEW l \in Limiter, TwoKeys(l), counter'[l] = counter[l], recent'[l] = recent[l]
  PROVE  TwoKeys(l)'
  BY DEF TwoKeys

\* A request that is counted is the first of its key, or one more of it.
LEMMA IncrementKeeps ==
  ASSUME RateLimitTypeOK, NEW l \in Limiter, TwoKeys(l), Increment(l)
  PROVE  TwoKeys(l)'
<1> DEFINE key == counter[l]
           new == Incremented(l)
           R == recent[l]
           S == recent'[l]
<1>0. /\ R \in [Slot -> Nat] /\ \A k \in Slot : R[k] \in Nat
      /\ key.hits \in Nat /\ (key.hits = 0 <=> key.ttl = 0)
      /\ limit[l] \in Nat \ {0} /\ windowMs \in Slot /\ 1 \in Slot
      /\ windowMs \in Nat /\ Slot = 1..windowMs
  BY LimiterFacts DEF Slot
<1>1. /\ counter'[l] = new
      /\ \A k \in Slot : S[k] = IF Allowed(new.hits, l) THEN R[k] + 1 ELSE R[k]
  BY DEF Increment, RateLimitTypeOK
<1>2. /\ new.hits = IF key.hits > limit[l] THEN key.hits ELSE key.hits + 1
      /\ new.ttl = IF key.hits = 0 THEN -1 ELSE key.ttl
      /\ (Allowed(new.hits, l) <=> new.hits <= limit[l])
  BY DEF Incremented, Allowed, Forever
<1>3. /\ \A j, k \in Slot : j <= k => R[j] <= R[k]
      /\ key.hits = 0 => R[1] = 0 /\ R[windowMs] <= limit[l]
      /\ key.hits > 0 =>
           \E a \in Slot : /\ R[a] <= key.hits /\ R[a] <= limit[l]
                           /\ R[windowMs] - R[a] <= limit[l]
                           /\ key.ttl > 0 => a >= windowMs - key.ttl
  BY DEF TwoKeys
<1>4. SUFFICES /\ \A j, k \in Slot : j <= k => S[j] <= S[k]
               /\ new.hits > 0
               /\ \E a \in Slot : /\ S[a] <= new.hits /\ S[a] <= limit[l]
                                  /\ S[windowMs] - S[a] <= limit[l]
                                  /\ new.ttl > 0 => a >= windowMs - new.ttl
  BY <1>0, <1>1, <1>2 DEF TwoKeys
<1> HIDE DEF key, new, R, S
<1>5. new.hits > 0 /\ \A j, k \in Slot : j <= k => S[j] <= S[k]
  BY <1>0, <1>1, <1>2, <1>3
<1>6. CASE key.hits = 0
  <2>1. /\ S[1] <= new.hits /\ S[1] <= limit[l]
        /\ S[windowMs] - S[1] <= limit[l] /\ ~(new.ttl > 0)
    BY <1>0, <1>1, <1>2, <1>3, <1>6
  <2> QED
    BY <1>0, <1>5, <2>1
<1>7. CASE key.hits > 0
  <2>1. PICK a \in Slot : /\ R[a] <= key.hits /\ R[a] <= limit[l]
                          /\ R[windowMs] - R[a] <= limit[l]
                          /\ key.ttl > 0 => a >= windowMs - key.ttl
    BY <1>3, <1>7
  <2>2. /\ S[a] <= new.hits /\ S[a] <= limit[l]
        /\ S[windowMs] - S[a] <= limit[l]
        /\ new.ttl > 0 => a >= windowMs - new.ttl
    BY <1>0, <1>1, <1>2, <1>7, <2>1
  <2> QED
    BY <1>5, <2>2
<1> QED
  BY <1>0, <1>6, <1>7

\* An expiry that is set is that of a whole window.
LEMMA SetExpiryKeeps ==
  ASSUME RateLimitTypeOK, NEW l \in Limiter, TwoKeys(l), SetExpiry(l)
  PROVE  TwoKeys(l)'
<1>1. /\ counter'[l].hits = counter[l].hits /\ recent'[l] = recent[l]
      /\ counter'[l].ttl = IF counter[l].hits = 0 THEN 0 ELSE windowMs
  BY DEF SetExpiry, RateLimitTypeOK
<1>2. windowMs \in Nat \ {0} /\ \A a \in Slot : a >= windowMs - windowMs
  BY WindowAssumption DEF Slot
<1> QED
  BY <1>1, <1>2, LimiterFacts DEF TwoKeys

\* With a tick the last window loses its first tick: the key that is gone
\* had let through all that is left of it, and one that stays is a tick older.
LEMMA ElapseKeeps ==
  ASSUME RateLimitTypeOK, NEW l \in Limiter, TwoKeys(l), WindowsElapse
  PROVE  TwoKeys(l)'
<1> DEFINE key == counter[l]
           new == counter'[l]
           R == recent[l]
           S == recent'[l]
<1>0. /\ R \in [Slot -> Nat] /\ \A k \in Slot : R[k] \in Nat
      /\ key.hits \in Nat /\ key.ttl \in -1..windowMs /\ (key.hits = 0 <=> key.ttl = 0)
      /\ limit[l] \in Nat \ {0} /\ windowMs \in Slot /\ 1 \in Slot
      /\ windowMs \in Nat \ {0} /\ Slot = 1..windowMs
  BY LimiterFacts DEF Slot, Forever
<1>1. \A k \in Slot : S[k] = IF k = 1 THEN 0 ELSE R[k - 1]
  BY DEF WindowsElapse
<1>2. /\ new.hits = IF key.ttl \in {0, 1} THEN 0 ELSE key.hits
      /\ new.ttl = IF key.ttl = -1 THEN -1 ELSE IF key.ttl \in {0, 1} THEN 0 ELSE key.ttl - 1
  <2>1. key \in [hits : Nat, ttl : -1..windowMs]
    BY DEF RateLimitTypeOK, Forever
  <2>2. new = IF key.ttl = -1 THEN key
              ELSE IF key.ttl <= 1 THEN [hits |-> 0, ttl |-> 0]
              ELSE [key EXCEPT !.ttl = key.ttl - 1]
    BY DEF WindowsElapse, Forever, NoKey
  <2> HIDE DEF key, new
  <2> QED
    BY <1>0, <2>1, <2>2
<1>3. /\ \A j, k \in Slot : j <= k => R[j] <= R[k]
      /\ key.hits = 0 => R[1] = 0 /\ R[windowMs] <= limit[l]
      /\ key.hits > 0 =>
           \E a \in Slot : /\ R[a] <= key.hits /\ R[a] <= limit[l]
                           /\ R[windowMs] - R[a] <= limit[l]
                           /\ key.ttl > 0 => a >= windowMs - key.ttl
  BY DEF TwoKeys
<1>4. SUFFICES /\ \A j, k \in Slot : j <= k => S[j] <= S[k]
               /\ new.hits = 0 => S[1] = 0 /\ S[windowMs] <= limit[l]
               /\ new.hits > 0 =>
                    \E a \in Slot : /\ S[a] <= new.hits /\ S[a] <= limit[l]
                                    /\ S[windowMs] - S[a] <= limit[l]
                                    /\ new.ttl > 0 => a >= windowMs - new.ttl
  BY DEF TwoKeys
<1> HIDE DEF key, new, R, S
<1>5. \A k \in Slot : k # 1 => k - 1 \in Slot
  BY <1>0
<1>6. \A k \in Slot : S[k] \in Nat /\ S[k] <= R[k]
  BY <1>0, <1>1, <1>3, <1>5
<1>7. ASSUME NEW j \in Slot, NEW k \in Slot, j <= k
      PROVE  S[j] <= S[k]
  <2>1. CASE j = 1
    BY <1>0, <1>1, <1>6, <2>1
  <2>2. CASE j # 1
    <3>1. k # 1 /\ j - 1 <= k - 1
      BY <1>0, <1>7, <2>2
    <3> QED
      BY <1>1, <1>3, <1>5, <2>2, <3>1
  <2> QED
    BY <2>1, <2>2
<1>8. ASSUME new.hits = 0
      PROVE  S[1] = 0 /\ S[windowMs] <= limit[l]
  <2>1. S[1] = 0
    BY <1>0, <1>1
  <2>2. CASE key.hits = 0
    BY <1>0, <1>3, <1>6, <2>1, <2>2
  <2>3. CASE key.hits > 0
    <3>1. key.ttl = 1
      BY <1>0, <1>2, <1>8, <2>3
    <3>2. PICK a \in Slot : R[a] <= limit[l] /\ a >= windowMs - 1
      BY <1>3, <2>3, <3>1
    <3>3. CASE windowMs = 1
      BY <1>0, <2>1, <3>3
    <3>4. CASE windowMs # 1
      <4>1. S[windowMs] = R[windowMs - 1] /\ windowMs - 1 \in Slot
        BY <1>0, <1>1, <1>5, <3>4
      <4>2. R[windowMs - 1] <= R[a]
        BY <1>3, <3>2, <4>1
      <4> QED
        BY <1>0, <2>1, <3>2, <4>1, <4>2
    <3> QED
      BY <3>3, <3>4
  <2> QED
    BY <1>0, <2>2, <2>3
<1>9. ASSUME new.hits > 0
      PROVE  \E b \in Slot : /\ S[b] <= new.hits /\ S[b] <= limit[l]
                             /\ S[windowMs] - S[b] <= limit[l]
                             /\ new.ttl > 0 => b >= windowMs - new.ttl
  <2>1. key.hits > 0 /\ new.hits = key.hits /\ (new.ttl > 0 => new.ttl = key.ttl - 1 /\ key.ttl > 0)
    BY <1>0, <1>2, <1>9
  <2>2. PICK a \in Slot : /\ R[a] <= key.hits /\ R[a] <= limit[l]
                          /\ R[windowMs] - R[a] <= limit[l]
                          /\ key.ttl > 0 => a >= windowMs - key.ttl
    BY <1>3, <2>1
  <2>3. CASE a = windowMs
    <3>1. S[a] <= new.hits /\ S[a] <= limit[l] /\ S[windowMs] - S[a] <= limit[l]
      BY <1>0, <1>6, <2>1, <2>2, <2>3
    <3>2. new.ttl > 0 => a >= windowMs - new.ttl
      BY <1>0, <2>1, <2>3
    <3> QED
      BY <3>1, <3>2
  <2>4. CASE a # windowMs
    <3>1. a + 1 \in Slot /\ a + 1 # 1
      BY <1>0, <2>4
    <3>2. S[a + 1] = R[a]
      BY <1>0, <1>1, <3>1
    <3>3. S[a + 1] <= new.hits /\ S[a + 1] <= limit[l] /\ S[windowMs] - S[a + 1] <= limit[l]
      BY <1>0, <1>6, <2>1, <2>2, <3>2
    <3>4. new.ttl > 0 => a + 1 >= windowMs - new.ttl
      BY <1>0, <2>1, <2>2
    <3> QED
      BY <3>1, <3>3, <3>4
  <2> QED
    BY <2>3, <2>4
<1> QED
  BY <1>7, <1>8, <1>9

\* The steps of the instances, as the counters see them.
LEMMA StepOfCounters ==
  ASSUME TypeOK, [Next]_vars
  PROVE  \/ \E l \in Limiter : Increment(l) \/ SetExpiry(l)
         \/ WindowsElapse
         \/ UNCHANGED redis
<1>1. CASE \E r \in Req : Work(r) \/ RedisFails(r)
  <2>1. PICK r \in Req : Work(r) \/ RedisFails(r)
    BY <1>1
  <2>2. CASE Count(r) \/ Expire(r)
    <3>1. req[r].at \in Limiter
      BY DEF TypeOK, Request
    <3> QED
      BY <2>2, <3>1 DEF Count, Expire
  <2>3. CASE Handle(r) \/ RedisFails(r)
    BY <2>3 DEF Handle, RedisFails
  <2> QED
    BY <2>1, <2>2, <2>3 DEF Work
<1>2. CASE Tick
  BY <1>2 DEF Tick
<1>3. CASE \E r \in Req, i \in Instance : (\E login \in BOOLEAN : Arrive(r, i, login)) \/ Probe(r, i)
  BY <1>3 DEF Arrive, Probe
<1>4. CASE \E i \in Instance : StopStep(i) \/ Crash(i)
  BY <1>4 DEF StopStep, Crash
<1>5. CASE UNCHANGED vars
  BY <1>5 DEF vars
<1> QED
  BY <1>1, <1>2, <1>3, <1>4, <1>5 DEF Next

\* The windows keep what is known of them (rateLimit.ts:34-48).
THEOREM WindowsInvariance == Spec => []WindowsInv
<1>1. Init => WindowsInv
  <2> SUFFICES ASSUME Init PROVE WindowsInv
    OBVIOUS
  <2>1. RateLimitTypeOK
    BY LimitsAssumption, WindowAssumption
       DEF Init, RateLimitInit, RateLimitTypeOK, NoKey, Forever
  <2>2. ASSUME NEW l \in Limiter PROVE TwoKeys(l)
    <3>1. counter[l].hits = 0 /\ \A k \in Slot : recent[l][k] = 0
      BY DEF Init, RateLimitInit, NoKey
    <3> QED
      BY <2>1, <3>1, LimiterFacts DEF TwoKeys
  <2> QED
    BY <2>1, <2>2 DEF WindowsInv
<1>2. TypeOK /\ TypeOK' /\ WindowsInv /\ [Next]_vars => WindowsInv'
  <2> SUFFICES ASSUME TypeOK, TypeOK', WindowsInv, [Next]_vars PROVE WindowsInv'
    OBVIOUS
  <2>0. RateLimitTypeOK /\ RateLimitTypeOK' /\ \A l \in Limiter : TwoKeys(l)
    BY DEF TypeOK, WindowsInv
  <2>1. ASSUME NEW l \in Limiter PROVE TwoKeys(l)'
    <3>1. ASSUME NEW m \in Limiter, m # l, Increment(m) \/ SetExpiry(m)
          PROVE  counter'[l] = counter[l] /\ recent'[l] = recent[l]
      BY <2>0, <3>1 DEF Increment, SetExpiry, RateLimitTypeOK
    <3>2. CASE \E m \in Limiter : Increment(m) \/ SetExpiry(m)
      BY <2>0, <3>1, <3>2, IncrementKeeps, SetExpiryKeeps, LimiterKept
    <3>3. CASE WindowsElapse
      BY <2>0, <3>3, ElapseKeeps
    <3>4. CASE UNCHANGED redis
      BY <2>0, <3>4, LimiterKept DEF redis
    <3> QED
      BY <3>2, <3>3, <3>4, StepOfCounters
  <2> QED
    BY <2>0, <2>1 DEF WindowsInv
<1> QED
  BY <1>1, <1>2, TypeCorrectness, PTL DEF Spec

\* H2.1 (rateLimit.ts:34-48): for any limits and any window, whatever
\* instances, crashes and failing calls do to the order of the calls, no
\* stretch of a window's length lets through more than two windows' worth.
THEOREM TwoWindowsAtMost == Spec => []AtMostTwoWindows
<1>1. WindowsInv => AtMostTwoWindows
  <2> SUFFICES ASSUME WindowsInv, NEW l \in Limiter
               PROVE  recent[l][windowMs] <= 2 * limit[l]
    BY DEF AtMostTwoWindows
  <2>1. RateLimitTypeOK /\ TwoKeys(l)
    BY DEF WindowsInv
  <2>2. /\ \A k \in Slot : recent[l][k] \in Nat
        /\ counter[l].hits \in Nat /\ limit[l] \in Nat /\ windowMs \in Slot
    BY <2>1, LimiterFacts
  <2>3. CASE counter[l].hits = 0
    BY <2>1, <2>2, <2>3 DEF TwoKeys
  <2>4. CASE counter[l].hits > 0
    <3>1. PICK a \in Slot : recent[l][a] <= limit[l] /\ recent[l][windowMs] - recent[l][a] <= limit[l]
      BY <2>1, <2>4 DEF TwoKeys
    <3> QED
      BY <2>2, <3>1
  <2> QED
    BY <2>2, <2>3, <2>4
<1> QED
  BY <1>1, WindowsInvariance, PTL
=============================================================================
