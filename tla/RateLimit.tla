----------------------------- MODULE RateLimit -----------------------------
(***************************************************************************)
(* The fixed-window counters of lib/rateLimit.ts in the Redis that all     *)
(* instances share: INCR and PTTL are one step, PEXPIRE is another.  Time  *)
(* is the time keys have left, so that nothing grows without bound.        *)
(***************************************************************************)
EXTENDS Integers

CONSTANTS
  Limiter,    \* the prefixes of the keys, one limiter each
  limit,      \* [Limiter -> Nat]
  windowMs    \* the window, in ticks; both limiters have the same default

ASSUME LimitsAssumption == limit \in [Limiter -> Nat \ {0}]
ASSUME WindowAssumption == windowMs \in Nat \ {0}

VARIABLES
  counter,    \* the keys: their value, 0 when absent, and the ticks left
  recent      \* history: recent[l][k] requests were let through in the last k ticks

\* A key without an expiry has a PTTL of -1.
Forever == -1

NoKey == [hits |-> 0, ttl |-> 0]

Slot == 1..windowMs

\* Counts are told apart up to the first one that is over the limit.
RateLimitTypeOK ==
  /\ counter \in [Limiter -> [hits : Nat, ttl : Forever..windowMs]]
  /\ \A l \in Limiter : counter[l].hits <= limit[l] + 1 /\ (counter[l].hits = 0 <=> counter[l].ttl = 0)
  /\ recent \in [Limiter -> [Slot -> Nat]]

RateLimitInit ==
  /\ counter = [l \in Limiter |-> NoKey]
  /\ recent = [l \in Limiter |-> [k \in Slot |-> 0]]

\* What INCR makes of a key: a new one has no expiry.
Incremented(l) ==
  LET key == counter[l]
  IN [hits |-> IF key.hits > limit[l] THEN key.hits ELSE key.hits + 1,
      ttl |-> IF key.hits = 0 THEN Forever ELSE key.ttl]

\* Fault: the count is compared before this request is added to it.
AllowedBefore(hits, l) == hits <= limit[l] + 1

\* express-rate-limit refuses a request whose totalHits exceed the limit.
Allowed(hits, l) == hits <= limit[l]

\* MULTI INCR PTTL EXEC.
Increment(l) ==
  /\ counter' = [counter EXCEPT ![l] = Incremented(l)]
  /\ recent' = [recent EXCEPT ![l] = [k \in Slot |->
       IF Allowed(Incremented(l).hits, l) THEN recent[l][k] + 1 ELSE recent[l][k]]]

\* Fault: only the first request of a window sets its expiry.
NeedsExpiryFirst(l) == Incremented(l).hits = 1

NeedsExpiry(l) == Incremented(l).ttl < 0

\* PEXPIRE does nothing to a key that is gone.
SetExpiry(l) ==
  /\ counter' = [counter EXCEPT ![l].ttl = IF counter[l].hits = 0 THEN 0 ELSE windowMs]
  /\ UNCHANGED recent

\* A tick of the clock: keys whose time is over are gone.
WindowsElapse ==
  /\ counter' = [l \in Limiter |->
       IF counter[l].ttl = Forever THEN counter[l]
       ELSE IF counter[l].ttl <= 1 THEN NoKey
       ELSE [counter[l] EXCEPT !.ttl = @ - 1]]
  /\ recent' = [l \in Limiter |-> [k \in Slot |-> IF k = 1 THEN 0 ELSE recent[l][k - 1]]]

\* H2.1: over all instances, whatever order the calls of overlapping requests
\* come in, no stretch of time as long as the window sees more than two
\* windows' worth of requests let through.
AtMostTwoWindows ==
  \A l \in Limiter : recent[l][windowMs] <= 2 * limit[l]

\* Why it holds: the requests of the last window, the ticks up to windowMs, are
\* those of at most two keys, the present one and the one it followed.  The
\* present one has let through what the last a ticks saw, no more than it has
\* counted, and is no older than the time it has lived.
TwoKeys(l) ==
  /\ \A j, k \in Slot : j <= k => recent[l][j] <= recent[l][k]
  /\ counter[l].hits = 0 => recent[l][1] = 0 /\ recent[l][windowMs] <= limit[l]
  /\ counter[l].hits > 0 =>
       \E a \in Slot :
         /\ recent[l][a] <= counter[l].hits /\ recent[l][a] <= limit[l]
         /\ recent[l][windowMs] - recent[l][a] <= limit[l]
         /\ counter[l].ttl > 0 => a >= windowMs - counter[l].ttl
=============================================================================
