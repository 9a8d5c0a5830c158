--------------------------- MODULE AccountProofs ---------------------------
(***************************************************************************)
(* Proofs about Accounts, for any users, roles, requests, limits and       *)
(* bounds.                                                                 *)
(***************************************************************************)
EXTENDS Accounts, FiniteSetTheorems, TLAPS

LEMMA LeastExists ==
  ASSUME NEW S \in SUBSET Nat, S # {}
  PROVE  \E x \in S : \A y \in S : x <= y
<1> DEFINE R == {ss \in Nat \X Nat : ss[1] < ss[2]}
<1>1. IsWellFoundedOn(R, Nat)
  BY NatLessThanWellFounded DEF OpToRel
<1>2. PICK x \in S : \A y \in S : <<y, x>> \notin R
  BY <1>1, WFMin
<1>3. ASSUME NEW y \in S
      PROVE  x <= y
  <2>1. x \in Nat /\ y \in Nat
    OBVIOUS
  <2>2. ~(<<y, x>>[1] < <<y, x>>[2])
    BY <1>2, <2>1
  <2> QED
    BY <2>1, <2>2
<1> QED
  BY <1>3

\* Induction, for the numbers in a set.
LEMMA Induction ==
  ASSUME NEW S, 0 \in S, \A n \in Nat : n \in S => n + 1 \in S
  PROVE  Nat \subseteq S
<1> SUFFICES ASSUME Nat \ S # {} PROVE FALSE
  OBVIOUS
<1>1. PICK m \in Nat \ S : \A n \in Nat \ S : m <= n
  BY LeastExists
<1>2. m # 0 /\ m - 1 \in Nat
  BY <1>1
<1>3. m - 1 \in S
  BY <1>1, <1>2
<1> QED
  BY <1>1, <1>2, <1>3

\* A recursion on numbers has a solution.
LEMMA Recursion ==
  ASSUME NEW S, NEW a \in S, NEW step \in [S -> S]
  PROVE  \E f \in [Nat -> S] : f[0] = a /\ \A n \in Nat : f[n + 1] = step[f[n]]
<1> DEFINE Prefix(n) == {f \in [0..n -> S] : f[0] = a /\ \A i \in 0..(n - 1) : f[i + 1] = step[f[i]]}
<1>1. \A n \in Nat : Prefix(n) # {}
  <2> DEFINE Good == {n \in Nat : Prefix(n) # {}}
  <2>1. 0 \in Good
    <3>1. [i \in 0..0 |-> a] \in Prefix(0)
      OBVIOUS
    <3> QED
      BY <3>1
  <2>2. ASSUME NEW n \in Nat, n \in Good PROVE n + 1 \in Good
    <3>1. PICK f : f \in Prefix(n)
      BY <2>2
    <3> DEFINE g == [i \in 0..(n + 1) |-> IF i = n + 1 THEN step[f[n]] ELSE f[i]]
    <3>2. f \in [0..n -> S] /\ f[0] = a /\ \A i \in 0..(n - 1) : f[i + 1] = step[f[i]]
      BY <3>1
    <3>3. g \in [0..(n + 1) -> S] /\ g[0] = a
      BY <3>2
    <3>4. ASSUME NEW i \in 0..n PROVE g[i + 1] = step[g[i]]
      <4>1. CASE i = n
        BY <4>1
      <4>2. CASE i # n
        <5>1. i \in 0..(n - 1) /\ i + 1 \in 0..n
          BY <4>2
        <5> QED
          BY <3>2, <5>1
      <4> QED
        BY <4>1, <4>2
    <3>5. g \in Prefix(n + 1)
      BY <3>3, <3>4
    <3> HIDE DEF Prefix, g
    <3>6. Prefix(n + 1) # {}
      BY <3>5
    <3> QED
      BY <3>6
  <2> HIDE DEF Good
  <2>3. Nat \subseteq Good
    BY <2>1, <2>2, Induction
  <2> QED
    BY <2>3 DEF Good
<1>2. \A i \in Nat : \A n, m \in Nat : \A f \in Prefix(n), g \in Prefix(m) :
        i <= n /\ i <= m => f[i] = g[i]
  <2> DEFINE Same(i) == \A n, m \in Nat : \A f \in Prefix(n), g \in Prefix(m) :
                          i <= n /\ i <= m => f[i] = g[i]
             Good == {i \in Nat : Same(i)}
  <2>1. 0 \in Good
    OBVIOUS
  <2>2. ASSUME NEW i \in Nat, i \in Good PROVE i + 1 \in Good
    <3>1. SUFFICES ASSUME NEW n \in Nat, NEW m \in Nat, NEW f \in Prefix(n), NEW g \in Prefix(m),
                          i + 1 <= n, i + 1 <= m
                   PROVE  f[i + 1] = g[i + 1]
      OBVIOUS
    <3>2. f[i] = g[i]
      <4> HIDE DEF Prefix
      <4>1. i <= n /\ i <= m
        BY <3>1
      <4>2. Same(i)
        <5> HIDE DEF Same
        <5> QED
          BY <2>2
      <4> QED
        BY <4>1, <4>2
    <3>3. i \in 0..(n - 1) /\ i \in 0..(m - 1)
      BY <3>1
    <3> QED
      BY <3>2, <3>3
  <2> HIDE DEF Good
  <2>3. Nat \subseteq Good
    BY <2>1, <2>2, Induction
  <2> QED
    BY <2>3 DEF Good
<1> DEFINE F == [n \in Nat |-> CHOOSE f : f \in Prefix(n)]
           G == [n \in Nat |-> F[n][n]]
<1>3. \A n \in Nat : F[n] \in Prefix(n)
  BY <1>1
<1> HIDE DEF F
<1>4. G \in [Nat -> S]
  <2>1. ASSUME NEW n \in Nat PROVE F[n][n] \in S
    BY <1>3
  <2> QED
    BY <2>1
<1>5. G[0] = a
  BY <1>3
<1>6. ASSUME NEW n \in Nat PROVE G[n + 1] = step[G[n]]
  <2>1. F[n + 1] \in Prefix(n + 1) /\ F[n] \in Prefix(n) /\ n \in 0..((n + 1) - 1)
    BY <1>3
  <2>2. F[n + 1][n + 1] = step[F[n + 1][n]]
    BY <2>1
  <2>3. F[n + 1][n] = F[n][n]
    <3>1. n + 1 \in Nat /\ n <= n /\ n <= n + 1
      OBVIOUS
    <3> HIDE DEF Prefix
    <3> QED
      BY <1>2, <2>1, <3>1
  <2> QED
    BY <2>2, <2>3
<1> QED
  BY <1>4, <1>5, <1>6

\* Powers of two, as they grow.
LEMMA Powers ==
  /\ PowerOfTwo[0] = 1
  /\ \A n \in Nat : /\ PowerOfTwo[n] \in Nat
                    /\ PowerOfTwo[n + 1] = 2 * PowerOfTwo[n]
                    /\ PowerOfTwo[n] > n
<1>1. PICK f \in [Nat -> Nat] : f[0] = 1 /\ \A n \in Nat : f[n + 1] = 2 * f[n]
  <2> DEFINE double == [k \in Nat |-> 2 * k]
  <2>1. double \in [Nat -> Nat] /\ 1 \in Nat
    OBVIOUS
  <2>2. \E f \in [Nat -> Nat] : f[0] = 1 /\ \A n \in Nat : f[n + 1] = double[f[n]]
    <3>1. PICK N, one, d : N = Nat /\ one = 1 /\ d = double
      OBVIOUS
    <3> HIDE DEF double
    <3>2. one \in N /\ d \in [N -> N]
      BY <2>1, <3>1
    <3>3. \E f \in [Nat -> N] : f[0] = one /\ \A n \in Nat : f[n + 1] = d[f[n]]
      BY <3>2, Recursion
    <3> QED
      BY <3>1, <3>3
  <2> QED
    BY <2>2
<1>2. f = [n \in Nat |-> IF n = 0 THEN 1 ELSE 2 * f[n - 1]]
  <2>1. ASSUME NEW n \in Nat PROVE f[n] = IF n = 0 THEN 1 ELSE 2 * f[n - 1]
    <3>1. CASE n # 0
      <4>1. n - 1 \in Nat /\ (n - 1) + 1 = n
        BY <3>1
      <4>2. f[(n - 1) + 1] = 2 * f[n - 1]
        BY <1>1, <4>1
      <4> QED
        BY <3>1, <4>1, <4>2
    <3> QED
      BY <1>1, <3>1
  <2> QED
    BY <2>1
<1>3. PowerOfTwo = [n \in Nat |-> IF n = 0 THEN 1 ELSE 2 * PowerOfTwo[n - 1]]
  BY <1>2 DEF PowerOfTwo
<1>4. PowerOfTwo[0] = 1
  BY <1>3
<1>5. ASSUME NEW n \in Nat PROVE PowerOfTwo[n + 1] = 2 * PowerOfTwo[n]
  <2>1. n + 1 \in Nat /\ n + 1 # 0 /\ (n + 1) - 1 = n
    OBVIOUS
  <2>2. PowerOfTwo[n + 1] = IF n + 1 = 0 THEN 1 ELSE 2 * PowerOfTwo[(n + 1) - 1]
    BY <1>3, <2>1
  <2> QED
    BY <2>1, <2>2
<1> DEFINE Good == {n \in Nat : PowerOfTwo[n] \in Nat /\ PowerOfTwo[n] > n}
<1>6. 0 \in Good
  BY <1>4
<1>7. ASSUME NEW n \in Nat, n \in Good PROVE n + 1 \in Good
  BY <1>5, <1>7
<1> HIDE DEF Good
<1>8. Nat \subseteq Good
  BY <1>6, <1>7, Induction
<1> QED
  BY <1>4, <1>5, <1>8 DEF Good

\* The exponent that Math.ceil(Math.log2(...)) gives takes the window to the cap.
LEMMA CapExponent ==
  /\ capExponent \in 0..MaxLockMs
  /\ BASE_LOCK_MS * PowerOfTwo[capExponent] >= MaxLockMs
<1> DEFINE S == {e \in 0..MaxLockMs : BASE_LOCK_MS * PowerOfTwo[e] >= MaxLockMs}
<1>1. S \in SUBSET Nat /\ S # {}
  <2>1. MaxLockMs \in Nat /\ BASE_LOCK_MS \in Nat \ {0}
    BY LockAssumption
  <2>2. PICK p \in Nat : p = PowerOfTwo[MaxLockMs] /\ p > MaxLockMs
    BY <2>1, Powers
  <2>3. BASE_LOCK_MS * p >= MaxLockMs
    <3>1. \A b \in Nat \ {0} : \A x \in Nat : b * x >= x
      OBVIOUS
    <3>2. BASE_LOCK_MS * p >= p /\ BASE_LOCK_MS * p \in Nat
      BY <2>1, <3>1
    <3> QED
      BY <2>1, <2>2, <3>2
  <2>4. MaxLockMs \in S
    BY <2>1, <2>2, <2>3
  <2> QED
    BY <2>1, <2>4
<1> HIDE DEF S
<1>2. Min(S) \in S
  BY <1>1, LeastExists DEF Min
<1> QED
  BY <1>2 DEF capExponent, S

\* The lock is a number of ticks, and none while the counter is below the limit.
LEMMA LockIsNat ==
  ASSUME NEW n \in Nat
  PROVE  lockDurationMs(n) \in Nat
<1> DEFINE over == n - loginMaxFailedAttempts
           k == Least(over, capExponent)
<1>1. over \in Int /\ capExponent \in 0..MaxLockMs /\ MaxLockMs \in Nat /\ BASE_LOCK_MS \in Nat
  BY LimitAssumption, LockAssumption, CapExponent
<1>2. ASSUME over >= 0
      PROVE  BASE_LOCK_MS * PowerOfTwo[k] \in Nat
  <2>1. k \in Nat
    BY <1>1, <1>2 DEF Least
  <2>2. PowerOfTwo[k] \in Nat
    BY <2>1, Powers
  <2> QED
    BY <1>1, <2>2
<1> QED
  BY <1>1, <1>2 DEF lockDurationMs, Least

\* What loginThrottle.ts computes with a power is the window that doubles.
LEMMA WindowIsLock == \A n \in Nat : Window[n] = lockDurationMs(n)
<1> DEFINE L == loginMaxFailedAttempts
           B == BASE_LOCK_MS
           M == MaxLockMs
           lock == [n \in Nat |-> lockDurationMs(n)]
           Doubling(f, n) == IF n < L THEN 0 ELSE IF n = L THEN B ELSE Least(2 * f[n - 1], M)
<1>0. L \in Nat \ {0} /\ B \in Nat \ {0} /\ M \in Nat /\ B <= M /\ capExponent \in Nat
  BY LimitAssumption, LockAssumption, CapExponent
<1>1. ASSUME NEW n \in Nat, n > L
      PROVE  lockDurationMs(n) = Least(2 * lockDurationMs(n - 1), M)
  <2> DEFINE over == n - L
             k == Least(over, capExponent)
             j == Least((n - 1) - L, capExponent)
  <2>1. /\ lockDurationMs(n) = Least(B * PowerOfTwo[k], M)
        /\ lockDurationMs(n - 1) = Least(B * PowerOfTwo[j], M)
    BY <1>0, <1>1 DEF lockDurationMs
  <2>2. k \in Nat /\ j \in Nat
    BY <1>0, <1>1 DEF Least
  <2>3. CASE over <= capExponent
    <3>1. k = j + 1
      BY <1>0, <1>1, <2>3 DEF Least
    <3>2. PICK p \in Nat : p = PowerOfTwo[j] /\ PowerOfTwo[k] = 2 * p
      BY <2>2, <3>1, Powers
    <3>3. PICK x \in Nat : x = B * p /\ B * (2 * p) = 2 * x
      <4>1. \A b, q \in Nat : b * q \in Nat /\ b * (2 * q) = 2 * (b * q)
        OBVIOUS
      <4> QED
        BY <1>0, <4>1
    <3> QED
      BY <1>0, <2>1, <3>2, <3>3 DEF Least
  <2>4. CASE over > capExponent
    <3>1. k = capExponent /\ j = capExponent
      BY <1>0, <1>1, <2>4 DEF Least
    <3>2. PICK x \in Nat : x = B * PowerOfTwo[capExponent] /\ x >= M
      <4>1. \A b, q \in Nat : b * q \in Nat
        OBVIOUS
      <4> QED
        BY <1>0, <4>1, CapExponent, Powers
    <3> QED
      BY <1>0, <2>1, <3>1, <3>2 DEF Least
  <2> QED
    BY <1>0, <1>1, <2>3, <2>4
<1>2. lockDurationMs(L) = B
  <2>1. Least(L - L, capExponent) = 0
    BY <1>0 DEF Least
  <2>2. B * PowerOfTwo[0] = B
    BY <1>0, Powers
  <2> QED
    BY <1>0, <2>1, <2>2 DEF lockDurationMs, Least
<1>3. \A n \in Nat : n < L => lockDurationMs(n) = 0
  BY <1>0 DEF lockDurationMs
<1>4. lock = [n \in Nat |-> Doubling(lock, n)]
  <2>1. ASSUME NEW n \in Nat PROVE lock[n] = Doubling(lock, n)
    <3>1. CASE n > L
      <4>1. n - 1 \in Nat
        BY <1>0, <3>1
      <4> QED
        BY <1>0, <1>1, <3>1, <4>1
    <3> QED
      BY <1>0, <1>2, <1>3, <3>1
  <2> QED
    BY <2>1
<1>5. Window = [n \in Nat |-> Doubling(Window, n)]
  <2> HIDE DEF lock
  <2> QED
    BY <1>4 DEF Window
<1> DEFINE Good == {n \in Nat : Window[n] = lockDurationMs(n)}
<1>6. 0 \in Good
  BY <1>0, <1>3, <1>5
<1>7. ASSUME NEW n \in Nat, n \in Good PROVE n + 1 \in Good
  <2>1. Window[n] = lockDurationMs(n) /\ n + 1 \in Nat /\ (n + 1) - 1 = n
    BY <1>7
  <2>2. Window[n + 1] = Doubling(Window, n + 1)
    BY <1>5, <2>1
  <2>3. lockDurationMs(n + 1) = Doubling(Window, n + 1)
    <3>1. CASE n + 1 > L
      <4>1. lockDurationMs(n + 1) = Least(2 * lockDurationMs((n + 1) - 1), M)
        BY <1>1, <2>1, <3>1
      <4> QED
        BY <1>0, <2>1, <3>1, <4>1
    <3> QED
      BY <1>0, <1>2, <1>3, <2>1, <3>1
  <2> QED
    BY <2>1, <2>2, <2>3
<1> HIDE DEF Good
<1>8. Nat \subseteq Good
  BY <1>6, <1>7, Induction
<1> QED
  BY <1>8 DEF Good

\* There is a lock exactly from the limit on.
LEMMA LockFromLimit ==
  ASSUME NEW n \in Nat
  PROVE  IF n < loginMaxFailedAttempts THEN lockDurationMs(n) = 0 ELSE lockDurationMs(n) > 0
<1> DEFINE over == n - loginMaxFailedAttempts
           k == Least(over, capExponent)
<1>1. /\ loginMaxFailedAttempts \in Nat /\ capExponent \in Nat
      /\ BASE_LOCK_MS \in Nat \ {0} /\ MaxLockMs \in Nat \ {0}
  BY LimitAssumption, LockAssumption, CapExponent
<1>2. ASSUME over >= 0
      PROVE  PowerOfTwo[k] \in Nat \ {0}
  <2>1. k \in Nat
    BY <1>1, <1>2 DEF Least
  <2> QED
    BY <2>1, Powers
<1>3. \A b, p \in Nat \ {0} : b * p \in Nat \ {0}
  OBVIOUS
<1> QED
  BY <1>1, <1>2, <1>3 DEF lockDurationMs, Least
-----------------------------------------------------------------------------
LEMMA Blank ==
  /\ Seeded \in User
  /\ \A role \in Roles : FreshRow(role) \in Row
  /\ Idle \in Request /\ Idle.pc = "idle"
<1>1. Seeded \in User
  BY UsersAssumption DEF Seeded
<1>2. \A role \in Roles : FreshRow(role) \in Row
  BY DEF FreshRow, Row
<1> QED
  BY <1>1, <1>2, UsersAssumption DEF Idle, Request, Token, Pc

LEMMA IdleIsOK == RequestOK(Idle) /\ RequestOK(Idle)'
  BY Blank DEF RequestOK, InHandler, Idle

\* How many requests are about to write an audit row.
LEMMA Counting ==
  /\ At({"audit"}) \in Nat /\ At({"audit"})' \in Nat
  /\ (\A s \in Req : req'[s].pc = "audit" <=> req[s].pc = "audit") => At({"audit"})' = At({"audit"})
  /\ \A r \in Req :
       (\A s \in Req : s # r => req'[s].pc = req[s].pc) =>
         /\ req[r].pc # "audit" /\ req'[r].pc = "audit" => At({"audit"})' = At({"audit"}) + 1
         /\ req[r].pc = "audit" /\ req'[r].pc # "audit" => At({"audit"})' = At({"audit"}) - 1
<1> DEFINE A == {s \in Req : req[s].pc \in {"audit"}}
           B == {s \in Req : req'[s].pc \in {"audit"}}
<1>1. IsFiniteSet(A) /\ IsFiniteSet(B)
  BY ReqAssumption, FS_Subset
<1>2. At({"audit"}) = Cardinality(A) /\ At({"audit"})' = Cardinality(B)
  BY DEF At
<1>3. Cardinality(A) \in Nat /\ Cardinality(B) \in Nat
  BY <1>1, FS_CardinalityType
<1>4. ASSUME \A s \in Req : req'[s].pc = "audit" <=> req[s].pc = "audit"
      PROVE  A = B
  BY <1>4
<1>5. ASSUME NEW r \in Req, \A s \in Req : s # r => req'[s].pc = req[s].pc
      PROVE  /\ req[r].pc # "audit" /\ req'[r].pc = "audit" => Cardinality(B) = Cardinality(A) + 1
             /\ req[r].pc = "audit" /\ req'[r].pc # "audit" => Cardinality(B) = Cardinality(A) - 1
  <2>1. CASE req[r].pc # "audit" /\ req'[r].pc = "audit"
    <3>1. B = A \cup {r} /\ r \notin A
      BY <1>5, <2>1
    <3> QED
      BY <1>1, <2>1, <3>1, FS_AddElement
  <2>2. CASE req[r].pc = "audit" /\ req'[r].pc # "audit"
    <3>1. B = A \ {r} /\ r \in A
      BY <1>5, <2>2
    <3> QED
      BY <1>1, <2>2, <3>1, FS_RemoveElement
  <2> QED
    BY <2>1, <2>2
<1> QED
  BY <1>2, <1>3, <1>4, <1>5
-----------------------------------------------------------------------------
\* The parts of the invariant that are not about the requests.
StateOK ==
  /\ OnlyRowsAreLocked
  /\ TokensAreNumbered /\ EntriesAreOfTokens /\ LoggedOutIsListed

LEMMA Parts == IInv <=> TypeOK /\ StateOK /\ AuditKeepsUp /\ \A r \in Req : RequestOK(req[r])
  BY DEF IInv, StateOK

\* A request that does not move stays as it should be while rows, tokens and
\* logouts are added, time goes by, no entry is lost and nobody gets a role.
LEMMA Kept ==
  ASSUME TypeOK, TypeOK', TokensAreNumbered, NEW s \in Req, req'[s] = req[s], RequestOK(req[s]),
         now <= now', registered \subseteq registered',
         tokens \subseteq tokens', loggedOut \subseteq loggedOut',
         \A token \in tokens : Listed(token) => Listed(token)',
         \A u \in registered : RolesHeld(u)' \subseteq RolesHeld(u)
  PROVE  RequestOK(req[s])'
<1>1. req[s].row.lockedUntil \in Nat /\ now \in Nat /\ now' \in Nat
  BY DEF TypeOK, Request, Row
<1>2. req[s].pc = "purge" => Listed(req[s].token)'
  BY DEF RequestOK
<1>3. req[s].pc \in {"lookup", "findUser"} =>
        req[s].token.sub \in registered /\ RolesHeld(req[s].token.sub)' \subseteq req[s].held
  BY DEF RequestOK, TokensAreNumbered
<1>4. req'[s].pc = "purge" => Listed(req[s].token)'
  BY <1>2
<1> QED
  BY <1>1, <1>3, <1>4 DEF RequestOK

\* A step of one request that reads, and writes nothing but what is remembered
\* of its password.
LEMMA OneRequestMoves ==
  ASSUME IInv, NEW r \in Req, req' = [req EXCEPT ![r] = req'[r]],
         UNCHANGED <<now, registered, users, sessions, since, administration, failures>>,
         wrong' \in [User -> 0..loginMaxFailedAttempts],
         req'[r] \in Request, RequestOK(req[r])',
         req'[r].pc = "audit" <=> req[r].pc = "audit"
  PROVE  IInv'
<1>0. TypeOK /\ StateOK /\ AuditKeepsUp /\ \A s \in Req : RequestOK(req[s])
  BY Parts
<1>1. TypeOK'
  BY <1>0 DEF TypeOK, sessions, administration
<1>2. StateOK'
  BY <1>0 DEF StateOK, OnlyRowsAreLocked, TokensAreNumbered, EntriesAreOfTokens,
              LoggedOutIsListed, Listed, isRevoked, sessions
<1>3. ASSUME NEW s \in Req, s # r
      PROVE  req'[s] = req[s]
  BY <1>0, <1>3 DEF TypeOK
<1>4. AuditKeepsUp'
  <2>1. At({"audit"})' = At({"audit"})
    BY <1>3, Counting
  <2> QED
    BY <1>0, <2>1 DEF AuditKeepsUp, administration
<1>5. ASSUME NEW s \in Req, s # r
      PROVE  RequestOK(req[s])'
  BY <1>0, <1>3, <1>5 DEF RequestOK, Listed, isRevoked, RolesHeld, sessions
<1> QED
  BY <1>1, <1>2, <1>4, <1>5 DEF IInv, StateOK

\* And one that writes nothing at all.
LEMMA OneRequest ==
  ASSUME IInv, UNCHANGED rest, NEW r \in Req, req' = [req EXCEPT ![r] = req'[r]],
         req'[r] \in Request, RequestOK(req[r])',
         req'[r].pc = "audit" <=> req[r].pc = "audit"
  PROVE  IInv'
<1>1. /\ UNCHANGED <<now, registered, users, sessions, since, administration, failures>>
      /\ wrong' \in [User -> 0..loginMaxFailedAttempts]
  BY Parts DEF rest, TypeOK
<1> QED
  BY <1>1, OneRequestMoves

\* A request that is answered.
LEMMA Answered ==
  ASSUME IInv, UNCHANGED rest, NEW r \in Req, Answer(r), req[r].pc # "audit"
  PROVE  IInv'
<1>1. req' = [req EXCEPT ![r] = Idle] /\ req'[r] = Idle
  BY Parts DEF Answer, TypeOK
<1>2. RequestOK(req[r])'
  BY <1>1, Blank DEF RequestOK, InHandler
<1> QED
  BY <1>1, <1>2, Blank, OneRequest
-----------------------------------------------------------------------------
\* Login up to its comparison, the beginnings of the others and what they look
\* up: one request moves and nothing else does.
LEMMA BeginLoginStep ==
  ASSUME IInv, NEW r \in Req, NEW u \in User, BeginLogin(r, u)
  PROVE  IInv'
<1> DEFINE q == [Idle EXCEPT !.pc = "compare", !.user = u, !.row = users[u]]
<1>0. TypeOK
  BY Parts
<1>1. req' = [req EXCEPT ![r] = q] /\ req'[r] = q /\ UNCHANGED rest
  BY <1>0 DEF BeginLogin, TypeOK
<1>2. q \in Request /\ q.pc = "compare" /\ q.user = u /\ q.row = users[u]
  BY <1>0, Blank DEF TypeOK, Request, Pc
<1>3. u \in registered /\ users[u].lockedUntil <= now
  BY <1>0 DEF BeginLogin, CanLogIn, IsLocked, TypeOK, Row
<1> HIDE DEF q
<1>4. RequestOK(req[r])'
  BY <1>1, <1>2, <1>3 DEF RequestOK, InHandler, rest
<1> QED
  BY <1>1, <1>2, <1>4, OneRequest DEF BeginLogin

LEMMA CompareStep ==
  ASSUME IInv, NEW r \in Req, Compare(r)
  PROVE  IInv'
<1>0. TypeOK /\ RequestOK(req[r]) /\ req[r] \in Request /\ req[r].pc = "compare"
      /\ UNCHANGED <<now, registered, users, sessions, since, administration, failures>>
      /\ now \in Nat /\ wrong \in [User -> 0..loginMaxFailedAttempts]
  BY Parts DEF Compare, TypeOK
<1>1. PICK q \in Request : /\ req' = [req EXCEPT ![r] = q]
                           /\ q.pc \in {"failed", "matched", "issue"}
                           /\ q.user = req[r].user /\ q.row = req[r].row
  <2>1. CASE req' = [req EXCEPT ![r].pc = "failed", ![r].at = now]
    <3> DEFINE q == [req[r] EXCEPT !.pc = "failed", !.at = now]
    <3>1. req' = [req EXCEPT ![r] = q]
      BY <1>0, <2>1 DEF TypeOK
    <3>2. q \in Request /\ q.pc = "failed" /\ q.user = req[r].user /\ q.row = req[r].row
      BY <1>0 DEF Request, Pc
    <3> QED
      BY <3>1, <3>2
  <2>2. ASSUME NEW pc \in {"matched", "issue"}, Goto(r, pc)
        PROVE  \E q \in Request : /\ req' = [req EXCEPT ![r] = q]
                                  /\ q.pc \in {"failed", "matched", "issue"}
                                  /\ q.user = req[r].user /\ q.row = req[r].row
    <3> DEFINE q == [req[r] EXCEPT !.pc = pc]
    <3>1. req' = [req EXCEPT ![r] = q]
      BY <1>0, <2>2 DEF TypeOK, Goto
    <3>2. q \in Request /\ q.pc = pc /\ q.user = req[r].user /\ q.row = req[r].row
      BY <1>0 DEF Request, Pc
    <3> QED
      BY <3>1, <3>2
  <2> QED
    BY <2>1, <2>2 DEF Compare
<1>2. req'[r] = q
  BY <1>0, <1>1 DEF TypeOK
<1>3. RequestOK(req[r])'
  BY <1>0, <1>1, <1>2 DEF RequestOK, InHandler, sessions
<1>4. wrong' \in [User -> 0..loginMaxFailedAttempts]
  BY <1>0, LimitAssumption DEF Compare, Request, Least
<1> QED
  BY <1>0, <1>1, <1>2, <1>3, <1>4, OneRequestMoves

\* One request that moves to pc, with its token and what else it holds.
LEMMA GotoFields ==
  ASSUME TypeOK, NEW r \in Req, NEW pc \in Pc, Goto(r, pc)
  PROVE  /\ req'[r] = [req[r] EXCEPT !.pc = pc] /\ req'[r].pc = pc
         /\ req' \in [Req -> Request] /\ req' = [req EXCEPT ![r] = req'[r]]
         /\ req'[r].user = req[r].user /\ req'[r].row = req[r].row
         /\ req'[r].token = req[r].token /\ req'[r].role = req[r].role
         /\ req'[r].held = req[r].held /\ req'[r].late = req[r].late
         /\ req'[r].expired = req[r].expired
         /\ \A s \in Req : s # r => req'[s] = req[s]
<1>1. req[r] \in Request /\ req' = [req EXCEPT ![r] = [req[r] EXCEPT !.pc = pc]]
  BY DEF TypeOK, Goto
<1>2. req'[r] = [req[r] EXCEPT !.pc = pc]
  BY <1>1 DEF TypeOK
<1>3. req'[r] \in Request
  BY <1>1, <1>2 DEF Request
<1> QED
  BY <1>1, <1>2, <1>3 DEF TypeOK, Request

LEMMA BeginLogoutStep ==
  ASSUME IInv, NEW r \in Req, NEW token \in tokens, BeginLogout(r, token)
  PROVE  IInv'
<1> DEFINE q == [Idle EXCEPT !.pc = "revoke", !.token = token]
<1>0. TypeOK /\ token \in Token
  BY Parts DEF TypeOK
<1>1. req' = [req EXCEPT ![r] = q] /\ req'[r] = q /\ UNCHANGED rest
  BY <1>0 DEF BeginLogout, TypeOK
<1>2. q \in Request /\ q.pc = "revoke" /\ q.token = token /\ ~q.late
  BY <1>0, Blank DEF Request, Pc, Idle
<1> HIDE DEF q
<1>3. RequestOK(req[r])'
  BY <1>1, <1>2 DEF RequestOK, InHandler, rest, sessions
<1> QED
  BY <1>1, <1>2, <1>3, OneRequest DEF BeginLogout

LEMMA BeginCallStep ==
  ASSUME IInv, NEW r \in Req, NEW token \in tokens, BeginCall(r, token)
  PROVE  IInv'
<1> DEFINE held == RolesHeld(token.sub)
           late == token.jti \in loggedOut
           q == [Idle EXCEPT !.pc = "lookup", !.token = token, !.held = held, !.late = late]
<1>0. TypeOK /\ token \in Token /\ held \subseteq Roles /\ late \in BOOLEAN
  BY Parts DEF TypeOK, Token, RolesHeld, Row
<1>1. req' = [req EXCEPT ![r] = q] /\ req'[r] = q /\ UNCHANGED rest
  BY <1>0 DEF BeginCall, TypeOK
<1>2. (held = RolesHeld(token.sub)) /\ (late <=> token.jti \in loggedOut)
  OBVIOUS
<1> HIDE DEF held, late
<1>3. q \in Request /\ q.pc = "lookup" /\ q.token = token /\ q.held = held /\ q.late = late
  BY <1>0, Blank DEF Request, Pc
<1> HIDE DEF q
<1>4. RequestOK(req[r])'
  BY <1>1, <1>2, <1>3 DEF RequestOK, InHandler, RolesHeld, rest, sessions
<1> QED
  BY <1>1, <1>3, <1>4, OneRequest DEF BeginCall

\* Here the deny-list decides: a late request that gets on has an expired token.
LEMMA CheckRevokedStep ==
  ASSUME IInv, NEW r \in Req, CheckRevoked(r)
  PROVE  IInv'
<1>0. TypeOK /\ StateOK /\ RequestOK(req[r]) /\ req[r] \in Request /\ req[r].pc = "lookup"
      /\ UNCHANGED rest
  BY Parts DEF CheckRevoked, TypeOK
<1>1. CASE isRevoked(req[r].token.jti)
  BY <1>0, <1>1, Answered DEF CheckRevoked
<1>2. CASE ~isRevoked(req[r].token.jti)
  <2> DEFINE q == [req[r] EXCEPT !.pc = "findUser", !.expired = ~IsValid(req[r].token)]
  <2>1. req' = [req EXCEPT ![r] = q] /\ req'[r] = q
    BY <1>0, <1>2 DEF CheckRevoked, TypeOK
  <2>2. q \in Request /\ q.pc = "findUser" /\ q.token = req[r].token /\ q.held = req[r].held
        /\ q.late = req[r].late /\ q.expired = ~IsValid(req[r].token)
    BY <1>0 DEF Request, Pc, IsValid
  <2>3. req[r].token \in tokens /\ (req[r].late => req[r].token.jti \in loggedOut)
        /\ RolesHeld(req[r].token.sub) \subseteq req[r].held
    BY <1>0 DEF RequestOK
  <2>4. q.late => q.expired
    BY <1>0, <1>2, <2>2, <2>3 DEF StateOK, LoggedOutIsListed, Listed, IsValid, TypeOK, Request, Token
  <2>5. RequestOK(req[r])'
    BY <1>0, <2>1, <2>2, <2>3, <2>4 DEF RequestOK, InHandler, RolesHeld, rest, sessions
  <2> QED
    BY <1>0, <2>1, <2>2, <2>5, OneRequest
<1> QED
  BY <1>1, <1>2

LEMMA FindUserStep ==
  ASSUME IInv, NEW r \in Req, FindUser(r)
  PROVE  IInv'
<1> DEFINE u == req[r].token.sub
<1>0. TypeOK /\ RequestOK(req[r]) /\ req[r] \in Request /\ req[r].pc = "findUser"
      /\ UNCHANGED rest /\ u \in User /\ users[u] \in Row
  BY Parts DEF FindUser, TypeOK, Request, Token
<1>1. CASE ~users[u].isActive
  BY <1>0, <1>1, Answered DEF FindUser
<1>2. CASE users[u].isActive
  <2> DEFINE q == [req[r] EXCEPT !.pc = "admitted", !.role = users[u].role]
  <2>1. req' = [req EXCEPT ![r] = q] /\ req'[r] = q
    BY <1>0, <1>2 DEF FindUser, TypeOK
  <2>2. q \in Request /\ q.pc = "admitted" /\ q.token = req[r].token /\ q.held = req[r].held
        /\ q.late = req[r].late /\ q.expired = req[r].expired /\ q.role = users[u].role
    BY <1>0 DEF Request, Pc, Row
  <2>3. users[u].role \in req[r].held
    BY <1>0, <1>2 DEF RequestOK, RolesHeld
  <2>4. req[r].token \in tokens /\ (req[r].late => req[r].token.jti \in loggedOut)
        /\ (req[r].late => req[r].expired)
    BY <1>0 DEF RequestOK
  <2> HIDE DEF q
  <2>5. RequestOK(req[r])'
    BY <1>0, <2>1, <2>2, <2>3, <2>4 DEF RequestOK, InHandler, rest, sessions
  <2> QED
    BY <1>0, <2>1, <2>2, <2>5, OneRequest
<1> QED
  BY <1>1, <1>2

\* The administrators' requests that only read.
LEMMA BeginAdministrationStep ==
  ASSUME IInv, NEW r \in Req, NEW u \in User, BeginCreate(r, u) \/ BeginPatch(r, u)
  PROVE  IInv'
<1>0. TypeOK /\ RequestOK(req[r]) /\ req[r] \in Request /\ req[r].pc = "admitted"
      /\ UNCHANGED rest
  BY Parts DEF BeginCreate, BeginPatch, TypeOK
<1>1. PICK pc \in {"insert", "update"} : req' = [req EXCEPT ![r] = [req[r] EXCEPT !.pc = pc, !.user = u]]
  BY <1>0 DEF BeginCreate, BeginPatch, TypeOK
<1> DEFINE q == [req[r] EXCEPT !.pc = pc, !.user = u]
<1>2. req' = [req EXCEPT ![r] = q] /\ req'[r] = q
  BY <1>0, <1>1 DEF TypeOK
<1>3. q \in Request /\ q.pc = pc /\ q.token = req[r].token /\ q.held = req[r].held
      /\ q.late = req[r].late /\ q.expired = req[r].expired /\ q.role = req[r].role
  BY <1>0 DEF Request, Pc
<1>4. RequestOK(req[r])'
  BY <1>0, <1>2, <1>3 DEF RequestOK, InHandler, rest, sessions
<1> QED
  BY <1>0, <1>2, <1>3, <1>4, OneRequest
-----------------------------------------------------------------------------
\* What the other steps leave of the requests that do not move.
LEMMA OthersKept ==
  ASSUME IInv, TypeOK', NEW r \in Req, \A s \in Req : s # r => req'[s] = req[s],
         now <= now', registered \subseteq registered',
         tokens \subseteq tokens', loggedOut \subseteq loggedOut',
         \A token \in tokens : Listed(token) => Listed(token)',
         \A u \in registered : RolesHeld(u)' \subseteq RolesHeld(u),
         RequestOK(req[r])'
  PROVE  \A s \in Req : RequestOK(req[s])'
<1>1. ASSUME NEW s \in Req, s # r
      PROVE  RequestOK(req[s])'
  BY <1>1, Kept, Parts DEF StateOK
<1> QED
  BY <1>1

\* A row changes only in what belongs to the lock: its counter and date.
LEMMA LoginStateStep ==
  ASSUME IInv, NEW r \in Req, NEW attempts \in Nat, NEW until \in Nat,
         RequestOK(req[r])', req'[r].pc # "audit", req[r].pc # "audit",
         req' \in [Req -> Request], \A s \in Req : s # r => req'[s] = req[s],
         since' \in [User -> Nat], req[r].user \in registered,
         users' = [users EXCEPT ![req[r].user].failedLoginAttempts = attempts,
                                ![req[r].user].lockedUntil = until],
         UNCHANGED <<now, registered, sessions, wrong, administration, failures>>
  PROVE  IInv'
<1> DEFINE u == req[r].user
<1>0. TypeOK /\ StateOK /\ AuditKeepsUp /\ u \in User /\ users[u] \in Row
  BY Parts DEF TypeOK, Request
<1>1. users' = [users EXCEPT ![u] = [users[u] EXCEPT !.failedLoginAttempts = attempts,
                                                     !.lockedUntil = until]]
  BY <1>0 DEF TypeOK
<1>2. \A v \in User : /\ users'[v].isActive = users[v].isActive /\ users'[v].role = users[v].role
                      /\ v # u => users'[v] = users[v]
  BY <1>0, <1>1 DEF TypeOK, Row
<1>3. TypeOK'
  <2>1. users' \in [User -> Row]
    BY <1>0, <1>1 DEF TypeOK, Row
  <2> QED
    BY <1>0, <2>1 DEF TypeOK, sessions, administration
<1>4. StateOK'
  BY <1>0, <1>2 DEF StateOK, OnlyRowsAreLocked, TokensAreNumbered, EntriesAreOfTokens,
                    LoggedOutIsListed, Listed, isRevoked, sessions
<1>5. AuditKeepsUp'
  <2>1. At({"audit"})' = At({"audit"})
    BY Counting
  <2> QED
    BY <1>0, <2>1 DEF AuditKeepsUp, administration
<1>6. \A s \in Req : RequestOK(req[s])'
  <2>1. \A v \in registered : RolesHeld(v)' \subseteq RolesHeld(v)
    BY <1>0, <1>2 DEF RolesHeld, TypeOK
  <2>2. \A token \in tokens : Listed(token) => Listed(token)'
    BY DEF Listed, isRevoked, sessions
  <2>3. now <= now' /\ UNCHANGED <<registered, tokens, loggedOut>>
    BY <1>0 DEF TypeOK, sessions
  <2> QED
    BY <1>3, <2>1, <2>2, <2>3, OthersKept
<1> QED
  BY <1>3, <1>4, <1>5, <1>6 DEF IInv, StateOK

LEMMA StoreFailureStep ==
  ASSUME IInv, NEW r \in Req, StoreFailure(r)
  PROVE  IInv'
<1> DEFINE u == req[r].user
           attempts == req[r].row.failedLoginAttempts + 1
           lockMs == lockDurationMs(attempts)
           until == IF lockMs > 0 THEN req[r].at + lockMs ELSE req[r].row.lockedUntil
<1>0. TypeOK /\ RequestOK(req[r]) /\ req[r] \in Request /\ req[r].pc = "failed"
  BY Parts DEF TypeOK, StoreFailure
<1>1. attempts \in Nat /\ u \in User /\ req[r].at \in Nat /\ req[r].row.lockedUntil \in Nat
  BY <1>0 DEF Request, Row
<1>2. lockMs \in Nat
  BY <1>1, LockIsNat
<1>3. until \in Nat
  BY <1>1, <1>2
<1>4. /\ users' = [users EXCEPT ![u].failedLoginAttempts = attempts, ![u].lockedUntil = until]
      /\ since' = [since EXCEPT ![u] = req[r].at]
      /\ req' = [req EXCEPT ![r] = Idle]
      /\ UNCHANGED <<now, registered, sessions, wrong, administration, failures>>
  BY DEF StoreFailure, Answer
<1>5. u \in registered
  BY <1>0 DEF RequestOK
<1> HIDE DEF attempts, until
<1>6. since' \in [User -> Nat] /\ req' \in [Req -> Request] /\ req'[r] = Idle
      /\ \A s \in Req : s # r => req'[s] = req[s]
  BY <1>0, <1>1, <1>4, Blank DEF TypeOK
<1>7. RequestOK(req[r])'
  BY <1>6, Blank DEF RequestOK, InHandler
<1> QED
  BY <1>0, <1>1, <1>3, <1>4, <1>5, <1>6, <1>7, Blank, LoginStateStep

LEMMA ResetFailuresStep ==
  ASSUME IInv, NEW r \in Req, ResetFailures(r)
  PROVE  IInv'
<1>0. TypeOK /\ RequestOK(req[r]) /\ req[r] \in Request /\ req[r].pc = "matched"
  BY Parts DEF TypeOK, ResetFailures
<1>1. /\ Goto(r, "issue") /\ UNCHANGED <<now, registered, sessions, since, wrong, administration, failures>>
      /\ users' = [users EXCEPT ![req[r].user].failedLoginAttempts = 0,
                                ![req[r].user].lockedUntil = 0]
  BY DEF ResetFailures
<1>2. /\ req'[r].pc = "issue" /\ req'[r].user = req[r].user /\ req'[r].row = req[r].row
      /\ req' \in [Req -> Request] /\ \A s \in Req : s # r => req'[s] = req[s]
  BY <1>0, <1>1, GotoFields DEF Pc
<1>3. req[r].user \in registered /\ req[r].row.lockedUntil <= now
  BY <1>0 DEF RequestOK
<1>4. RequestOK(req[r])'
  BY <1>1, <1>2, <1>3 DEF RequestOK, InHandler
<1>5. since' \in [User -> Nat]
  BY <1>0, <1>1 DEF TypeOK
<1> QED
  BY <1>0, <1>1, <1>2, <1>3, <1>4, <1>5, LoginStateStep
-----------------------------------------------------------------------------
\* A new token has a number of its own, which nobody has logged out yet.
LEMMA IssueTokenStep ==
  ASSUME IInv, NEW r \in Req, IssueToken(r)
  PROVE  IInv'
<1> DEFINE new == [jti |-> issued + 1, sub |-> req[r].user,
                   role |-> req[r].row.role, exp |-> now + JwtLife]
<1>0. TypeOK /\ StateOK /\ AuditKeepsUp /\ RequestOK(req[r]) /\ req[r] \in Request
      /\ req[r].pc = "issue"
  BY Parts DEF TypeOK, IssueToken
<1>1. /\ issued' = issued + 1 /\ tokens' = tokens \cup {new} /\ req' = [req EXCEPT ![r] = Idle]
      /\ UNCHANGED <<now, registered, users, revoked, loggedOut, since, wrong, changes, audits, unaudited, failures>>
  BY DEF IssueToken, Answer, administration
<1>2. new \in Token /\ new.jti = issued + 1 /\ new.sub \in registered
  BY <1>0, LifeAssumption DEF RequestOK, TypeOK, Request, Row, Token
<1> HIDE DEF new
<1>3. TypeOK'
  BY <1>0, <1>1, <1>2, Blank DEF TypeOK
<1>4. \A s \in Req : s # r => req'[s] = req[s]
  BY <1>0, <1>1 DEF TypeOK
<1>5. req'[r] = Idle
  BY <1>0, <1>1 DEF TypeOK
<1>6. \A token \in tokens : Listed(token) <=> Listed(token)'
  BY <1>1 DEF Listed, isRevoked
<1>7. StateOK'
  <2>1. issued \in Nat /\ \A token \in tokens : token.jti \in Nat /\ token.jti <= issued
    BY <1>0 DEF TypeOK, Token, StateOK, TokensAreNumbered
  <2>2. loggedOut \subseteq Nat /\ \A jti \in loggedOut : jti <= issued
    BY <1>0 DEF TypeOK, StateOK, TokensAreNumbered
  <2>3. TokensAreNumbered'
    BY <1>0, <1>1, <1>2, <2>1, <2>2 DEF StateOK, TokensAreNumbered
  <2>4. LoggedOutIsListed'
    BY <1>0, <1>1, <1>2, <1>6, <2>1, <2>2 DEF StateOK, LoggedOutIsListed
  <2>5. OnlyRowsAreLocked' /\ EntriesAreOfTokens'
    BY <1>0, <1>1 DEF StateOK, OnlyRowsAreLocked, EntriesAreOfTokens
  <2> QED
    BY <2>3, <2>4, <2>5 DEF StateOK
<1>8. AuditKeepsUp'
  <2>1. At({"audit"})' = At({"audit"})
    BY <1>0, <1>4, <1>5, Blank, Counting
  <2> QED
    BY <1>0, <1>1, <2>1 DEF AuditKeepsUp
<1>9. \A s \in Req : RequestOK(req[s])'
  <2>1. RequestOK(req[r])'
    BY <1>5, Blank DEF RequestOK, InHandler
  <2>2. \A v \in registered : RolesHeld(v)' \subseteq RolesHeld(v)
    BY <1>1 DEF RolesHeld
  <2>3. now <= now'
    BY <1>0, <1>1 DEF TypeOK
  <2> QED
    BY <1>1, <1>3, <1>4, <1>6, <2>1, <2>2, <2>3, OthersKept
<1> QED
  BY <1>3, <1>7, <1>8, <1>9 DEF IInv, StateOK

\* Steps that change the deny-list and what is remembered of it, keeping every
\* token listed that was and listing the token that becomes logged out.
LEMMA DenyListStep ==
  ASSUME IInv, NEW r \in Req, req[r].pc # "audit", req'[r].pc # "audit",
         req' \in [Req -> Request], \A s \in Req : s # r => req'[s] = req[s],
         RequestOK(req[r])', failures' \in Nat,
         revoked' \subseteq RevokedToken, EntriesAreOfTokens',
         \A token \in tokens : Listed(token) => Listed(token)',
         \/ loggedOut' = loggedOut
         \/ /\ loggedOut' = loggedOut \cup {req[r].token.jti}
            /\ req[r].token \in tokens /\ Listed(req[r].token),
         UNCHANGED <<now, registered, users, issued, tokens, since, wrong, administration>>
  PROVE  IInv'
<1>0. TypeOK /\ StateOK /\ AuditKeepsUp
  BY Parts
<1>1. /\ loggedOut \subseteq loggedOut' /\ loggedOut' \subseteq Nat
      /\ \A jti \in loggedOut' : jti <= issued
      /\ \A token \in tokens : token.jti \in loggedOut' => Listed(token)
  BY <1>0 DEF TypeOK, StateOK, TokensAreNumbered, LoggedOutIsListed, Token
<1>2. TypeOK'
  BY <1>0, <1>1 DEF TypeOK, administration
<1>3. StateOK'
  <2>1. TokensAreNumbered' /\ OnlyRowsAreLocked'
    BY <1>0, <1>1 DEF StateOK, TokensAreNumbered, OnlyRowsAreLocked
  <2>2. LoggedOutIsListed'
    BY <1>0, <1>1 DEF StateOK, LoggedOutIsListed
  <2> QED
    BY <2>1, <2>2 DEF StateOK
<1>4. AuditKeepsUp'
  <2>1. At({"audit"})' = At({"audit"})
    BY Counting
  <2> QED
    BY <1>0, <2>1 DEF AuditKeepsUp, administration
<1>5. \A s \in Req : RequestOK(req[s])'
  <2>1. \A v \in registered : RolesHeld(v)' \subseteq RolesHeld(v)
    BY DEF RolesHeld
  <2>2. now <= now'
    BY <1>0 DEF TypeOK
  <2> QED
    BY <1>1, <1>2, <2>1, <2>2, OthersKept
<1> QED
  BY <1>2, <1>3, <1>4, <1>5 DEF IInv, StateOK

LEMMA RevokeStep ==
  ASSUME IInv, NEW r \in Req, Revoke(r)
  PROVE  IInv'
<1> DEFINE token == req[r].token
<1>0. TypeOK /\ StateOK /\ RequestOK(req[r]) /\ req[r] \in Request /\ req[r].pc = "revoke"
  BY Parts DEF TypeOK, Revoke
<1>1. /\ revoked' = IF isRevoked(token.jti) THEN revoked
                    ELSE revoked \cup {[jti |-> token.jti, expiresAt |-> token.exp]}
      /\ Goto(r, "purge")
      /\ UNCHANGED <<now, registered, users, issued, tokens, loggedOut, since, wrong, administration, failures>>
  BY DEF Revoke
<1>2. token \in tokens /\ token \in Token /\ (req[r].late => token.jti \in loggedOut)
  BY <1>0 DEF RequestOK, Request
<1>3. /\ req'[r].pc = "purge" /\ req'[r].token = token /\ req'[r].late = req[r].late
      /\ req' \in [Req -> Request] /\ \A s \in Req : s # r => req'[s] = req[s]
  BY <1>0, <1>1, GotoFields DEF Pc
<1>4. revoked' \subseteq RevokedToken
  BY <1>0, <1>1, <1>2 DEF TypeOK, RevokedToken, Token
<1>5. EntriesAreOfTokens'
  BY <1>0, <1>1, <1>2 DEF StateOK, EntriesAreOfTokens
<1>6. revoked \subseteq revoked' /\ \E entry \in revoked' : entry.jti = token.jti
  <2>1. CASE isRevoked(token.jti)
    BY <1>1, <2>1 DEF isRevoked
  <2>2. CASE ~isRevoked(token.jti)
    <3> DEFINE entry == [jti |-> token.jti, expiresAt |-> token.exp]
    <3>1. entry.jti = token.jti
      OBVIOUS
    <3>2. revoked' = revoked \cup {entry}
      BY <1>1, <2>2
    <3> HIDE DEF entry
    <3> QED
      BY <3>1, <3>2
  <2> QED
    BY <2>1, <2>2
<1>7. \A t \in tokens : Listed(t) => Listed(t)'
  BY <1>1, <1>6 DEF Listed, isRevoked
<1>8. RequestOK(req[r])'
  <2>1. Listed(req[r].token)'
    BY <1>3, <1>6 DEF Listed, isRevoked
  <2> QED
    BY <1>1, <1>2, <1>3, <2>1 DEF RequestOK, InHandler
<1>9. failures' \in Nat
  BY <1>0, <1>1 DEF TypeOK
<1> QED
  BY <1>0, <1>1, <1>3, <1>4, <1>5, <1>7, <1>8, <1>9, DenyListStep

\* Only the entries go whose tokens are past their date.
LEMMA PurgeExpiredStep ==
  ASSUME IInv, NEW r \in Req, PurgeExpired(r)
  PROVE  IInv'
<1>0. TypeOK /\ StateOK /\ RequestOK(req[r]) /\ req[r].pc = "purge"
  BY Parts DEF PurgeExpired
<1>1. /\ revoked' = {entry \in revoked : entry.expiresAt >= now}
      /\ loggedOut' = loggedOut \cup {req[r].token.jti} /\ req' = [req EXCEPT ![r] = Idle]
      /\ UNCHANGED <<now, registered, users, issued, tokens, since, wrong, administration, failures>>
  BY DEF PurgeExpired, Answer
<1>2. req[r].token \in tokens /\ Listed(req[r].token)
  BY <1>0 DEF RequestOK
<1>3. /\ req'[r] = Idle /\ req' \in [Req -> Request] /\ failures' \in Nat
      /\ \A s \in Req : s # r => req'[s] = req[s]
  BY <1>0, <1>1, Blank DEF TypeOK
<1>4. ASSUME NEW t \in tokens, Listed(t)
      PROVE  Listed(t)'
  <2>1. CASE t.exp < now
    BY <1>1, <2>1 DEF Listed
  <2>2. CASE ~(t.exp < now)
    <3>1. PICK entry \in revoked : entry.jti = t.jti
      BY <1>4, <2>2 DEF Listed, isRevoked
    <3>2. PICK token \in tokens : entry.jti = token.jti /\ entry.expiresAt = token.exp
      BY <1>0 DEF StateOK, EntriesAreOfTokens
    <3>3. token = t
      BY <1>0, <3>1, <3>2 DEF StateOK, TokensAreNumbered
    <3>4. entry.expiresAt >= now
      BY <1>0, <2>2, <3>2, <3>3 DEF TypeOK, Token
    <3> QED
      BY <1>1, <3>1, <3>4 DEF Listed, isRevoked
  <2> QED
    BY <2>1, <2>2
<1>5. EntriesAreOfTokens' /\ revoked' \subseteq RevokedToken
  BY <1>0, <1>1 DEF StateOK, EntriesAreOfTokens, TypeOK
<1>6. RequestOK(req[r])'
  BY <1>3, Blank DEF RequestOK, InHandler
<1> QED
  BY <1>0, <1>1, <1>2, <1>3, <1>4, <1>5, <1>6, Blank, DenyListStep
-----------------------------------------------------------------------------
\* A change of users or settings is counted and its audit row is still to come.
LEMMA ChangeCounted ==
  ASSUME IInv, NEW r \in Req, req[r].pc # "audit", req'[r].pc = "audit",
         \A s \in Req : s # r => req'[s].pc = req[s].pc,
         changes' = changes + 1, UNCHANGED <<audits, unaudited>>
  PROVE  AuditKeepsUp'
<1>1. At({"audit"})' = At({"audit"}) + 1 /\ At({"audit"}) \in Nat
  BY Counting
<1> QED
  BY <1>1, Parts DEF AuditKeepsUp, TypeOK

LEMMA InsertUserStep ==
  ASSUME IInv, NEW r \in Req, NEW role \in Roles, InsertUser(r, role)
  PROVE  IInv'
<1> DEFINE u == req[r].user
<1>0. TypeOK /\ StateOK /\ RequestOK(req[r]) /\ req[r] \in Request /\ req[r].pc = "insert" /\ u \in User
      /\ UNCHANGED <<now, sessions, since, wrong, audits, unaudited, failures>>
  BY Parts DEF TypeOK, InsertUser, Request
<1>1. CASE u \in registered
  <2>1. UNCHANGED rest /\ Answer(r)
    BY <1>0, <1>1 DEF InsertUser, rest, administration
  <2> QED
    BY <1>0, <2>1, Answered
<1>2. CASE u \notin registered
  <2>1. /\ registered' = registered \cup {u} /\ users' = [users EXCEPT ![u] = FreshRow(role)]
        /\ changes' = changes + 1 /\ Goto(r, "audit")
    BY <1>2 DEF InsertUser
  <2>2. /\ req'[r].pc = "audit" /\ req'[r].token = req[r].token /\ req'[r].late = req[r].late
        /\ req'[r].expired = req[r].expired /\ req'[r].role = req[r].role /\ req'[r].held = req[r].held
        /\ req' \in [Req -> Request] /\ \A s \in Req : s # r => req'[s] = req[s]
    BY <1>0, <2>1, GotoFields DEF Pc
  <2>3. FreshRow(role) \in Row /\ FreshRow(role).lockedUntil = 0
    BY Blank DEF FreshRow
  <2>4. TypeOK'
    BY <1>0, <2>1, <2>2, <2>3 DEF TypeOK, sessions
  <2>5. \A v \in User : v # u => users'[v] = users[v]
    BY <1>0, <2>1 DEF TypeOK
  <2>6. StateOK'
    BY <1>0, <2>1, <2>5 DEF StateOK, OnlyRowsAreLocked, TokensAreNumbered, EntriesAreOfTokens,
                            LoggedOutIsListed, Listed, isRevoked, sessions
  <2>7. AuditKeepsUp'
    BY <1>0, <2>1, <2>2, ChangeCounted
  <2>8. \A s \in Req : RequestOK(req[s])'
    <3>1. RequestOK(req[r])'
      BY <1>0, <2>2 DEF RequestOK, InHandler, sessions
    <3>2. \A v \in registered : RolesHeld(v)' \subseteq RolesHeld(v)
      BY <1>0, <1>2, <2>5 DEF RolesHeld, TypeOK
    <3>3. now <= now' /\ UNCHANGED <<tokens, loggedOut>>
          /\ \A token \in tokens : Listed(token) => Listed(token)'
      BY <1>0 DEF TypeOK, sessions, Listed, isRevoked
    <3> QED
      BY <2>1, <2>2, <2>4, <3>1, <3>2, <3>3, OthersKept
  <2> QED
    BY <2>4, <2>6, <2>7, <2>8 DEF IInv, StateOK
<1> QED
  BY <1>1, <1>2

\* The requests of a user whose role changes remember the new one.
LEMMA UpdateUserStep ==
  ASSUME IInv, NEW r \in Req, NEW role \in Roles, NEW isActive \in BOOLEAN,
         UpdateUser(r, role, isActive)
  PROVE  IInv'
<1> DEFINE u == req[r].user
           gains(s) == isActive /\ req[s].token.sub = u /\ (s = r \/ req[s].pc # "idle")
           held(s) == IF gains(s) THEN req[s].held \cup {role} ELSE req[s].held
<1>0. TypeOK /\ StateOK /\ (\A s \in Req : RequestOK(req[s])) /\ req[r] \in Request
      /\ req[r].pc = "update" /\ u \in User /\ users[u] \in Row
      /\ changes' = changes + 1
      /\ UNCHANGED <<now, registered, sessions, since, wrong, audits, unaudited, failures>>
  BY Parts DEF TypeOK, UpdateUser, Request
<1>1. users' = [users EXCEPT ![u] = [users[u] EXCEPT !.role = role, !.isActive = isActive]]
  BY <1>0 DEF UpdateUser, TypeOK
<1>2. /\ users'[u].role = role /\ users'[u].isActive = isActive
      /\ users'[u].lockedUntil = users[u].lockedUntil /\ users' \in [User -> Row]
      /\ \A v \in User : v # u => users'[v] = users[v]
  BY <1>0, <1>1 DEF TypeOK, Row
<1>3. ASSUME NEW s \in Req
      PROVE  req'[s] = [req[s] EXCEPT !.pc = IF s = r THEN "audit" ELSE @, !.held = held(s)]
  <2>1. req[s] \in Request
    BY <1>0 DEF TypeOK
  <2>2. CASE s = r
    BY <1>0, <2>1, <2>2 DEF UpdateUser, Request
  <2>3. CASE s # r
    BY <1>0, <2>1, <2>3 DEF UpdateUser, Request
  <2> QED
    BY <2>2, <2>3
<1>4. ASSUME NEW s \in Req
      PROVE  /\ req'[s] \in Request /\ req'[s].held = held(s)
             /\ req'[s].pc = IF s = r THEN "audit" ELSE req[s].pc
             /\ req'[s].user = req[s].user /\ req'[s].row = req[s].row
             /\ req'[s].token = req[s].token /\ req'[s].role = req[s].role
             /\ req'[s].late = req[s].late /\ req'[s].expired = req[s].expired
  <2>1. req[s] \in Request /\ held(s) \in SUBSET Roles
    BY <1>0 DEF TypeOK, Request
  <2> DEFINE new == held(s)
  <2>2. new \in SUBSET Roles /\ new = held(s)
    BY <2>1
  <2>3. req'[s] = [req[s] EXCEPT !.pc = IF s = r THEN "audit" ELSE req[s].pc, !.held = new]
    BY <1>3
  <2> HIDE DEF held, new
  <2>4. CASE s = r
    BY <2>1, <2>2, <2>3, <2>4 DEF Request, Pc
  <2>5. CASE s # r
    BY <2>1, <2>2, <2>3, <2>5 DEF Request
  <2> QED
    BY <2>4, <2>5
<1>5. TypeOK'
  <2>1. req' \in [Req -> Request]
    BY <1>4 DEF UpdateUser
  <2> QED
    BY <1>0, <1>2, <2>1 DEF TypeOK, sessions
<1>6. StateOK'
  BY <1>0, <1>2 DEF StateOK, OnlyRowsAreLocked, TokensAreNumbered, EntriesAreOfTokens,
                    LoggedOutIsListed, Listed, isRevoked, sessions
<1>7. AuditKeepsUp'
  BY <1>0, <1>4, ChangeCounted
<1>8. ASSUME NEW s \in Req
      PROVE  RequestOK(req[s])'
  <2>1. req[s].held \subseteq held(s)
    OBVIOUS
  <2>2. req'[s].pc \in {"lookup", "findUser"} => RolesHeld(req[s].token.sub)' \subseteq held(s)
    <3>1. CASE req[s].token.sub = u
      BY <1>0, <1>2, <1>4, <3>1 DEF RolesHeld
    <3>2. CASE req[s].token.sub # u
      <4>1. req[s].token.sub \in User
        BY <1>0 DEF TypeOK, Request, Token
      <4>2. RolesHeld(req[s].token.sub)' = RolesHeld(req[s].token.sub)
        BY <1>2, <1>4, <3>2, <4>1 DEF RolesHeld
      <4>3. req'[s].pc \in {"lookup", "findUser"} => RolesHeld(req[s].token.sub) \subseteq req[s].held
        BY <1>0, <1>4 DEF RequestOK
      <4> QED
        BY <2>1, <4>2, <4>3
    <3> QED
      BY <3>1, <3>2
  <2>3. req'[s].pc = "purge" => Listed(req[s].token)'
    <3>1. req'[s].pc = "purge" => req[s].pc = "purge"
      BY <1>4
    <3>2. req[s].pc = "purge" => Listed(req[s].token)
      BY <1>0 DEF RequestOK
    <3>3. revoked' = revoked /\ now' = now
      BY <1>0 DEF sessions
    <3>4. Listed(req[s].token) => Listed(req[s].token)'
      BY <1>4, <3>3 DEF Listed, isRevoked
    <3> QED
      BY <3>1, <3>2, <3>4
  <2>4. RequestOK(req[s]) /\ (s = r => req[s].pc = "update")
        /\ UNCHANGED <<now, registered, tokens, loggedOut>>
    BY <1>0 DEF sessions
  <2> HIDE DEF held
  <2>5. CASE s = r
    <3>1. req[s].pc \in InHandler
      BY <2>4, <2>5 DEF InHandler
    <3> QED
      BY <1>4, <2>1, <2>4, <2>5, <3>1 DEF RequestOK, InHandler
  <2>6. CASE s # r
    BY <1>4, <2>1, <2>2, <2>3, <2>4, <2>6 DEF RequestOK, InHandler
  <2> QED
    BY <2>5, <2>6
<1> QED
  BY <1>5, <1>6, <1>7, <1>8 DEF IInv, StateOK

LEMMA UpsertSettingStep ==
  ASSUME IInv, NEW r \in Req, UpsertSetting(r)
  PROVE  IInv'
<1>0. TypeOK /\ StateOK /\ RequestOK(req[r]) /\ req[r].pc = "admitted" /\ Goto(r, "audit")
      /\ changes' = changes + 1
      /\ UNCHANGED <<now, registered, users, sessions, since, wrong, audits, unaudited, failures>>
  BY Parts DEF UpsertSetting
<1>1. /\ req'[r].pc = "audit" /\ req'[r].token = req[r].token /\ req'[r].late = req[r].late
      /\ req'[r].expired = req[r].expired /\ req'[r].role = req[r].role /\ req'[r].held = req[r].held
      /\ req' \in [Req -> Request] /\ \A s \in Req : s # r => req'[s] = req[s]
  BY <1>0, GotoFields DEF Pc
<1>2. TypeOK'
  BY <1>0, <1>1 DEF TypeOK, sessions
<1>3. StateOK'
  BY <1>0 DEF StateOK, OnlyRowsAreLocked, TokensAreNumbered, EntriesAreOfTokens,
              LoggedOutIsListed, Listed, isRevoked, sessions
<1>4. AuditKeepsUp'
  BY <1>0, <1>1, ChangeCounted
<1>5. \A s \in Req : RequestOK(req[s])'
  <2>1. RequestOK(req[r])'
    BY <1>0, <1>1 DEF RequestOK, InHandler, sessions
  <2>2. /\ now <= now' /\ UNCHANGED <<tokens, loggedOut>>
        /\ \A token \in tokens : Listed(token) => Listed(token)'
        /\ \A v \in registered : RolesHeld(v)' \subseteq RolesHeld(v)
    BY <1>0 DEF TypeOK, sessions, Listed, isRevoked, RolesHeld
  <2> QED
    BY <1>0, <1>1, <1>2, <2>1, <2>2, OthersKept
<1> QED
  BY <1>2, <1>3, <1>4, <1>5 DEF IInv, StateOK

\* A request about to write its audit row that writes it, or ends without it.
LEMMA AuditStep ==
  ASSUME IInv, NEW r \in Req, req[r].pc = "audit", Answer(r), failures' \in Nat,
         \/ audits' = audits + 1 /\ unaudited' = unaudited
         \/ audits' = audits /\ unaudited' = unaudited + 1,
         UNCHANGED <<now, registered, users, sessions, since, wrong, changes>>
  PROVE  IInv'
<1>0. TypeOK /\ StateOK /\ AuditKeepsUp
  BY Parts
<1>1. /\ req'[r] = Idle /\ req' \in [Req -> Request] /\ \A s \in Req : s # r => req'[s] = req[s]
  BY <1>0, Blank DEF Answer, TypeOK
<1>2. TypeOK'
  BY <1>0, <1>1 DEF TypeOK, sessions
<1>3. StateOK'
  BY <1>0 DEF StateOK, OnlyRowsAreLocked, TokensAreNumbered, EntriesAreOfTokens,
              LoggedOutIsListed, Listed, isRevoked, sessions
<1>4. AuditKeepsUp'
  <2>1. At({"audit"})' = At({"audit"}) - 1 /\ At({"audit"}) \in Nat
    BY <1>1, Blank, Counting
  <2> QED
    BY <1>0, <2>1 DEF AuditKeepsUp, TypeOK
<1>5. \A s \in Req : RequestOK(req[s])'
  <2>1. RequestOK(req[r])'
    BY <1>1, Blank DEF RequestOK, InHandler
  <2>2. /\ now <= now' /\ UNCHANGED <<tokens, loggedOut>>
        /\ \A token \in tokens : Listed(token) => Listed(token)'
        /\ \A v \in registered : RolesHeld(v)' \subseteq RolesHeld(v)
    BY <1>0 DEF TypeOK, sessions, Listed, isRevoked, RolesHeld
  <2> QED
    BY <1>1, <1>2, <2>1, <2>2, OthersKept
<1> QED
  BY <1>2, <1>3, <1>4, <1>5 DEF IInv, StateOK

LEMMA TickStep ==
  ASSUME IInv, Tick
  PROVE  IInv'
<1>0. TypeOK /\ StateOK /\ AuditKeepsUp /\ (\A s \in Req : RequestOK(req[s])) /\ now' = now + 1
      /\ UNCHANGED <<registered, users, sessions, req, since, wrong, administration, failures>>
  BY Parts DEF Tick
<1>1. now \in Nat /\ now' \in Nat
  BY <1>0 DEF TypeOK
<1>2. TypeOK'
  BY <1>0, <1>1 DEF TypeOK, sessions, administration
<1>3. \A token \in tokens : Listed(token) => Listed(token)'
  BY <1>0, <1>1 DEF Listed, isRevoked, sessions, TypeOK, Token
<1>4. StateOK'
  <2>1. OnlyRowsAreLocked' /\ TokensAreNumbered' /\ EntriesAreOfTokens'
    BY <1>0 DEF StateOK, OnlyRowsAreLocked, TokensAreNumbered, EntriesAreOfTokens, sessions
  <2>2. LoggedOutIsListed'
    BY <1>0, <1>3 DEF StateOK, LoggedOutIsListed, sessions
  <2> QED
    BY <2>1, <2>2 DEF StateOK
<1>5. AuditKeepsUp'
  BY <1>0, Counting DEF AuditKeepsUp, administration
<1>6. ASSUME NEW s \in Req
      PROVE  RequestOK(req[s])'
  <2>1. now <= now' /\ UNCHANGED <<registered, tokens, loggedOut>>
    BY <1>0, <1>1 DEF sessions
  <2>2. \A v \in registered : RolesHeld(v)' \subseteq RolesHeld(v)
    BY <1>0 DEF RolesHeld
  <2>3. req'[s] = req[s] /\ RequestOK(req[s]) /\ TokensAreNumbered
    BY <1>0 DEF StateOK
  <2> QED
    BY <1>0, <1>2, <1>3, <2>1, <2>2, <2>3, Kept
<1> QED
  BY <1>2, <1>4, <1>5, <1>6 DEF IInv, StateOK

LEMMA FailsStep ==
  ASSUME IInv, NEW r \in Req, Fails(r)
  PROVE  IInv'
<1>0. TypeOK /\ StateOK /\ RequestOK(req[r]) /\ Answer(r) /\ failures' \in Nat
      /\ UNCHANGED <<now, registered, users, issued, tokens, revoked, since, wrong, changes, audits>>
  BY Parts DEF Fails, TypeOK
<1>1. CASE req[r].pc = "audit"
  <2>1. unaudited' = unaudited + 1 /\ loggedOut' = loggedOut
    BY <1>1 DEF Fails
  <2> QED
    BY <1>0, <1>1, <2>1, AuditStep DEF sessions
<1>2. CASE req[r].pc # "audit"
  <2>1. unaudited' = unaudited
    BY <1>2 DEF Fails
  <2>2. req'[r] = Idle /\ req' \in [Req -> Request] /\ \A s \in Req : s # r => req'[s] = req[s]
    BY <1>0, Blank DEF Answer, TypeOK
  <2>3. RequestOK(req[r])'
    BY <2>2, Blank DEF RequestOK, InHandler
  <2>4. EntriesAreOfTokens' /\ revoked' \subseteq RevokedToken
        /\ \A token \in tokens : Listed(token) => Listed(token)'
    BY <1>0 DEF StateOK, EntriesAreOfTokens, TypeOK, Listed, isRevoked
  <2>5. \/ loggedOut' = loggedOut
        \/ /\ loggedOut' = loggedOut \cup {req[r].token.jti}
           /\ req[r].token \in tokens /\ Listed(req[r].token)
    BY <1>0 DEF Fails, RequestOK
  <2> QED
    BY <1>0, <1>2, <2>1, <2>2, <2>3, <2>4, <2>5, Blank, DenyListStep DEF administration
<1> QED
  BY <1>1, <1>2
-----------------------------------------------------------------------------
LEMMA InitInvariant == Init => IInv
<1> SUFFICES ASSUME Init
             PROVE  IInv
  OBVIOUS
<1>1. TypeOK
  <2>1. 0 \in 0..loginMaxFailedAttempts
    BY LimitAssumption
  <2> QED
    BY <2>1, Blank, UsersAssumption DEF Init, TypeOK
<1>2. StateOK
  BY DEF Init, StateOK, OnlyRowsAreLocked, TokensAreNumbered, EntriesAreOfTokens,
         LoggedOutIsListed, FreshRow
<1>3. \A r \in Req : RequestOK(req[r])
  BY Blank DEF Init, RequestOK, InHandler
<1>4. AuditKeepsUp
  <2>1. {r \in Req : req[r].pc \in {"audit"}} = {}
    BY Blank DEF Init
  <2> QED
    BY <2>1, FS_EmptySet DEF Init, AuditKeepsUp, At
<1> QED
  BY <1>1, <1>2, <1>3, <1>4, Parts

LEMMA StepInvariant == IInv /\ [Next]_vars => IInv'
<1> SUFFICES ASSUME IInv, [Next]_vars
             PROVE  IInv'
  OBVIOUS
<1>1. CASE UNCHANGED vars
  BY <1>1 DEF vars, rest, sessions, administration, IInv, TypeOK, OnlyRowsAreLocked,
              TokensAreNumbered, EntriesAreOfTokens, LoggedOutIsListed, Listed, isRevoked,
              RequestOK, RolesHeld, AuditKeepsUp, At
<1>2. ASSUME NEW u \in User, RefuseLogin(u)
      PROVE  IInv'
  BY <1>1, <1>2 DEF RefuseLogin
<1>3. ASSUME NEW r \in Req, Login(r)
      PROVE  IInv'
  BY <1>3, BeginLoginStep, CompareStep, StoreFailureStep, ResetFailuresStep, IssueTokenStep DEF Login
<1>4. ASSUME NEW r \in Req, Logout(r)
      PROVE  IInv'
  BY <1>4, BeginLogoutStep, RevokeStep, PurgeExpiredStep DEF Logout
<1>5. ASSUME NEW r \in Req, Call(r)
      PROVE  IInv'
  <2>1. ASSUME Handle(r)
        PROVE  IInv'
    BY <2>1, Answered DEF Handle
  <2> QED
    BY <1>5, <2>1, BeginCallStep, CheckRevokedStep, FindUserStep DEF Call
<1>6. ASSUME NEW r \in Req, Administer(r)
      PROVE  IInv'
  <2>1. ASSUME WriteAudit(r)
        PROVE  IInv'
    BY <2>1, AuditStep, Parts DEF WriteAudit, TypeOK
  <2> QED
    BY <1>6, <2>1, BeginAdministrationStep, InsertUserStep, UpdateUserStep, UpsertSettingStep
    DEF Administer
<1> QED
  BY <1>1, <1>2, <1>3, <1>4, <1>5, <1>6, TickStep, FailsStep DEF Next

\* The invariant of the accounts and sessions of routes/auth.ts,
\* middleware/auth.ts and routes/adminUsers.ts: every request works on what it
\* may rely on, whatever the others do.
THEOREM Invariance == Spec => []IInv
<1>1. Init => IInv
  BY InitInvariant
<1>2. IInv /\ [Next]_vars => IInv'
  BY StepInvariant
<1> QED
  BY <1>1, <1>2, PTL DEF Spec

\* H1.3 (auth.ts:115-124, tokenRepository.ts:8-25): no request that begins after
\* the logout of its token reaches a handler, whatever is purged meanwhile,
\* unless the token expired between its verification and its lookup.
THEOREM LogoutHolds == Spec => []LogoutIsFinal
<1>1. IInv => LogoutIsFinal
  BY DEF IInv, RequestOK, LogoutIsFinal, InsideHandler
<1> QED
  BY <1>1, Invariance, PTL

\* middleware/auth.ts:42-57: the role a handler goes by is one the user held,
\* active, after the request had begun.
THEOREM RolesAreCurrent == Spec => []RoleIsCurrent
<1>1. IInv => RoleIsCurrent
  BY DEF IInv, RequestOK, RoleIsCurrent, InsideHandler
<1> QED
  BY <1>1, Invariance, PTL

\* BR-008 (adminUsers.ts:34-62, settings.ts): the audit rows keep up with the
\* changes but for the requests that have not got there or were cut off.
THEOREM AuditsKeepUp == Spec => []AuditKeepsUp
<1>1. IInv => AuditKeepsUp
  BY DEF IInv
<1> QED
  BY <1>1, Invariance, PTL

\* H2.3 (auth.ts:41-85): only a login that had read the account before it was
\* locked changes a lock in force.
THEOREM LocksStay == Spec => LocksOutlast
<1> DEFINE Lasts == \A u \in User : IsLocked(users[u]) /\ users'[u].lockedUntil # users[u].lockedUntil =>
                      \E r \in Req : /\ req[r].pc \in {"failed", "matched"}
                                     /\ req[r].user = u
                                     /\ req[r].row.lockedUntil # users[u].lockedUntil
<1>1. ASSUME IInv, Next, NEW u \in User,
             IsLocked(users[u]), users'[u].lockedUntil # users[u].lockedUntil
      PROVE  \E r \in Req : /\ req[r].pc \in {"failed", "matched"}
                            /\ req[r].user = u
                            /\ req[r].row.lockedUntil # users[u].lockedUntil
  <2>0. TypeOK /\ StateOK
    BY <1>1, Parts
  <2>1. PICK r \in Req : /\ users' # users
                         /\ \/ StoreFailure(r) \/ ResetFailures(r)
                            \/ \E role \in Roles : InsertUser(r, role)
                            \/ \E role \in Roles, isActive \in BOOLEAN : UpdateUser(r, role, isActive)
    <3>1. users' # users
      BY <1>1
    <3> QED
      BY <1>1, <3>1 DEF Next, Login, Logout, Call, Administer, Fails, RefuseLogin, Tick, Handle,
         BeginLogin, Compare, IssueToken, BeginLogout, Revoke, PurgeExpired, BeginCall,
         CheckRevoked, FindUser, BeginCreate, BeginPatch, UpsertSetting, WriteAudit,
         vars, rest
  <2>2. CASE StoreFailure(r) \/ ResetFailures(r)
    <3>1. req[r].pc \in {"failed", "matched"} /\ req[r].row.lockedUntil <= now
      BY <1>1, <2>2 DEF StoreFailure, ResetFailures, IInv, RequestOK
    <3>2. req[r].user = u
      BY <1>1, <2>0, <2>2 DEF StoreFailure, ResetFailures, TypeOK
    <3>3. users[u].lockedUntil > now
      BY <1>1 DEF IsLocked
    <3>4. users[u].lockedUntil \in Nat /\ now \in Nat /\ req[r].row.lockedUntil \in Nat
      BY <2>0 DEF TypeOK, Row, Request
    <3> QED
      BY <3>1, <3>2, <3>3, <3>4
  <2>3. ASSUME NEW role \in Roles, InsertUser(r, role)
        PROVE  FALSE
    <3>1. req[r].user = u /\ u \notin registered
      BY <1>1, <2>0, <2>1, <2>3 DEF InsertUser, TypeOK
    <3>2. users[u].lockedUntil = 0
      BY <2>0, <3>1 DEF StateOK, OnlyRowsAreLocked
    <3> QED
      BY <1>1, <2>0, <3>2 DEF IsLocked, TypeOK
  <2>4. ASSUME NEW role \in Roles, NEW isActive \in BOOLEAN, UpdateUser(r, role, isActive)
        PROVE  FALSE
    <3>1. users[u] \in Row
      BY <2>0 DEF TypeOK
    <3> QED
      BY <1>1, <2>0, <2>4, <3>1 DEF UpdateUser, TypeOK, Row
  <2> QED
    BY <2>1, <2>2, <2>3, <2>4
<1>2. IInv /\ [Next]_vars => [Lasts]_vars
  BY <1>1
<1>3. LocksOutlast <=> [][Lasts]_vars
  BY DEF LocksOutlast
<1> HIDE DEF Lasts
<1> QED
  BY <1>2, <1>3, Invariance, PTL DEF Spec
-----------------------------------------------------------------------------
(* The lock and the counter *)

\* What an account's lock, its counter and the wrong passwords given for it owe
\* each other.
Earned(row, date, given) ==
  /\ Least(row.failedLoginAttempts, loginMaxFailedAttempts) <= given
  /\ row.lockedUntil = IF row.failedLoginAttempts < loginMaxFailedAttempts
                       THEN 0 ELSE date + lockDurationMs(row.failedLoginAttempts)

LEMMA LockIsEarnedMeans ==
  ASSUME TypeOK
  PROVE  LockIsEarned <=> \A u \in registered : Earned(users[u], since[u], wrong[u])
<1>1. \A u \in registered : users[u].failedLoginAttempts \in Nat
  BY DEF TypeOK, Row
<1> QED
  BY <1>1, WindowIsLock DEF LockIsEarned, Earned

\* A login that stays where it is, with the copy of the row it works on.
SameLogin(s) ==
  req'[s].pc = req[s].pc /\ req'[s].row = req[s].row /\ req'[s].user = req[s].user

\* Steps that leave the locks alone and let no login read a row.
LEMMA LocksStayEarned ==
  ASSUME TypeOK, TypeOK', LockInv,
         \A u \in registered' :
           \/ Earned(users'[u], since'[u], wrong'[u])
           \/ /\ u \in registered /\ since'[u] = since[u]
              /\ users'[u].failedLoginAttempts = users[u].failedLoginAttempts
              /\ users'[u].lockedUntil = users[u].lockedUntil,
         \A u \in User : wrong[u] <= wrong'[u],
         \A s \in Req : \/ ReadEarned(req[s])'
                        \/ req'[s].pc \notin {"compare", "failed"}
                        \/ SameLogin(s)
  PROVE  LockInv'
<1>1. ASSUME NEW u \in registered'
      PROVE  Earned(users'[u], since'[u], wrong'[u])
  <2>1. CASE /\ u \in registered /\ since'[u] = since[u]
             /\ users'[u].failedLoginAttempts = users[u].failedLoginAttempts
             /\ users'[u].lockedUntil = users[u].lockedUntil
    <3>1. Earned(users[u], since[u], wrong[u])
      BY <2>1, LockIsEarnedMeans DEF LockInv
    <3>2. Least(users[u].failedLoginAttempts, loginMaxFailedAttempts) \in Nat
          /\ wrong[u] \in Nat /\ wrong'[u] \in Nat /\ wrong[u] <= wrong'[u]
      BY <2>1, LimitAssumption DEF TypeOK, Row, Least
    <3> QED
      BY <2>1, <3>1, <3>2 DEF Earned
  <2> QED
    BY <2>1
<1>2. LockIsEarned'
  <2>1. \A u \in registered' : users'[u].failedLoginAttempts \in Nat
    BY DEF TypeOK, Row
  <2> QED
    BY <1>1, <2>1, WindowIsLock DEF LockIsEarned, Earned
<1>3. ASSUME NEW s \in Req
      PROVE  ReadEarned(req[s])'
  <2>1. CASE SameLogin(s) /\ req[s].pc \in {"compare", "failed"}
    <3> DEFINE counted == req[s].row.failedLoginAttempts + (IF req[s].pc = "failed" THEN 1 ELSE 0)
    <3>1. /\ req[s].row.failedLoginAttempts < loginMaxFailedAttempts => req[s].row.lockedUntil = 0
          /\ Least(counted, loginMaxFailedAttempts) <= wrong[req[s].user]
      BY <2>1 DEF LockInv, ReadEarned
    <3>2. req[s].user \in User /\ counted \in Nat
      BY DEF TypeOK, Request, Row
    <3>3. Least(counted, loginMaxFailedAttempts) <= wrong'[req[s].user]
      <4>1. Least(counted, loginMaxFailedAttempts) \in Nat
        BY <3>2, LimitAssumption DEF Least
      <4>2. wrong[req[s].user] \in Nat /\ wrong'[req[s].user] \in Nat
            /\ wrong[req[s].user] <= wrong'[req[s].user]
        BY <3>2 DEF TypeOK
      <4> QED
        BY <3>1, <4>1, <4>2
    <3> QED
      BY <2>1, <3>1, <3>3 DEF ReadEarned, SameLogin
  <2> QED
    BY <2>1 DEF ReadEarned, SameLogin
<1> QED
  BY <1>2, <1>3 DEF LockInv

\* A login reads a row on which they agree.
LEMMA BeginLoginEarned ==
  ASSUME IInv, IInv', LockInv, NEW r \in Req, NEW u \in User, BeginLogin(r, u)
  PROVE  LockInv'
<1> DEFINE q == [Idle EXCEPT !.pc = "compare", !.user = u, !.row = users[u]]
<1>0. TypeOK /\ TypeOK' /\ u \in registered /\ UNCHANGED <<users, since, wrong, registered>>
  BY DEF IInv, BeginLogin, CanLogIn, rest
<1>1. req' = [req EXCEPT ![r] = q]
  BY DEF BeginLogin
<1>2. q.row = users[u]
  BY Blank DEF Idle
<1>3. ReadEarned(q)
  <2>1. Earned(users[u], since[u], wrong[u]) /\ q.pc = "compare" /\ q.user = u
        /\ users[u].failedLoginAttempts \in Nat
    BY <1>0, LockIsEarnedMeans, Blank DEF LockInv, Idle, TypeOK, Row
  <2> QED
    BY <1>2, <2>1 DEF Earned, ReadEarned
<1> HIDE DEF q
<1>4. \A s \in Req : req'[s] = IF s = r THEN q ELSE req[s]
  BY <1>0, <1>1 DEF TypeOK
<1>5. \A s \in Req : ReadEarned(req[s])'
  BY <1>0, <1>3, <1>4 DEF LockInv, ReadEarned
<1> QED
  BY <1>0, <1>5, LocksStayEarned DEF TypeOK

\* A failure is stored with the lock its count earns.
LEMMA StoreFailureEarned ==
  ASSUME IInv, IInv', LockInv, NEW r \in Req, StoreFailure(r)
  PROVE  LockInv'
<1> DEFINE u == req[r].user
           attempts == req[r].row.failedLoginAttempts + 1
           lockMs == lockDurationMs(attempts)
           date == IF lockMs > 0 THEN req[r].at + lockMs ELSE req[r].row.lockedUntil
<1>0. /\ TypeOK /\ TypeOK' /\ req[r] \in Request /\ req[r].pc = "failed" /\ ReadEarned(req[r])
      /\ registered' = registered /\ wrong' = wrong /\ Answer(r)
      /\ users' = [users EXCEPT ![u].failedLoginAttempts = attempts, ![u].lockedUntil = date]
      /\ since' = [since EXCEPT ![u] = req[r].at]
  BY DEF IInv, LockInv, StoreFailure, TypeOK
<1>1. attempts \in Nat /\ req[r].at \in Nat /\ u \in User /\ loginMaxFailedAttempts \in Nat
  BY <1>0, LimitAssumption DEF Request, Row
<1>2. \A s \in Req : req'[s] = Idle \/ req'[s] = req[s]
  BY <1>0 DEF Answer, TypeOK
<1>3. users'[u].failedLoginAttempts = attempts /\ users'[u].lockedUntil = date
      /\ since'[u] = req[r].at
  BY <1>0, <1>1 DEF TypeOK, Row
<1>4. Earned(users'[u], since'[u], wrong'[u])
  <2>0. Least(attempts, loginMaxFailedAttempts) <= wrong'[u]
    BY <1>0 DEF ReadEarned
  <2>1. CASE attempts < loginMaxFailedAttempts
    <3>1. lockMs = 0 /\ req[r].row.failedLoginAttempts < loginMaxFailedAttempts
      BY <1>0, <1>1, <2>1, LockFromLimit DEF Request, Row
    <3>2. date = 0
      BY <1>0, <3>1 DEF ReadEarned
    <3> QED
      BY <1>3, <2>0, <2>1, <3>2 DEF Earned
  <2>2. CASE ~ (attempts < loginMaxFailedAttempts)
    <3>1. lockMs > 0
      BY <1>1, <2>2, LockFromLimit
    <3> QED
      BY <1>3, <2>0, <2>2, <3>1 DEF Earned
  <2> QED
    BY <2>1, <2>2
<1>5. \A v \in registered : v # u => users'[v] = users[v] /\ since'[v] = since[v]
  BY <1>0 DEF TypeOK
<1> HIDE DEF u, attempts, lockMs, date
<1>6. \A v \in registered' : \/ Earned(users'[v], since'[v], wrong'[v])
                             \/ v \in registered /\ users'[v] = users[v] /\ since'[v] = since[v]
  BY <1>0, <1>4, <1>5
<1>7. \A s \in Req : req'[s].pc \notin {"compare", "failed"} \/ SameLogin(s)
  BY <1>2, Blank DEF SameLogin
<1>8. \A v \in User : wrong[v] <= wrong'[v]
  BY <1>0 DEF TypeOK
<1> QED
  BY <1>0, <1>6, <1>7, <1>8, LocksStayEarned

\* A login that succeeds clears both.
LEMMA ResetFailuresEarned ==
  ASSUME IInv, IInv', LockInv, NEW r \in Req, ResetFailures(r)
  PROVE  LockInv'
<1> DEFINE u == req[r].user
<1>0. /\ TypeOK /\ TypeOK' /\ req[r] \in Request /\ Goto(r, "issue")
      /\ UNCHANGED <<registered, since, wrong>>
      /\ users' = [users EXCEPT ![u].failedLoginAttempts = 0, ![u].lockedUntil = 0]
  BY DEF IInv, ResetFailures, TypeOK
<1>1. u \in User /\ loginMaxFailedAttempts \in Nat \ {0}
  BY <1>0, LimitAssumption DEF Request
<1>2. \A s \in Req : req'[s].pc = "issue" \/ req'[s] = req[s]
  BY <1>0, GotoFields DEF Pc
<1>3. Earned(users'[u], since'[u], wrong'[u])
  <2>1. users'[u].failedLoginAttempts = 0 /\ users'[u].lockedUntil = 0
    BY <1>0, <1>1 DEF TypeOK, Row
  <2>2. wrong'[u] \in Nat
    BY <1>0, <1>1 DEF TypeOK
  <2> QED
    BY <1>1, <2>1, <2>2 DEF Earned, Least
<1>4. \A v \in registered : v # u => users'[v] = users[v]
  BY <1>0 DEF TypeOK
<1> HIDE DEF u
<1>5. \A v \in registered' : \/ Earned(users'[v], since'[v], wrong'[v])
                             \/ v \in registered /\ users'[v] = users[v] /\ since'[v] = since[v]
  BY <1>0, <1>3, <1>4
<1>6. \A s \in Req : req'[s].pc \notin {"compare", "failed"} \/ SameLogin(s)
  BY <1>2 DEF SameLogin
<1>7. \A v \in User : wrong[v] <= wrong'[v]
  BY <1>0 DEF TypeOK
<1> QED
  BY <1>0, <1>5, <1>6, <1>7, LocksStayEarned

\* A new user starts with neither; an administrator's change leaves both.
LEMMA AdministrationEarned ==
  ASSUME IInv, IInv', LockInv, NEW r \in Req, Administer(r)
  PROVE  LockInv'
<1>0. TypeOK /\ TypeOK' /\ since' = since /\ wrong' = wrong
  BY DEF IInv, Administer, BeginCreate, BeginPatch, InsertUser, UpdateUser, UpsertSetting,
         WriteAudit, rest
<1>1. \A s \in Req : \/ req'[s].pc \notin {"compare", "failed"}
                     \/ SameLogin(s)
  <2>1. CASE \E role \in Roles, isActive \in BOOLEAN : UpdateUser(r, role, isActive)
    <3>1. PICK held \in [Req -> SUBSET Roles] :
            \A s \in Req : req'[s] = IF s = r THEN [req[s] EXCEPT !.pc = "audit", !.held = held[s]]
                                     ELSE [req[s] EXCEPT !.held = held[s]]
      <4>1. PICK role \in Roles, isActive \in BOOLEAN : UpdateUser(r, role, isActive)
        BY <2>1
      <4> DEFINE u == req[r].user
                 held == [s \in Req |-> IF isActive /\ req[s].token.sub = u
                                            /\ (s = r \/ req[s].pc # "idle")
                                         THEN req[s].held \cup {role} ELSE req[s].held]
      <4>2. \A s \in Req : req[s].held \in SUBSET Roles
        BY <1>0 DEF TypeOK, Request
      <4>3. held \in [Req -> SUBSET Roles]
        BY <4>2
      <4>4. \A s \in Req : req'[s] = IF s = r THEN [req[s] EXCEPT !.pc = "audit", !.held = held[s]]
                                     ELSE [req[s] EXCEPT !.held = held[s]]
        BY <4>1 DEF UpdateUser
      <4> HIDE DEF held
      <4> QED
        BY <4>3, <4>4
    <3>2. \A s \in Req : req[s] \in Request
      BY <1>0 DEF TypeOK
    <3>3. req'[r].pc = "audit"
      BY <3>1, <3>2 DEF Request
    <3>4. \A s \in Req : s # r => SameLogin(s)
      BY <3>1, <3>2 DEF Request, SameLogin
    <3> QED
      BY <3>3, <3>4
  <2>2. CASE \/ \E u \in User : BeginCreate(r, u) \/ BeginPatch(r, u)
             \/ \E role \in Roles : InsertUser(r, role)
             \/ UpsertSetting(r) \/ WriteAudit(r)
    <3>1. \A s \in Req : s # r => req'[s] = req[s]
      BY <1>0, <2>2 DEF BeginCreate, BeginPatch, InsertUser, UpsertSetting, WriteAudit, Answer,
                        Goto, TypeOK
    <3>2. req'[r].pc \in {"insert", "update", "audit", "idle"}
      BY <1>0, <2>2, Blank DEF BeginCreate, BeginPatch, InsertUser, UpsertSetting, WriteAudit,
                               Answer, Goto, TypeOK, Request
    <3> QED
      BY <3>1, <3>2 DEF SameLogin
  <2> QED
    BY <2>1, <2>2 DEF Administer
<1>2. \A u \in registered' :
        \/ Earned(users'[u], since'[u], wrong'[u])
        \/ /\ u \in registered
           /\ users'[u].failedLoginAttempts = users[u].failedLoginAttempts
           /\ users'[u].lockedUntil = users[u].lockedUntil
  <2>1. ASSUME NEW role \in Roles, InsertUser(r, role), req[r].user \notin registered
        PROVE  \A u \in registered' : \/ Earned(users'[u], since'[u], wrong'[u])
                                      \/ u \in registered /\ users'[u] = users[u]
    <3>1. /\ registered' = registered \cup {req[r].user}
          /\ users' = [users EXCEPT ![req[r].user] = FreshRow(role)]
      BY <2>1 DEF InsertUser
    <3>2. /\ req[r].user \in User /\ loginMaxFailedAttempts \in Nat \ {0}
          /\ wrong'[req[r].user] \in Nat
      BY <1>0, LimitAssumption DEF TypeOK, Request
    <3>3. Earned(FreshRow(role), since'[req[r].user], wrong'[req[r].user])
      BY <3>2 DEF Earned, FreshRow, Least
    <3> QED
      BY <1>0, <3>1, <3>2, <3>3 DEF TypeOK
  <2>2. ASSUME NEW role \in Roles, NEW isActive \in BOOLEAN, UpdateUser(r, role, isActive)
        PROVE  \A u \in registered' :
                 /\ u \in registered
                 /\ users'[u].failedLoginAttempts = users[u].failedLoginAttempts
                 /\ users'[u].lockedUntil = users[u].lockedUntil
    <3>1. \A u \in registered : users[u] \in Row /\ u \in User
      BY <1>0 DEF TypeOK
    <3>2. registered' = registered
          /\ users' = [users EXCEPT ![req[r].user].role = role, ![req[r].user].isActive = isActive]
      BY <2>2 DEF UpdateUser
    <3> QED
      BY <1>0, <3>1, <3>2 DEF TypeOK, Row
  <2>3. \/ UNCHANGED <<registered, users>>
        \/ \E role \in Roles : InsertUser(r, role) /\ req[r].user \notin registered
        \/ \E role \in Roles, isActive \in BOOLEAN : UpdateUser(r, role, isActive)
    BY DEF Administer, BeginCreate, BeginPatch, InsertUser, UpsertSetting, WriteAudit, rest
  <2> QED
    BY <2>1, <2>2, <2>3
<1>3. \A v \in User : wrong[v] <= wrong'[v]
  BY <1>0 DEF TypeOK
<1> QED
  BY <1>0, <1>1, <1>2, <1>3, LocksStayEarned

\* The other steps write no row, and no login reads one by them.
LEMMA OthersEarned ==
  ASSUME IInv, IInv', LockInv, UNCHANGED <<registered, users, since, wrong>>,
         \A s \in Req : \/ req'[s].pc \notin {"compare", "failed"}
                        \/ SameLogin(s)
  PROVE  LockInv'
<1>1. TypeOK /\ TypeOK' /\ \A v \in User : wrong[v] <= wrong'[v]
  BY DEF IInv, TypeOK
<1> QED
  BY <1>1, LocksStayEarned

\* A wrong password is counted before its failure is stored.
LEMMA CompareEarned ==
  ASSUME IInv, IInv', LockInv, NEW r \in Req, Compare(r)
  PROVE  LockInv'
<1> DEFINE u == req[r].user
           L == loginMaxFailedAttempts
<1>0. /\ TypeOK /\ TypeOK' /\ req[r] \in Request /\ ReadEarned(req[r])
      /\ req[r].pc = "compare" /\ UNCHANGED <<registered, users, since>>
  BY DEF IInv, LockInv, Compare, TypeOK
<1>1. u \in User /\ req[r].row.failedLoginAttempts \in Nat /\ L \in Nat \ {0}
      /\ wrong[u] \in Nat /\ wrong'[u] \in Nat
  BY <1>0, LimitAssumption DEF TypeOK, Request, Row
<1>2. /\ Least(req[r].row.failedLoginAttempts, L) <= wrong[u]
      /\ req[r].row.failedLoginAttempts < L => req[r].row.lockedUntil = 0
  <2>1. req[r].row.failedLoginAttempts + 0 = req[r].row.failedLoginAttempts
    BY <1>1
  <2> QED
    BY <1>0, <1>1, <2>1 DEF ReadEarned
<1>3. \A s \in Req : s # r => SameLogin(s)
  BY <1>0 DEF Compare, Goto, TypeOK, SameLogin
<1>4. CASE req' = [req EXCEPT ![r].pc = "failed", ![r].at = now]
           /\ wrong' = [wrong EXCEPT ![u] = Least(wrong[u] + 1, L)]
  <2>1. req'[r].pc = "failed" /\ req'[r].row = req[r].row /\ req'[r].user = u
    BY <1>0, <1>4 DEF TypeOK, Request
  <2>2. wrong'[u] = Least(wrong[u] + 1, L) /\ \A v \in User : v # u => wrong'[v] = wrong[v]
    BY <1>0, <1>1, <1>4 DEF TypeOK
  <2>3. Least(req[r].row.failedLoginAttempts + 1, L) <= wrong'[u]
    BY <1>1, <1>2, <2>2 DEF Least
  <2>4. ReadEarned(req[r])'
    BY <1>2, <2>1, <2>3 DEF ReadEarned
  <2>5. \A v \in User : wrong[v] <= wrong'[v]
    <3>1. wrong[u] <= L
      <4>1. wrong[u] \in 0..L
        BY <1>0, <1>1 DEF TypeOK
      <4> QED
        BY <1>1, <4>1
    <3> QED
      BY <1>0, <1>1, <2>2, <3>1 DEF TypeOK, Least
  <2> QED
    BY <1>0, <1>3, <2>4, <2>5, LocksStayEarned
<1>5. CASE \E pc \in {"matched", "issue"} : Goto(r, pc) /\ UNCHANGED wrong
  <2>1. req'[r].pc \notin {"compare", "failed"}
    BY <1>0, <1>5, GotoFields DEF Pc
  <2>2. \A v \in User : wrong[v] <= wrong'[v]
    BY <1>0, <1>5 DEF TypeOK
  <2> QED
    BY <1>0, <1>3, <2>1, <2>2, LocksStayEarned
<1> QED
  BY <1>4, <1>5 DEF Compare

\* A request that is answered, or that goes on to anything but a comparison.
LEMMA MovesOnEarned ==
  ASSUME IInv, IInv', LockInv, UNCHANGED <<registered, users, since, wrong>>,
         NEW r \in Req, \A s \in Req : s # r => req'[s] = req[s],
         req'[r].pc \notin {"compare", "failed"}
  PROVE  LockInv'
  BY OthersEarned DEF SameLogin

\* Every step keeps lock and counter together.
LEMMA StepEarned == IInv /\ IInv' /\ LockInv /\ [Next]_vars => LockInv'
<1> SUFFICES ASSUME IInv, IInv', LockInv, [Next]_vars PROVE LockInv'
  OBVIOUS
<1>0. TypeOK /\ \A s \in Req : req[s] \in Request
  BY DEF IInv, TypeOK
<1>2. ASSUME NEW r \in Req, Answer(r), UNCHANGED <<registered, users, since, wrong>> PROVE LockInv'
  BY <1>0, <1>2, Blank, MovesOnEarned DEF Answer, TypeOK
<1>3. ASSUME NEW r \in Req, Login(r) PROVE LockInv'
  <2>1. CASE IssueToken(r)
    BY <1>2, <2>1 DEF IssueToken
  <2> QED
    BY <1>3, <2>1, CompareEarned, BeginLoginEarned, StoreFailureEarned, ResetFailuresEarned DEF Login
<1>4. ASSUME NEW r \in Req, Logout(r) PROVE LockInv'
  <2>1. ASSUME NEW token \in tokens, BeginLogout(r, token) PROVE LockInv'
    <3>1. \A s \in Req : s # r => req'[s] = req[s]
      BY <1>0, <2>1 DEF BeginLogout, TypeOK
    <3>2. req'[r].pc = "revoke"
      BY <1>0, <2>1, Blank DEF BeginLogout, TypeOK, Request, Idle
    <3> QED
      BY <2>1, <3>1, <3>2, MovesOnEarned DEF BeginLogout, rest
  <2>2. ASSUME Revoke(r) PROVE LockInv'
    <3>1. Goto(r, "purge") /\ UNCHANGED <<registered, users, since, wrong>>
      BY <2>2 DEF Revoke
    <3> QED
      BY <1>0, <3>1, GotoFields, MovesOnEarned DEF Pc
  <2>3. ASSUME PurgeExpired(r) PROVE LockInv'
    BY <1>2, <2>3 DEF PurgeExpired
  <2> QED
    BY <1>4, <2>1, <2>2, <2>3 DEF Logout
<1>5. ASSUME NEW r \in Req, Call(r) PROVE LockInv'
  <2>1. UNCHANGED <<registered, users, since, wrong>>
    BY <1>5 DEF Call, BeginCall, CheckRevoked, FindUser, Handle, rest
  <2>2. \A s \in Req : s # r => req'[s] = req[s]
    BY <1>0, <1>5 DEF Call, BeginCall, CheckRevoked, FindUser, Handle, Answer, TypeOK
  <2>3. req'[r].pc \in {"lookup", "findUser", "admitted", "idle"}
    <3>1. ASSUME Answer(r) PROVE req'[r].pc = "idle"
      BY <1>0, <3>1, Blank DEF Answer, TypeOK
    <3>2. ASSUME NEW token \in tokens, BeginCall(r, token) PROVE req'[r].pc = "lookup"
      BY <1>0, <3>2 DEF BeginCall, TypeOK, Idle
    <3>3. CASE CheckRevoked(r) \/ FindUser(r)
      BY <1>0, <3>1, <3>3 DEF CheckRevoked, FindUser, TypeOK, Request
    <3> QED
      BY <1>5, <3>1, <3>2, <3>3 DEF Call, Handle
  <2> QED
    BY <2>1, <2>2, <2>3, MovesOnEarned
<1>6. ASSUME NEW r \in Req, Fails(r) PROVE LockInv'
  BY <1>2, <1>6 DEF Fails
<1>7. CASE UNCHANGED <<registered, users, since, wrong, req>>
  BY <1>7, OthersEarned DEF SameLogin
<1> QED
  BY <1>3, <1>4, <1>5, <1>6, <1>7, AdministrationEarned
     DEF Next, RefuseLogin, Tick, vars, rest

\* S4 (auth.ts:41-85, loginThrottle.ts): whatever attempts overlap, an account is
\* locked exactly from the limit on, and until the date its counter gives; up to
\* the limit that counter stands for wrong passwords given, in a row or not.
THEOREM LocksAreEarned == Spec => []LockIsEarned
<1>1. Init => LockInv
  <2> SUFFICES ASSUME Init PROVE LockInv
    OBVIOUS
  <2>1. loginMaxFailedAttempts \in Nat \ {0}
    BY LimitAssumption
  <2>2. LockIsEarned
    BY <2>1, UsersAssumption DEF Init, LockIsEarned, FreshRow, Seeded, Least
  <2>3. \A r \in Req : ReadEarned(req[r])
    BY Blank DEF Init, ReadEarned
  <2> QED
    BY <2>2, <2>3 DEF LockInv
<1>2. LockInv => LockIsEarned
  BY DEF LockInv
<1> QED
  BY <1>1, <1>2, StepEarned, Invariance, PTL DEF Spec
=============================================================================
