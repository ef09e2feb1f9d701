--------------------------- MODULE MessagingProofs ---------------------------
(***************************************************************************)
(* What the services around the send queue promise, for every value of     *)
(* their constants.                                                        *)
(***************************************************************************)
EXTENDS MCMessaging, SendQueueProofs, SequenceTheorems, WellFoundedInduction

-----------------------------------------------------------------------------
(* The rate limiter.                                                       *)

\* What lies before a bucket's window is at most a window's worth, and the window's count
\* covers what was admitted since it began.
BucketSound(b) ==
  /\ \A a, c \in Ages : a <= c => admitted[b][a] <= admitted[b][c]
  /\ used[b] <= limits[b]
  /\ admitted[b][Window - 1] <= used[b] + limits[b]
  /\ ttl[b] > 0 => admitted[b][Window - ttl[b]] <= used[b]
  /\ ttl[b] = NoExpiry => admitted[b][0] <= used[b] /\ lostExpiries > 0
  /\ ttl[b] = KeyAbsent => used[b] = 0 /\ admitted[b][0] = 0
  /\ lostExpiries = 0 /\ ttl[b] > 0 => used[b] = admitted[b][Window - ttl[b]]

LimiterInv == LimiterTypeOK /\ \A b \in Buckets : BucketSound(b)

LEMMA LimiterStep == LimiterInv /\ [LimiterNext]_limiterVars => LimiterInv'
<1> SUFFICES ASSUME LimiterInv, [LimiterNext]_limiterVars PROVE LimiterInv'
  OBVIOUS
<1> USE LimiterAssumption DEF Ages, NoExpiry, KeyAbsent
<1>1. LimiterTypeOK
  BY DEF LimiterInv
<1>2. ASSUME NEW list \in SendLists, Refuse(list)
      PROVE  LimiterInv'
  <2>1. UNCHANGED <<limits, used, admitted, lostExpiries>>
        /\ \A b \in Buckets : ttl'[b] = ttl[b] \/ (ttl[b] < 0 /\ ttl'[b] = Window)
    BY <1>1, <1>2 DEF Refuse, LimiterTypeOK
  <2>2. LimiterTypeOK'
    <3>1. PICK b, rest : ttl' = [ttl EXCEPT ![b] = rest]
      BY <1>2 DEF Refuse
    <3>2. ttl' = [c \in Buckets |-> ttl'[c]]
      BY <1>1, <3>1 DEF LimiterTypeOK
    <3>3. \A c \in Buckets : ttl'[c] \in {-2, -1} \cup 1..Window
      <4>1. \A c \in Buckets : ttl[c] \in {-2, -1} \cup 1..Window
        BY <1>1 DEF LimiterTypeOK
      <4>2. Window \in 1..Window
        OBVIOUS
      <4> QED BY <2>1, <4>1, <4>2
    <3> QED BY <1>1, <2>1, <3>2, <3>3 DEF LimiterTypeOK
  <2>3. ASSUME NEW b \in Buckets PROVE BucketSound(b)'
    BY <1>1, <2>1, SMTT(20) DEF LimiterInv, BucketSound, LimiterTypeOK
  <2> QED BY <2>2, <2>3 DEF LimiterInv
<1>3. ASSUME NEW list \in SendLists, Admit(list)
      PROVE  LimiterInv'
  <2>1. LimiterTypeOK'
    BY <1>1, <1>3, SMTT(20) DEF Admit, LimiterTypeOK
  <2>2. ASSUME NEW b \in Buckets PROVE BucketSound(b)'
    <3>1. CASE b \notin list
      BY <1>1, <1>3, <3>1 DEF Admit, LimiterInv, BucketSound, LimiterTypeOK
    <3>2. CASE b \in list
      <4>1. used[b] < limits[b]
        BY <1>1, <1>3, <3>2 DEF Admit, Full, LimiterTypeOK
      <4>2. /\ used'[b] = used[b] + 1 /\ \A a \in Ages : admitted'[b][a] = admitted[b][a] + 1
            /\ ttl'[b] = (IF ttl[b] < 0 THEN Window ELSE ttl[b])
            /\ UNCHANGED <<limits, lostExpiries>>
        BY <1>3, <3>2 DEF Admit
      <4>3. /\ used[b] \in Nat /\ limits[b] \in Nat /\ \A a \in Ages : admitted[b][a] \in Nat
            /\ ttl[b] \in {-2, -1} \cup 1..Window /\ BucketSound(b) /\ lostExpiries \in Nat
        BY <1>1 DEF LimiterTypeOK, LimiterInv
      <4> QED BY <4>1, <4>2, <4>3 DEF BucketSound
    <3> QED BY <3>1, <3>2
  <2> QED BY <2>1, <2>2 DEF LimiterInv
<1>4. CASE Second
  <2>1. LimiterTypeOK'
    BY <1>1, <1>4, SMTT(20) DEF Second, LimiterTypeOK
  <2>2. ASSUME NEW b \in Buckets PROVE BucketSound(b)'
    <3>1. /\ used'[b] = (IF ttl[b] = 1 THEN 0 ELSE used[b])
          /\ ttl'[b] = (IF ttl[b] = 1 THEN -2 ELSE IF ttl[b] > 1 THEN ttl[b] - 1 ELSE ttl[b])
          /\ \A a \in Ages : admitted'[b][a] = IF a = 0 THEN 0 ELSE admitted[b][a - 1]
          /\ UNCHANGED <<limits, lostExpiries>>
      BY <1>4 DEF Second
    <3>2. /\ used[b] \in Nat /\ limits[b] \in Nat /\ \A a \in Ages : admitted[b][a] \in Nat
          /\ ttl[b] \in {-2, -1} \cup 1..Window /\ BucketSound(b) /\ lostExpiries \in Nat
      BY <1>1 DEF LimiterTypeOK, LimiterInv
    <3>3. \A a, c \in Ages : a <= c => admitted'[b][a] <= admitted'[b][c]
      BY <3>1, <3>2 DEF BucketSound
    <3>4. admitted'[b][Window - 1] <= admitted[b][Window - 1] /\ admitted'[b][0] = 0
      BY <3>1, <3>2 DEF BucketSound
    <3>5. CASE ttl[b] = 1
      BY <3>1, <3>2, <3>3, <3>4, <3>5 DEF BucketSound
    <3>6. CASE ttl[b] > 1
      <4>1. admitted'[b][Window - (ttl[b] - 1)] = admitted[b][Window - ttl[b]]
        BY <3>1, <3>2, <3>6
      <4> QED BY <3>1, <3>2, <3>3, <3>4, <3>6, <4>1 DEF BucketSound
    <3>7. CASE ttl[b] < 0
      BY <3>1, <3>2, <3>3, <3>4, <3>7 DEF BucketSound
    <3> QED BY <3>2, <3>5, <3>6, <3>7
  <2> QED BY <2>1, <2>2 DEF LimiterInv
<1>5. ASSUME NEW c \in Buckets, LoseExpiry(c)
      PROVE  LimiterInv'
  <2>1. LimiterTypeOK'
    BY <1>1, <1>5 DEF LoseExpiry, LimiterTypeOK
  <2>2. ASSUME NEW b \in Buckets PROVE BucketSound(b)'
    <3>1. BucketSound(b) /\ ttl[b] \in {-2, -1} \cup 1..Window
      BY <1>1 DEF LimiterTypeOK, LimiterInv
    <3>2. CASE b = c
      <4>1. ttl'[b] = -1 /\ ttl[b] > 0 /\ lostExpiries' > 0 /\ UNCHANGED <<limits, used, admitted>>
        BY <1>1, <1>5, <3>2 DEF LoseExpiry, LimiterTypeOK
      <4>2. admitted[b][0] <= admitted[b][Window - ttl[b]]
        BY <3>1, <4>1 DEF BucketSound
      <4>3. admitted[b][0] \in Nat /\ admitted[b][Window - ttl[b]] \in Nat /\ used[b] \in Nat
        BY <1>1, <3>1, <4>1, SMTT(20) DEF LimiterTypeOK
      <4> QED BY <3>1, <4>1, <4>2, <4>3 DEF BucketSound
    <3>3. CASE b # c
      <4>1. ttl'[b] = ttl[b] /\ lostExpiries' > 0 /\ UNCHANGED <<limits, used, admitted>>
        BY <1>1, <1>5, <3>3 DEF LoseExpiry, LimiterTypeOK
      <4> QED BY <3>1, <4>1 DEF BucketSound
    <3> QED BY <3>2, <3>3
  <2> QED BY <2>1, <2>2 DEF LimiterInv
<1>6. CASE UNCHANGED limiterVars
  BY <1>6 DEF limiterVars, LimiterInv, LimiterTypeOK, BucketSound
<1> QED BY <1>2, <1>3, <1>4, <1>5, <1>6 DEF LimiterNext, CheckAndIncrement

\* The counts of the limiter (check_and_increment) are sound in every behaviour.
THEOREM LimiterInvariant == LimiterSpec => []LimiterInv
<1>1. LimiterInit => LimiterInv
  BY LimiterAssumption
  DEF LimiterInit, LimiterInv, LimiterTypeOK, BucketSound, Ages, NoExpiry, KeyAbsent
<1> QED BY <1>1, LimiterStep, PTL DEF LimiterSpec

(***************************************************************************)
(* For any buckets, limits and window: a bucket admits at most twice its   *)
(* limit in any window's length, whatever expiry is lost, and counts no    *)
(* send that was refused by another bucket.                                *)
(***************************************************************************)
THEOREM LimiterHoldsItsLimits == LimiterSpec => []LimitsHold
<1>1. LimiterInv => LimitsHold
  BY LimiterAssumption
  DEF LimiterInv, LimiterTypeOK, BucketSound, LimitsHold, TwoWindowsAMinute, CountsOnlyAdmitted,
      Ages, NoExpiry, KeyAbsent
<1> QED BY <1>1, LimiterInvariant, PTL

-----------------------------------------------------------------------------
(* The retry policy.                                                       *)

\* The library counts the subsets of a set; from that, how powers of two grow.
LEMMA PowersDouble == 2 ^ 0 = 1 /\ \A n \in Nat : 2 ^ n \in Nat /\ 2 ^ (n + 1) = 2 * 2 ^ n
<1>1. \A n \in Nat : /\ IsFiniteSet(SUBSET (1..n)) /\ Cardinality(SUBSET (1..n)) = 2 ^ n
                     /\ Cardinality(SUBSET (1..n)) \in Nat
  <2> SUFFICES ASSUME NEW n \in Nat
               PROVE  /\ IsFiniteSet(SUBSET (1..n)) /\ Cardinality(SUBSET (1..n)) = 2 ^ n
                      /\ Cardinality(SUBSET (1..n)) \in Nat
    OBVIOUS
  <2>1. IsFiniteSet(1..n) /\ Cardinality(1..n) = n
    BY FS_Interval
  <2>2. IsFiniteSet(SUBSET (1..n)) /\ Cardinality(SUBSET (1..n)) = 2 ^ Cardinality(1..n)
    BY <2>1, FS_SUBSET, Zenon
  <2> QED BY <2>1, <2>2, FS_CardinalityType, Zenon
<1>2. 2 ^ 0 = 1
  <2>1. Cardinality(SUBSET (1..0)) = 2 ^ 0
    BY <1>1, Zenon
  <2>2. SUBSET (1..0) = {{}}
    OBVIOUS
  <2>3. Cardinality({{}}) = 1
    BY FS_Singleton
  <2> QED BY <2>1, <2>2, <2>3, Zenon
<1>3. ASSUME NEW n \in Nat
      PROVE  Cardinality(SUBSET (1..(n + 1))) = 2 * Cardinality(SUBSET (1..n))
  <2> DEFINE Small == SUBSET (1..n)
             Large == {X \cup {n + 1} : X \in Small}
             f == [X \in Small |-> X \cup {n + 1}]
  <2>1. SUBSET (1..(n + 1)) = Small \cup Large
    <3>1. 1..(n + 1) = (1..n) \cup {n + 1}
      OBVIOUS
    <3>2. ASSUME NEW Y \in SUBSET (1..(n + 1)), n + 1 \in Y PROVE Y \in Large
      <4>1. Y \ {n + 1} \in Small /\ (Y \ {n + 1}) \cup {n + 1} = Y
        BY <3>1, <3>2
      <4> QED BY <4>1
    <3> QED BY <3>1, <3>2
  <2>2. Small \cap Large = {}
    <3>1. n + 1 \notin 1..n
      OBVIOUS
    <3> QED BY <3>1
  <2>3. f \in Bijection(Small, Large)
    <3>1. n + 1 \notin 1..n
      OBVIOUS
    <3>2. f \in [Small -> Large] /\ \A Y \in Large : \E X \in Small : f[X] = Y
      OBVIOUS
    <3>3. \A X, Y \in Small : f[X] = f[Y] => X = Y
      <4> SUFFICES ASSUME NEW X \in Small, NEW Y \in Small, X \cup {n + 1} = Y \cup {n + 1}
                   PROVE  X = Y
        OBVIOUS
      <4>1. X = (X \cup {n + 1}) \ {n + 1} /\ Y = (Y \cup {n + 1}) \ {n + 1}
        BY <3>1
      <4> QED BY <4>1
    <3> HIDE DEF f
    <3> QED BY <3>2, <3>3 DEF Bijection, Injection, Surjection, IsInjective
  <2> HIDE DEF Small, Large, f
  <2>4. IsFiniteSet(Small) /\ Cardinality(Small) \in Nat
    BY <1>1 DEF Small
  <2>5. IsFiniteSet(Large) /\ Cardinality(Large) = Cardinality(Small)
    BY <2>3, <2>4, FS_Bijection DEF ExistsBijection
  <2>6. Cardinality({}) = 0
    BY FS_EmptySet
  <2>7. Cardinality(Small \cup Large) =
          Cardinality(Small) + Cardinality(Large) - Cardinality(Small \cap Large)
    BY <2>4, <2>5, FS_Union
  <2>8. Cardinality(Small \cup Large) = Cardinality(Small) + Cardinality(Small) - 0
    BY <2>2, <2>5, <2>6, <2>7, Zenon
  <2>9. Cardinality(Small \cup Large) = 2 * Cardinality(Small)
    BY <2>4, <2>8
  <2> QED BY <2>1, <2>9, Zenon DEF Small
<1>4. ASSUME NEW n \in Nat
      PROVE  2 ^ n \in Nat /\ 2 ^ (n + 1) = 2 * 2 ^ n
  <2>1. n + 1 \in Nat
    OBVIOUS
  <2> QED BY <1>1, <1>3, <2>1, Zenon
<1> QED BY <1>2, <1>4

\* The delay by repeated doubling is the one by a power of two, and the budget bounds the
\* attempts.
PolicyInv ==
  /\ PolicyTypeOK
  /\ BudgetSpentExactly
  /\ decided = "sending" => attempt <= AtLeast(1, budget)
  /\ doubled = AtMost(AtLeast(AtLeast(0, base), cap), AtLeast(0, base) * 2 ^ (attempt - 1))
  /\ DelayDoublesToItsBound

\* Doubling and bounding come to the same in either order.
LEMMA BoundedDoubling ==
  ASSUME NEW b \in Nat, NEW high \in Nat, NEW n \in Nat
  PROVE  /\ b * 2 ^ n \in Nat
         /\ AtMost(high, b * 2 ^ (n + 1)) = AtMost(high, 2 * AtMost(high, b * 2 ^ n))
<1>1. 2 ^ n \in Nat /\ 2 ^ (n + 1) = 2 * 2 ^ n
  BY PowersDouble
<1>2. \A p \in Nat : b * p \in Nat /\ b * (2 * p) = 2 * (b * p)
  OBVIOUS
<1>3. b * 2 ^ n \in Nat /\ b * 2 ^ (n + 1) = 2 * (b * 2 ^ n)
  BY <1>1, <1>2, Zenon
<1>4. \A x \in Nat : AtMost(high, 2 * x) = AtMost(high, 2 * AtMost(high, x))
  BY DEF AtMost
<1> QED BY <1>3, <1>4, Zenon

\* The wait decided is the observer's.
LEMMA BackoffIsDoubled == PolicyInv => Backoff(attempt) = Seconds(doubled) /\ Seconds(doubled) \in Nat
<1> SUFFICES ASSUME PolicyInv PROVE Backoff(attempt) = Seconds(doubled) /\ Seconds(doubled) \in Nat
  OBVIOUS
<1> DEFINE b == AtLeast(0, base)
<1>1. b \in Nat /\ attempt \in Nat \ {0} /\ doubled \in Nat /\ cap \in Nat
  BY DEF PolicyInv, PolicyTypeOK, AtLeast
<1>2. AtLeast(0, attempt - 1) = attempt - 1
  BY <1>1 DEF AtLeast
<1>3. doubled = AtMost(AtLeast(b, cap), b * 2 ^ (attempt - 1))
  BY DEF PolicyInv
<1>4. Seconds(doubled) \in Nat
  BY <1>1 DEF Seconds
<1>5. CASE b = 0
  <2>1. attempt - 1 \in Nat /\ AtLeast(b, cap) \in Nat
    BY <1>1 DEF AtLeast
  <2>2. 2 ^ (attempt - 1) \in Nat
    BY <2>1, PowersDouble
  <2>3. b * 2 ^ (attempt - 1) = 0
    BY <1>5, <2>2
  <2>4. doubled = 0
    BY <1>3, <2>1, <2>3 DEF AtMost
  <2> QED BY <1>4, <1>5, <2>4 DEF Backoff, Seconds
<1>6. CASE b # 0
  BY <1>2, <1>3, <1>4, <1>6 DEF Backoff
<1> QED BY <1>5, <1>6

LEMMA PolicyStep == PolicyInv /\ [PolicyNext]_policyVars => PolicyInv'
<1> SUFFICES ASSUME PolicyInv, [PolicyNext]_policyVars PROVE PolicyInv'
  OBVIOUS
<1>1. /\ PolicyTypeOK /\ BudgetSpentExactly /\ DelayDoublesToItsBound
      /\ decided = "sending" => attempt <= AtLeast(1, budget)
      /\ doubled = AtMost(AtLeast(AtLeast(0, base), cap), AtLeast(0, base) * 2 ^ (attempt - 1))
  BY DEF PolicyInv
<1>2. ASSUME NEW code \in Codes, NEW seconds \in Asked, CallFails(code, seconds)
      PROVE  PolicyInv'
  <2>1. /\ decided = "sending" /\ asked' = seconds
        /\ decided' = Decision(code, seconds).status /\ delay' = Decision(code, seconds).delay
        /\ UNCHANGED <<base, cap, budget, attempt, doubled>>
    BY <1>2 DEF CallFails
  <2>2. Backoff(attempt) = Seconds(doubled) /\ Seconds(doubled) \in Nat
    BY BackoffIsDoubled
  <2>3. seconds \in Int
    BY PolicyAssumption
  <2>4. \/ decided' = "blocked" /\ delay' = 0
        \/ decided' = "dead_letter" /\ delay' = 0 /\ Exhausted
        \/ /\ decided' = "deferred" /\ ~Exhausted
           /\ delay' = IF seconds > 0 THEN seconds ELSE Seconds(doubled)
    BY <2>1, <2>2 DEF Decision
  <2>5. PolicyTypeOK'
    BY <1>1, <2>1, <2>2, <2>3, <2>4 DEF PolicyTypeOK
  <2>6. BudgetSpentExactly'
    BY <1>1, <2>1, <2>4 DEF BudgetSpentExactly, Exhausted, PolicyTypeOK, AtLeast
  <2>7. DelayDoublesToItsBound'
    BY <2>1, <2>4 DEF DelayDoublesToItsBound, Seconds
  <2> QED BY <1>1, <2>1, <2>4, <2>5, <2>6, <2>7 DEF PolicyInv
<1>3. ASSUME NextAttempt
      PROVE  PolicyInv'
  <2> DEFINE b == AtLeast(0, base)
             high == AtLeast(b, cap)
  <2>1. /\ decided = "deferred" /\ decided' = "sending" /\ attempt' = attempt + 1
        /\ doubled' = AtMost(high, 2 * doubled)
        /\ UNCHANGED <<base, cap, budget, delay, asked>>
    BY <1>3 DEF NextAttempt
  <2>2. b \in Nat /\ high \in Nat /\ attempt \in Nat \ {0} /\ attempt - 1 \in Nat /\ doubled \in Nat
    BY <1>1 DEF PolicyTypeOK, AtLeast
  <2>3. PolicyTypeOK'
    BY <1>1, <2>1, <2>2 DEF PolicyTypeOK, AtMost
  <2>4. attempt' <= AtLeast(1, budget)
    BY <1>1, <2>1, <2>2 DEF BudgetSpentExactly, PolicyTypeOK, AtLeast
  <2>5. doubled' = AtMost(high, b * 2 ^ (attempt' - 1))
    <3>1. attempt' - 1 = (attempt - 1) + 1
      BY <2>1, <2>2
    <3>2. AtMost(high, b * 2 ^ ((attempt - 1) + 1)) = AtMost(high, 2 * AtMost(high, b * 2 ^ (attempt - 1)))
      <4> DEFINE n == attempt - 1
      <4>1. b \in Nat /\ high \in Nat /\ n \in Nat
        BY <2>2
      <4> HIDE DEF b, high, n
      <4>2. AtMost(high, b * 2 ^ (n + 1)) = AtMost(high, 2 * AtMost(high, b * 2 ^ n))
        BY <4>1, BoundedDoubling
      <4> QED BY <4>2 DEF n
    <3> QED BY <1>1, <2>1, <3>1, <3>2, Zenon
  <2>6. b' = b /\ high' = high
    BY <2>1
  <2> QED BY <2>1, <2>3, <2>4, <2>5, <2>6 DEF PolicyInv, BudgetSpentExactly, DelayDoublesToItsBound
<1>4. CASE UNCHANGED policyVars
  BY <1>1, <1>4 DEF policyVars, PolicyInv, PolicyTypeOK, BudgetSpentExactly, DelayDoublesToItsBound
<1> QED BY <1>2, <1>3, <1>4 DEF PolicyNext

\* What RetryPolicyProvider decides and waits is sound in every behaviour.
THEOREM PolicyInvariant == PolicySpec => []PolicyInv
<1>1. PolicyInit => PolicyInv
  <2> SUFFICES ASSUME PolicyInit PROVE PolicyInv
    OBVIOUS
  <2>1. /\ base \in -1..MaxBase /\ cap \in Nat /\ budget \in Nat /\ doubled = AtLeast(0, base)
        /\ attempt = 1 /\ decided = "sending" /\ delay = 0 /\ asked = 0
    BY PolicyAssumption DEF PolicyInit
  <2>2. base \in Int /\ AtLeast(0, base) \in Nat
    BY <2>1, PolicyAssumption DEF AtLeast
  <2>3. PolicyTypeOK /\ BudgetSpentExactly /\ DelayDoublesToItsBound /\ attempt <= AtLeast(1, budget)
    BY <2>1, <2>2 DEF PolicyTypeOK, BudgetSpentExactly, DelayDoublesToItsBound, AtLeast
  <2>4. AtLeast(0, base) * 2 ^ (attempt - 1) = AtLeast(0, base)
    <3>1. attempt - 1 = 0
      BY <2>1
    <3>2. 2 ^ (attempt - 1) = 1
      BY <3>1, PowersDouble, Zenon
    <3> QED BY <2>2, <3>2
  <2>5. doubled = AtMost(AtLeast(AtLeast(0, base), cap), AtLeast(0, base))
    BY <2>1, <2>2 DEF AtMost, AtLeast
  <2> QED BY <2>3, <2>4, <2>5 DEF PolicyInv
<1> QED BY <1>1, PolicyStep, PTL DEF PolicySpec

(***************************************************************************)
(* For any settings and answers: the budget is spent exactly, and the      *)
(* waits follow Telegram or double to their bound.                         *)
(***************************************************************************)
THEOREM RetriesKeepTheirBounds == PolicySpec => []RetriesStayInBounds
<1>1. PolicyInv => RetriesStayInBounds
  BY DEF PolicyInv, RetriesStayInBounds
<1> QED BY <1>1, PolicyInvariant, PTL

-----------------------------------------------------------------------------
(* Units of work.                                                          *)

\* Whoever is inside by the Redis lock owns it until it lapses; whoever is inside by a
\* lock of its process holds that lock, though failed closes leave such locks behind.
LockHeld ==
  \A u \in Units :
    /\ Inside(u) /\ uow[u].lock = "redis" /\ ~uow[u].lapsed => owner = u
    /\ Inside(u) /\ uow[u].lock = "local" => localLock[Home[u]] = u

\* Writes are open in a body only.
PendingInBody == \A u \in Units : (uow[u].pending => uow[u].at = "body") /\ ~uow[u].lost

UnitInv == UnitTypeOK /\ LockHeld /\ PendingInBody

LEMMA UnitInitHolds == UnitInit => UnitInv
  BY UnitAssumption DEF UnitInit, UnitInv, UnitTypeOK, LockHeld, PendingInBody, Unit, Out, Inside

\* What a step of one unit makes of its record is a record of the kind.
LEMMA UnitMoves ==
  ASSUME NEW x \in Unit
  PROVE  /\ 0 \in 0..LockWait /\ Out \in Unit /\ [Out EXCEPT !.at = "waiting"] \in Unit
         /\ [x EXCEPT !.lock = "local", !.waited = 0] \in Unit
         /\ [x EXCEPT !.at = "body", !.waited = 0] \in Unit
         /\ [x EXCEPT !.pending = TRUE] \in Unit
         /\ [x EXCEPT !.pending = FALSE, !.completed = TRUE] \in Unit
         /\ [x EXCEPT !.at = "closing", !.pending = FALSE, !.completed = FALSE] \in Unit
         /\ [Out EXCEPT !.lost = x.pending] \in Unit
<1>1. 0 \in 0..LockWait
  BY UnitAssumption
<1>2. Out \in Unit
  BY <1>1 DEF Out, Unit
<1>3. [Out EXCEPT !.at = "waiting"] \in Unit /\ [Out EXCEPT !.lost = x.pending] \in Unit
  BY <1>2 DEF Unit
<1> QED
  BY <1>1, <1>2, <1>3 DEF Unit

\* The state stays well typed: a lock in Redis has time left exactly while it is owned.
LEMMA UnitTypeStep == UnitTypeOK /\ [UnitNext]_unitVars => UnitTypeOK'
<1> SUFFICES ASSUME UnitTypeOK, [UnitNext]_unitVars PROVE UnitTypeOK'
  OBVIOUS
<1>1. CASE UNCHANGED unitVars
  BY <1>1 DEF unitVars, UnitTypeOK
<1>2. ASSUME NEW u \in Units,
             Enter(u) \/ FallBack(u) \/ GiveUp(u) \/ BodyWrites(u) \/ BodyCommits(u)
               \/ LeaveWell(u) \/ LeaveRaising(u)
      PROVE  UnitTypeOK'
  <2>1. uow[u] \in Unit
    BY DEF UnitTypeOK
  <2>2. uow'[u] \in Unit
    <3>1. CASE Enter(u)
      <4>1. uow'[u] = [Out EXCEPT !.at = "waiting"]
        BY <3>1 DEF Enter, Unit, UnitTypeOK
      <4> QED
        BY <4>1, UnitMoves, <2>1
    <3>2. CASE FallBack(u)
      <4>1. uow'[u] = [uow[u] EXCEPT !.lock = "local", !.waited = 0]
        BY <3>2 DEF FallBack, Unit, UnitTypeOK
      <4> QED
        BY <4>1, UnitMoves, <2>1
    <3>3. CASE GiveUp(u)
      <4>1. uow'[u] = Out
        BY <3>3 DEF GiveUp, Unit, UnitTypeOK
      <4> QED
        BY <4>1, UnitMoves, <2>1
    <3>4. CASE BodyWrites(u)
      <4>1. uow'[u] = [uow[u] EXCEPT !.pending = TRUE]
        BY <3>4 DEF BodyWrites, Unit, UnitTypeOK
      <4> QED
        BY <4>1, UnitMoves, <2>1
    <3>5. CASE BodyCommits(u)
      <4>1. uow'[u] = [uow[u] EXCEPT !.pending = FALSE, !.completed = TRUE]
        BY <3>5 DEF BodyCommits, Unit, UnitTypeOK
      <4> QED
        BY <4>1, UnitMoves, <2>1
    <3>6. CASE LeaveWell(u) \/ LeaveRaising(u)
      <4>1. uow'[u] = [uow[u] EXCEPT !.at = "closing", !.pending = FALSE, !.completed = FALSE]
        BY <3>6 DEF LeaveWell, LeaveRaising, Unit, UnitTypeOK
      <4> QED
        BY <4>1, UnitMoves, <2>1
    <3> QED
      BY <1>2, <3>1, <3>2, <3>3, <3>4, <3>5, <3>6
  <2>3. /\ uow' = [uow EXCEPT ![u] = uow'[u]]
        /\ UNCHANGED <<owner, left, localLock, reach, outages, mishaps>>
    BY <1>2 DEF Enter, FallBack, GiveUp, BodyWrites, BodyCommits, LeaveWell, LeaveRaising, UnitTypeOK
  <2> QED
    BY <2>2, <2>3 DEF UnitTypeOK
<1>3. ASSUME NEW u \in Units, AcquireRedis(u) \/ AcquireLocal(u) PROVE UnitTypeOK'
  <2>1. uow'[u] = [uow[u] EXCEPT !.at = "body", !.waited = 0]
    BY <1>3 DEF AcquireRedis, AcquireLocal, Unit, UnitTypeOK
  <2>2. uow'[u] \in Unit
    BY <2>1, UnitMoves DEF UnitTypeOK
  <2>3. uow' = [uow EXCEPT ![u] = uow'[u]]
    BY <1>3 DEF AcquireRedis, AcquireLocal, UnitTypeOK
  <2> QED
    BY <1>3, <2>2, <2>3, UnitAssumption DEF AcquireRedis, AcquireLocal, UnitTypeOK
<1>4. ASSUME NEW u \in Units, ReleaseRedis(u) \/ ReleaseLocal(u) \/ CloseFails(u)
      PROVE  UnitTypeOK'
  <2>1. uow' = [uow EXCEPT ![u] = Closed(u)] /\ Closed(u) \in Unit
    BY <1>4, UnitMoves DEF ReleaseRedis, ReleaseLocal, CloseFails, Closed, UnitTypeOK
  <2>2. uow' \in [Units -> Unit]
    BY <2>1 DEF UnitTypeOK
  <2> QED
    BY <1>4, <2>2, UnitAssumption DEF ReleaseRedis, ReleaseLocal, CloseFails, UnitTypeOK
<1>5. ASSUME NEW p \in Processes, ProcessDies(p) \/ ReachChanges(p) PROVE UnitTypeOK'
  <2>1. Out \in Unit
    BY UnitAssumption DEF Out, Unit
  <2> QED
    BY <1>5, <2>1, UnitAssumption DEF ProcessDies, ReachChanges, UnitTypeOK
<1>6. CASE UnitClock
  <2>1. ASSUME NEW u \in Units PROVE uow'[u] \in Unit
    <3>1. uow[u] \in Unit
      BY DEF UnitTypeOK
    <3>2. CASE uow[u].at = "waiting"
      <4>1. uow'[u] = [uow[u] EXCEPT !.waited = @ + 1] /\ uow[u].waited < LockWait
        BY <1>6, <3>2 DEF UnitClock, Inside
      <4>2. uow[u].waited + 1 \in 0..LockWait
        BY <3>1, <4>1, UnitAssumption DEF Unit
      <4> QED
        BY <3>1, <4>1, <4>2 DEF Unit
    <3>3. CASE uow[u].at # "waiting"
      <4>1. uow'[u] \in {uow[u], [uow[u] EXCEPT !.lapsed = TRUE]}
        BY <1>6, <3>3 DEF UnitClock
      <4> QED
        BY <3>1, <4>1 DEF Unit
    <3> QED
      BY <3>2, <3>3
  <2>2. uow' \in [Units -> Unit]
    BY <1>6, <2>1 DEF UnitClock
  <2> QED
    BY <1>6, <2>2, UnitAssumption DEF UnitClock, UnitTypeOK
<1> QED
  BY <1>1, <1>2, <1>3, <1>4, <1>5, <1>6 DEF UnitNext

\* Nobody loses a lock to another but by its lapse.
LEMMA LockHeldStep == UnitTypeOK /\ LockHeld /\ [UnitNext]_unitVars => LockHeld'
<1> SUFFICES ASSUME UnitTypeOK, LockHeld, [UnitNext]_unitVars PROVE LockHeld'
  OBVIOUS
<1> USE UnitAssumption DEF UnitTypeOK, Unit, Out, LockHeld, Inside
<1>1. CASE UNCHANGED unitVars
  BY <1>1 DEF unitVars
<1>2. ASSUME NEW u \in Units,
             Enter(u) \/ FallBack(u) \/ GiveUp(u) \/ BodyWrites(u) \/ BodyCommits(u)
               \/ LeaveWell(u) \/ LeaveRaising(u)
      PROVE  LockHeld'
  <2>1. ASSUME NEW v \in Units, Inside(v)'
        PROVE  Inside(v) /\ uow'[v].lock = uow[v].lock /\ uow'[v].lapsed = uow[v].lapsed
    <3>1. CASE v # u
      BY <1>2, <2>1, <3>1
      DEF Enter, FallBack, GiveUp, BodyWrites, BodyCommits, LeaveWell, LeaveRaising
    <3>2. CASE v = u /\ (Enter(u) \/ FallBack(u) \/ GiveUp(u))
      BY <2>1, <3>2 DEF Enter, FallBack, GiveUp
    <3>3. CASE v = u /\ (BodyWrites(u) \/ BodyCommits(u))
      BY <2>1, <3>3 DEF BodyWrites, BodyCommits
    <3>4. CASE v = u /\ (LeaveWell(u) \/ LeaveRaising(u))
      BY <2>1, <3>4 DEF LeaveWell, LeaveRaising
    <3> QED
      BY <1>2, <3>1, <3>2, <3>3, <3>4
  <2>2. UNCHANGED <<owner, localLock>>
    BY <1>2 DEF Enter, FallBack, GiveUp, BodyWrites, BodyCommits, LeaveWell, LeaveRaising
  <2> QED
    BY <2>1, <2>2

\* Nobody is inside by a lock that is free: the newcomer is alone with it.
<1>3. ASSUME NEW u \in Units, AcquireRedis(u) \/ AcquireLocal(u) PROVE LockHeld'
  BY <1>3 DEF AcquireRedis, AcquireLocal
<1>4. ASSUME NEW u \in Units, ReleaseRedis(u) \/ ReleaseLocal(u) \/ CloseFails(u)
      PROVE  LockHeld'
  BY <1>4 DEF ReleaseRedis, ReleaseLocal, CloseFails, Closed

\* A dead process takes its units with its lock.
<1>5. ASSUME NEW p \in Processes, ProcessDies(p) \/ ReachChanges(p) PROVE LockHeld'
  BY <1>5 DEF ProcessDies, ReachChanges
<1>6. CASE UnitClock
  BY <1>6 DEF UnitClock
<1> QED
  BY <1>1, <1>2, <1>3, <1>4, <1>5, <1>6 DEF UnitNext

\* However a body is left, its transaction ends before its session is closed.
LEMMA PendingStep == UnitTypeOK /\ PendingInBody /\ [UnitNext]_unitVars => PendingInBody'
<1> SUFFICES ASSUME UnitTypeOK, PendingInBody, [UnitNext]_unitVars PROVE PendingInBody'
  OBVIOUS
<1> USE DEF UnitTypeOK, Unit, Out, PendingInBody
<1>1. CASE UNCHANGED unitVars
  BY <1>1 DEF unitVars
<1>2. ASSUME NEW u \in Units,
             Enter(u) \/ AcquireRedis(u) \/ FallBack(u) \/ AcquireLocal(u) \/ GiveUp(u)
      PROVE  PendingInBody'
  BY <1>2 DEF Enter, AcquireRedis, FallBack, AcquireLocal, GiveUp
<1>3. ASSUME NEW u \in Units,
             BodyWrites(u) \/ BodyCommits(u) \/ LeaveWell(u) \/ LeaveRaising(u)
      PROVE  PendingInBody'
  BY <1>3 DEF BodyWrites, BodyCommits, LeaveWell, LeaveRaising
<1>4. ASSUME NEW u \in Units, ReleaseRedis(u) \/ ReleaseLocal(u) \/ CloseFails(u)
      PROVE  PendingInBody'
  BY <1>4 DEF ReleaseRedis, ReleaseLocal, CloseFails, Closed
<1>5. ASSUME NEW p \in Processes, ProcessDies(p) \/ ReachChanges(p) PROVE PendingInBody'
  BY <1>5 DEF ProcessDies, ReachChanges
<1>6. CASE UnitClock
  BY <1>6 DEF UnitClock
<1> QED
  BY <1>1, <1>2, <1>3, <1>4, <1>5, <1>6 DEF UnitNext

\* The invariant holds in every behaviour.
THEOREM UnitInvariant == UnitSpec => []UnitInv
<1>1. UnitInit => UnitInv
  BY UnitInitHolds
<1>2. UnitInv /\ [UnitNext]_unitVars => UnitInv'
  BY UnitTypeStep, LockHeldStep, PendingStep DEF UnitInv
<1> QED
  BY <1>1, <1>2, PTL DEF UnitSpec

\* Two units of work (UnitOfWork.__aenter__) are inside together only after a lapse or by
\* different locks.
THEOREM WritersExclude == UnitSpec => []OneWriterWhileLocksLast
<1>1. UnitInv => OneWriterWhileLocksLast
  BY DEF UnitInv, UnitTypeOK, Unit, LockHeld, OneWriterWhileLocksLast, Inside
<1> QED
  BY <1>1, UnitInvariant, PTL

\* UnitOfWork.__aexit__ closes no session over writes that were neither committed nor
\* rolled back.
THEOREM WritesAreEnded == UnitSpec => []NoWritesDropped
<1>1. UnitInv => NoWritesDropped
  BY DEF UnitInv, PendingInBody, NoWritesDropped
<1> QED
  BY <1>1, UnitInvariant, PTL

\* Both promises of a unit of work hold for any number of processes and units, however
\* long bodies take.
THEOREM UnitsHold == UnitSpec => []UnitsOfWorkHold
<1> QED
  BY WritersExclude, WritesAreEnded, PTL DEF UnitsOfWorkHold

-----------------------------------------------------------------------------
(* The event stream.                                                       *)

\* An id never outruns the list it counts, unless the list was lost; what was sent is there.
PageSound(p) ==
  /\ page[p].lastEventId \in Nat /\ stream[p].next \in Nat
  /\ page[p].outlived => page[p].lastEventId > 0
  /\ stream[p].sent => stream[p].open /\ stream[p].next \in 1..Len(bus)
  /\ ~page[p].outlived =>
       /\ page[p].lastEventId <= Len(bus)
       /\ page[p].shown = SubSeq(bus, 1, page[p].lastEventId)
       /\ stream[p].open =>
            stream[p].next = page[p].lastEventId + (IF stream[p].sent THEN 1 ELSE 0)

EventInv ==
  /\ published \in Nat /\ bus \in Seq(Nat)
  /\ page \in [Pages -> [lastEventId : Nat, shown : Seq(Nat), outlived : BOOLEAN]]
  /\ stream \in [Pages -> [open : BOOLEAN, next : Nat, sent : BOOLEAN]]
  /\ \A p \in Pages : PageSound(p)

\* A list that grows keeps its beginning, and grows by one element at a time.
LEMMA BeginningsGrow ==
  ASSUME NEW S, NEW s \in Seq(S), NEW n \in 0..Len(s)
  PROVE  /\ \A x \in S : SubSeq(Append(s, x), 1, n) = SubSeq(s, 1, n)
         /\ n < Len(s) => Append(SubSeq(s, 1, n), s[n + 1]) = SubSeq(s, 1, n + 1)
<1>1. ASSUME NEW x \in S PROVE SubSeq(Append(s, x), 1, n) = SubSeq(s, 1, n)
  OBVIOUS
<1>2. ASSUME n < Len(s) PROVE Append(SubSeq(s, 1, n), s[n + 1]) = SubSeq(s, 1, n + 1)
  BY <1>2
<1> QED BY <1>1, <1>2

LEMMA EventStep == EventInv /\ [EventNext]_eventVars => EventInv'
<1> SUFFICES ASSUME EventInv, [EventNext]_eventVars PROVE EventInv'
  OBVIOUS
<1>1. /\ published \in Nat /\ bus \in Seq(Nat)
      /\ page \in [Pages -> [lastEventId : Nat, shown : Seq(Nat), outlived : BOOLEAN]]
      /\ stream \in [Pages -> [open : BOOLEAN, next : Nat, sent : BOOLEAN]]
      /\ \A p \in Pages : PageSound(p)
  BY DEF EventInv
<1>2. CASE Publish
  <2>1. bus' = Append(bus, published + 1) /\ published' = published + 1 /\ UNCHANGED <<page, stream>>
    BY <1>2 DEF Publish
  <2>2. bus' \in Seq(Nat) /\ Len(bus') = Len(bus) + 1 /\ Len(bus) \in Nat
    BY <1>1, <2>1
  <2>3. ASSUME NEW p \in Pages PROVE PageSound(p)'
    <3>1. PageSound(p)
      BY <1>1
    <3>2. ASSUME ~page[p].outlived PROVE SubSeq(bus', 1, page[p].lastEventId) = SubSeq(bus, 1, page[p].lastEventId)
      <4>1. page[p].lastEventId \in 0..Len(bus) /\ published + 1 \in Nat
        BY <1>1, <2>2, <3>1, <3>2 DEF PageSound
      <4>2. \A x \in Nat : SubSeq(Append(bus, x), 1, page[p].lastEventId) = SubSeq(bus, 1, page[p].lastEventId)
        BY <1>1, <4>1, BeginningsGrow
      <4> QED BY <2>1, <4>1, <4>2, Zenon
    <3> QED BY <2>1, <2>2, <3>1, <3>2 DEF PageSound
  <2> QED BY <1>1, <2>1, <2>2, <2>3 DEF EventInv
<1>3. CASE WorkerPublishes
  BY <1>1, <1>3 DEF WorkerPublishes, EventInv, PageSound
<1>4. CASE ApiRestarted
  <2>1. /\ bus' = <<>> /\ UNCHANGED published
        /\ \A p \in Pages : stream'[p] = NoStream
        /\ \A p \in Pages : page'[p] = [page[p] EXCEPT !.outlived = page[p].lastEventId > 0]
    BY <1>4 DEF ApiRestarted
  <2>2. /\ stream' \in [Pages -> [open : BOOLEAN, next : Nat, sent : BOOLEAN]]
        /\ page' \in [Pages -> [lastEventId : Nat, shown : Seq(Nat), outlived : BOOLEAN]]
    <3>1. NoStream \in [open : BOOLEAN, next : Nat, sent : BOOLEAN]
      BY DEF NoStream
    <3>2. ASSUME NEW p \in Pages
          PROVE  page'[p] \in [lastEventId : Nat, shown : Seq(Nat), outlived : BOOLEAN]
      <4>1. page[p] \in [lastEventId : Nat, shown : Seq(Nat), outlived : BOOLEAN]
        BY <1>1
      <4>2. page'[p] = [lastEventId |-> page[p].lastEventId, shown |-> page[p].shown,
                        outlived |-> page[p].lastEventId > 0]
        BY <2>1, <4>1
      <4> QED BY <4>1, <4>2
    <3> QED BY <1>4, <3>1, <3>2 DEF ApiRestarted
  <2>3. ASSUME NEW p \in Pages PROVE PageSound(p)'
    <3>1. PageSound(p) /\ page[p] \in [lastEventId : Nat, shown : Seq(Nat), outlived : BOOLEAN]
      BY <1>1
    <3>2. /\ page'[p].lastEventId = page[p].lastEventId /\ page'[p].shown = page[p].shown
          /\ page'[p].outlived = (page[p].lastEventId > 0)
          /\ stream'[p] = NoStream
      BY <2>1, <3>1
    <3>3. CASE page[p].lastEventId = 0
      <4>1. ~page[p].outlived /\ page[p].shown = SubSeq(bus, 1, 0)
        BY <3>1, <3>3 DEF PageSound
      <4>2. SubSeq(bus, 1, 0) = SubSeq(<<>>, 1, 0)
        BY SubSeqEmpty
      <4> QED BY <2>1, <3>1, <3>2, <3>3, <4>1, <4>2 DEF PageSound, NoStream
    <3>4. CASE page[p].lastEventId > 0
      <4>1. page'[p].outlived
        BY <3>2, <3>4
      <4> QED BY <2>1, <3>1, <3>2, <3>4, <4>1 DEF PageSound, NoStream
    <3> QED BY <3>1, <3>3, <3>4
  <2> QED BY <1>1, <2>1, <2>2, <2>3 DEF EventInv
<1>5. ASSUME NEW q \in Pages, Connects(q) \/ Yields(q) \/ Breaks(q)
      PROVE  EventInv'
  <2>1. UNCHANGED <<published, bus, page>>
    BY <1>5 DEF Connects, Yields, Breaks
  <2>2. stream' \in [Pages -> [open : BOOLEAN, next : Nat, sent : BOOLEAN]]
    <3>1. page[q].lastEventId \in Nat /\ stream[q] \in [open : BOOLEAN, next : Nat, sent : BOOLEAN]
      BY <1>1
    <3>2. PICK r \in [open : BOOLEAN, next : Nat, sent : BOOLEAN] : stream' = [stream EXCEPT ![q] = r]
      <4>1. CASE Connects(q)
        BY <3>1, <4>1 DEF Connects, StartAt
      <4>2. CASE Yields(q)
        <5> DEFINE r == [stream[q] EXCEPT !.next = @ + 1, !.sent = TRUE]
        <5>1. stream' = [stream EXCEPT ![q] = r]
          BY <1>1, <4>2 DEF Yields
        <5>2. r \in [open : BOOLEAN, next : Nat, sent : BOOLEAN]
          <6>1. ASSUME NEW x \in [open : BOOLEAN, next : Nat, sent : BOOLEAN], NEW n \in Nat
                PROVE  [x EXCEPT !.next = n, !.sent = TRUE] \in [open : BOOLEAN, next : Nat, sent : BOOLEAN]
            OBVIOUS
          <6>2. stream[q].next + 1 \in Nat
            BY <3>1
          <6> QED BY <3>1, <6>1, <6>2
        <5> QED BY <5>1, <5>2
      <4>3. CASE Breaks(q)
        BY <4>3 DEF Breaks, NoStream
      <4> QED BY <1>5, <4>1, <4>2, <4>3
    <3> QED BY <1>1, <3>2
  <2>3. ASSUME NEW p \in Pages PROVE PageSound(p)'
    <3>1. PageSound(p) /\ Len(bus) \in Nat
      BY <1>1
    <3>2. CASE p # q
      <4>1. stream'[p] = stream[p]
        BY <1>1, <1>5, <3>2 DEF Connects, Yields, Breaks
      <4> QED BY <2>1, <3>1, <4>1 DEF PageSound
    <3>3. CASE p = q /\ Connects(q)
      <4>1. stream'[p] = [open |-> TRUE, next |-> page[p].lastEventId, sent |-> FALSE]
        BY <1>1, <3>3 DEF Connects, StartAt
      <4> QED BY <2>1, <3>1, <4>1 DEF PageSound
    <3>4. CASE p = q /\ Yields(q)
      <4>1. /\ stream[p].open /\ ~stream[p].sent /\ Len(bus) > stream[p].next
            /\ stream'[p].next = stream[p].next + 1 /\ stream'[p].sent = TRUE /\ stream'[p].open
        BY <1>1, <3>4 DEF Yields
      <4> QED BY <2>1, <3>1, <4>1 DEF PageSound
    <3>5. CASE p = q /\ Breaks(q)
      <4>1. stream'[p] = NoStream
        BY <1>1, <3>5 DEF Breaks
      <4> QED BY <2>1, <3>1, <4>1 DEF PageSound, NoStream
    <3> QED BY <1>5, <3>2, <3>3, <3>4, <3>5
  <2> QED BY <1>1, <2>1, <2>2, <2>3 DEF EventInv
<1>6. ASSUME NEW q \in Pages, Shows(q)
      PROVE  EventInv'
  <2>1. UNCHANGED <<published, bus>> /\ stream[q].sent
    BY <1>6 DEF Shows
  <2>2. PageSound(q) /\ stream[q].next \in 1..Len(bus) /\ bus[stream[q].next] \in Nat
    BY <1>1, <2>1 DEF PageSound
  <2>3. /\ stream' \in [Pages -> [open : BOOLEAN, next : Nat, sent : BOOLEAN]]
        /\ page' \in [Pages -> [lastEventId : Nat, shown : Seq(Nat), outlived : BOOLEAN]]
    <3> DEFINE r == [page[q] EXCEPT !.lastEventId = stream[q].next,
                                    !.shown = Append(@, bus[stream[q].next])]
               t == [stream[q] EXCEPT !.sent = FALSE]
    <3>1. page' = [page EXCEPT ![q] = r] /\ stream' = [stream EXCEPT ![q] = t]
      BY <1>1, <1>6 DEF Shows
    <3>2. r \in [lastEventId : Nat, shown : Seq(Nat), outlived : BOOLEAN]
      <4>1. page[q] \in [lastEventId : Nat, shown : Seq(Nat), outlived : BOOLEAN]
        BY <1>1
      <4>2. Append(page[q].shown, bus[stream[q].next]) \in Seq(Nat) /\ stream[q].next \in Nat
        BY <2>2, <4>1
      <4> QED BY <4>1, <4>2
    <3>3. t \in [open : BOOLEAN, next : Nat, sent : BOOLEAN]
      BY <1>1
    <3> HIDE DEF r, t
    <3> QED BY <1>1, <3>1, <3>2, <3>3
  <2>4. ASSUME NEW p \in Pages PROVE PageSound(p)'
    <3>1. PageSound(p) /\ Len(bus) \in Nat
      BY <1>1
    <3>2. CASE p # q
      <4>1. stream'[p] = stream[p] /\ page'[p] = page[p]
        BY <1>1, <1>6, <3>2 DEF Shows
      <4> QED BY <2>1, <3>1, <4>1 DEF PageSound
    <3>3. CASE p = q
      <4>1. /\ page'[p].lastEventId = stream[p].next /\ page'[p].outlived = page[p].outlived
            /\ page'[p].shown = Append(page[p].shown, bus[stream[p].next])
            /\ stream'[p].next = stream[p].next /\ stream'[p].open = stream[p].open /\ ~stream'[p].sent
        BY <1>1, <1>6, <3>3 DEF Shows
      <4>2. ASSUME ~page[p].outlived PROVE page'[p].shown = SubSeq(bus, 1, stream[p].next)
        <5>1. /\ page[p].lastEventId \in 0..Len(bus) /\ page[p].lastEventId < Len(bus)
              /\ stream[p].next = page[p].lastEventId + 1
              /\ page[p].shown = SubSeq(bus, 1, page[p].lastEventId)
          BY <2>1, <2>2, <3>1, <3>3, <4>2 DEF PageSound
        <5>2. Append(SubSeq(bus, 1, page[p].lastEventId), bus[page[p].lastEventId + 1]) =
                SubSeq(bus, 1, page[p].lastEventId + 1)
          BY <1>1, <5>1, BeginningsGrow, Zenon
        <5> QED BY <4>1, <5>1, <5>2, Zenon
      <4>3. stream[p].next \in 1..Len(bus) /\ UNCHANGED bus
        BY <2>1, <2>2, <3>3
      <4> QED BY <3>1, <4>1, <4>2, <4>3 DEF PageSound
    <3> QED BY <3>2, <3>3
  <2> QED BY <1>1, <2>1, <2>3, <2>4 DEF EventInv
<1>7. ASSUME NEW q \in Pages, Reloads(q)
      PROVE  EventInv'
  <2>1. UNCHANGED <<published, bus>>
    BY <1>7 DEF Reloads
  <2>2. /\ stream' \in [Pages -> [open : BOOLEAN, next : Nat, sent : BOOLEAN]]
        /\ page' \in [Pages -> [lastEventId : Nat, shown : Seq(Nat), outlived : BOOLEAN]]
    BY <1>1, <1>7 DEF Reloads, NoStream, NewSource
  <2>3. ASSUME NEW p \in Pages PROVE PageSound(p)'
    <3>1. PageSound(p) /\ Len(bus) \in Nat
      BY <1>1
    <3>2. CASE p # q
      <4>1. stream'[p] = stream[p] /\ page'[p] = page[p]
        BY <1>1, <1>7, <3>2 DEF Reloads
      <4> QED BY <2>1, <3>1, <4>1 DEF PageSound
    <3>3. CASE p = q
      <4>1. stream'[p] = NoStream /\ page'[p] = NewSource
        BY <1>1, <1>7, <3>3 DEF Reloads
      <4>2. SubSeq(bus, 1, 0) = <<>>
        BY SubSeqEmpty
      <4> QED BY <2>1, <3>1, <4>1, <4>2 DEF PageSound, NoStream, NewSource
    <3> QED BY <3>2, <3>3
  <2> QED BY <1>1, <2>1, <2>2, <2>3 DEF EventInv
<1>8. CASE UNCHANGED eventVars
  BY <1>1, <1>8 DEF eventVars, EventInv, PageSound
<1> QED BY <1>2, <1>3, <1>4, <1>5, <1>6, <1>7, <1>8 DEF EventNext

LEMMA EventInitSound == EventInit => EventInv
<1> SUFFICES ASSUME EventInit PROVE EventInv
  OBVIOUS
<1>1. SubSeq(bus, 1, 0) = <<>>
  BY SubSeqEmpty
<1>2. published = 0 /\ bus = <<>> /\ page = [p \in Pages |-> NewSource] /\ stream = [p \in Pages |-> NoStream]
  BY DEF EventInit
<1>3. /\ NewSource \in [lastEventId : Nat, shown : Seq(Nat), outlived : BOOLEAN]
      /\ NoStream \in [open : BOOLEAN, next : Nat, sent : BOOLEAN]
  BY DEF NewSource, NoStream
<1>4. ASSUME NEW p \in Pages PROVE PageSound(p)
  <2>1. page[p] = NewSource /\ stream[p] = NoStream /\ Len(bus) = 0
    BY <1>2
  <2> QED BY <1>1, <2>1 DEF PageSound, NewSource, NoStream
<1> QED BY <1>2, <1>3, <1>4 DEF EventInv

(***************************************************************************)
(* For any pages and any number of events, breaks and restarts: an         *)
(* EventSource that has not outlived a process of the API has been shown   *)
(* what was published there, in order and without a gap.                   *)
(***************************************************************************)
THEOREM EventsAreNotPassedOver == EventSpec => []NoEventPassedOver
<1>1. EventInv => NoEventPassedOver
  BY DEF EventInv, PageSound, NoEventPassedOver
<1> QED BY <1>1, EventInitSound, EventStep, PTL DEF EventSpec

\* No list is longer than what was published, and nothing shown was not.
EventBounds ==
  /\ published \in 0..MaxEvents /\ Len(bus) <= published
  /\ bus \in Seq(1..MaxEvents) /\ redisEvents \in Seq(1..MaxEvents)
  /\ \A p \in Pages : page[p].lastEventId <= MaxEvents /\ page[p].shown \in Seq(1..MaxEvents)

LEMMA EventBoundsStep == EventInv /\ EventBounds /\ [EventNext]_eventVars => EventBounds'
<1> SUFFICES ASSUME EventInv, EventBounds, [EventNext]_eventVars PROVE EventBounds'
  OBVIOUS
<1>1. /\ published \in 0..MaxEvents /\ Len(bus) <= published
      /\ bus \in Seq(1..MaxEvents) /\ redisEvents \in Seq(1..MaxEvents) /\ MaxEvents \in Nat
      /\ \A p \in Pages : page[p].lastEventId <= MaxEvents /\ page[p].shown \in Seq(1..MaxEvents)
  BY EventAssumption DEF EventBounds
<1>2. /\ page \in [Pages -> [lastEventId : Nat, shown : Seq(Nat), outlived : BOOLEAN]]
      /\ \A p \in Pages : PageSound(p)
  BY DEF EventInv
<1>3. CASE Publish \/ WorkerPublishes
  <2>1. published + 1 \in 1..MaxEvents /\ published' = published + 1 /\ UNCHANGED page
    BY <1>1, <1>3 DEF Publish, WorkerPublishes
  <2>2. ASSUME NEW s \in Seq(1..MaxEvents), NEW n \in 1..MaxEvents
        PROVE  Append(s, n) \in Seq(1..MaxEvents) /\ Len(Append(s, n)) = Len(s) + 1
    OBVIOUS
  <2>3. bus' \in Seq(1..MaxEvents) /\ Len(bus') <= published + 1
    <3>1. bus' = bus \/ bus' = Append(bus, published + 1)
      BY <1>3, <2>1 DEF Publish, WorkerPublishes
    <3>2. Len(bus) \in Nat
      BY <1>1
    <3>3. Append(bus, published + 1) \in Seq(1..MaxEvents) /\ Len(Append(bus, published + 1)) = Len(bus) + 1
      BY <1>1, <2>1, <2>2, Zenon
    <3>4. bus' \in Seq(1..MaxEvents)
      BY <1>1, <3>1, <3>3, Zenon
    <3>5. Len(bus') = Len(bus) \/ Len(bus') = Len(bus) + 1
      BY <3>1, <3>3, Zenon
    <3>6. Len(bus) <= published /\ published \in Nat
      BY <1>1
    <3> QED BY <3>2, <3>4, <3>5, <3>6
  <2>4. redisEvents' \in Seq(1..MaxEvents)
    <3>1. redisEvents' = redisEvents \/ redisEvents' = Append(redisEvents, published + 1)
      BY <1>3, <2>1 DEF Publish, WorkerPublishes
    <3> QED BY <1>1, <2>1, <2>2, <3>1
  <2> QED BY <1>1, <2>1, <2>3, <2>4 DEF EventBounds
<1>4. CASE ApiRestarted
  <2>1. bus' = <<>> /\ UNCHANGED <<published, redisEvents>>
    BY <1>4 DEF ApiRestarted
  <2>2. \A p \in Pages : page'[p].lastEventId = page[p].lastEventId /\ page'[p].shown = page[p].shown
    BY <1>2, <1>4 DEF ApiRestarted
  <2>3. <<>> \in Seq(1..MaxEvents) /\ Len(<<>>) = 0
    OBVIOUS
  <2>4. bus' \in Seq(1..MaxEvents) /\ redisEvents' \in Seq(1..MaxEvents)
    BY <1>1, <2>1, <2>3, Zenon
  <2>5. Len(bus') <= published'
    BY <1>1, <2>1
  <2> QED BY <1>1, <2>1, <2>2, <2>4, <2>5, Zenon DEF EventBounds
<1>5. ASSUME NEW q \in Pages, Connects(q) \/ Yields(q) \/ Breaks(q) PROVE EventBounds'
  BY <1>1, <1>5 DEF Connects, Yields, Breaks, EventBounds
<1>6. ASSUME NEW q \in Pages, Shows(q) PROVE EventBounds'
  <2>1. UNCHANGED <<published, bus, redisEvents>> /\ stream[q].sent
    BY <1>6 DEF Shows
  <2>2. stream[q].next \in 1..Len(bus)
    BY <1>2, <2>1 DEF PageSound
  <2>3. stream[q].next <= MaxEvents /\ bus[stream[q].next] \in 1..MaxEvents
    BY <1>1, <2>2
  <2>4. ASSUME NEW p \in Pages
        PROVE  page'[p].lastEventId <= MaxEvents /\ page'[p].shown \in Seq(1..MaxEvents)
    <3>1. CASE p = q
      <4>1. /\ page'[p].lastEventId = stream[p].next
            /\ page'[p].shown = Append(page[p].shown, bus[stream[p].next])
        BY <1>2, <1>6, <3>1 DEF Shows
      <4> QED BY <1>1, <2>3, <3>1, <4>1
    <3>2. CASE p # q
      <4>1. page'[p] = page[p]
        BY <1>2, <1>6, <3>2 DEF Shows
      <4> QED BY <1>1, <4>1
    <3> QED BY <3>1, <3>2
  <2> QED BY <1>1, <2>1, <2>4 DEF EventBounds
<1>7. ASSUME NEW q \in Pages, Reloads(q) PROVE EventBounds'
  <2>1. UNCHANGED <<published, bus, redisEvents>>
    BY <1>7 DEF Reloads
  <2>2. ASSUME NEW p \in Pages
        PROVE  page'[p].lastEventId <= MaxEvents /\ page'[p].shown \in Seq(1..MaxEvents)
    <3>1. page'[p] = page[p] \/ page'[p] = NewSource
      BY <1>2, <1>7 DEF Reloads
    <3>2. NewSource.lastEventId = 0 /\ NewSource.shown = <<>> /\ <<>> \in Seq(1..MaxEvents)
      BY DEF NewSource
    <3>3. page'[p].shown \in Seq(1..MaxEvents)
      BY <1>1, <3>1, <3>2, Zenon
    <3>4. page'[p].lastEventId = page[p].lastEventId \/ page'[p].lastEventId = 0
      BY <3>1, <3>2, Zenon
    <3>5. page[p].lastEventId <= MaxEvents /\ 0 <= MaxEvents
      BY <1>1
    <3> QED BY <3>3, <3>4, <3>5, Zenon
  <2> QED BY <1>1, <2>1, <2>2 DEF EventBounds
<1>8. CASE UNCHANGED eventVars
  BY <1>1, <1>8 DEF eventVars, EventBounds
<1> QED BY <1>3, <1>4, <1>5, <1>6, <1>7, <1>8 DEF EventNext

\* The lists and the readers are of their types, for any pages and bounds.
THEOREM EventTypeCorrect == EventSpec => []EventTypeOK
<1>1. EventInit => EventBounds
  <2>1. <<>> \in Seq(1..MaxEvents) /\ Len(<<>>) = 0
    OBVIOUS
  <2>2. NewSource.lastEventId = 0 /\ NewSource.shown = <<>>
    BY DEF NewSource
  <2>3. EventInit => \A p \in Pages : page[p] = NewSource
    BY DEF EventInit
  <2> SUFFICES ASSUME EventInit PROVE EventBounds
    OBVIOUS
  <2>4. published \in 0..MaxEvents /\ Len(bus) <= published /\ 0 <= MaxEvents
    BY <2>1, EventAssumption DEF EventInit
  <2>5. bus \in Seq(1..MaxEvents) /\ redisEvents \in Seq(1..MaxEvents)
    BY <2>1, Zenon DEF EventInit
  <2> QED BY <2>1, <2>2, <2>3, <2>4, <2>5, Zenon DEF EventBounds
<1>2. EventInv /\ EventBounds => EventTypeOK
  BY EventAssumption DEF EventInv, EventBounds, PageSound, EventTypeOK
<1> QED BY <1>1, <1>2, EventInitSound, EventStep, EventBoundsStep, PTL DEF EventSpec

-----------------------------------------------------------------------------
(* Requests on their way to a row.                                         *)

LEMMA FewerElements ==
  ASSUME NEW S, NEW T, IsFiniteSet(S), T \subseteq S
  PROVE  IsFiniteSet(T) /\ Cardinality(T) \in Nat /\ Cardinality(S) \in Nat /\ Cardinality(T) <= Cardinality(S)
  BY FS_Subset, FS_CardinalityType

LEMMA OneElementMore ==
  ASSUME NEW S, NEW T, NEW x, IsFiniteSet(S), T \subseteq S \cup {x}
  PROVE  IsFiniteSet(T) /\ Cardinality(T) \in Nat /\ Cardinality(S) \in Nat /\ Cardinality(T) <= Cardinality(S) + 1
<1>1. /\ IsFiniteSet(S \cup {x})
      /\ Cardinality(S \cup {x}) = IF x \in S THEN Cardinality(S) ELSE Cardinality(S) + 1
  BY FS_AddElement
<1>2. Cardinality(S) \in Nat
  BY FS_CardinalityType
<1> QED BY <1>1, <1>2, FewerElements

LEMMA OneElementLess ==
  ASSUME NEW S, NEW T, NEW x \in S, IsFiniteSet(S), T \subseteq S \ {x}
  PROVE  IsFiniteSet(T) /\ Cardinality(T) \in Nat /\ Cardinality(S) \in Nat /\ Cardinality(T) <= Cardinality(S) - 1
<1>1. /\ IsFiniteSet(S \ {x})
      /\ Cardinality(S \ {x}) = IF x \in S THEN Cardinality(S) - 1 ELSE Cardinality(S)
  BY FS_RemoveElement
<1>2. Cardinality(S) \in Nat
  BY FS_CardinalityType
<1> QED BY <1>1, <1>2, FewerElements

Asking == [at : {"idle", "lookup", "insert", "call", "taken", "refused"},
           key : Keys \cup {NoKey}, print : Prints \cup {NoKey}, mode : {"sync", "queued"},
           row : 0..MaxSends]
CountedRows == {i \in DOMAIN sent : sent[i].status \in Counted}

\* Those that have passed the check of the policy and have yet to insert.
Racing == {c \in Callers : asking[c].at \in {"lookup", "insert"}}

\* A request holds the row it inserted, and it alone; that row waits in created and has not
\* been called before its call.
AskingSound ==
  \A c \in Callers :
    /\ asking[c].at # "idle" => asking[c].print \in Prints
    /\ asking[c].at \in {"idle", "lookup", "insert"} => asking[c].row = 0
    /\ asking[c].at \in {"call", "taken", "refused"} =>
         /\ asking[c].row \in DOMAIN sent
         /\ sent[asking[c].row].status = "created"
         /\ sent[asking[c].row].print = asking[c].print
         /\ asking[c].at = "call" => calls[asking[c].row] = 0
    /\ \A d \in Callers : c # d /\ asking[c].row # 0 => asking[c].row # asking[d].row

\* Every racer may still add a row to those that count.
RacersPrepaid ==
  Cardinality(CountedRows) + Cardinality(Racing) <= PolicyLimit + Cardinality(Callers) + revived - 1

AdmissionTyped ==
  /\ sent \in Seq(SentRow) /\ Len(sent) <= MaxSends
  /\ asking \in [Callers -> Asking]
  /\ told \subseteq Prints \X Ids /\ \A t \in told : t[2] \in DOMAIN sent
  /\ calls \in [Ids -> Nat] /\ \A i \in Ids : i \notin DOMAIN sent => calls[i] = 0
  /\ revived \in 0..MaxRevivals /\ aborts \in 0..MaxAborts

AdmissionInv ==
  /\ AdmissionTyped /\ AskingSound
  /\ AnswersAgree /\ CalledOncePerRow /\ RacersPrepaid /\ AbandonedRowsExplained

LEMMA AdmissionSets ==
  ASSUME AdmissionTyped
  PROVE  /\ IsFiniteSet(CountedRows) /\ Cardinality(CountedRows) \in Nat
         /\ IsFiniteSet(Racing) /\ Cardinality(Racing) \in Nat
         /\ IsFiniteSet(Abandoned) /\ Cardinality(Abandoned) \in Nat
         /\ Cardinality(Callers) \in Nat \ {0}
         /\ DOMAIN sent = 1..Len(sent) /\ Len(sent) \in Nat
         /\ DOMAIN sent \subseteq Ids
<1>1. DOMAIN sent = 1..Len(sent) /\ Len(sent) \in Nat /\ DOMAIN sent \subseteq Ids
  BY AdmissionAssumption DEF AdmissionTyped, Ids
<1>2. IsFiniteSet(DOMAIN sent)
  BY <1>1, FS_Interval
<1>3. IsFiniteSet(CountedRows) /\ Cardinality(CountedRows) \in Nat
  BY <1>2, FewerElements DEF CountedRows
<1>4. IsFiniteSet(Abandoned) /\ Cardinality(Abandoned) \in Nat
  BY <1>2, FewerElements DEF Abandoned
<1>5. IsFiniteSet(Racing) /\ Cardinality(Racing) \in Nat
  BY AdmissionAssumption, FewerElements DEF Racing
<1>6. Cardinality(Callers) \in Nat \ {0}
  BY AdmissionAssumption, FS_CardinalityType, FS_EmptySet
<1> QED BY <1>1, <1>3, <1>4, <1>5, <1>6

\* A step of a request that leaves the table alone and ends, or goes on without a row.
LEMMA RequestsQuietStep ==
  ASSUME AdmissionInv, NEW c \in Callers, NEW r \in Asking,
         asking' = [asking EXCEPT ![c] = r], UNCHANGED <<sent, calls, revived>>,
         asking[c].row = 0,
         r.row = 0, r.at \in {"idle", "lookup", "insert"}, r.at # "idle" => r.print \in Prints,
         r.at # "idle" => asking[c].at # "idle" \/ Cardinality(CountedRows) < PolicyLimit,
         \/ UNCHANGED told
         \/ \E i \in DOMAIN sent : told' = told \cup {<<sent[i].print, i>>},
         aborts' \in {aborts, aborts + 1}, aborts' \in 0..MaxAborts
  PROVE  AdmissionInv'
<1>1. AdmissionTyped /\ AskingSound /\ AnswersAgree /\ CalledOncePerRow /\ RacersPrepaid /\ AbandonedRowsExplained
  BY DEF AdmissionInv
<1>2. AdmissionTyped'
  <2>1. asking' \in [Callers -> Asking]
    BY <1>1 DEF AdmissionTyped
  <2>2. told' \subseteq Prints \X Ids /\ \A t \in told' : t[2] \in DOMAIN sent
    <3>1. ASSUME NEW i \in DOMAIN sent PROVE <<sent[i].print, i>> \in Prints \X Ids
      <4>1. sent[i] \in SentRow /\ i \in Ids
        BY <1>1, AdmissionSets DEF AdmissionTyped
      <4> QED BY <4>1 DEF SentRow
    <3> QED BY <1>1, <3>1 DEF AdmissionTyped
  <2> QED BY <1>1, <2>1, <2>2 DEF AdmissionTyped
<1>3. asking'[c] = r /\ \A d \in Callers : d # c => asking'[d] = asking[d]
  BY <1>1 DEF AdmissionTyped
<1>4. AskingSound'
  BY <1>1, <1>3 DEF AskingSound
<1>5. AnswersAgree' /\ CalledOncePerRow'
  BY <1>1 DEF AnswersAgree, CalledOncePerRow
<1>6. CountedRows' = CountedRows /\ Abandoned' \subseteq Abandoned
  <2>1. CountedRows' = CountedRows
    BY DEF CountedRows
  <2>2. \A i \in DOMAIN sent : i # 0
    BY <1>1, AdmissionSets
  <2> QED BY <1>3, <2>1, <2>2 DEF Abandoned
<1>7. RacersPrepaid'
  <2>1. CASE r.at = "idle" \/ asking[c].at # "idle"
    <3>1. Racing' \subseteq Racing
      BY <1>1, <1>3, <2>1 DEF Racing, AskingSound, AdmissionTyped, Asking
    <3>2. Cardinality(Racing') <= Cardinality(Racing) /\ Cardinality(Racing') \in Nat
      BY <1>1, <3>1, AdmissionSets, FewerElements
    <3> QED BY <1>1, <1>6, <3>2, AdmissionSets, AdmissionAssumption DEF RacersPrepaid, AdmissionTyped
  <2>2. CASE Cardinality(CountedRows) < PolicyLimit
    <3>1. Racing' \subseteq Callers
      BY DEF Racing
    <3>2. Cardinality(Racing') <= Cardinality(Callers) /\ Cardinality(Racing') \in Nat
      BY <3>1, AdmissionAssumption, FewerElements
    <3> QED BY <1>1, <1>6, <2>2, <3>2, AdmissionSets, AdmissionAssumption DEF RacersPrepaid, AdmissionTyped
  <2> QED BY <2>1, <2>2
<1>8. AbandonedRowsExplained'
  <2>1. Cardinality(Abandoned') <= Cardinality(Abandoned) /\ Cardinality(Abandoned') \in Nat
    BY <1>1, <1>6, AdmissionSets, FewerElements
  <2> QED BY <1>1, <2>1, AdmissionSets DEF AbandonedRowsExplained, AdmissionTyped
<1> QED BY <1>2, <1>4, <1>5, <1>7, <1>8 DEF AdmissionInv

LEMMA AdmissionStep == AdmissionInv /\ [AdmissionNext]_admissionVars => AdmissionInv'
<1> SUFFICES ASSUME AdmissionInv, [AdmissionNext]_admissionVars PROVE AdmissionInv'
  OBVIOUS
<1>1. AdmissionTyped /\ AskingSound /\ AnswersAgree /\ CalledOncePerRow /\ RacersPrepaid /\ AbandonedRowsExplained
  BY DEF AdmissionInv
<1>2. /\ sent \in Seq(SentRow) /\ Len(sent) \in 0..MaxSends /\ DOMAIN sent = 1..Len(sent)
      /\ DOMAIN sent \subseteq Ids /\ asking \in [Callers -> Asking]
      /\ aborts \in 0..MaxAborts /\ revived \in 0..MaxRevivals
  BY <1>1, AdmissionSets, AdmissionAssumption DEF AdmissionTyped
<1>3. Quiet \in Asking /\ Quiet.row = 0 /\ Quiet.at = "idle"
  BY AdmissionAssumption DEF Quiet, Asking
<1>4. ASSUME NEW c \in Callers, NEW key \in Keys \cup {NoKey}, NEW print \in Prints,
             NEW mode \in {"sync", "queued"}, BeginSend(c, key, print, mode)
      PROVE  AdmissionInv'
  <2> DEFINE r == [at |-> "lookup", key |-> key, print |-> print, mode |-> mode, row |-> 0]
  <2>1. /\ asking' = [asking EXCEPT ![c] = r] /\ UNCHANGED <<sent, told, calls, revived, aborts>>
        /\ asking[c].at = "idle" /\ Cardinality(CountedRows) < PolicyLimit
    BY <1>4 DEF BeginSend, CountForBot, CountedRows
  <2>2. r \in Asking /\ r.row = 0 /\ r.at = "lookup" /\ r.print \in Prints
    BY AdmissionAssumption DEF Asking
  <2>3. asking[c].row = 0
    BY <1>1, <2>1 DEF AskingSound
  <2> HIDE DEF r
  <2> QED BY <1>2, <2>1, <2>2, <2>3, RequestsQuietStep
<1>5. ASSUME NEW c \in Callers, FindExisting(c)
      PROVE  AdmissionInv'
  <2>1. asking[c].at = "lookup" /\ UNCHANGED <<sent, calls, revived, aborts>>
    BY <1>5 DEF FindExisting
  <2>2. asking[c].row = 0 /\ asking[c].print \in Prints
    BY <1>1, <2>1 DEF AskingSound
  <2>3. PICK r \in Asking : asking' = [asking EXCEPT ![c] = r] /\ r.row = 0
                            /\ r.at \in {"idle", "insert"} /\ (r.at # "idle" => r.print \in Prints)
    <3>1. CASE Goes(c, "insert")
      <4> DEFINE r == [asking[c] EXCEPT !.at = "insert"]
      <4>1. asking' = [asking EXCEPT ![c] = r]
        BY <3>1 DEF Goes
      <4>2. r \in Asking /\ r.row = 0 /\ r.at = "insert" /\ r.print \in Prints
        BY <1>2, <2>2 DEF Asking
      <4> HIDE DEF r
      <4> QED BY <4>1, <4>2
    <3>2. CASE Ends(c)
      BY <1>3, <3>2 DEF Ends
    <3> QED BY <1>5, <3>1, <3>2 DEF FindExisting
  <2>4. UNCHANGED told \/ \E i \in DOMAIN sent : told' = told \cup {<<sent[i].print, i>>}
    <3>1. ASSUME NEW i \in WithKey(asking[c].key), sent[i].print = asking[c].print, Tells(c, i)
          PROVE  UNCHANGED told \/ \E j \in DOMAIN sent : told' = told \cup {<<sent[j].print, j>>}
      <4>1. i \in DOMAIN sent
        BY DEF WithKey
      <4> QED BY <3>1, <4>1 DEF Tells
    <3> QED BY <1>5, <3>1 DEF FindExisting
  <2> QED BY <1>2, <2>1, <2>2, <2>3, <2>4, RequestsQuietStep
<1>6. ASSUME NEW c \in Callers, InsertRow(c)
      PROVE  AdmissionInv'
  <2> DEFINE i == Len(sent) + 1
             row == [key |-> asking[c].key, print |-> asking[c].print,
                     status |-> IF asking[c].mode = "queued" THEN "queued" ELSE "created"]
  <2>1. asking[c].at = "insert" /\ Len(sent) < MaxSends /\ UNCHANGED <<calls, revived, aborts>>
    BY <1>6 DEF InsertRow
  <2>2. asking[c].row = 0 /\ asking[c].print \in Prints /\ asking[c].key \in Keys \cup {NoKey}
    BY <1>1, <1>2, <2>1 DEF AskingSound, Asking
  <2>3. CASE WithKey(asking[c].key) # {}
    <3>1. asking' = [asking EXCEPT ![c] = Quiet] /\ UNCHANGED <<sent, told>>
      BY <1>6, <2>3 DEF InsertRow, Ends
    <3> QED BY <1>2, <1>3, <2>1, <2>2, <3>1, RequestsQuietStep
  <2>4. CASE WithKey(asking[c].key) = {}
    <3>1. sent' = Append(sent, row)
      BY <1>6, <2>4 DEF InsertRow
    <3>2. row \in SentRow /\ row.key = asking[c].key /\ row.print = asking[c].print
          /\ row.status = (IF asking[c].mode = "queued" THEN "queued" ELSE "created")
      BY <2>2 DEF SentRow, Counted
    <3>3. i \in Ids /\ i \notin DOMAIN sent /\ i # 0
      BY <1>2, <2>1, AdmissionAssumption DEF Ids
    <3> HIDE DEF row
    <3>4. /\ sent' \in Seq(SentRow) /\ Len(sent') = i /\ Len(sent') <= MaxSends
          /\ DOMAIN sent' = DOMAIN sent \cup {i} /\ sent'[i] = row
          /\ \A j \in DOMAIN sent : sent'[j] = sent[j]
      <4>1. sent' \in Seq(SentRow) /\ Len(sent') = i
        BY <1>2, <3>1, <3>2
      <4>2. sent'[i] = row /\ \A j \in DOMAIN sent : sent'[j] = sent[j]
        BY <1>2, <3>1, <3>2
      <4>3. DOMAIN sent' = 1..i /\ DOMAIN sent' = DOMAIN sent \cup {i} /\ i <= MaxSends
        BY <1>2, <2>1, <4>1, AdmissionAssumption
      <4> QED BY <4>1, <4>2, <4>3
    <3> HIDE DEF i
    <3>5. \/ /\ asking[c].mode = "queued" /\ asking' = [asking EXCEPT ![c] = Quiet]
             /\ told' = told \/ told' = told \cup {<<asking[c].print, i>>}
          \/ /\ asking[c].mode # "queued" /\ UNCHANGED told
             /\ asking' = [asking EXCEPT ![c].at = "call", ![c].row = i]
      BY <1>6, <2>4 DEF InsertRow, Ends, Tells, i
    <3>6. PICK r \in Asking : /\ asking' = [asking EXCEPT ![c] = r]
                              /\ \/ /\ asking[c].mode = "queued" /\ r = Quiet
                                    /\ told' = told \/ told' = told \cup {<<asking[c].print, i>>}
                                 \/ /\ asking[c].mode # "queued" /\ r.at = "call" /\ r.row = i
                                    /\ r.print = asking[c].print /\ UNCHANGED told
      <4>1. CASE asking[c].mode = "queued"
        BY <1>3, <3>5, <4>1
      <4>2. CASE asking[c].mode # "queued"
        <5> DEFINE r == [asking[c] EXCEPT !.at = "call", !.row = i]
        <5>1. asking' = [asking EXCEPT ![c] = r] /\ UNCHANGED told
          BY <1>2, <3>5, <4>2
        <5>2. r \in Asking /\ r.at = "call" /\ r.row = i /\ r.print = asking[c].print
          <6>1. i \in 0..MaxSends
            BY <3>3, AdmissionAssumption DEF Ids
          <6>2. asking[c] \in Asking
            BY <1>2
          <6> QED BY <6>1, <6>2 DEF Asking
        <5> HIDE DEF r
        <5> QED BY <4>2, <5>1, <5>2
      <4> QED BY <4>1, <4>2
    <3>7. asking'[c] = r /\ \A d \in Callers : d # c => asking'[d] = asking[d]
      BY <1>2, <3>6
    <3>8. calls[i] = 0
      BY <1>1, <3>3 DEF AdmissionTyped
    <3>9. AdmissionTyped'
      <4>1. asking' \in [Callers -> Asking]
        BY <1>2, <3>6
      <4>2. told' \subseteq Prints \X Ids /\ \A t \in told' : t[2] \in DOMAIN sent'
        BY <1>1, <2>2, <3>3, <3>4, <3>6 DEF AdmissionTyped
      <4>3. calls \in [Ids -> Nat] /\ \A j \in Ids : j \notin DOMAIN sent' => calls[j] = 0
        BY <1>1, <3>4 DEF AdmissionTyped
      <4> QED BY <1>1, <2>1, <3>4, <4>1, <4>2, <4>3 DEF AdmissionTyped
    <3>10. AskingSound'
      <4>1. ASSUME NEW d \in Callers, NEW e \in Callers, d # e, asking'[d].row # 0
            PROVE  asking'[d].row # asking'[e].row
        <5>1. \A x \in Callers : asking[x].row \in {0} \cup DOMAIN sent
          BY <1>1, <1>2 DEF AskingSound, Asking
        <5>2. asking'[c].row \in {0, i}
          BY <1>3, <3>6, <3>7
        <5> QED BY <1>1, <3>3, <3>7, <4>1, <5>1, <5>2 DEF AskingSound
      <4>2. ASSUME NEW d \in Callers, d # c
            PROVE  /\ asking'[d].at # "idle" => asking'[d].print \in Prints
                   /\ asking'[d].at \in {"idle", "lookup", "insert"} => asking'[d].row = 0
                   /\ asking'[d].at \in {"call", "taken", "refused"} =>
                        /\ asking'[d].row \in DOMAIN sent'
                        /\ sent'[asking'[d].row].status = "created"
                        /\ sent'[asking'[d].row].print = asking'[d].print
                        /\ asking'[d].at = "call" => calls[asking'[d].row] = 0
        BY <1>1, <3>4, <3>7, <4>2 DEF AskingSound
      <4>3. /\ asking'[c].at # "idle" => asking'[c].print \in Prints
            /\ asking'[c].at \in {"idle", "lookup", "insert"} => asking'[c].row = 0
            /\ asking'[c].at \in {"call", "taken", "refused"} =>
                 /\ asking'[c].row \in DOMAIN sent'
                 /\ sent'[asking'[c].row].status = "created"
                 /\ sent'[asking'[c].row].print = asking'[c].print
                 /\ asking'[c].at = "call" => calls[asking'[c].row] = 0
        BY <1>3, <2>2, <3>2, <3>4, <3>6, <3>7, <3>8
      <4> QED BY <2>1, <4>1, <4>2, <4>3 DEF AskingSound
    <3>11. AnswersAgree' /\ CalledOncePerRow'
      <4>1. \A t \in told : t[2] \in DOMAIN sent /\ sent[t[2]].print = t[1]
        BY <1>1 DEF AnswersAgree, AdmissionTyped
      <4>2. \A t \in told' : sent'[t[2]].print = t[1]
        BY <3>2, <3>4, <3>6, <4>1
      <4>3. \A j \in DOMAIN sent : asking[c].key # NoKey => sent[j].key # asking[c].key
        BY <2>4 DEF WithKey
      <4>4. \A j, k \in DOMAIN sent' : j # k /\ sent'[j].key # NoKey => sent'[j].key # sent'[k].key
        BY <1>1, <3>2, <3>4, <4>3 DEF AnswersAgree
      <4> QED BY <1>1, <2>1, <4>2, <4>4 DEF AnswersAgree, CalledOncePerRow
    <3>12. RacersPrepaid'
      <4>1. CountedRows' \subseteq CountedRows \cup {i}
        BY <3>4 DEF CountedRows
      <4>2. c \in Racing /\ Racing' \subseteq Racing \ {c}
        BY <1>3, <2>1, <3>6, <3>7 DEF Racing
      <4>3. Cardinality(CountedRows') <= Cardinality(CountedRows) + 1 /\ Cardinality(CountedRows') \in Nat
        BY <1>1, <4>1, AdmissionSets, OneElementMore
      <4>4. Cardinality(Racing') <= Cardinality(Racing) - 1 /\ Cardinality(Racing') \in Nat
        BY <1>1, <4>2, AdmissionSets, OneElementLess
      <4> QED BY <1>1, <1>2, <2>1, <4>3, <4>4, AdmissionSets, AdmissionAssumption DEF RacersPrepaid
    <3>13. AbandonedRowsExplained'
      <4>1. Abandoned' \subseteq Abandoned
        <5>1. i \notin Abandoned'
          BY <3>2, <3>4, <3>6, <3>7 DEF Abandoned
        <5>2. ASSUME NEW j \in DOMAIN sent, j \in Abandoned' PROVE j \in Abandoned
          <6>1. sent[j].status = "created" /\ \A d \in Callers : asking'[d].row # j
            BY <3>4, <5>2 DEF Abandoned
          <6>2. j # 0
            BY <1>2
          <6> QED BY <2>2, <3>7, <6>1, <6>2 DEF Abandoned
        <5> QED BY <3>4, <5>1, <5>2 DEF Abandoned
      <4>2. Cardinality(Abandoned') <= Cardinality(Abandoned) /\ Cardinality(Abandoned') \in Nat
        BY <1>1, <4>1, AdmissionSets, FewerElements
      <4> QED BY <1>1, <1>2, <2>1, <4>2, AdmissionSets DEF AbandonedRowsExplained
    <3> QED BY <3>9, <3>10, <3>11, <3>12, <3>13 DEF AdmissionInv
  <2> QED BY <2>3, <2>4
<1>7. ASSUME NEW c \in Callers, CallTelegram(c)
      PROVE  AdmissionInv'
  <2> DEFINE i == asking[c].row
  <2>1. /\ asking[c].at = "call" /\ UNCHANGED <<sent, told, revived, aborts>>
        /\ calls' = [calls EXCEPT ![i] = @ + 1]
    BY <1>7 DEF CallTelegram
  <2>2. i \in DOMAIN sent /\ i \in Ids /\ calls[i] = 0 /\ i # 0
    BY <1>1, <1>2, <2>1 DEF AskingSound
  <2>3. PICK at \in {"taken", "refused"} : asking' = [asking EXCEPT ![c].at = at]
    BY <1>7 DEF CallTelegram, Goes
  <2>4. /\ asking'[c].at = at /\ asking'[c].row = asking[c].row /\ asking'[c].print = asking[c].print
        /\ \A d \in Callers : d # c => asking'[d] = asking[d]
    BY <1>2, <2>3 DEF Asking
  <2>5. asking' \in [Callers -> Asking]
    <3> DEFINE r == [asking[c] EXCEPT !.at = at]
    <3>1. asking' = [asking EXCEPT ![c] = r]
      BY <2>3
    <3>2. r \in Asking
      BY <1>2 DEF Asking
    <3> HIDE DEF r
    <3> QED BY <1>2, <3>1, <3>2
  <2>6. calls \in [Ids -> Nat]
    BY <1>1 DEF AdmissionTyped
  <2> HIDE DEF i
  <2>7. calls' \in [Ids -> Nat] /\ calls'[i] = 1 /\ \A j \in Ids : j # i => calls'[j] = calls[j]
    BY <2>1, <2>2, <2>6
  <2>8. AdmissionTyped'
    BY <1>1, <2>1, <2>2, <2>5, <2>7 DEF AdmissionTyped
  <2>9. AskingSound'
    <3>1. \A d \in Callers : asking'[d].row = asking[d].row /\ asking'[d].print = asking[d].print
      BY <2>4
    <3>2. \A d \in Callers : d # c /\ asking[d].at = "call" => asking[d].row \in Ids /\ asking[d].row # i
      BY <1>1, <1>2, <2>2 DEF AskingSound, i
    <3>3. \A d \in Callers : asking'[d].at = "call" => d # c /\ asking[d].at = "call"
      BY <2>4
    <3> QED BY <1>1, <2>1, <2>4, <2>7, <3>1, <3>2, <3>3 DEF AskingSound
  <2>10. AnswersAgree' /\ CalledOncePerRow'
    BY <1>1, <2>1, <2>7 DEF AnswersAgree, CalledOncePerRow
  <2>11. CountedRows' = CountedRows /\ Racing' = Racing /\ Abandoned' = Abandoned
    BY <2>1, <2>4 DEF CountedRows, Racing, Abandoned
  <2>12. RacersPrepaid' /\ AbandonedRowsExplained'
    BY <1>1, <2>1, <2>11 DEF RacersPrepaid, AbandonedRowsExplained
  <2> QED BY <2>8, <2>9, <2>10, <2>12 DEF AdmissionInv
<1>8. ASSUME NEW c \in Callers, SaveAnswer(c)
      PROVE  AdmissionInv'
  <2> DEFINE i == asking[c].row
             to == IF asking[c].at = "taken" THEN "succeeded" ELSE "failed"
  <2>1. /\ asking[c].at \in {"taken", "refused"} /\ UNCHANGED <<calls, revived, aborts>>
        /\ sent' = [sent EXCEPT ![i].status = to] /\ asking' = [asking EXCEPT ![c] = Quiet]
        /\ told' = told \/ told' = told \cup {<<asking[c].print, i>>}
    BY <1>8 DEF SaveAnswer, Ends, Tells
  <2>2. /\ i \in DOMAIN sent /\ sent[i].status = "created" /\ sent[i].print = asking[c].print /\ i # 0
        /\ asking[c].print \in Prints /\ i \in Ids /\ sent[i] \in SentRow
    BY <1>1, <1>2, <2>1 DEF AskingSound
  <2>3. asking'[c] = Quiet /\ \A d \in Callers : d # c => asking'[d] = asking[d]
    BY <1>2, <2>1
  <2>4. to \in {"succeeded", "failed"}
    OBVIOUS
  <2>5. \A d \in Callers : d # c => asking[d].row # i
    BY <1>1, <2>2 DEF AskingSound
  <2>6. asking[c].row = i
    OBVIOUS
  <2> HIDE DEF i, to
  <2>7. /\ sent' \in Seq(SentRow) /\ Len(sent') = Len(sent) /\ DOMAIN sent' = DOMAIN sent
        /\ sent'[i].status = to /\ sent'[i].key = sent[i].key /\ sent'[i].print = sent[i].print
        /\ \A j \in DOMAIN sent : j # i => sent'[j] = sent[j]
    <3> DEFINE row == [sent[i] EXCEPT !.status = to]
    <3>1. sent' = [sent EXCEPT ![i] = row]
      BY <2>1
    <3>2. row \in SentRow /\ row.status = to /\ row.key = sent[i].key /\ row.print = sent[i].print
      BY <2>2, <2>4 DEF SentRow, Counted
    <3> HIDE DEF row
    <3> QED BY <1>2, <2>2, <3>1, <3>2
  <2>8. AdmissionTyped'
    <3>1. asking' \in [Callers -> Asking]
      BY <1>2, <1>3, <2>1
    <3>2. told' \subseteq Prints \X Ids /\ \A t \in told' : t[2] \in DOMAIN sent'
      BY <1>1, <2>1, <2>2, <2>7 DEF AdmissionTyped
    <3> QED BY <1>1, <2>1, <2>7, <3>1, <3>2 DEF AdmissionTyped
  <2>9. AskingSound'
    <3>1. ASSUME NEW d \in Callers, d # c
          PROVE  /\ asking'[d].at # "idle" => asking'[d].print \in Prints
                 /\ asking'[d].at \in {"idle", "lookup", "insert"} => asking'[d].row = 0
                 /\ asking'[d].at \in {"call", "taken", "refused"} =>
                      /\ asking'[d].row \in DOMAIN sent'
                      /\ sent'[asking'[d].row].status = "created"
                      /\ sent'[asking'[d].row].print = asking'[d].print
                      /\ asking'[d].at = "call" => calls[asking'[d].row] = 0
      BY <1>1, <2>3, <2>5, <2>7, <3>1 DEF AskingSound
    <3>2. ASSUME NEW d \in Callers, NEW e \in Callers, d # e, asking'[d].row # 0
          PROVE  asking'[d].row # asking'[e].row
      BY <1>1, <1>3, <2>3, <3>2 DEF AskingSound
    <3> QED BY <1>3, <2>1, <2>3, <3>1, <3>2 DEF AskingSound
  <2>10. AnswersAgree' /\ CalledOncePerRow'
    <3>1. \A j \in DOMAIN sent : sent'[j].key = sent[j].key /\ sent'[j].print = sent[j].print
      BY <2>7
    <3>2. \A t \in told : t[2] \in DOMAIN sent
      BY <1>1 DEF AdmissionTyped
    <3> QED BY <1>1, <2>1, <2>2, <2>7, <3>1, <3>2 DEF AnswersAgree, CalledOncePerRow
  <2>11. CountedRows' \subseteq CountedRows /\ Racing' \subseteq Racing /\ Abandoned' \subseteq Abandoned
    <3>1. CountedRows' \subseteq CountedRows
      BY <2>2, <2>7 DEF CountedRows, Counted
    <3>2. Racing' \subseteq Racing
      BY <1>3, <2>3 DEF Racing
    <3>3. Abandoned' \subseteq Abandoned
      BY <2>3, <2>4, <2>6, <2>7 DEF Abandoned
    <3> QED BY <3>1, <3>2, <3>3
  <2>12. /\ Cardinality(CountedRows') <= Cardinality(CountedRows) /\ Cardinality(CountedRows') \in Nat
         /\ Cardinality(Racing') <= Cardinality(Racing) /\ Cardinality(Racing') \in Nat
         /\ Cardinality(Abandoned') <= Cardinality(Abandoned) /\ Cardinality(Abandoned') \in Nat
    BY <1>1, <2>11, AdmissionSets, FewerElements
  <2>13. RacersPrepaid' /\ AbandonedRowsExplained'
    <3>1. Cardinality(CountedRows) \in Nat /\ Cardinality(Racing) \in Nat /\ Cardinality(Abandoned) \in Nat
          /\ Cardinality(Callers) \in Nat /\ revived \in Nat /\ aborts \in Nat
      BY <1>1, <1>2, AdmissionSets, AdmissionAssumption
    <3>2. RacersPrepaid'
      BY <1>1, <2>1, <2>12, <3>1, AdmissionAssumption DEF RacersPrepaid
    <3>3. AbandonedRowsExplained'
      BY <1>1, <2>1, <2>12, <3>1 DEF AbandonedRowsExplained
    <3> QED BY <3>2, <3>3
  <2> QED BY <2>8, <2>9, <2>10, <2>13 DEF AdmissionInv
<1>9. ASSUME NEW c \in Callers, RequestDies(c)
      PROVE  AdmissionInv'
  <2>1. /\ asking' = [asking EXCEPT ![c] = Quiet] /\ aborts' = aborts + 1 /\ aborts < MaxAborts
        /\ UNCHANGED <<sent, told, calls, revived>>
    BY <1>9 DEF RequestDies, Ends
  <2>2. asking'[c] = Quiet /\ \A d \in Callers : d # c => asking'[d] = asking[d]
    BY <1>2, <2>1
  <2>3. AdmissionTyped'
    <3>1. asking' \in [Callers -> Asking]
      BY <1>2, <1>3, <2>1
    <3>2. aborts' \in 0..MaxAborts
      BY <1>2, <2>1, AdmissionAssumption
    <3> QED BY <1>1, <2>1, <3>1, <3>2 DEF AdmissionTyped
  <2>4. AskingSound'
    BY <1>1, <1>3, <2>1, <2>2 DEF AskingSound
  <2>5. AnswersAgree' /\ CalledOncePerRow'
    BY <1>1, <2>1 DEF AnswersAgree, CalledOncePerRow
  <2>6. CountedRows' = CountedRows /\ Racing' \subseteq Racing /\ Abandoned' \subseteq Abandoned \cup {asking[c].row}
    BY <1>3, <2>1, <2>2 DEF CountedRows, Racing, Abandoned
  <2>7. Cardinality(Racing') <= Cardinality(Racing) /\ Cardinality(Racing') \in Nat
    BY <1>1, <2>6, AdmissionSets, FewerElements
  <2>8. Cardinality(Abandoned') <= Cardinality(Abandoned) + 1 /\ Cardinality(Abandoned') \in Nat
    BY <1>1, <2>6, AdmissionSets, OneElementMore
  <2>9. RacersPrepaid' /\ AbandonedRowsExplained'
    BY <1>1, <1>2, <2>1, <2>6, <2>7, <2>8, AdmissionSets, AdmissionAssumption, SMTT(20)
    DEF RacersPrepaid, AbandonedRowsExplained
  <2> QED BY <2>3, <2>4, <2>5, <2>9 DEF AdmissionInv
<1>10. ASSUME NEW i \in DOMAIN sent, NEW to \in Counted \cup {"failed"}, RowMoves(i, to)
       PROVE  AdmissionInv'
  <2>1. /\ <<sent[i].status, to>> \in {<<"queued", "succeeded">>, <<"queued", "failed">>, <<"failed", "queued">>}
        /\ sent' = [sent EXCEPT ![i].status = to] /\ UNCHANGED <<asking, told, calls, aborts>>
        /\ IF to = "queued" THEN revived < MaxRevivals /\ revived' = revived + 1 ELSE UNCHANGED revived
    BY <1>10 DEF RowMoves
  <2>2. sent[i] \in SentRow /\ i \in Ids
    BY <1>2
  <2>3. /\ sent' \in Seq(SentRow) /\ Len(sent') = Len(sent) /\ DOMAIN sent' = DOMAIN sent
        /\ sent'[i].status = to /\ sent'[i].key = sent[i].key /\ sent'[i].print = sent[i].print
        /\ \A j \in DOMAIN sent : j # i => sent'[j] = sent[j]
    <3> DEFINE row == [sent[i] EXCEPT !.status = to]
    <3>1. sent' = [sent EXCEPT ![i] = row]
      BY <2>1
    <3>2. row \in SentRow /\ row.status = to /\ row.key = sent[i].key /\ row.print = sent[i].print
      BY <2>2 DEF SentRow
    <3> HIDE DEF row
    <3> QED BY <1>2, <2>2, <3>1, <3>2
  <2>4. sent[i].status # "created" /\ to # "created"
    BY <2>1
  <2>5. revived' \in 0..MaxRevivals /\ revived' \in {revived, revived + 1}
    BY <1>2, <2>1, AdmissionAssumption
  <2>6. AdmissionTyped'
    BY <1>1, <2>1, <2>3, <2>5 DEF AdmissionTyped
  <2>7. AskingSound'
    BY <1>1, <2>1, <2>3, <2>4 DEF AskingSound
  <2>8. AnswersAgree' /\ CalledOncePerRow'
    <3>1. \A j \in DOMAIN sent : sent'[j].key = sent[j].key /\ sent'[j].print = sent[j].print
      BY <2>3
    <3>2. \A t \in told : t[2] \in DOMAIN sent
      BY <1>1 DEF AdmissionTyped
    <3> QED BY <1>1, <2>1, <2>3, <3>1, <3>2 DEF AnswersAgree, CalledOncePerRow
  <2>9. Racing' = Racing /\ Abandoned' \subseteq Abandoned
    BY <2>1, <2>3, <2>4 DEF Racing, Abandoned
  <2>10. Cardinality(Abandoned') <= Cardinality(Abandoned) /\ Cardinality(Abandoned') \in Nat
    BY <1>1, <2>9, AdmissionSets, FewerElements
  <2>11. RacersPrepaid'
    <3>1. CASE to = "queued"
      <4>1. CountedRows' \subseteq CountedRows \cup {i} /\ revived' = revived + 1
        BY <2>1, <2>3, <3>1 DEF CountedRows
      <4>2. Cardinality(CountedRows') <= Cardinality(CountedRows) + 1 /\ Cardinality(CountedRows') \in Nat
        BY <1>1, <4>1, AdmissionSets, OneElementMore
      <4> QED BY <1>1, <1>2, <2>9, <4>1, <4>2, AdmissionSets, AdmissionAssumption, SMTT(20) DEF RacersPrepaid
    <3>2. CASE to # "queued"
      <4>1. CountedRows' \subseteq CountedRows /\ revived' = revived
        BY <2>1, <2>3, <3>2 DEF CountedRows, Counted
      <4>2. Cardinality(CountedRows') <= Cardinality(CountedRows) /\ Cardinality(CountedRows') \in Nat
        BY <1>1, <4>1, AdmissionSets, FewerElements
      <4> QED BY <1>1, <1>2, <2>9, <4>1, <4>2, AdmissionSets, AdmissionAssumption DEF RacersPrepaid
    <3> QED BY <3>1, <3>2
  <2>12. AbandonedRowsExplained'
    BY <1>1, <1>2, <2>1, <2>10, AdmissionSets DEF AbandonedRowsExplained
  <2> QED BY <2>6, <2>7, <2>8, <2>11, <2>12 DEF AdmissionInv
<1>11. CASE UNCHANGED admissionVars
  BY <1>1, <1>11 DEF admissionVars, AdmissionInv, AdmissionTyped, AskingSound, AnswersAgree, CalledOncePerRow,
    RacersPrepaid, CountedRows, Racing, AbandonedRowsExplained, Abandoned
<1> QED BY <1>4, <1>5, <1>6, <1>7, <1>8, <1>9, <1>10, <1>11 DEF AdmissionNext

LEMMA AdmissionInitSound == AdmissionInit => AdmissionInv
<1> SUFFICES ASSUME AdmissionInit PROVE AdmissionInv
  OBVIOUS
<1>1. /\ sent = <<>> /\ asking = [c \in Callers |-> Quiet] /\ told = {}
      /\ calls = [i \in Ids |-> 0] /\ revived = 0 /\ aborts = 0
  BY DEF AdmissionInit
<1>2. Quiet \in Asking /\ Quiet.row = 0 /\ Quiet.at = "idle"
  BY AdmissionAssumption DEF Quiet, Asking
<1>3. AdmissionTyped
  BY <1>1, <1>2, AdmissionAssumption DEF AdmissionTyped
<1>4. AskingSound /\ AnswersAgree /\ CalledOncePerRow
  BY <1>1, <1>2 DEF AskingSound, AnswersAgree, CalledOncePerRow
<1>5. CountedRows = {} /\ Racing = {} /\ Abandoned = {}
  BY <1>1, <1>2 DEF CountedRows, Racing, Abandoned
<1>6. Cardinality(CountedRows) = 0 /\ Cardinality(Racing) = 0 /\ Cardinality(Abandoned) = 0
  BY <1>5, FS_EmptySet, Zenon
<1>7. RacersPrepaid /\ AbandonedRowsExplained
  BY <1>1, <1>3, <1>6, AdmissionSets, AdmissionAssumption DEF RacersPrepaid, AbandonedRowsExplained
<1> QED BY <1>3, <1>4, <1>7 DEF AdmissionInv

(***************************************************************************)
(* For any number of requests under way together, any limit and any        *)
(* deaths: one row per key, one call per row, no more over the limit than  *)
(* there are racers and revivals, no more left behind than have died.      *)
(***************************************************************************)
THEOREM RequestsAreExplained == AdmissionSpec => []RequestsExplained
<1>1. AdmissionInv => RequestsExplained
  <2> SUFFICES ASSUME AdmissionInv PROVE RequestsExplained
    OBVIOUS
  <2>1. AdmissionTyped
    BY DEF AdmissionInv
  <2>2. LimitExceededOnlyByRacers
    <3>1. revived \in Nat /\ RacersPrepaid
      BY DEF AdmissionInv, AdmissionTyped
    <3> QED BY <2>1, <3>1, AdmissionSets, AdmissionAssumption
        DEF RacersPrepaid, LimitExceededOnlyByRacers, CountedRows
  <2> QED BY <2>2 DEF AdmissionInv, RequestsExplained
<1> QED BY AdmissionInitSound, <1>1, AdmissionStep, PTL DEF AdmissionSpec

\* Rows, requests and answers are of their types, and who is past the insert has a row.
THEOREM AdmissionTypeCorrect == AdmissionSpec => []AdmissionTypeOK
<1>1. AdmissionInv => AdmissionTypeOK
  BY DEF AdmissionInv, AdmissionTyped, AskingSound, AdmissionTypeOK, Asking
<1> QED BY <1>1, AdmissionInitSound, AdmissionStep, PTL DEF AdmissionSpec

-----------------------------------------------------------------------------
(* The polling bots.                                                       *)

IsMessage(b, i) == Updates[b][i] = "message"
DiagBusy == diagRun.at \in {"record", "reply", "store"}

PollingTyped ==
  /\ issued \in [PolledBots -> Nat] /\ \A b \in PolledBots : issued[b] <= Len(Updates[b])
  /\ forgotten \in [PolledBots -> Nat]
  /\ diag \in [bot : PolledBots, on : BOOLEAN, last : Nat]
  /\ diagRun \in [at : {"idle", "ready", "record", "reply", "store"}, bot : PolledBots \cup {0},
                  from : Nat, batch : SUBSET Nat]
  /\ recorded \subseteq AllUpdates /\ replies \in [AllUpdates -> Nat]
  /\ disc \in [PolledBots -> [on : BOOLEAN, last : Nat]]
  /\ discRun \in [todo : SUBSET PolledBots, from : [PolledBots -> Nat], bot : PolledBots \cup {0},
                  batch : SUBSET Nat]
  /\ found \subseteq AllUpdates /\ member \in [PolledBots -> BOOLEAN]
  /\ pollers \in [PolledBots -> SUBSET {"diag", "disc"}]
  /\ deaths \in Nat /\ switches \in Nat

\* A round of the diagnostic bot goes on from the offset that is stored, so that the offset
\* only grows, whatever bot is selected meanwhile.
DiagSound ==
  /\ diagRun.at = "ready" => diagRun.bot \in PolledBots /\ diagRun.from = diag.last
  /\ DiagBusy =>
       /\ diagRun.bot \in PolledBots /\ diagRun.batch # {}
       /\ \A i \in diagRun.batch : i > diag.last /\ i \in UpdateIds(diagRun.bot)

\* The update whose report is out and whose progress is not.
Unstored(b, i) == diagRun.at = "store" /\ diagRun.bot = b /\ First(diagRun.batch) = i
RepliesCounted ==
  \A b \in PolledBots : \A i \in UpdateIds(b) :
    /\ replies[<<b, i>>] <= 1 + deaths
    /\ i > diag.last /\ ~Unstored(b, i) => replies[<<b, i>>] <= deaths

\* While the selection stays: what is behind the offset is done, and so is what a round has
\* taken out of its batch.
Reported(b, j) == IsMessage(b, j) => <<b, j>> \in recorded /\ replies[<<b, j>>] > 0
DiagDone ==
  LET b == diag.bot
  IN switches = 0 =>
       /\ diagRun.at # "idle" => diagRun.bot = b
       /\ \A u \in recorded : u[1] = b
       /\ \A c \in PolledBots : "diag" \in pollers[c] => c = b
       /\ diagRun.at \in {"reply", "store"} => <<b, First(diagRun.batch)>> \in recorded
       /\ diagRun.at = "store" => Reported(b, First(diagRun.batch))
       /\ "disc" \notin pollers[b] =>
            /\ forgotten[b] <= diag.last
            /\ \A j \in UpdateIds(b) : j <= diag.last => Reported(b, j)
            /\ DiagBusy => \A i \in diagRun.batch, j \in UpdateIds(b) :
                 j < i /\ j \notin diagRun.batch => Reported(b, j)

\* A round of the discovery bot goes on from the offsets that are stored.
DiscSound ==
  /\ discRun.bot = 0 <=> discRun.batch = {}
  /\ discRun.bot \notin discRun.todo
  /\ \A b \in discRun.todo : discRun.from[b] = disc[b].last
  /\ \A i \in discRun.batch : i > disc[discRun.bot].last /\ i \in UpdateIds(discRun.bot)

\* The offset of a bot is its latest membership; what is behind it is found, and so is what
\* a round has taken out of its batch.
Discovered(b, j) == ~IsMessage(b, j) => <<b, j>> \in found
DiscDone ==
  \A b \in PolledBots :
    /\ \A i \in UpdateIds(b) : <<b, i>> \in found => i <= disc[b].last
    /\ disc[b].last # 0 =>
         <<b, disc[b].last>> \in found /\ (member[b] <=> Updates[b][disc[b].last] = "joined")
    /\ "diag" \notin pollers[b] =>
         /\ forgotten[b] <= disc[b].last
         /\ \A j \in UpdateIds(b) : j <= disc[b].last => Discovered(b, j)
         /\ discRun.bot = b => \A i \in discRun.batch, j \in UpdateIds(b) :
              j < i /\ j \notin discRun.batch => Discovered(b, j)

PollingInv ==
  PollingTyped /\ DiagSound /\ RepliesCounted /\ DiagDone /\ DiscSound /\ DiscDone

LEMMA FirstIsLeast ==
  ASSUME NEW S, S \subseteq Nat, S # {}
  PROVE  First(S) \in S /\ \A j \in S : First(S) <= j
<1>1. \E x \in S : \A y \in S : ~(<<y, x>> \in OpToRel(<, Nat))
  BY NatLessThanWellFounded, WFMin
<1>2. \E x \in S : \A y \in S : x <= y
  <2>1. PICK x \in S : \A y \in S : ~(<<y, x>> \in OpToRel(<, Nat))
    BY <1>1
  <2>2. ASSUME NEW y \in S PROVE x <= y
    <3>1. x \in Nat /\ y \in Nat
      OBVIOUS
    <3>2. ASSUME y < x PROVE <<y, x>> \in OpToRel(<, Nat)
      BY <3>1, <3>2 DEF OpToRel
    <3>3. ~(y < x)
      BY <2>1, <3>2, Zenon
    <3> QED BY <3>1, <3>3
  <2> QED BY <2>2
<1> QED BY <1>2 DEF First

LEMMA PollingFacts ==
  ASSUME PollingTyped, DiagSound, DiscSound
  PROVE  /\ PolledBots \subseteq Nat \ {0}
         /\ \A b \in PolledBots : UpdateIds(b) = 1..Len(Updates[b]) /\ Len(Updates[b]) \in Nat
         /\ \A b \in PolledBots : \A i \in UpdateIds(b) : <<b, i>> \in AllUpdates
         /\ \A u \in AllUpdates : u[1] \in PolledBots /\ u[2] \in UpdateIds(u[1]) /\ u = <<u[1], u[2]>>
         /\ DiagBusy => /\ First(diagRun.batch) \in diagRun.batch
                        /\ First(diagRun.batch) \in UpdateIds(diagRun.bot)
                        /\ \A i \in diagRun.batch : First(diagRun.batch) <= i
         /\ discRun.batch # {} => /\ discRun.bot \in PolledBots
                                  /\ First(discRun.batch) \in discRun.batch
                                  /\ First(discRun.batch) \in UpdateIds(discRun.bot)
                                  /\ \A i \in discRun.batch : First(discRun.batch) <= i
         /\ discRun.todo # {} => First(discRun.todo) \in discRun.todo /\ First(discRun.todo) \in PolledBots
<1>1. PolledBots \subseteq Nat \ {0} /\ \A b \in PolledBots : Updates[b] \in Seq(PollKinds)
  BY PollingAssumption
<1>2. \A b \in PolledBots : UpdateIds(b) = 1..Len(Updates[b]) /\ Len(Updates[b]) \in Nat
  BY <1>1 DEF UpdateIds
<1>3. \A b \in PolledBots : \A i \in UpdateIds(b) : <<b, i>> \in AllUpdates
  BY DEF AllUpdates
<1>4. \A u \in AllUpdates : u[1] \in PolledBots /\ u[2] \in UpdateIds(u[1]) /\ u = <<u[1], u[2]>>
  <2> SUFFICES ASSUME NEW u \in AllUpdates
               PROVE  u[1] \in PolledBots /\ u[2] \in UpdateIds(u[1]) /\ u = <<u[1], u[2]>>
    OBVIOUS
  <2>1. PICK b \in PolledBots : u \in {b} \X UpdateIds(b)
    BY DEF AllUpdates
  <2> QED BY <2>1
<1>5. ASSUME DiagBusy
      PROVE  /\ First(diagRun.batch) \in diagRun.batch
             /\ First(diagRun.batch) \in UpdateIds(diagRun.bot)
             /\ \A i \in diagRun.batch : First(diagRun.batch) <= i
  <2>1. diagRun.batch # {} /\ diagRun.batch \subseteq Nat
    BY <1>5 DEF DiagSound, PollingTyped
  <2>2. First(diagRun.batch) \in diagRun.batch /\ \A i \in diagRun.batch : First(diagRun.batch) <= i
    BY <2>1, FirstIsLeast
  <2> QED BY <1>5, <2>2 DEF DiagSound
<1>6. ASSUME discRun.batch # {}
      PROVE  /\ discRun.bot \in PolledBots
             /\ First(discRun.batch) \in discRun.batch
             /\ First(discRun.batch) \in UpdateIds(discRun.bot)
             /\ \A i \in discRun.batch : First(discRun.batch) <= i
  <2>1. discRun.batch \subseteq Nat /\ discRun.bot \in PolledBots
    BY <1>6 DEF DiscSound, PollingTyped
  <2>2. First(discRun.batch) \in discRun.batch /\ \A i \in discRun.batch : First(discRun.batch) <= i
    BY <1>6, <2>1, FirstIsLeast
  <2> QED BY <2>1, <2>2 DEF DiscSound
<1>7. ASSUME discRun.todo # {}
      PROVE  First(discRun.todo) \in discRun.todo /\ First(discRun.todo) \in PolledBots
  <2>1. discRun.todo \subseteq PolledBots /\ discRun.todo \subseteq Nat
    BY <1>1 DEF PollingTyped
  <2>2. First(discRun.todo) \in discRun.todo
    BY <1>7, <2>1, FirstIsLeast
  <2> QED BY <2>1, <2>2
<1> QED BY <1>1, <1>2, <1>3, <1>4, <1>5, <1>6, <1>7

LEMMA FetchedFacts ==
  ASSUME PollingTyped, NEW b \in PolledBots, NEW from \in Nat
  PROVE  /\ Fetched(b, from) \subseteq UpdateIds(b)
         /\ \A i \in Fetched(b, from) : i > from
         /\ \A i \in Fetched(b, from), j \in UpdateIds(b) :
              j < i /\ j \notin Fetched(b, from) => j <= from \/ j <= forgotten[b]
<1>1. issued[b] \in Nat /\ issued[b] <= Len(Updates[b]) /\ forgotten[b] \in Nat
  BY DEF PollingTyped
<1>2. UpdateIds(b) = 1..Len(Updates[b]) /\ Len(Updates[b]) \in Nat
  BY PollingAssumption DEF UpdateIds
<1> QED BY <1>1, <1>2 DEF Fetched

LEMMA ForgetsFacts ==
  ASSUME PollingTyped, NEW b \in PolledBots, NEW from \in Nat, Forgets(b, from)
  PROVE  /\ forgotten' \in [PolledBots -> Nat]
         /\ forgotten'[b] <= forgotten[b] \/ forgotten'[b] <= from
         /\ \A c \in PolledBots : c # b => forgotten'[c] = forgotten[c]
<1>1. issued[b] \in Nat /\ forgotten[b] \in Nat /\ forgotten \in [PolledBots -> Nat]
  BY DEF PollingTyped
<1> DEFINE to == IF from > forgotten[b] THEN IF from < issued[b] THEN from ELSE issued[b] ELSE forgotten[b]
<1>2. forgotten' = [forgotten EXCEPT ![b] = to]
  BY DEF Forgets
<1>3. to \in Nat /\ (to <= forgotten[b] \/ to <= from)
  BY <1>1
<1> HIDE DEF to
<1> QED BY <1>1, <1>2, <1>3

LEMMA PollingTypeStep ==
  PollingTyped /\ DiagSound /\ DiscSound /\ [PollingNext]_pollingVars => PollingTyped'
<1> SUFFICES ASSUME PollingTyped, DiagSound, DiscSound, [PollingNext]_pollingVars
             PROVE  PollingTyped'
  OBVIOUS
<1> DEFINE DiagRec == [at : {"idle", "ready", "record", "reply", "store"}, bot : PolledBots \cup {0},
                       from : Nat, batch : SUBSET Nat]
           DiscRec == [todo : SUBSET PolledBots, from : [PolledBots -> Nat], bot : PolledBots \cup {0},
                       batch : SUBSET Nat]
<1>1. DiagIdle \in DiagRec /\ DiscIdle \in DiscRec
  BY DEF DiagIdle, DiscIdle
<1>2. diagRun \in DiagRec /\ discRun \in DiscRec
  BY DEF PollingTyped
<1>3. /\ issued \in [PolledBots -> Nat] /\ \A b \in PolledBots : issued[b] <= Len(Updates[b])
      /\ forgotten \in [PolledBots -> Nat]
      /\ diag \in [bot : PolledBots, on : BOOLEAN, last : Nat]
      /\ recorded \subseteq AllUpdates /\ replies \in [AllUpdates -> Nat]
      /\ disc \in [PolledBots -> [on : BOOLEAN, last : Nat]]
      /\ found \subseteq AllUpdates /\ member \in [PolledBots -> BOOLEAN]
      /\ pollers \in [PolledBots -> SUBSET {"diag", "disc"}]
      /\ deaths \in Nat /\ switches \in Nat
  BY DEF PollingTyped
<1>4. \A b \in PolledBots : UpdateIds(b) \subseteq Nat /\ Len(Updates[b]) \in Nat
  BY PollingFacts
<1> HIDE DEF DiagRec, DiscRec
<1>5. ASSUME NEW b \in PolledBots, NewUpdate(b)
      PROVE  PollingTyped'
  <2>1. issued[b] < Len(Updates[b]) /\ issued' = [issued EXCEPT ![b] = issued[b] + 1]
        /\ UNCHANGED <<forgotten, diag, diagRun, recorded, replies, disc, discRun, found, member,
                       pollers, deaths, switches>>
    BY <1>5 DEF NewUpdate
  <2>2. issued' \in [PolledBots -> Nat] /\ \A c \in PolledBots : issued'[c] <= Len(Updates[c])
    BY <1>3, <1>4, <2>1
  <2> QED BY <1>3, <2>1, <2>2 DEF PollingTyped
<1>6. ASSUME NEW b \in PolledBots, ToggleDiscovery(b)
      PROVE  PollingTyped'
  <2> DEFINE d == [disc[b] EXCEPT !.on = ~@]
  <2>1. disc' = [disc EXCEPT ![b] = d] /\ switches' = switches + 1
        /\ UNCHANGED <<issued, forgotten, diag, diagRun, recorded, replies, discRun, found, member,
                       pollers, deaths>>
    BY <1>6 DEF ToggleDiscovery
  <2>2. d \in [on : BOOLEAN, last : Nat]
    BY <1>3
  <2> HIDE DEF d
  <2>3. disc' \in [PolledBots -> [on : BOOLEAN, last : Nat]] /\ switches' \in Nat
    BY <1>3, <2>1, <2>2
  <2> QED BY <1>2, <1>3, <2>1, <2>3 DEF PollingTyped, DiagRec, DiscRec
<1>7. ASSUME NEW b \in PolledBots, NEW on \in BOOLEAN, SelectDiag(b, on)
      PROVE  PollingTyped'
  <2>1. diag' = [diag EXCEPT !.bot = b, !.on = on] /\ switches' = switches + 1
        /\ UNCHANGED <<issued, forgotten, diagRun, recorded, replies, disc, discRun, found, member,
                       pollers, deaths>>
    BY <1>7 DEF SelectDiag
  <2>2. diag' \in [bot : PolledBots, on : BOOLEAN, last : Nat] /\ switches' \in Nat
    <3>1. ASSUME NEW d \in [bot : PolledBots, on : BOOLEAN, last : Nat]
          PROVE  [d EXCEPT !.bot = b, !.on = on] \in [bot : PolledBots, on : BOOLEAN, last : Nat]
      OBVIOUS
    <3>2. switches' \in Nat
      BY <1>3, <2>1
    <3> QED BY <1>3, <2>1, <3>1, <3>2
  <2> QED BY <1>2, <1>3, <2>1, <2>2 DEF PollingTyped, DiagRec, DiscRec
<1>8. CASE DiagReads
  <2>1. diagRun' = [DiagIdle EXCEPT !.at = "ready", !.bot = diag.bot, !.from = diag.last]
        /\ UNCHANGED <<issued, forgotten, diag, recorded, replies, disc, discRun, found, member,
                       pollers, deaths, switches>>
    BY <1>8 DEF DiagReads
  <2>2. diag.bot \in PolledBots /\ diag.last \in Nat
    BY <1>3
  <2>3. diagRun' \in DiagRec
    BY <1>1, <2>1, <2>2 DEF DiagRec, DiagIdle
  <2> QED BY <1>2, <1>3, <2>1, <2>3 DEF PollingTyped, DiagRec, DiscRec
<1>9. CASE DiagFetches
  <2> DEFINE b == diagRun.bot
  <2>1. /\ diagRun.at = "ready" /\ pollers' = [pollers EXCEPT ![b] = @ \cup {"diag"}]
        /\ UNCHANGED <<issued, diag, recorded, replies, disc, discRun, found, member, deaths, switches>>
        /\ \/ diagRun' = DiagIdle /\ UNCHANGED forgotten
           \/ DiagNext(Fetched(b, diagRun.from)) /\ Forgets(b, diagRun.from)
    BY <1>9 DEF DiagFetches
  <2>2. b \in PolledBots /\ diagRun.from \in Nat
    BY <1>2, <2>1 DEF DiagSound, DiagRec
  <2>3. diagRun' \in DiagRec
    <3>1. CASE DiagNext(Fetched(b, diagRun.from))
      <4>1. Fetched(b, diagRun.from) \in SUBSET Nat
        BY <1>4, <2>2, FetchedFacts
      <4>2. [diagRun EXCEPT !.at = "record", !.batch = Fetched(b, diagRun.from)] \in DiagRec
        BY <1>2, <4>1 DEF DiagRec
      <4> QED BY <1>1, <3>1, <4>2 DEF DiagNext
    <3> QED BY <1>1, <2>1, <3>1
  <2>4. forgotten' \in [PolledBots -> Nat]
    BY <1>3, <2>1, <2>2, ForgetsFacts
  <2>5. pollers' \in [PolledBots -> SUBSET {"diag", "disc"}]
    BY <1>3, <2>1, <2>2
  <2> QED BY <1>2, <1>3, <2>1, <2>3, <2>4, <2>5 DEF PollingTyped, DiagRec, DiscRec
<1>10. CASE DiagRecords
  <2>1. /\ diagRun.at = "record" /\ diagRun' = [diagRun EXCEPT !.at = "reply"]
        /\ recorded' \in {recorded, recorded \cup {<<diagRun.bot, First(diagRun.batch)>>}}
        /\ UNCHANGED <<issued, forgotten, diag, replies, disc, discRun, found, member, pollers, deaths, switches>>
    BY <1>10 DEF DiagRecords
  <2>2. diagRun' \in DiagRec
    BY <1>2, <2>1 DEF DiagRec
  <2>3. <<diagRun.bot, First(diagRun.batch)>> \in AllUpdates
    BY <2>1, PollingFacts DEF DiagBusy, DiagSound
  <2>4. recorded' \subseteq AllUpdates
    BY <1>3, <2>1, <2>3
  <2> QED BY <1>2, <1>3, <2>1, <2>2, <2>4 DEF PollingTyped, DiagRec, DiscRec
<1>11. CASE DiagReplies
  <2> DEFINE u == <<diagRun.bot, First(diagRun.batch)>>
  <2>1. /\ diagRun.at = "reply" /\ diagRun' = [diagRun EXCEPT !.at = "store"]
        /\ replies' = replies \/ replies' = [replies EXCEPT ![u] = @ + 1]
        /\ UNCHANGED <<issued, forgotten, diag, recorded, disc, discRun, found, member, pollers, deaths, switches>>
    BY <1>11 DEF DiagReplies
  <2>2. diagRun' \in DiagRec
    BY <1>2, <2>1 DEF DiagRec
  <2>3. u \in AllUpdates
    BY <2>1, PollingFacts DEF DiagBusy, DiagSound
  <2> HIDE DEF u
  <2>4. replies' \in [AllUpdates -> Nat]
    <3>1. replies[u] + 1 \in Nat
      BY <1>3, <2>3
    <3> QED BY <1>3, <2>1, <2>3, <3>1
  <2> QED BY <1>2, <1>3, <2>1, <2>2, <2>4 DEF PollingTyped, DiagRec, DiscRec
<1>12. CASE DiagStores
  <2> DEFINE i == First(diagRun.batch)
  <2>1. /\ diagRun.at = "store" /\ diag' = [diag EXCEPT !.last = i] /\ DiagNext(diagRun.batch \ {i})
        /\ UNCHANGED <<issued, forgotten, recorded, replies, disc, discRun, found, member, pollers, deaths, switches>>
    BY <1>12 DEF DiagStores
  <2>2. i \in Nat
    BY <1>2, <2>1, PollingFacts DEF DiagBusy, DiagSound, DiagRec
  <2>3. diagRun' \in DiagRec
    <3>1. diagRun.batch \ {i} \in SUBSET Nat
      BY <1>2 DEF DiagRec
    <3>2. [diagRun EXCEPT !.at = "record", !.batch = diagRun.batch \ {i}] \in DiagRec
      BY <1>2, <3>1 DEF DiagRec
    <3> QED BY <1>1, <2>1, <3>2 DEF DiagNext
  <2> HIDE DEF i
  <2>4. diag' \in [bot : PolledBots, on : BOOLEAN, last : Nat]
    BY <1>3, <2>1, <2>2
  <2> QED BY <1>2, <1>3, <2>1, <2>3, <2>4 DEF PollingTyped, DiagRec, DiscRec
<1>13. CASE DiagDies
  <2>1. diagRun' = DiagIdle /\ deaths' = deaths + 1
        /\ UNCHANGED <<issued, forgotten, diag, discRun, recorded, replies, disc, found, member, pollers, switches>>
    BY <1>13 DEF DiagDies
  <2>2. deaths' \in Nat
    BY <1>3, <2>1
  <2> QED BY <1>1, <1>2, <1>3, <2>1, <2>2 DEF PollingTyped, DiagRec, DiscRec
<1>14. CASE DiscBegins
  <2>1. /\ discRun' = [DiscIdle EXCEPT !.todo = {b \in PolledBots : disc[b].on},
                                       !.from = [b \in PolledBots |-> disc[b].last]]
        /\ UNCHANGED <<issued, forgotten, diag, diagRun, recorded, replies, disc, found, member, pollers, deaths, switches>>
    BY <1>14 DEF DiscBegins
  <2>2. [b \in PolledBots |-> disc[b].last] \in [PolledBots -> Nat]
    BY <1>3
  <2>3. discRun' \in DiscRec
    BY <1>1, <2>1, <2>2 DEF DiscRec, DiscIdle
  <2> QED BY <1>2, <1>3, <2>1, <2>3 DEF PollingTyped, DiagRec, DiscRec
<1>15. CASE DiscFetches
  <2> DEFINE b == First(discRun.todo)
             batch == Fetched(b, discRun.from[b])
  <2>1. /\ discRun.todo # {} /\ pollers' = [pollers EXCEPT ![b] = @ \cup {"disc"}]
        /\ UNCHANGED <<issued, diag, diagRun, recorded, replies, disc, found, member, deaths, switches>>
        /\ UNCHANGED forgotten \/ Forgets(b, discRun.from[b])
        /\ discRun' \in {DiscIdle, [discRun EXCEPT !.todo = @ \ {b}, !.bot = b, !.batch = batch],
                         [discRun EXCEPT !.todo = @ \ {b}]}
    BY <1>15 DEF DiscFetches
  <2>2. b \in PolledBots /\ discRun.from[b] \in Nat
    <3>1. b \in PolledBots
      BY <2>1, PollingFacts
    <3> QED BY <1>2, <3>1 DEF DiscRec
  <2>3. batch \in SUBSET Nat
    BY <1>4, <2>2, FetchedFacts
  <2> HIDE DEF batch, b
  <2>4. discRun' \in DiscRec
    <3>1. [discRun EXCEPT !.todo = @ \ {b}, !.bot = b, !.batch = batch] \in DiscRec
      BY <1>2, <2>2, <2>3 DEF DiscRec
    <3>2. [discRun EXCEPT !.todo = @ \ {b}] \in DiscRec
      BY <1>2 DEF DiscRec
    <3> QED BY <1>1, <2>1, <3>1, <3>2
  <2>5. forgotten' \in [PolledBots -> Nat]
    BY <1>3, <2>1, <2>2, ForgetsFacts
  <2>6. pollers' \in [PolledBots -> SUBSET {"diag", "disc"}]
    BY <1>3, <2>1, <2>2
  <2> QED BY <1>2, <1>3, <2>1, <2>4, <2>5, <2>6 DEF PollingTyped, DiagRec, DiscRec
<1>16. ASSUME NEW i, DiscNext(discRun.todo, discRun.batch \ {i})
       PROVE  discRun' \in DiscRec
  <2>1. [discRun EXCEPT !.todo = discRun.todo, !.batch = discRun.batch \ {i}] \in DiscRec
    BY <1>2 DEF DiscRec
  <2>2. [discRun EXCEPT !.todo = discRun.todo, !.bot = 0, !.batch = {}] \in DiscRec
    BY <1>2 DEF DiscRec
  <2> QED BY <1>1, <1>16, <2>1, <2>2 DEF DiscNext
<1>17. CASE DiscSkips
  <2>1. discRun' \in DiscRec
    BY <1>16, <1>17 DEF DiscSkips
  <2> QED BY <1>2, <1>3, <1>17, <2>1 DEF DiscSkips, PollingTyped, DiagRec, DiscRec
<1>18. CASE DiscProcesses
  <2> DEFINE b == discRun.bot
             i == First(discRun.batch)
  <2>1. /\ discRun.batch # {} /\ DiscNext(discRun.todo, discRun.batch \ {i})
        /\ member' = [member EXCEPT ![b] = Updates[b][i] = "joined"]
        /\ found' = found \cup {<<b, i>>} /\ disc' = [disc EXCEPT ![b].last = i]
        /\ UNCHANGED <<issued, forgotten, diag, diagRun, recorded, replies, pollers, deaths, switches>>
    BY <1>18 DEF DiscProcesses
  <2>2. b \in PolledBots /\ i \in UpdateIds(b) /\ <<b, i>> \in AllUpdates
    BY <2>1, PollingFacts
  <2>3. i \in Nat
    BY <1>4, <2>2
  <2>4. discRun' \in DiscRec
    BY <1>16, <2>1
  <2>5. disc' \in [PolledBots -> [on : BOOLEAN, last : Nat]]
    <3> DEFINE d == [disc[b] EXCEPT !.last = i]
    <3>1. disc' = [disc EXCEPT ![b] = d]
      BY <2>1
    <3>2. d \in [on : BOOLEAN, last : Nat]
      BY <1>3, <2>2, <2>3
    <3> HIDE DEF d, b
    <3> QED BY <1>3, <3>1, <3>2
  <2>6. member' \in [PolledBots -> BOOLEAN]
    BY <1>3, <2>1
  <2>7. found' \subseteq AllUpdates
    BY <1>3, <2>1, <2>2
  <2> QED BY <1>2, <1>3, <2>1, <2>4, <2>5, <2>6, <2>7 DEF PollingTyped, DiagRec, DiscRec
<1>19. CASE DiscDies
  <2>1. discRun' = DiscIdle /\ deaths' = deaths + 1
        /\ UNCHANGED <<issued, forgotten, diag, diagRun, recorded, replies, disc, found, member, pollers, switches>>
    BY <1>19 DEF DiscDies
  <2>2. deaths' \in Nat
    BY <1>3, <2>1
  <2> QED BY <1>1, <1>2, <1>3, <2>1, <2>2 DEF PollingTyped, DiagRec, DiscRec
<1>20. CASE UNCHANGED pollingVars
  BY <1>3, <1>20 DEF pollingVars, PollingTyped
<1> QED
  BY <1>5, <1>6, <1>7, <1>8, <1>9, <1>10, <1>11, <1>12, <1>13, <1>14, <1>15, <1>17, <1>18, <1>19, <1>20
  DEF PollingNext, DiagRound, DiscRound

\* What the other bot and Telegram do leaves the diagnostic bot's promises alone: a bot that
\* discovery asks for is no longer its own.
LEMMA DiagUndisturbed ==
  ASSUME PollingInv, UNCHANGED <<diag, diagRun, recorded, replies>>,
         deaths' \in Nat, deaths <= deaths', switches' = switches \/ switches' # 0,
         \A b \in PolledBots : \/ pollers'[b] = pollers[b] /\ forgotten'[b] = forgotten[b]
                               \/ pollers'[b] = pollers[b] \cup {"disc"}
  PROVE  DiagSound' /\ RepliesCounted' /\ DiagDone'
<1>1. PollingTyped /\ DiagSound /\ RepliesCounted /\ DiagDone /\ deaths \in Nat
  BY DEF PollingInv, PollingTyped
<1>2. DiagSound'
  BY <1>1 DEF DiagSound, DiagBusy
<1>3. RepliesCounted'
  <2> SUFFICES ASSUME NEW b \in PolledBots, NEW i \in UpdateIds(b)
               PROVE  /\ replies[<<b, i>>] <= 1 + deaths'
                      /\ i > diag.last /\ ~Unstored(b, i) => replies[<<b, i>>] <= deaths'
    BY DEF RepliesCounted, Unstored
  <2>1. replies[<<b, i>>] \in Nat
    BY <1>1, PollingFacts DEF PollingTyped, PollingInv
  <2>2. /\ replies[<<b, i>>] <= 1 + deaths
        /\ i > diag.last /\ ~Unstored(b, i) => replies[<<b, i>>] <= deaths
    BY <1>1 DEF RepliesCounted
  <2> QED BY <1>1, <2>1, <2>2
<1>4. ASSUME switches' = 0 PROVE DiagDone'
  <2>1. switches = 0 /\ diag.bot \in PolledBots
    BY <1>1, <1>4 DEF PollingTyped
  <2>2. \A b \in PolledBots : ("diag" \in pollers'[b] <=> "diag" \in pollers[b])
                              /\ ("disc" \notin pollers'[b] => "disc" \notin pollers[b] /\ forgotten'[b] = forgotten[b])
    OBVIOUS
  <2> QED BY <1>1, <2>1, <2>2 DEF DiagDone, Reported, DiagBusy
<1> QED BY <1>2, <1>3, <1>4 DEF DiagDone

LEMMA DiagStep == PollingInv /\ [PollingNext]_pollingVars => DiagSound' /\ RepliesCounted' /\ DiagDone'
<1> SUFFICES ASSUME PollingInv, [PollingNext]_pollingVars
             PROVE  DiagSound' /\ RepliesCounted' /\ DiagDone'
  OBVIOUS
<1>1. PollingTyped /\ DiagSound /\ RepliesCounted /\ DiagDone /\ DiscSound
  BY DEF PollingInv
<1>2. /\ deaths \in Nat /\ switches \in Nat /\ diag.last \in Nat /\ diag.bot \in PolledBots
      /\ diagRun \in [at : {"idle", "ready", "record", "reply", "store"}, bot : PolledBots \cup {0},
                      from : Nat, batch : SUBSET Nat]
      /\ replies \in [AllUpdates -> Nat]
      /\ pollers \in [PolledBots -> SUBSET {"diag", "disc"}]
      /\ \A b \in PolledBots : UpdateIds(b) \subseteq Nat
      /\ \A b \in PolledBots : \A i \in UpdateIds(b) : <<b, i>> \in AllUpdates
  <2>1. \A b \in PolledBots : UpdateIds(b) \subseteq Nat
    BY <1>1, PollingFacts
  <2>2. \A b \in PolledBots : \A i \in UpdateIds(b) : <<b, i>> \in AllUpdates
    BY DEF AllUpdates
  <2> QED BY <1>1, <2>1, <2>2 DEF PollingTyped
<1>3. ASSUME NEW b \in PolledBots, NewUpdate(b) \/ ToggleDiscovery(b)
      PROVE  DiagSound' /\ RepliesCounted' /\ DiagDone'
  BY <1>2, <1>3, DiagUndisturbed DEF NewUpdate, ToggleDiscovery
<1>4. CASE DiscBegins \/ DiscSkips \/ DiscProcesses
  BY <1>2, <1>4, DiagUndisturbed DEF DiscBegins, DiscSkips, DiscProcesses
<1>5. CASE DiscDies
  BY <1>2, <1>5, DiagUndisturbed DEF DiscDies
<1>6. CASE DiscFetches
  <2> DEFINE b == First(discRun.todo)
  <2>1. /\ discRun.todo # {} /\ pollers' = [pollers EXCEPT ![b] = @ \cup {"disc"}]
        /\ UNCHANGED <<diag, diagRun, recorded, replies, deaths, switches>>
        /\ UNCHANGED forgotten \/ Forgets(b, discRun.from[b])
    BY <1>6 DEF DiscFetches
  <2>2. b \in PolledBots /\ discRun.from[b] \in Nat
    <3>1. b \in PolledBots
      BY <1>1, <2>1, PollingFacts
    <3> QED BY <1>1, <3>1 DEF PollingTyped
  <2> HIDE DEF b
  <2>3. \A c \in PolledBots : c # b => pollers'[c] = pollers[c] /\ forgotten'[c] = forgotten[c]
    BY <1>1, <1>2, <2>1, <2>2, ForgetsFacts
  <2>4. pollers'[b] = pollers[b] \cup {"disc"}
    BY <1>2, <2>1, <2>2
  <2> QED BY <1>2, <2>1, <2>3, <2>4, DiagUndisturbed
<1>7. ASSUME NEW b \in PolledBots, NEW on \in BOOLEAN, SelectDiag(b, on)
      PROVE  DiagSound' /\ RepliesCounted' /\ DiagDone'
  <2>1. switches' # 0 /\ diag'.last = diag.last
        /\ UNCHANGED <<forgotten, diagRun, recorded, replies, pollers, deaths>>
    BY <1>1, <1>2, <1>7 DEF SelectDiag, PollingTyped
  <2> QED BY <1>1, <2>1 DEF DiagSound, DiagBusy, RepliesCounted, Unstored, DiagDone
<1>8. CASE DiagReads
  <2>1. /\ diagRun' = [DiagIdle EXCEPT !.at = "ready", !.bot = diag.bot, !.from = diag.last]
        /\ UNCHANGED <<forgotten, diag, recorded, replies, pollers, deaths, switches>>
        /\ diagRun.at = "idle"
    BY <1>8 DEF DiagReads
  <2>2. diagRun'.at = "ready" /\ diagRun'.bot = diag.bot /\ diagRun'.from = diag.last
    BY <2>1 DEF DiagIdle
  <2> QED BY <1>1, <1>2, <2>1, <2>2 DEF DiagSound, DiagBusy, RepliesCounted, Unstored, DiagDone, Reported
<1>9. CASE DiagDies
  <2>1. diagRun' = DiagIdle /\ deaths' = deaths + 1
        /\ UNCHANGED <<forgotten, diag, recorded, replies, pollers, switches>>
    BY <1>9 DEF DiagDies
  <2>2. diagRun'.at = "idle"
    BY <2>1 DEF DiagIdle
  <2>3. RepliesCounted'
    <3> SUFFICES ASSUME NEW b \in PolledBots, NEW i \in UpdateIds(b)
                 PROVE  replies[<<b, i>>] <= deaths + 1 /\ replies[<<b, i>>] <= 1 + (deaths + 1)
      BY <2>1 DEF RepliesCounted
    <3>1. replies[<<b, i>>] \in Nat /\ replies[<<b, i>>] <= 1 + deaths
      BY <1>1, <1>2 DEF RepliesCounted
    <3> QED BY <1>2, <3>1
  <2> QED BY <1>1, <2>1, <2>2, <2>3 DEF DiagSound, DiagBusy, DiagDone, Reported
<1>10. CASE DiagFetches
  <2> DEFINE b == diagRun.bot
             batch == Fetched(b, diagRun.from)
  <2>1. /\ diagRun.at = "ready" /\ pollers' = [pollers EXCEPT ![b] = @ \cup {"diag"}]
        /\ UNCHANGED <<diag, recorded, replies, deaths, switches>>
        /\ \/ diagRun' = DiagIdle /\ UNCHANGED forgotten
           \/ DiagNext(batch) /\ Forgets(b, diagRun.from)
    BY <1>10 DEF DiagFetches
  <2>2. b \in PolledBots /\ diagRun.from = diag.last
    BY <1>1, <2>1 DEF DiagSound
  <2>3. /\ batch \subseteq UpdateIds(b) /\ \A i \in batch : i > diag.last
        /\ \A i \in batch, j \in UpdateIds(b) : j < i /\ j \notin batch => j <= diag.last \/ j <= forgotten[b]
    BY <1>1, <1>2, <2>2, FetchedFacts
  <2>4. /\ forgotten' = forgotten \/ (forgotten'[b] <= forgotten[b] \/ forgotten'[b] <= diag.last)
        /\ forgotten'[b] \in Nat /\ forgotten[b] \in Nat
    <3>1. CASE Forgets(b, diagRun.from)
      BY <1>1, <1>2, <2>2, <3>1, ForgetsFacts DEF PollingTyped
    <3> QED BY <1>1, <2>1, <2>2, <3>1 DEF PollingTyped
  <2>5. \/ diagRun'.at = "idle"
        \/ /\ diagRun'.at = "record" /\ diagRun'.bot = b /\ diagRun'.batch = batch /\ batch # {}
    <3>1. CASE DiagNext(batch)
      <4> HIDE DEF batch
      <4> QED BY <1>2, <3>1 DEF DiagNext, DiagIdle
    <3> QED BY <2>1, <3>1 DEF DiagIdle
  <2>6. diagRun.bot = b
    OBVIOUS
  <2> HIDE DEF batch, b
  <2>7. pollers'[b] = pollers[b] \cup {"diag"} /\ \A c \in PolledBots : c # b => pollers'[c] = pollers[c]
    BY <1>2, <2>1, <2>2
  <2>8. DiagSound'
    BY <2>1, <2>2, <2>3, <2>5 DEF DiagSound, DiagBusy
  <2>9. RepliesCounted'
    BY <1>1, <2>1, <2>5 DEF RepliesCounted, Unstored
  <2>10. ASSUME switches = 0 PROVE DiagDone'
    <3>1. b = diag.bot
      BY <1>1, <2>1, <2>6, <2>10 DEF DiagDone
    <3>2. ASSUME "disc" \notin pollers'[b]
          PROVE  /\ forgotten'[b] <= diag.last
                 /\ \A j \in UpdateIds(b) : j <= diag.last => Reported(b, j)
                 /\ \A i \in batch, j \in UpdateIds(b) : j < i /\ j \notin batch => Reported(b, j)
      <4>1. "disc" \notin pollers[b]
        BY <2>7, <3>2
      <4>2. forgotten[b] <= diag.last /\ \A j \in UpdateIds(b) : j <= diag.last => Reported(b, j)
        BY <1>1, <2>10, <3>1, <4>1 DEF DiagDone
      <4>3. forgotten'[b] <= diag.last
        BY <1>2, <2>4, <4>2
      <4>4. \A j \in UpdateIds(b) : j \in Nat /\ (j <= diag.last \/ j <= forgotten[b] => j <= diag.last)
        BY <1>2, <2>2, <2>4, <4>2
      <4> QED BY <2>3, <4>2, <4>3, <4>4
    <3>3. \A c \in PolledBots : "diag" \in pollers'[c] => c = b
      BY <1>1, <2>7, <2>10, <3>1 DEF DiagDone
    <3>4. \A u \in recorded : u[1] = b
      BY <1>1, <2>10, <3>1 DEF DiagDone
    <3> QED BY <2>1, <2>5, <3>1, <3>2, <3>3, <3>4 DEF DiagDone, DiagBusy, Reported
  <2> QED BY <2>1, <2>8, <2>9, <2>10 DEF DiagDone
<1>11. CASE DiagRecords
  <2> DEFINE b == diagRun.bot
             i == First(diagRun.batch)
  <2>1. /\ diagRun.at = "record" /\ diagRun' = [diagRun EXCEPT !.at = "reply"]
        /\ recorded' = (IF \E u \in recorded : u[2] = i THEN recorded ELSE recorded \cup {<<b, i>>})
        /\ UNCHANGED <<forgotten, diag, replies, pollers, deaths, switches>>
    BY <1>11 DEF DiagRecords
  <2>2. diagRun'.at = "reply" /\ diagRun'.bot = b /\ diagRun'.batch = diagRun.batch
    BY <1>2, <2>1
  <2>3. DiagSound'
    BY <1>1, <2>1, <2>2 DEF DiagSound, DiagBusy
  <2>4. RepliesCounted'
    BY <1>1, <2>1, <2>2 DEF RepliesCounted, Unstored
  <2>5. ASSUME switches = 0 PROVE DiagDone'
    <3>1. b = diag.bot /\ \A u \in recorded : u[1] = b
      BY <1>1, <2>1, <2>5 DEF DiagDone
    <3>2. <<b, i>> \in recorded' /\ recorded \subseteq recorded' /\ \A u \in recorded' : u[1] = b
      <4>1. \A u \in recorded : u = <<u[1], u[2]>>
        BY <1>1, PollingFacts DEF PollingTyped
      <4> QED BY <2>1, <3>1, <4>1
    <3> QED BY <1>1, <2>1, <2>2, <2>5, <3>1, <3>2 DEF DiagDone, DiagBusy, Reported
  <2> QED BY <2>1, <2>3, <2>4, <2>5 DEF DiagDone
<1>12. CASE DiagReplies
  <2>0. PICK b, i : diagRun.bot = b /\ First(diagRun.batch) = i
    OBVIOUS
  <2>1. /\ diagRun.at = "reply" /\ diagRun' = [diagRun EXCEPT !.at = "store"]
        /\ replies' = (IF Updates[b][i] = "message" THEN [replies EXCEPT ![<<b, i>>] = @ + 1] ELSE replies)
        /\ UNCHANGED <<forgotten, diag, recorded, pollers, deaths, switches>>
    BY <1>12, <2>0 DEF DiagReplies
  <2>2. diagRun'.at = "store" /\ diagRun'.bot = b /\ diagRun'.batch = diagRun.batch
    BY <1>2, <2>0, <2>1
  <2>3. b \in PolledBots /\ i \in UpdateIds(b) /\ <<b, i>> \in AllUpdates /\ i > diag.last
    <3>1. i \in diagRun.batch /\ i \in UpdateIds(b) /\ b \in PolledBots
      BY <1>1, <2>0, <2>1, PollingFacts DEF DiagBusy, DiagSound
    <3> QED BY <1>1, <1>2, <2>0, <2>1, <3>1 DEF DiagBusy, DiagSound
  <2>4. DiagSound'
    BY <1>1, <2>1, <2>2 DEF DiagSound, DiagBusy
  <2>5. /\ \A c \in PolledBots : \A j \in UpdateIds(c) : c # b \/ j # i => replies'[<<c, j>>] = replies[<<c, j>>]
        /\ IsMessage(b, i) => replies'[<<b, i>>] = replies[<<b, i>>] + 1
        /\ ~IsMessage(b, i) => replies'[<<b, i>>] = replies[<<b, i>>]
    <3>1. \A c \in PolledBots : \A j \in UpdateIds(c) : <<c, j>> \in AllUpdates /\ (c # b \/ j # i => <<c, j>> # <<b, i>>)
      BY <1>2
    <3> QED BY <1>2, <2>1, <2>3, <3>1 DEF IsMessage
  <2>6. diagRun.bot = b /\ First(diagRun.batch) = i
    BY <2>0
  <2>7. replies[<<b, i>>] \in Nat /\ replies[<<b, i>>] <= deaths
    BY <1>1, <1>2, <2>0, <2>1, <2>3 DEF RepliesCounted, Unstored
  <2>8. RepliesCounted'
    <3> SUFFICES ASSUME NEW c \in PolledBots, NEW j \in UpdateIds(c)
                 PROVE  /\ replies'[<<c, j>>] <= 1 + deaths
                        /\ j > diag.last /\ ~Unstored(c, j)' => replies'[<<c, j>>] <= deaths
      BY <2>1 DEF RepliesCounted
    <3>1. CASE c = b /\ j = i
      BY <1>2, <2>2, <2>5, <2>6, <2>7, <3>1 DEF Unstored
    <3>2. CASE c # b \/ j # i
      BY <1>1, <2>1, <2>5, <3>2 DEF RepliesCounted, Unstored
    <3> QED BY <3>1, <3>2
  <2>9. ASSUME switches = 0 PROVE DiagDone'
    <3>1. b = diag.bot /\ <<b, i>> \in recorded
      BY <1>1, <2>1, <2>6, <2>9 DEF DiagDone
    <3>2. \A j \in UpdateIds(b) : Reported(b, j) => Reported(b, j)'
      <4> SUFFICES ASSUME NEW j \in UpdateIds(b), IsMessage(b, j), <<b, j>> \in recorded, replies[<<b, j>>] > 0
                   PROVE  replies'[<<b, j>>] > 0
        BY <2>1 DEF Reported, IsMessage
      <4>1. CASE j = i
        BY <2>5, <2>7, <4>1
      <4>2. CASE j # i
        BY <2>3, <2>5, <4>2
      <4> QED BY <4>1, <4>2
    <3>3. Reported(b, i)'
      <4>1. IsMessage(b, i) => replies'[<<b, i>>] > 0
        BY <2>5, <2>7
      <4> QED BY <2>1, <3>1, <4>1 DEF Reported, IsMessage
    <3>4. First(diagRun'.batch) = i
      BY <2>2, <2>6
    <3>5. /\ \A u \in recorded : u[1] = b
          /\ \A c \in PolledBots : "diag" \in pollers[c] => c = b
      BY <1>1, <2>9, <3>1 DEF DiagDone
    <3>6. ASSUME "disc" \notin pollers[b]
          PROVE  /\ forgotten[b] <= diag.last
                 /\ \A j \in UpdateIds(b) : j <= diag.last => Reported(b, j)'
                 /\ \A k \in diagRun.batch, j \in UpdateIds(b) :
                      j < k /\ j \notin diagRun.batch => Reported(b, j)'
      <4>1. /\ forgotten[b] <= diag.last
            /\ \A j \in UpdateIds(b) : j <= diag.last => Reported(b, j)
            /\ \A k \in diagRun.batch, j \in UpdateIds(b) : j < k /\ j \notin diagRun.batch => Reported(b, j)
        BY <1>1, <2>1, <2>9, <3>1, <3>6 DEF DiagDone, DiagBusy
      <4> QED BY <3>2, <4>1
    <3>7. /\ diag' = diag /\ diag'.bot = b /\ diagRun'.at = "store" /\ diagRun'.bot = b
          /\ UNCHANGED <<recorded, pollers, forgotten>> /\ diagRun'.batch = diagRun.batch
      BY <2>1, <2>2, <3>1
    <3> QED BY <3>1, <3>3, <3>4, <3>5, <3>6, <3>7 DEF DiagDone
  <2> QED BY <2>1, <2>4, <2>8, <2>9 DEF DiagDone
<1>13. CASE DiagStores
  <2>0. PICK b, i : diagRun.bot = b /\ First(diagRun.batch) = i
    OBVIOUS
  <2>1. /\ diagRun.at = "store" /\ diag' = [diag EXCEPT !.last = i] /\ DiagNext(diagRun.batch \ {i})
        /\ UNCHANGED <<forgotten, recorded, replies, pollers, deaths, switches>>
    BY <1>13, <2>0 DEF DiagStores
  <2>2. /\ b \in PolledBots /\ i \in UpdateIds(b) /\ i > diag.last /\ i \in diagRun.batch /\ i \in Nat
        /\ \A j \in diagRun.batch : i <= j /\ j \in UpdateIds(b) /\ j \in Nat
    <3>1. i \in diagRun.batch /\ i \in UpdateIds(b) /\ b \in PolledBots /\ \A j \in diagRun.batch : i <= j
      BY <1>1, <2>0, <2>1, PollingFacts DEF DiagBusy, DiagSound
    <3> QED BY <1>1, <1>2, <2>0, <2>1, <3>1 DEF DiagBusy, DiagSound
  <2>3. diagRun.bot = b /\ First(diagRun.batch) = i
    BY <2>0
  <2>4. diag'.last = i /\ diag'.bot = diag.bot
    BY <1>1, <2>1 DEF PollingTyped
  <2>5. \/ diagRun'.at = "idle"
        \/ /\ diagRun'.at = "record" /\ diagRun'.bot = b /\ diagRun'.batch = diagRun.batch \ {i}
           /\ diagRun.batch \ {i} # {}
    BY <1>2, <2>1, <2>3 DEF DiagNext, DiagIdle
  <2>6. \A j \in diagRun.batch \ {i} : j > i
    BY <2>2
  <2>7. DiagSound'
    BY <2>2, <2>4, <2>5, <2>6 DEF DiagSound, DiagBusy
  <2>8. RepliesCounted'
    <3> SUFFICES ASSUME NEW c \in PolledBots, NEW j \in UpdateIds(c)
                 PROVE  replies[<<c, j>>] <= 1 + deaths /\ (j > i => replies[<<c, j>>] <= deaths)
      BY <2>1, <2>4 DEF RepliesCounted
    <3>1. j \in Nat
      BY <1>2
    <3>2. j > i => j > diag.last /\ j # i
      BY <1>2, <2>2, <3>1
    <3> QED BY <1>1, <2>3, <3>2 DEF RepliesCounted, Unstored
  <2>9. ASSUME switches = 0 PROVE DiagDone'
    <3>1. b = diag.bot /\ Reported(b, i)
      BY <1>1, <2>1, <2>3, <2>9 DEF DiagDone
    <3>2. /\ \A u \in recorded : u[1] = b
          /\ \A c \in PolledBots : "diag" \in pollers[c] => c = b
      BY <1>1, <2>9, <3>1 DEF DiagDone
    <3>3. ASSUME "disc" \notin pollers[b]
          PROVE  /\ forgotten[b] <= i
                 /\ \A j \in UpdateIds(b) : j <= i => Reported(b, j)
                 /\ \A k \in diagRun.batch \ {i}, j \in UpdateIds(b) :
                      j < k /\ j \notin diagRun.batch \ {i} => Reported(b, j)
      <4>1. /\ forgotten[b] <= diag.last
            /\ \A k \in diagRun.batch, j \in UpdateIds(b) : j < k /\ j \notin diagRun.batch => Reported(b, j)
        BY <1>1, <2>1, <2>9, <3>1, <3>3 DEF DiagDone, DiagBusy
      <4>2. forgotten[b] \in Nat
        BY <1>1, <2>2 DEF PollingTyped
      <4>3. forgotten[b] <= i
        BY <1>2, <2>2, <4>1, <4>2
      <4>4. ASSUME NEW j \in UpdateIds(b), j <= i PROVE Reported(b, j)
        <5>1. CASE j = i
          BY <3>1, <5>1
        <5>2. CASE j # i
          <6>1. j \in Nat
            BY <1>2, <2>2
          <6>2. j < i /\ j \notin diagRun.batch
            BY <2>2, <4>4, <5>2, <6>1
          <6> QED BY <2>2, <4>1, <6>2
        <5> QED BY <5>1, <5>2
      <4> QED BY <3>1, <4>1, <4>3, <4>4
    <3>4. Reported(b, i)' = Reported(b, i) /\ \A j : Reported(b, j)' = Reported(b, j)
      BY <2>1 DEF Reported, IsMessage
    <3> QED BY <2>1, <2>4, <2>5, <3>1, <3>2, <3>3, <3>4 DEF DiagDone, DiagBusy
  <2> QED BY <2>1, <2>7, <2>8, <2>9 DEF DiagDone
<1>14. CASE UNCHANGED pollingVars
  BY <1>2, <1>14, DiagUndisturbed DEF pollingVars
<1> QED
  BY <1>3, <1>4, <1>5, <1>6, <1>7, <1>8, <1>9, <1>10, <1>11, <1>12, <1>13, <1>14
  DEF PollingNext, DiagRound, DiscRound

\* What the diagnostic bot and Telegram do leaves the discovery bot's promises alone: a bot
\* that the diagnostic bot asks for is no longer its own.
LEMMA DiscUndisturbed ==
  ASSUME PollingInv, UNCHANGED <<discRun, found, member>>,
         \A b \in PolledBots : disc'[b].last = disc[b].last,
         \A b \in PolledBots : \/ pollers'[b] = pollers[b] /\ forgotten'[b] = forgotten[b]
                               \/ pollers'[b] = pollers[b] \cup {"diag"}
  PROVE  DiscSound' /\ DiscDone'
<1>1. PollingTyped /\ DiagSound /\ DiscSound /\ DiscDone
  BY DEF PollingInv
<1>2. \A i \in discRun.batch : discRun.bot \in PolledBots
  BY <1>1, PollingFacts
<1>3. \A b \in discRun.todo : b \in PolledBots
  BY <1>1 DEF PollingTyped
<1>4. DiscSound'
  BY <1>1, <1>2, <1>3 DEF DiscSound
<1>5. \A b \in PolledBots : "diag" \notin pollers'[b] => "diag" \notin pollers[b] /\ forgotten'[b] = forgotten[b]
  OBVIOUS
<1>6. DiscDone'
  BY <1>1, <1>5 DEF DiscDone, Discovered, IsMessage
<1> QED BY <1>4, <1>6

\* A round that goes on with what it has left.
LEMMA DiscGoesOn ==
  ASSUME PollingTyped, NEW batch, DiscNext(discRun.todo, batch)
  PROVE  /\ discRun'.todo = discRun.todo /\ (discRun'.todo # {} => discRun'.from = discRun.from)
         /\ \/ batch # {} /\ discRun'.batch = batch /\ discRun'.bot = discRun.bot
            \/ batch = {} /\ discRun'.batch = {} /\ discRun'.bot = 0
<1>1. discRun \in [todo : SUBSET PolledBots, from : [PolledBots -> Nat], bot : PolledBots \cup {0},
                   batch : SUBSET Nat]
  BY DEF PollingTyped
<1> QED BY <1>1 DEF DiscNext, DiscIdle

LEMMA DiscStep == PollingInv /\ [PollingNext]_pollingVars => DiscSound' /\ DiscDone'
<1> SUFFICES ASSUME PollingInv, [PollingNext]_pollingVars PROVE DiscSound' /\ DiscDone'
  OBVIOUS
<1>1. PollingTyped /\ DiagSound /\ DiscSound /\ DiscDone
  BY DEF PollingInv
<1>2. /\ disc \in [PolledBots -> [on : BOOLEAN, last : Nat]]
      /\ discRun \in [todo : SUBSET PolledBots, from : [PolledBots -> Nat], bot : PolledBots \cup {0},
                      batch : SUBSET Nat]
      /\ pollers \in [PolledBots -> SUBSET {"diag", "disc"}]
      /\ member \in [PolledBots -> BOOLEAN]
      /\ \A b \in PolledBots : UpdateIds(b) \subseteq Nat \ {0}
      /\ 0 \notin PolledBots
  <2>1. \A b \in PolledBots : UpdateIds(b) \subseteq Nat \ {0}
    BY <1>1, PollingFacts
  <2> QED BY <1>1, <2>1, PollingFacts DEF PollingTyped
<1>3. ASSUME NEW b \in PolledBots, NewUpdate(b)
      PROVE  DiscSound' /\ DiscDone'
  BY <1>3, DiscUndisturbed DEF NewUpdate
<1>4. ASSUME NEW b \in PolledBots, ToggleDiscovery(b)
      PROVE  DiscSound' /\ DiscDone'
  <2>1. \A c \in PolledBots : disc'[c].last = disc[c].last
    BY <1>2, <1>4 DEF ToggleDiscovery
  <2> QED BY <1>4, <2>1, DiscUndisturbed DEF ToggleDiscovery
<1>5. ASSUME NEW b \in PolledBots, NEW on \in BOOLEAN, SelectDiag(b, on)
      PROVE  DiscSound' /\ DiscDone'
  BY <1>5, DiscUndisturbed DEF SelectDiag
<1>6. CASE DiagReads \/ DiagRecords \/ DiagReplies \/ DiagStores \/ DiagDies
  BY <1>6, DiscUndisturbed DEF DiagReads, DiagRecords, DiagReplies, DiagStores, DiagDies
<1>7. CASE DiagFetches
  <2>0. PICK b : diagRun.bot = b
    OBVIOUS
  <2>1. /\ diagRun.at = "ready" /\ pollers' = [pollers EXCEPT ![b] = @ \cup {"diag"}]
        /\ UNCHANGED <<disc, discRun, found, member>>
        /\ UNCHANGED forgotten \/ Forgets(b, diagRun.from)
    BY <1>7, <2>0 DEF DiagFetches
  <2>2. b \in PolledBots /\ diagRun.from \in Nat
    BY <1>1, <2>0, <2>1 DEF DiagSound, PollingTyped
  <2>3. \A c \in PolledBots : c # b => pollers'[c] = pollers[c] /\ forgotten'[c] = forgotten[c]
    BY <1>1, <1>2, <2>1, <2>2, ForgetsFacts
  <2>4. pollers'[b] = pollers[b] \cup {"diag"}
    BY <1>2, <2>1, <2>2
  <2> QED BY <2>1, <2>3, <2>4, DiscUndisturbed
<1>8. CASE DiscBegins
  <2>1. /\ discRun' = [DiscIdle EXCEPT !.todo = {b \in PolledBots : disc[b].on},
                                       !.from = [b \in PolledBots |-> disc[b].last]]
        /\ UNCHANGED <<forgotten, disc, found, member, pollers>>
    BY <1>8 DEF DiscBegins
  <2>2. /\ discRun'.bot = 0 /\ discRun'.batch = {} /\ discRun'.todo \subseteq PolledBots
        /\ \A b \in discRun'.todo : discRun'.from[b] = disc[b].last
    BY <2>1 DEF DiscIdle
  <2> QED BY <1>1, <1>2, <2>1, <2>2 DEF DiscSound, DiscDone, Discovered, IsMessage
<1>9. CASE DiscDies
  <2>1. discRun' = DiscIdle /\ UNCHANGED <<forgotten, disc, found, member, pollers>>
    BY <1>9 DEF DiscDies
  <2>2. discRun'.bot = 0 /\ discRun'.batch = {} /\ discRun'.todo = {}
    BY <2>1 DEF DiscIdle
  <2> QED BY <1>1, <1>2, <2>1, <2>2 DEF DiscSound, DiscDone, Discovered, IsMessage
<1>10. CASE DiscFetches
  <2>0. PICK b, batch : First(discRun.todo) = b /\ Fetched(b, discRun.from[b]) = batch
    OBVIOUS
  <2>1. /\ discRun.todo # {} /\ discRun.bot = 0 /\ pollers' = [pollers EXCEPT ![b] = @ \cup {"disc"}]
        /\ UNCHANGED <<disc, found, member>>
        /\ \/ discRun' = DiscIdle /\ UNCHANGED forgotten
           \/ /\ Forgets(b, discRun.from[b])
              /\ discRun' = IF batch # {} THEN [discRun EXCEPT !.todo = @ \ {b}, !.bot = b, !.batch = batch]
                            ELSE IF discRun.todo = {b} THEN DiscIdle
                            ELSE [discRun EXCEPT !.todo = @ \ {b}]
    BY <1>10, <2>0 DEF DiscFetches
  <2>2. b \in PolledBots /\ b \in discRun.todo /\ discRun.from[b] = disc[b].last /\ disc[b].last \in Nat
    <3>1. b \in PolledBots /\ b \in discRun.todo
      BY <1>1, <2>0, <2>1, PollingFacts
    <3> QED BY <1>1, <1>2, <3>1 DEF DiscSound
  <2>3. /\ batch \subseteq UpdateIds(b) /\ \A i \in batch : i > disc[b].last
        /\ \A i \in batch, j \in UpdateIds(b) : j < i /\ j \notin batch => j <= disc[b].last \/ j <= forgotten[b]
    BY <1>1, <2>0, <2>2, FetchedFacts
  <2>4. /\ forgotten'[b] <= forgotten[b] \/ forgotten'[b] <= disc[b].last
        /\ forgotten'[b] \in Nat /\ forgotten[b] \in Nat
        /\ \A c \in PolledBots : c # b => forgotten'[c] = forgotten[c]
    <3>1. CASE Forgets(b, discRun.from[b])
      BY <1>1, <2>2, <3>1, ForgetsFacts DEF PollingTyped
    <3> QED BY <1>1, <2>1, <2>2, <3>1 DEF PollingTyped
  <2>5. /\ discRun'.todo \subseteq discRun.todo \ {b} /\ (discRun'.todo # {} => discRun'.from = discRun.from)
        /\ \/ discRun'.bot = 0 /\ discRun'.batch = {}
           \/ discRun'.bot = b /\ discRun'.batch = batch /\ batch # {}
    <3>1. discRun.batch = {}
      BY <1>1, <2>1 DEF DiscSound
    <3>2. CASE discRun' = DiscIdle
      BY <3>2 DEF DiscIdle
    <3>3. CASE discRun' = [discRun EXCEPT !.todo = @ \ {b}, !.bot = b, !.batch = batch] /\ batch # {}
      BY <1>2, <3>3
    <3>4. CASE discRun' = [discRun EXCEPT !.todo = @ \ {b}]
      BY <1>2, <2>1, <3>1, <3>4
    <3> QED BY <2>1, <3>2, <3>3, <3>4
  <2>6. /\ \A c \in PolledBots : c # b => pollers'[c] = pollers[c]
        /\ pollers'[b] = pollers[b] \cup {"disc"}
    BY <1>2, <2>1, <2>2
  <2>7. DiscSound'
    <3>1. \A c \in discRun'.todo : discRun'.from[c] = disc[c].last
      BY <1>1, <2>5 DEF DiscSound
    <3>2. 0 \notin discRun'.todo /\ b \notin discRun'.todo
      BY <1>2, <2>5
    <3> QED BY <1>2, <2>1, <2>2, <2>3, <2>5, <3>1, <3>2 DEF DiscSound
  <2>8. ASSUME NEW c \in PolledBots, "diag" \notin pollers'[c]
        PROVE  /\ forgotten'[c] <= disc[c].last
               /\ \A j \in UpdateIds(c) : j <= disc[c].last => Discovered(c, j)
               /\ discRun'.bot = c => \A i \in discRun'.batch, j \in UpdateIds(c) :
                    j < i /\ j \notin discRun'.batch => Discovered(c, j)
    <3>1. "diag" \notin pollers[c]
      BY <2>6, <2>8
    <3>2. forgotten[c] <= disc[c].last /\ \A j \in UpdateIds(c) : j <= disc[c].last => Discovered(c, j)
      BY <1>1, <3>1 DEF DiscDone
    <3>3. CASE c # b
      BY <1>2, <2>4, <2>5, <3>2, <3>3
    <3>4. CASE c = b
      <4>1. forgotten'[b] <= disc[b].last
        BY <2>2, <2>4, <3>2, <3>4
      <4>2. \A j \in UpdateIds(b) : j \in Nat /\ (j <= disc[b].last \/ j <= forgotten[b] => j <= disc[b].last)
        BY <1>2, <2>2, <2>4, <3>2, <3>4
      <4> QED BY <2>3, <2>5, <3>2, <3>4, <4>1, <4>2
    <3> QED BY <3>3, <3>4
  <2>9. DiscDone'
    BY <1>1, <2>1, <2>8 DEF DiscDone, Discovered, IsMessage
  <2> QED BY <2>7, <2>9
<1>11. CASE DiscSkips
  <2>0. PICK b, i : discRun.bot = b /\ First(discRun.batch) = i
    OBVIOUS
  <2>1. /\ discRun.batch # {} /\ IsMessage(b, i) /\ DiscNext(discRun.todo, discRun.batch \ {i})
        /\ UNCHANGED <<forgotten, disc, found, member, pollers>>
    BY <1>11, <2>0 DEF DiscSkips, IsMessage
  <2>2. b \in PolledBots /\ i \in discRun.batch
    BY <1>1, <2>0, <2>1, PollingFacts
  <2>3. /\ discRun'.todo = discRun.todo /\ (discRun'.todo # {} => discRun'.from = discRun.from)
        /\ \/ discRun.batch \ {i} # {} /\ discRun'.batch = discRun.batch \ {i} /\ discRun'.bot = b
           \/ discRun'.batch = {} /\ discRun'.bot = 0
    BY <1>1, <2>0, <2>1, DiscGoesOn
  <2>4. DiscSound'
    BY <1>1, <1>2, <2>0, <2>1, <2>2, <2>3 DEF DiscSound
  <2>5. ASSUME NEW c \in PolledBots, "diag" \notin pollers[c], discRun'.bot = c,
               NEW k \in discRun'.batch, NEW j \in UpdateIds(c), j < k, j \notin discRun'.batch
        PROVE  Discovered(c, j)
    <3>1. c = b /\ k \in discRun.batch /\ (j = i \/ j \notin discRun.batch)
      BY <1>2, <2>3, <2>5
    <3> QED BY <1>1, <2>0, <2>1, <2>5, <3>1 DEF DiscDone, Discovered
  <2>6. DiscDone'
    BY <1>1, <2>1, <2>5 DEF DiscDone, Discovered, IsMessage
  <2> QED BY <2>4, <2>6
<1>12. CASE DiscProcesses
  <2>0. PICK b, i : discRun.bot = b /\ First(discRun.batch) = i
    OBVIOUS
  <2>1. /\ discRun.batch # {} /\ ~IsMessage(b, i) /\ DiscNext(discRun.todo, discRun.batch \ {i})
        /\ member' = [member EXCEPT ![b] = Updates[b][i] = "joined"]
        /\ found' = found \cup {<<b, i>>} /\ disc' = [disc EXCEPT ![b].last = i]
        /\ UNCHANGED <<forgotten, pollers>>
    BY <1>12, <2>0 DEF DiscProcesses, IsMessage
  <2>2. /\ b \in PolledBots /\ i \in discRun.batch /\ i \in UpdateIds(b) /\ i \in Nat \ {0}
        /\ \A j \in discRun.batch : i <= j /\ j \in UpdateIds(b) /\ j \in Nat
        /\ i > disc[b].last /\ disc[b].last \in Nat
    <3>1. /\ b \in PolledBots /\ i \in discRun.batch /\ i \in UpdateIds(b)
          /\ \A j \in discRun.batch : i <= j
      BY <1>1, <2>0, <2>1, PollingFacts
    <3>2. \A j \in discRun.batch : j > disc[b].last /\ j \in UpdateIds(b)
      BY <1>1, <2>0 DEF DiscSound
    <3> QED BY <1>2, <3>1, <3>2
  <2>3. /\ discRun'.todo = discRun.todo /\ (discRun'.todo # {} => discRun'.from = discRun.from)
        /\ \/ discRun.batch \ {i} # {} /\ discRun'.batch = discRun.batch \ {i} /\ discRun'.bot = b
           \/ discRun'.batch = {} /\ discRun'.bot = 0
    BY <1>1, <2>0, <2>1, DiscGoesOn
  <2>4. /\ disc'[b].last = i /\ (member'[b] <=> Updates[b][i] = "joined")
        /\ \A c \in PolledBots : c # b => disc'[c].last = disc[c].last /\ member'[c] = member[c]
    <3>1. disc'[b].last = i /\ \A c \in PolledBots : c # b => disc'[c].last = disc[c].last
      BY <1>2, <2>1, <2>2
    <3>2. (member'[b] <=> Updates[b][i] = "joined") /\ \A c \in PolledBots : c # b => member'[c] = member[c]
      BY <1>2, <2>1, <2>2
    <3> QED BY <3>1, <3>2
  <2>5. b \notin discRun.todo /\ discRun.todo \subseteq PolledBots
    BY <1>1, <1>2, <2>0 DEF DiscSound
  <2>6. DiscSound'
    <3>1. \A c \in discRun'.todo : discRun'.from[c] = disc'[c].last
      BY <1>1, <2>3, <2>4, <2>5 DEF DiscSound
    <3>2. \A j \in discRun.batch \ {i} : j > i
      BY <2>2
    <3>3. discRun'.bot \notin discRun'.todo
      BY <1>2, <2>3, <2>5
    <3> QED BY <1>2, <2>2, <2>3, <2>4, <3>1, <3>2, <3>3 DEF DiscSound
  <2>7. ASSUME NEW c \in PolledBots, c # b
        PROVE  /\ \A j \in UpdateIds(c) : <<c, j>> \in found' => j <= disc'[c].last
               /\ disc'[c].last # 0 =>
                    <<c, disc'[c].last>> \in found' /\ (member'[c] <=> Updates[c][disc'[c].last] = "joined")
               /\ "diag" \notin pollers'[c] =>
                    /\ forgotten'[c] <= disc'[c].last
                    /\ \A j \in UpdateIds(c) : j <= disc'[c].last => Discovered(c, j)'
                    /\ discRun'.bot # c
    <3>1. \A j : <<c, j>> \in found' <=> <<c, j>> \in found
      BY <2>1, <2>7
    <3>2. discRun'.bot # c
      BY <1>2, <2>3, <2>7
    <3> QED BY <1>1, <2>1, <2>4, <2>7, <3>1, <3>2 DEF DiscDone, Discovered, IsMessage
  <2>8. \A j \in UpdateIds(b) : <<b, j>> \in found' => j <= i
    <3>1. ASSUME NEW j \in UpdateIds(b), <<b, j>> \in found' PROVE j <= i
      <4>1. j \in Nat
        BY <1>2, <2>2
      <4>2. CASE j = i
        BY <2>2, <4>2
      <4>3. CASE j # i
        <5>1. <<b, j>> \in found
          BY <2>1, <3>1, <4>3
        <5>2. j <= disc[b].last
          BY <1>1, <2>2, <5>1 DEF DiscDone
        <5> QED BY <2>2, <4>1, <5>2
      <4> QED BY <4>2, <4>3
    <3> QED BY <3>1
  <2>9. ASSUME "diag" \notin pollers[b]
        PROVE  /\ forgotten[b] <= i
               /\ \A j \in UpdateIds(b) : j <= i => Discovered(b, j)'
               /\ \A k \in discRun.batch, j \in UpdateIds(b) : j < k /\ j \notin discRun.batch \ {i} => Discovered(b, j)'
    <3>1. /\ forgotten[b] <= disc[b].last /\ forgotten[b] \in Nat
          /\ \A k \in discRun.batch, j \in UpdateIds(b) : j < k /\ j \notin discRun.batch => Discovered(b, j)
      BY <1>1, <2>0, <2>2, <2>9 DEF DiscDone, PollingTyped
    <3>2. forgotten[b] <= i
      BY <2>2, <3>1
    <3>3. Discovered(b, i)' /\ \A j : Discovered(b, j) => Discovered(b, j)'
      BY <2>1 DEF Discovered, IsMessage
    <3>4. ASSUME NEW j \in UpdateIds(b), j <= i PROVE Discovered(b, j)'
      <4>1. CASE j = i
        BY <3>3, <4>1
      <4>2. CASE j # i
        <5>1. j \in Nat
          BY <1>2, <2>2
        <5>2. j < i /\ j \notin discRun.batch
          BY <2>2, <3>4, <4>2, <5>1
        <5> QED BY <2>2, <3>1, <3>3, <5>2
      <4> QED BY <4>1, <4>2
    <3>5. ASSUME NEW k \in discRun.batch, NEW j \in UpdateIds(b), j < k, j \notin discRun.batch \ {i}
          PROVE  Discovered(b, j)'
      BY <3>1, <3>3, <3>5
    <3> QED BY <3>2, <3>4, <3>5
  <2>10. DiscDone'
    <3> SUFFICES ASSUME NEW c \in PolledBots
                 PROVE  /\ \A j \in UpdateIds(c) : <<c, j>> \in found' => j <= disc'[c].last
                        /\ disc'[c].last # 0 =>
                             <<c, disc'[c].last>> \in found' /\ (member'[c] <=> Updates[c][disc'[c].last] = "joined")
                        /\ "diag" \notin pollers'[c] =>
                             /\ forgotten'[c] <= disc'[c].last
                             /\ \A j \in UpdateIds(c) : j <= disc'[c].last => Discovered(c, j)'
                             /\ discRun'.bot = c => \A k \in discRun'.batch, j \in UpdateIds(c) :
                                  j < k /\ j \notin discRun'.batch => Discovered(c, j)'
      BY DEF DiscDone
    <3>1. CASE c # b
      BY <2>7, <3>1
    <3>2. CASE c = b
      <4>1. <<b, i>> \in found'
        BY <2>1
      <4> QED BY <2>1, <2>2, <2>3, <2>4, <2>8, <2>9, <3>2, <4>1
    <3> QED BY <3>1, <3>2
  <2> QED BY <2>6, <2>10
<1>13. CASE UNCHANGED pollingVars
  BY <1>13, DiscUndisturbed DEF pollingVars
<1> QED
  BY <1>3, <1>4, <1>5, <1>6, <1>7, <1>8, <1>9, <1>10, <1>11, <1>12, <1>13
  DEF PollingNext, DiagRound, DiscRound

THEOREM PollingInvariant == PollingSpec => []PollingInv
<1>1. PollingInit => PollingInv
  <2> SUFFICES ASSUME PollingInit PROVE PollingInv
    OBVIOUS
  <2>1. /\ issued = [b \in PolledBots |-> 0] /\ forgotten = [b \in PolledBots |-> 0]
        /\ diagRun = DiagIdle /\ recorded = {} /\ replies = [u \in AllUpdates |-> 0]
        /\ disc \in [PolledBots -> [on : BOOLEAN, last : {0}]]
        /\ discRun = DiscIdle /\ found = {} /\ member = [b \in PolledBots |-> FALSE]
        /\ pollers = [b \in PolledBots |-> {}] /\ deaths = 0 /\ switches = 0
    BY DEF PollingInit
  <2>2. PICK b \in PolledBots : diag = [bot |-> b, on |-> TRUE, last |-> 0]
    BY DEF PollingInit
  <2>3. \A c \in PolledBots : UpdateIds(c) \subseteq Nat \ {0} /\ Len(Updates[c]) \in Nat
    BY PollingAssumption DEF UpdateIds
  <2>4. disc \in [PolledBots -> [on : BOOLEAN, last : Nat]]
    BY <2>1
  <2>5. /\ DiagIdle \in [at : {"idle", "ready", "record", "reply", "store"}, bot : PolledBots \cup {0},
                         from : Nat, batch : SUBSET Nat]
        /\ DiscIdle \in [todo : SUBSET PolledBots, from : [PolledBots -> Nat], bot : PolledBots \cup {0},
                         batch : SUBSET Nat]
    BY DEF DiagIdle, DiscIdle
  <2>6. PollingTyped
    BY <2>1, <2>2, <2>3, <2>4, <2>5 DEF PollingTyped
  <2>7. DiagSound /\ DiscSound
    BY <2>1, PollingAssumption DEF DiagSound, DiagBusy, DiscSound, DiagIdle, DiscIdle
  <2>8. RepliesCounted
    <3>1. \A c \in PolledBots : \A i \in UpdateIds(c) : <<c, i>> \in AllUpdates
      BY DEF AllUpdates
    <3>2. \A c \in PolledBots : \A i \in UpdateIds(c) : replies[<<c, i>>] = 0
      BY <2>1, <3>1
    <3>3. deaths = 0
      BY <2>1
    <3>4. ASSUME NEW c \in PolledBots, NEW i \in UpdateIds(c)
          PROVE  replies[<<c, i>>] <= 1 + deaths /\ replies[<<c, i>>] <= deaths
      BY <3>2, <3>3
    <3> QED BY <3>4, Zenon DEF RepliesCounted
  <2>9. DiagDone
    BY <2>1, <2>2, <2>3 DEF DiagDone, DiagBusy, DiagIdle
  <2>10. DiscDone
    BY <2>1, <2>3 DEF DiscDone, DiscIdle
  <2> QED BY <2>6, <2>7, <2>8, <2>9, <2>10 DEF PollingInv
<1>2. PollingInv /\ [PollingNext]_pollingVars => PollingInv'
  BY PollingTypeStep, DiagStep, DiscStep DEF PollingInv
<1> QED BY <1>1, <1>2, PTL DEF PollingSpec

(***************************************************************************)
(* For any bots and updates, whatever dies and is selected: Telegram lets  *)
(* an update go only when it is handled, and reports are repeated only for *)
(* deaths.                                                                 *)
(***************************************************************************)
THEOREM UpdatesAreExplained == PollingSpec => []UpdatesExplained
<1>1. PollingInv => UpdatesExplained
  <2> SUFFICES ASSUME PollingInv PROVE UpdatesExplained
    OBVIOUS
  <2>1. PollingTyped /\ DiagSound /\ DiscSound /\ RepliesCounted /\ DiagDone /\ DiscDone
    BY DEF PollingInv
  <2>2. \A u \in AllUpdates : u[1] \in PolledBots /\ u[2] \in UpdateIds(u[1]) /\ u = <<u[1], u[2]>>
    BY <2>1, PollingFacts
  <2>3. ReportsExplained
    BY <2>1, <2>2 DEF ReportsExplained, RepliesCounted
  <2>4. LetGoWhenHandled
    <3> SUFFICES ASSUME NEW u \in AllUpdates, u[2] <= forgotten[u[1]]
                 PROVE  /\ pollers[u[1]] = {"disc"} /\ Updates[u[1]][u[2]] # "message" => u \in found
                        /\ pollers[u[1]] = {"diag"} /\ Updates[u[1]][u[2]] = "message" /\ switches = 0 =>
                             replies[u] > 0 /\ u \in recorded
      BY DEF LetGoWhenHandled
    <3>1. PICK b, i : u = <<b, i>> /\ b \in PolledBots /\ i \in UpdateIds(b) /\ i <= forgotten[b]
      BY <2>2
    <3>2. i \in Nat /\ forgotten[b] \in Nat /\ disc[b].last \in Nat /\ diag.last \in Nat
      <4>1. \A c \in PolledBots : UpdateIds(c) = 1..Len(Updates[c]) /\ Len(Updates[c]) \in Nat
        BY <2>1, PollingFacts
      <4>2. i \in Nat
        BY <3>1, <4>1
      <4> QED BY <2>1, <3>1, <4>2 DEF PollingTyped
    <3>3. ASSUME pollers[b] = {"disc"}, ~IsMessage(b, i) PROVE <<b, i>> \in found
      <4>1. forgotten[b] <= disc[b].last /\ \A j \in UpdateIds(b) : j <= disc[b].last => Discovered(b, j)
        BY <2>1, <3>1, <3>3 DEF DiscDone
      <4>2. i <= disc[b].last
        BY <3>1, <3>2, <4>1
      <4> QED BY <3>1, <3>3, <4>1, <4>2 DEF Discovered
    <3>4. ASSUME pollers[b] = {"diag"}, IsMessage(b, i), switches = 0
          PROVE  replies[<<b, i>>] > 0 /\ <<b, i>> \in recorded
      <4>1. b = diag.bot
        BY <2>1, <3>1, <3>4 DEF DiagDone
      <4>2. forgotten[b] <= diag.last /\ \A j \in UpdateIds(b) : j <= diag.last => Reported(b, j)
        BY <2>1, <3>4, <4>1 DEF DiagDone
      <4>3. i <= diag.last
        BY <3>1, <3>2, <4>2
      <4> QED BY <3>1, <3>4, <4>2, <4>3 DEF Reported
    <3> QED BY <3>1, <3>3, <3>4 DEF IsMessage
  <2> QED BY <2>3, <2>4 DEF UpdatesExplained
<1> QED BY <1>1, PollingInvariant, PTL

(***************************************************************************)
(* For any bots and updates: the destination of a bot follows its latest   *)
(* recorded membership, which is the one discovery will go on from.        *)
(***************************************************************************)
THEOREM DestinationsFollowMemberships == PollingSpec => []DestinationFollowsMembership
<1>1. PollingInv => DestinationFollowsMembership
  <2> SUFFICES ASSUME PollingInv, NEW b \in PolledBots
               PROVE  LET ids == {u[2] : u \in {v \in found : v[1] = b}}
                      IN ids # {} =>
                           /\ member[b] <=> Updates[b][CHOOSE i \in ids : \A j \in ids : j <= i] = "joined"
                           /\ disc[b].last \in ids /\ \A j \in ids : j <= disc[b].last
    BY DEF DestinationFollowsMembership
  <2> DEFINE ids == {u[2] : u \in {v \in found : v[1] = b}}
  <2>1. PollingTyped /\ DiagSound /\ DiscSound /\ DiscDone
    BY DEF PollingInv
  <2>2. \A u \in found : u[2] \in UpdateIds(u[1]) /\ u = <<u[1], u[2]>>
    BY <2>1, PollingFacts DEF PollingTyped
  <2>3. ASSUME NEW i \in ids PROVE i \in UpdateIds(b) /\ <<b, i>> \in found
    BY <2>2
  <2>4. \A i : <<b, i>> \in found => i \in ids
    <3> SUFFICES ASSUME NEW i, <<b, i>> \in found PROVE i \in ids
      OBVIOUS
    <3>1. <<b, i>>[1] = b /\ <<b, i>>[2] = i
      OBVIOUS
    <3> QED BY <3>1
  <2>5. UpdateIds(b) \subseteq Nat \ {0} /\ disc[b].last \in Nat
    <3>1. \A c \in PolledBots : UpdateIds(c) = 1..Len(Updates[c]) /\ Len(Updates[c]) \in Nat
      BY <2>1, PollingFacts
    <3>2. UpdateIds(b) \subseteq Nat \ {0}
      BY <3>1
    <3>3. disc \in [PolledBots -> [on : BOOLEAN, last : Nat]]
      BY <2>1 DEF PollingTyped
    <3> QED BY <3>2, <3>3
  <2> HIDE DEF ids
  <2>6. ASSUME ids # {}
        PROVE  /\ member[b] <=> Updates[b][CHOOSE i \in ids : \A j \in ids : j <= i] = "joined"
               /\ disc[b].last \in ids /\ \A j \in ids : j <= disc[b].last
    <3>1. \A j \in ids : j <= disc[b].last
      BY <2>1, <2>3 DEF DiscDone
    <3>2. disc[b].last # 0
      <4>1. PICK i \in ids : i \in Nat \ {0} /\ i <= disc[b].last
        BY <2>3, <2>5, <2>6, <3>1
      <4> QED BY <2>5, <4>1
    <3>3. disc[b].last \in ids /\ (member[b] <=> Updates[b][disc[b].last] = "joined")
      BY <2>1, <2>4, <3>2 DEF DiscDone
    <3>4. disc[b].last = CHOOSE i \in ids : \A j \in ids : j <= i
      <4>1. \A i \in ids : (\A j \in ids : j <= i) => i = disc[b].last
        <5> SUFFICES ASSUME NEW i \in ids, \A j \in ids : j <= i PROVE i = disc[b].last
          OBVIOUS
        <5>1. i \in Nat /\ i <= disc[b].last /\ disc[b].last <= i
          BY <2>3, <2>5, <3>1, <3>3
        <5> QED BY <2>5, <5>1
      <4> QED BY <3>1, <3>3, <4>1
    <3> QED BY <3>1, <3>3, <3>4
  <2> QED BY <2>6 DEF ids
<1> QED BY <1>1, PollingInvariant, PTL

-----------------------------------------------------------------------------
(* The types of the polling bots, with the offsets they can reach.         *)

\* A finite set of numbers that is not empty has a largest: a smallest counterexample would
\* lose one of its elements and have one, or be empty.
LEMMA LargestIsThere ==
  ASSUME NEW S \in SUBSET Nat, IsFiniteSet(S), S # {}
  PROVE  \E x \in S : \A y \in S : y <= x
<1> DEFINE Unbounded == {T \in FiniteSubsetsOf(S) : T # {} /\ ~\E x \in T : \A y \in T : y <= x}
<1> SUFFICES ASSUME S \in Unbounded PROVE FALSE
  BY FS_Subset DEF FiniteSubsetsOf
<1>1. PICK T \in Unbounded : \A U \in Unbounded : ~(<<U, T>> \in StrictSubsetOrdering(S))
  BY FS_StrictSubsetOrderingWellFounded, WFMin
<1>2. PICK x \in T : TRUE
  OBVIOUS
<1>3. T \ {x} \in FiniteSubsetsOf(S)
  BY <1>2, FS_RemoveElement DEF FiniteSubsetsOf
<1>4. <<T \ {x}, T>> \in StrictSubsetOrdering(S)
  BY <1>2, <1>3 DEF StrictSubsetOrdering, FiniteSubsetsOf
<1>5. T \ {x} \notin Unbounded
  BY <1>1, <1>4
<1>6. T \subseteq Nat
  BY DEF FiniteSubsetsOf
<1>7. CASE T \ {x} = {}
  <2>1. T = {x}
    BY <1>2, <1>7
  <2> QED BY <2>1, <1>6
<1>8. CASE T \ {x} # {}
  <2>1. PICK m \in T \ {x} : \A y \in T \ {x} : y <= m
    BY <1>3, <1>5, <1>8
  <2>2. CASE m <= x
    <3>1. \A y \in T : y <= x
      BY <2>1, <2>2, <1>6
    <3> QED BY <3>1
  <2>3. CASE x <= m
    <3>1. \A y \in T : y <= m
      BY <2>1, <2>3, <1>6
    <3> QED BY <3>1
  <2> QED BY <2>1, <2>2, <2>3, <1>6
<1> QED BY <1>7, <1>8

LEMMA LargestOffset ==
  ASSUME PolledBots # {}
  PROVE  Largest \in Nat /\ \A b \in PolledBots : Len(Updates[b]) \in Nat /\ Len(Updates[b]) <= Largest
<1> DEFINE ends == {Len(Updates[b]) : b \in PolledBots}
<1>1. IsFiniteSet(ends)
  <2> DEFINE f == [b \in PolledBots |-> Len(Updates[b])]
  <2>1. f \in Surjection(PolledBots, ends)
    BY DEF Surjection
  <2> HIDE DEF f, ends
  <2> QED BY <2>1, PollingAssumption, FS_Surjection
<1>2. \A b \in PolledBots : Len(Updates[b]) \in Nat
  BY PollingAssumption
<1>3. ends \in SUBSET Nat /\ ends # {}
  BY <1>2
<1>4. \E n \in ends : \A m \in ends : m <= n
  BY <1>1, <1>3, LargestIsThere
<1>5. \E n \in ends : \A b \in PolledBots : Len(Updates[b]) <= n
  BY <1>4
<1>6. Largest \in ends /\ \A b \in PolledBots : Len(Updates[b]) <= Largest
  BY <1>5 DEF Largest
<1> QED BY <1>2, <1>3, <1>6

\* No offset is beyond the last update, and Telegram has let go nothing it has not had.
PollingBounded ==
  /\ refusing \subseteq PolledBots /\ \A b \in PolledBots : forgotten[b] <= issued[b]
  /\ diag.last \in Offsets /\ diagRun.from \in Offsets /\ diagRun.batch \subseteq 1..Largest
  /\ \A b \in PolledBots : disc[b].last \in Offsets /\ discRun.from[b] \in Offsets
  /\ discRun.batch \subseteq 1..Largest
  /\ deaths \in 0..MaxDeaths /\ switches \in 0..MaxSwitches

LEMMA PollingBoundedStep == PollingInv /\ PollingBounded /\ [PollingNext]_pollingVars => PollingBounded'
<1> SUFFICES ASSUME PollingInv, PollingBounded, [PollingNext]_pollingVars PROVE PollingBounded'
  OBVIOUS
<1>1. PollingTyped /\ DiagSound /\ DiscSound
  BY DEF PollingInv
<1>2. /\ refusing \subseteq PolledBots /\ \A b \in PolledBots : forgotten[b] <= issued[b]
      /\ diag.last \in Offsets /\ diagRun.from \in Offsets /\ diagRun.batch \subseteq 1..Largest
      /\ \A b \in PolledBots : disc[b].last \in Offsets /\ discRun.from[b] \in Offsets
      /\ discRun.batch \subseteq 1..Largest
      /\ deaths \in 0..MaxDeaths /\ switches \in 0..MaxSwitches
  BY DEF PollingBounded
<1>3. /\ issued \in [PolledBots -> Nat] /\ forgotten \in [PolledBots -> Nat]
      /\ diag \in [bot : PolledBots, on : BOOLEAN, last : Nat]
      /\ diagRun \in [at : {"idle", "ready", "record", "reply", "store"}, bot : PolledBots \cup {0},
                      from : Nat, batch : SUBSET Nat]
      /\ disc \in [PolledBots -> [on : BOOLEAN, last : Nat]]
      /\ discRun \in [todo : SUBSET PolledBots, from : [PolledBots -> Nat], bot : PolledBots \cup {0},
                      batch : SUBSET Nat]
  BY <1>1 DEF PollingTyped
<1>4. Largest \in Nat /\ \A b \in PolledBots : UpdateIds(b) \subseteq 1..Largest
  <2>1. PolledBots # {}
    BY <1>3
  <2> QED BY <2>1, LargestOffset DEF UpdateIds
<1>5. MaxDeaths \in Nat /\ MaxSwitches \in Nat
  BY PollingAssumption
<1>6. /\ DiagIdle.from \in Offsets /\ DiagIdle.batch = {}
      /\ DiscIdle.batch = {} /\ \A b \in PolledBots : DiscIdle.from[b] \in Offsets
  BY <1>4 DEF DiagIdle, DiscIdle, Offsets
\* A step of the diagnostic bot leaves the rest alone, and one of discovery too.
<1>7. ASSUME diagRun'.from \in Offsets, diagRun'.batch \subseteq 1..Largest, diag'.last \in Offsets,
             deaths' \in 0..MaxDeaths, switches' \in 0..MaxSwitches,
             \A b \in PolledBots : forgotten'[b] <= issued[b],
             UNCHANGED <<refusing, issued, disc, discRun>>
      PROVE  PollingBounded'
  BY <1>2, <1>7 DEF PollingBounded
<1>8. ASSUME discRun'.batch \subseteq 1..Largest,
             \A b \in PolledBots : disc'[b].last \in Offsets /\ discRun'.from[b] \in Offsets,
             deaths' \in 0..MaxDeaths, switches' \in 0..MaxSwitches,
             \A b \in PolledBots : forgotten'[b] <= issued[b],
             UNCHANGED <<refusing, issued, diag, diagRun>>
      PROVE  PollingBounded'
  BY <1>2, <1>8 DEF PollingBounded
<1>9. ASSUME NEW b \in PolledBots, NEW from \in Nat, Forgets(b, from)
      PROVE  \A c \in PolledBots : forgotten'[c] <= issued[c]
  <2> DEFINE to == IF from > forgotten[b] THEN IF from < issued[b] THEN from ELSE issued[b] ELSE forgotten[b]
  <2>1. forgotten' = [forgotten EXCEPT ![b] = to]
    BY <1>9 DEF Forgets
  <2>2. to <= issued[b]
    BY <1>2, <1>3
  <2> HIDE DEF to
  <2> QED BY <1>2, <1>3, <2>1, <2>2
<1>10. ASSUME NEW b \in PolledBots, NEW from \in Nat
       PROVE  Fetched(b, from) \subseteq 1..Largest
  BY <1>1, <1>4, FetchedFacts
<1>11. CASE DiagReads
  <2>1. diagRun' = [DiagIdle EXCEPT !.at = "ready", !.bot = diag.bot, !.from = diag.last]
    BY <1>11 DEF DiagReads
  <2>2. diagRun'.from = diag.last /\ diagRun'.batch = {}
    BY <2>1 DEF DiagIdle
  <2> QED BY <1>2, <1>7, <1>11, <2>2 DEF DiagReads
<1>12. CASE DiagFetches
  <2>1. diagRun.at = "ready" /\ diagRun.bot \in PolledBots /\ diagRun.from \in Nat
    BY <1>1, <1>3, <1>12 DEF DiagFetches, DiagSound
  <2>2. /\ UNCHANGED forgotten \/ Forgets(diagRun.bot, diagRun.from)
        /\ \/ diagRun' = DiagIdle
           \/ diagRun' = [diagRun EXCEPT !.at = "record", !.batch = Fetched(diagRun.bot, diagRun.from)]
    BY <1>12 DEF DiagFetches, DiagNext
  <2>3. diagRun'.from \in Offsets /\ diagRun'.batch \subseteq 1..Largest
    <3>1. \/ diagRun'.from = DiagIdle.from /\ diagRun'.batch = {}
          \/ diagRun'.from = diagRun.from /\ diagRun'.batch = Fetched(diagRun.bot, diagRun.from)
      BY <1>3, <1>6, <2>2
    <3>2. Fetched(diagRun.bot, diagRun.from) \subseteq 1..Largest
      BY <1>10, <2>1
    <3> QED BY <1>2, <1>6, <3>1, <3>2
  <2>4. \A b \in PolledBots : forgotten'[b] <= issued[b]
    BY <1>2, <1>9, <2>1, <2>2
  <2> QED BY <1>2, <1>7, <1>12, <2>3, <2>4 DEF DiagFetches
<1>13. CASE DiagRecords \/ DiagReplies
  <2>1. diagRun'.from = diagRun.from /\ diagRun'.batch = diagRun.batch
    BY <1>3, <1>13 DEF DiagRecords, DiagReplies
  <2> QED BY <1>2, <1>7, <1>13, <2>1 DEF DiagRecords, DiagReplies
<1>14. CASE DiagStores
  <2>1. First(diagRun.batch) \in 1..Largest
    <3>1. DiagBusy
      BY <1>14 DEF DiagStores, DiagBusy
    <3> QED BY <1>1, <1>4, <3>1, PollingFacts DEF DiagSound
  <2>2. diag'.last = First(diagRun.batch)
    BY <1>3, <1>14 DEF DiagStores
  <2>3. \/ diagRun' = DiagIdle
        \/ diagRun' = [diagRun EXCEPT !.at = "record", !.batch = diagRun.batch \ {First(diagRun.batch)}]
    BY <1>14 DEF DiagStores, DiagNext
  <2>4. diagRun'.from \in Offsets /\ diagRun'.batch \subseteq 1..Largest
    <3>1. \/ diagRun'.from = DiagIdle.from /\ diagRun'.batch = {}
          \/ /\ diagRun'.from = diagRun.from
             /\ diagRun'.batch = diagRun.batch \ {First(diagRun.batch)}
      BY <1>3, <1>6, <2>3
    <3> QED BY <1>2, <1>6, <3>1
  <2>5. diag'.last \in Offsets
    BY <1>4, <2>1, <2>2 DEF Offsets
  <2> QED BY <1>2, <1>7, <1>14, <2>4, <2>5 DEF DiagStores
<1>15. CASE DiagDies
  BY <1>2, <1>5, <1>6, <1>7, <1>15 DEF DiagDies
<1>16. ASSUME NEW b \in PolledBots, NEW on \in BOOLEAN, SelectDiag(b, on)
       PROVE  PollingBounded'
  <2>1. diag'.last = diag.last
    BY <1>3, <1>16 DEF SelectDiag
  <2> QED BY <1>2, <1>5, <1>7, <1>16, <2>1 DEF SelectDiag
<1>17. ASSUME NEW b \in PolledBots, NewUpdate(b)
       PROVE  PollingBounded'
  <2>1. \A c \in PolledBots : issued'[c] >= issued[c] /\ issued'[c] \in Nat
    <3>1. issued' = [issued EXCEPT ![b] = issued[b] + 1]
      BY <1>17 DEF NewUpdate
    <3>2. \A c \in PolledBots : issued'[c] = issued[c] \/ issued'[c] = issued[c] + 1
      BY <1>3, <3>1
    <3> QED BY <1>3, <3>2
  <2>2. \A c \in PolledBots : forgotten[c] <= issued'[c]
    BY <1>2, <1>3, <2>1
  <2> QED BY <1>2, <1>17, <2>2 DEF NewUpdate, PollingBounded
<1>18. CASE DiscBegins
  <2>1. discRun' = [DiscIdle EXCEPT !.todo = {b \in PolledBots : disc[b].on},
                                    !.from = [b \in PolledBots |-> disc[b].last]]
    BY <1>18 DEF DiscBegins
  <2>2. discRun'.batch = {} /\ discRun'.from = [b \in PolledBots |-> disc[b].last]
    BY <2>1 DEF DiscIdle
  <2> QED BY <1>2, <1>8, <1>18, <2>2 DEF DiscBegins
<1>19. ASSUME NEW todo, NEW i, DiscNext(todo, discRun.batch \ {i})
       PROVE  discRun'.batch \subseteq 1..Largest /\ \A b \in PolledBots : discRun'.from[b] \in Offsets
  <2> DEFINE batch == discRun.batch \ {i}
  <2>1. \/ discRun' = [discRun EXCEPT !.todo = todo, !.batch = batch]
        \/ discRun' = DiscIdle
        \/ discRun' = [discRun EXCEPT !.todo = todo, !.bot = 0, !.batch = {}]
    BY <1>19 DEF DiscNext
  <2>2. batch \subseteq 1..Largest
    BY <1>2
  <2> HIDE DEF batch
  <2>3. \/ discRun' = DiscIdle
        \/ discRun'.from = discRun.from /\ (discRun'.batch = batch \/ discRun'.batch = {})
    BY <1>3, <2>1
  <2> QED BY <1>2, <1>6, <2>2, <2>3
<1>20. CASE DiscFetches
  <2> DEFINE b == First(discRun.todo)
             batch == Fetched(b, discRun.from[b])
  <2>1. b \in PolledBots /\ discRun.from[b] \in Nat
    BY <1>1, <1>3, <1>20, PollingFacts DEF DiscFetches
  <2>2. batch \subseteq 1..Largest
    BY <1>10, <2>1
  <2>3. /\ UNCHANGED forgotten \/ Forgets(b, discRun.from[b])
        /\ \/ discRun' = DiscIdle
           \/ discRun' = [discRun EXCEPT !.todo = @ \ {b}, !.bot = b, !.batch = batch]
           \/ discRun' = [discRun EXCEPT !.todo = @ \ {b}]
    BY <1>20 DEF DiscFetches
  <2>4. \A c \in PolledBots : forgotten'[c] <= issued[c]
    BY <1>2, <1>9, <2>1, <2>3
  <2> HIDE DEF b, batch
  <2>5. \/ discRun' = DiscIdle
        \/ discRun'.from = discRun.from /\ (discRun'.batch = batch \/ discRun'.batch = discRun.batch)
    BY <1>3, <2>3
  <2>6. discRun'.batch \subseteq 1..Largest /\ \A c \in PolledBots : discRun'.from[c] \in Offsets
    BY <1>2, <1>6, <2>2, <2>5
  <2> QED BY <1>2, <1>8, <1>20, <2>4, <2>6 DEF DiscFetches
<1>21. CASE DiscSkips
  <2>1. DiscNext(discRun.todo, discRun.batch \ {First(discRun.batch)})
    BY <1>21 DEF DiscSkips
  <2> QED BY <1>2, <1>8, <1>19, <1>21, <2>1 DEF DiscSkips
<1>22. CASE DiscProcesses
  <2> DEFINE b == discRun.bot
             i == First(discRun.batch)
  <2>1. b \in PolledBots /\ i \in 1..Largest
    BY <1>1, <1>4, <1>22, PollingFacts DEF DiscProcesses
  <2>2. disc' = [disc EXCEPT ![b].last = i] /\ DiscNext(discRun.todo, discRun.batch \ {i})
    BY <1>22 DEF DiscProcesses
  <2> HIDE DEF b, i
  <2>3. \A c \in PolledBots : disc'[c].last = disc[c].last \/ disc'[c].last = i
    BY <1>3, <2>1, <2>2
  <2>4. i \in Offsets
    BY <1>4, <2>1 DEF Offsets
  <2> QED BY <1>2, <1>8, <1>19, <1>22, <2>2, <2>3, <2>4 DEF DiscProcesses
<1>23. CASE DiscDies
  BY <1>2, <1>5, <1>6, <1>8, <1>23 DEF DiscDies
<1>24. ASSUME NEW b \in PolledBots, ToggleDiscovery(b)
       PROVE  PollingBounded'
  <2>1. \A c \in PolledBots : disc'[c].last = disc[c].last
    BY <1>3, <1>24 DEF ToggleDiscovery
  <2> QED BY <1>2, <1>5, <1>8, <1>24, <2>1 DEF ToggleDiscovery
<1>25. CASE UNCHANGED pollingVars
  BY <1>2, <1>25 DEF pollingVars, PollingBounded
<1> QED BY <1>11, <1>12, <1>13, <1>14, <1>15, <1>16, <1>17, <1>18, <1>20, <1>21, <1>22, <1>23,
           <1>24, <1>25 DEF PollingNext, DiagRound, DiscRound

(***************************************************************************)
(* For any bots and updates: settings, rounds and what they record are of  *)
(* their types; no offset is beyond the last update of any bot, and        *)
(* Telegram has let go no update it has not had.                           *)
(***************************************************************************)
THEOREM PollingTypeCorrect == PollingSpec => []PollingTypeOK
<1>1. PollingInit => PollingBounded
  <2> SUFFICES ASSUME PollingInit PROVE PollingBounded
    OBVIOUS
  <2>1. Largest \in Nat
    BY LargestOffset DEF PollingInit
  <2>2. 0 \in Offsets /\ DiagIdle.from = 0 /\ DiagIdle.batch = {}
        /\ DiscIdle.from = [b \in PolledBots |-> 0] /\ DiscIdle.batch = {}
    BY <2>1 DEF Offsets, DiagIdle, DiscIdle
  <2> QED BY <2>1, <2>2, PollingAssumption DEF PollingInit, PollingBounded
<1>2. PollingInv /\ PollingBounded => PollingTypeOK
  <2> SUFFICES ASSUME PollingInv, PollingBounded PROVE PollingTypeOK
    OBVIOUS
  <2>1. PollingTyped /\ DiscSound
    BY DEF PollingInv
  <2>2. Largest \in Nat /\ \A b \in PolledBots : Len(Updates[b]) \in Nat /\ Len(Updates[b]) <= Largest
    <3>1. PolledBots # {}
      BY <2>1 DEF PollingTyped
    <3> QED BY <3>1, LargestOffset
  <2>3. issued \in [PolledBots -> Offsets] /\ forgotten \in [PolledBots -> Offsets]
    <3>1. /\ issued \in [PolledBots -> Nat] /\ forgotten \in [PolledBots -> Nat]
          /\ \A b \in PolledBots : issued[b] <= Len(Updates[b]) /\ forgotten[b] <= issued[b]
      BY <2>1 DEF PollingTyped, PollingBounded
    <3>2. \A b \in PolledBots : issued[b] \in 0..Largest /\ forgotten[b] \in 0..Largest
      BY <2>2, <3>1
    <3> QED BY <3>1, <3>2 DEF Offsets
  <2>4. diag \in [bot : PolledBots, on : BOOLEAN, last : Offsets] /\ diagRun \in DiagRun
    BY <2>1 DEF PollingTyped, PollingBounded, DiagRun
  <2>5. disc \in [PolledBots -> [on : BOOLEAN, last : Offsets]]
    BY <2>1 DEF PollingTyped, PollingBounded
  <2>6. discRun \in DiscRun
    <3>1. discRun.from \in [PolledBots -> Offsets]
      BY <2>1 DEF PollingTyped, PollingBounded
    <3> QED BY <2>1, <3>1 DEF PollingTyped, PollingBounded, DiscRun
  <2>7. discRun.batch # {} => discRun.bot # 0
    BY <2>1 DEF DiscSound
  <2> QED BY <2>1, <2>3, <2>4, <2>5, <2>6, <2>7 DEF PollingTyped, PollingBounded, PollingTypeOK
<1> QED BY <1>1, <1>2, PollingInvariant, PollingBoundedStep, PTL DEF PollingSpec

-----------------------------------------------------------------------------
(* The services side by side.                                              *)

(***************************************************************************)
(* Explored side by side, each service behaves as its own specification    *)
(* says: what is proved of a service holds of it among the others.         *)
(***************************************************************************)
THEOREM ServicesKeepTheirSpecs ==
  MessagingSpec => /\ Spec /\ LimiterSpec /\ PolicySpec /\ AdmissionSpec /\ UnitSpec
                   /\ PollingSpec /\ EventSpec
<1>1. MessagingInit => /\ Init /\ LimiterInit /\ PolicyInit /\ AdmissionInit /\ UnitInit
                       /\ PollingInit /\ EventInit
  BY DEF MessagingInit
<1>2. ASSUME [MessagingNext]_messagingVars
      PROVE  /\ [Next]_vars /\ [LimiterNext]_limiterVars /\ [PolicyNext]_policyVars
             /\ [AdmissionNext]_admissionVars /\ [UnitNext]_unitVars
             /\ [PollingNext]_pollingVars /\ [EventNext]_eventVars
  <2>1. CASE MessagingNext
    BY <2>1 DEF MessagingNext
  <2>2. CASE UNCHANGED messagingVars
    BY <2>2 DEF messagingVars
  <2> QED BY <1>2, <2>1, <2>2
<1> QED
  BY <1>1, <1>2, PTL
  DEF MessagingSpec, Spec, LimiterSpec, PolicySpec, AdmissionSpec, UnitSpec, PollingSpec, EventSpec

\* The variables of these services keep their types, whichever of them runs.
THEOREM MessagingTypeCorrect == MessagingSpec => []MessagingTypeOK
<1>1. TypeOK /\ LimiterInv /\ PolicyInv /\ AdmissionTypeOK /\ UnitInv /\ PollingTypeOK /\ EventTypeOK
      => MessagingTypeOK
  BY DEF LimiterInv, PolicyInv, UnitInv, MessagingTypeOK
<1> QED
  BY <1>1, ServicesKeepTheirSpecs, TypeCorrect, LimiterInvariant, PolicyInvariant,
     AdmissionTypeCorrect, UnitInvariant, PollingTypeCorrect, EventTypeCorrect, PTL
=============================================================================
