------------------------- MODULE RateLimiter_proofs -------------------------
(***************************************************************************)
(* The bounds of RateLimiter for every set of keys, rate, window length    *)
(* and number of calls.  The inductive invariant relates the one bucket    *)
(* the code keeps to the whole history of the key; the three properties    *)
(* then follow from it without looking at steps again.                     *)
(***************************************************************************)
EXTENDS RateLimiter, TLAPS

\* The invariant holds initially.
LEMMA InitIInv == Init => IInv
<1> SUFFICES ASSUME Init PROVE IInv
  OBVIOUS
<1>1. TypeOK
  BY LimiterAssumption DEF Init, TypeOK, Bucket, NoBucket
<1>2. ASSUME NEW k \in Keys PROVE KeyInv(k)
  BY LimiterAssumption DEF Init, KeyInv, WindowsApart, CallsInWindows, WindowsBounded,
     BucketIsLastWindow, RetryIsWindowEnd, NoBucket
<1> QED
  BY <1>1, <1>2 DEF IInv

\* A step that leaves a key's state alone keeps the key's invariant: only
\* time may pass.
LEMMA UntouchedKey ==
  ASSUME TypeOK, NEW k \in Keys, KeyInv(k), now' \in Nat, now' >= now,
         buckets'[k] = buckets[k], admittedAt'[k] = admittedAt[k],
         windowOf'[k] = windowOf[k], openedAt'[k] = openedAt[k],
         retryAt'[k] = retryAt[k]
  PROVE  KeyInv(k)'
<1> USE DEF KeyInv
<1>1. WindowsApart(k)'
  BY DEF WindowsApart
<1>2. CallsInWindows(k)'
  <2>1. \A i \in 1..Len(admittedAt[k]) : admittedAt[k][i] \in Nat
    BY DEF TypeOK
  <2>2. now \in Nat
    BY DEF TypeOK
  <2> QED
    BY <2>1, <2>2 DEF CallsInWindows
<1>3. WindowsBounded(k)'
  BY DEF WindowsBounded
<1>4. BucketIsLastWindow(k)'
  <2>1. Len(openedAt[k]) # 0 => openedAt[k][Len(openedAt[k])] \in Nat
    BY DEF TypeOK
  <2>2. now \in Nat
    BY DEF TypeOK
  <2> QED
    BY <2>1, <2>2 DEF BucketIsLastWindow
<1>5. RetryIsWindowEnd(k)'
  BY DEF RetryIsWindowEnd
<1> QED
  BY <1>1, <1>2, <1>3, <1>4, <1>5

\* What check leaves behind is a bucket.
LEMMA CheckedBucket ==
  ASSUME NEW b \in Bucket, NEW t \in Nat
  PROVE  RateCheck(b, t) \in Bucket
<1>1. b.count \in Nat /\ b.resetAt \in Nat
  BY DEF Bucket
<1>2. [b EXCEPT !.count = @ + 1] \in Bucket
  BY <1>1 DEF Bucket
<1> QED
  BY <1>2, LimiterAssumption DEF RateCheck, Bucket

\* Every step keeps the types.
LEMMA TypeStep == TypeOK /\ [Next]_vars => TypeOK'
<1> SUFFICES ASSUME TypeOK, [Next]_vars PROVE TypeOK'
  OBVIOUS
<1> USE LimiterAssumption, RateLimiterAssumption DEF TypeOK
<1>1. CASE Tick
  BY <1>1 DEF Tick
<1>2. ASSUME NEW k \in Keys, Admitted(k) PROVE TypeOK'
  <2>1. RateCheck(buckets[k], now) \in Bucket
    BY CheckedBucket
  <2>2. buckets' \in [Keys -> Bucket]
    BY <1>2, <2>1 DEF Admitted
  <2>3. openedAt' \in [Keys -> Seq(Nat)]
    BY <1>2 DEF Admitted
  <2>4. admittedAt' \in [Keys -> Seq(Nat)]
    BY <1>2 DEF Admitted
  <2>5. windowOf' \in [Keys -> Seq(Nat)]
    <3>1. Len(openedAt'[k]) \in Nat
      BY <2>3
    <3> QED
      BY <1>2, <3>1 DEF Admitted
  <2> QED
    BY <1>2, <2>2, <2>3, <2>4, <2>5 DEF Admitted
<1>3. ASSUME NEW k \in Keys, Denied(k) PROVE TypeOK'
  <2>1. RateCheck(buckets[k], now) \in Bucket
    BY CheckedBucket
  <2>2. buckets[k].resetAt \in Nat
    BY DEF Bucket
  <2> QED
    BY <1>3, <2>1, <2>2 DEF Denied
<1>4. CASE UNCHANGED vars
  BY <1>4 DEF vars
<1> QED
  BY <1>1, <1>2, <1>3, <1>4 DEF Next

-----------------------------------------------------------------------------
\* Admitting a call keeps the invariant of its key.
LEMMA AdmittedKey ==
  ASSUME TypeOK, TypeOK', NEW k \in Keys, KeyInv(k), Admitted(k)
  PROVE  KeyInv(k)'
<1> DEFINE n == Len(admittedAt[k])
           m == Len(openedAt[k])
           m1 == Len(openedAt'[k])
           Fits(i) == /\ windowOf'[k][i] \in 1..m1
                      /\ openedAt'[k][windowOf'[k][i]] <= admittedAt'[k][i]
                      /\ admittedAt'[k][i] <= now
                      /\ \A w \in 1..m1 : windowOf'[k][i] < w => admittedAt'[k][i] <= openedAt'[k][w]
<1> USE LimiterAssumption
<1>1. /\ n \in Nat /\ m \in Nat /\ now \in Nat /\ now' = now
      /\ buckets[k].count \in Nat /\ buckets[k].resetAt \in Nat
      /\ retryAt'[k] = retryAt[k] /\ retryAt[k] \in Nat
      /\ MaxPerMinute \in Nat \ {0} /\ Minute \in Nat \ {0}
  BY DEF TypeOK, Bucket, Admitted
<1>2. /\ \A i \in 1..n : admittedAt[k][i] \in Nat
      /\ \A i \in 1..Len(windowOf[k]) : windowOf[k][i] \in Nat
      /\ \A w \in 1..m : openedAt[k][w] \in Nat
  BY DEF TypeOK
<1>3. /\ Len(admittedAt'[k]) = n + 1
      /\ \A i \in 1..n : admittedAt'[k][i] = admittedAt[k][i]
      /\ admittedAt'[k][n + 1] = now
  BY DEF TypeOK, Admitted
<1>4. Len(windowOf[k]) = n
  BY DEF KeyInv, CallsInWindows
<1>5. m1 \in Nat
  BY DEF TypeOK
<1>6. /\ Len(windowOf'[k]) = n + 1
      /\ \A i \in 1..n : windowOf'[k][i] = windowOf[k][i]
      /\ windowOf'[k][n + 1] = m1
  BY <1>4, <1>5 DEF TypeOK, Admitted
<1>7. ASSUME \A i \in 1..n : Fits(i), Fits(n + 1) PROVE CallsInWindows(k)'
  <2>1. \A i \in 1..(n + 1) : Fits(i)
    <3> HIDE DEF n, Fits
    <3> SUFFICES ASSUME NEW i \in 1..(n + 1), i # n + 1 PROVE i \in 1..n
      BY <1>7
    <3> QED
      BY <1>1
  <2>2. /\ Len(windowOf'[k]) = Len(admittedAt'[k])
        /\ \A i \in 1..Len(admittedAt'[k]) : Fits(i)
    <3> HIDE DEF n, Fits
    <3> QED
      BY <2>1, <1>3, <1>6
  <2> QED
    BY <2>2, <1>1 DEF CallsInWindows
<1>8. CASE NewWindow(buckets[k], now)
  <2>1. /\ m1 = m + 1
        /\ \A w \in 1..m : openedAt'[k][w] = openedAt[k][w]
        /\ openedAt'[k][m + 1] = now
    BY <1>8 DEF TypeOK, Admitted
  <2>2. buckets'[k] = [count |-> 1, resetAt |-> now + Minute]
    BY <1>8 DEF TypeOK, Admitted, RateCheck
  <2>3. m # 0 => openedAt[k][m] + Minute <= now
    BY <1>8 DEF NewWindow, KeyInv, BucketIsLastWindow
  <2>4. \A w \in 1..m : openedAt[k][w] + Minute <= now
    <3> SUFFICES ASSUME NEW w \in 1..m PROVE openedAt[k][w] + Minute <= now
      OBVIOUS
    <3>1. CASE w = m
      BY <3>1, <2>3, <1>1
    <3>2. CASE w # m
      <4>1. openedAt[k][m] >= openedAt[k][w] + Minute
        BY <3>2, <1>1 DEF KeyInv, WindowsApart
      <4>2. m # 0 /\ openedAt[k][w] \in Nat /\ openedAt[k][m] \in Nat
        BY <1>1, <1>2
      <4> QED
        BY <4>1, <4>2, <2>3, <1>1
    <3> QED
      BY <3>1, <3>2
  <2>5. WindowsApart(k)'
    <3> SUFFICES ASSUME NEW v \in 1..m1, NEW w \in 1..m1, v < w
                 PROVE  openedAt'[k][w] >= openedAt'[k][v] + Minute
      BY <1>1 DEF WindowsApart
    <3>1. CASE w = m + 1
      <4>1. v \in 1..m
        BY <3>1, <1>1, <2>1
      <4>2. openedAt'[k][w] = now /\ openedAt'[k][v] = openedAt[k][v]
        BY <4>1, <3>1, <2>1
      <4>3. openedAt[k][v] + Minute <= now /\ openedAt[k][v] \in Nat
        BY <4>1, <2>4, <1>2
      <4> QED
        BY <4>2, <4>3, <1>1
    <3>2. CASE w \in 1..m
      <4>1. v \in 1..m
        BY <3>2, <1>1, <2>1
      <4>2. openedAt'[k][w] = openedAt[k][w] /\ openedAt'[k][v] = openedAt[k][v]
        BY <4>1, <3>2, <2>1
      <4>3. openedAt[k][w] >= openedAt[k][v] + Minute
        BY <4>1, <3>2 DEF KeyInv, WindowsApart
      <4> QED
        BY <4>2, <4>3
    <3> QED
      BY <3>1, <3>2, <2>1, <1>1
  <2>6. CallsInWindows(k)'
    <3>1. ASSUME NEW i \in 1..n
          PROVE  Fits(i)
      <4>1. /\ windowOf[k][i] \in 1..m
            /\ openedAt[k][windowOf[k][i]] <= admittedAt[k][i]
            /\ admittedAt[k][i] <= now
            /\ \A w \in 1..m : windowOf[k][i] < w => admittedAt[k][i] <= openedAt[k][w]
        BY DEF KeyInv, CallsInWindows
      <4>2. windowOf'[k][i] = windowOf[k][i] /\ admittedAt'[k][i] = admittedAt[k][i]
        BY <1>3, <1>6
      <4>3. \A w \in 1..m1 : windowOf[k][i] < w => admittedAt[k][i] <= openedAt'[k][w]
        <5> SUFFICES ASSUME NEW w \in 1..m1, windowOf[k][i] < w
                     PROVE  admittedAt[k][i] <= openedAt'[k][w]
          OBVIOUS
        <5>1. CASE w \in 1..m
          BY <5>1, <4>1, <2>1
        <5>2. CASE w = m + 1
          BY <5>2, <4>1, <2>1
        <5> QED
          BY <5>1, <5>2, <2>1, <1>1
      <4>4. windowOf[k][i] \in 1..m1 /\ openedAt'[k][windowOf[k][i]] = openedAt[k][windowOf[k][i]]
        BY <4>1, <2>1, <1>1
      <4> QED
        BY <4>1, <4>2, <4>3, <4>4
    <3>2. Fits(n + 1)
      <4>1. /\ windowOf'[k][n + 1] \in 1..m1
            /\ openedAt'[k][windowOf'[k][n + 1]] <= now
        BY <1>1, <1>6, <2>1
      <4>2. \A w \in 1..m1 : ~(windowOf'[k][n + 1] < w)
        BY <1>5, <1>6
      <4> QED
        BY <4>1, <4>2, <1>1, <1>3
    <3> QED
      BY <3>1, <3>2, <1>7
  <2>7. WindowsBounded(k)'
    <3> SUFFICES ASSUME NEW i \in 1..(n + 1), NEW j \in 1..(n + 1), j >= i + MaxPerMinute
                 PROVE  windowOf'[k][i] < windowOf'[k][j]
      BY <1>3 DEF WindowsBounded
    <3>1. i \in 1..n
      BY <1>1
    <3>2. CASE j \in 1..n
      BY <3>1, <3>2, <1>6 DEF KeyInv, WindowsBounded
    <3>3. CASE j = n + 1
      <4>1. windowOf[k][i] \in 1..m
        BY <3>1 DEF KeyInv, CallsInWindows
      <4>2. windowOf'[k][i] = windowOf[k][i] /\ windowOf'[k][j] = m + 1
        BY <3>1, <3>3, <1>6, <2>1
      <4> QED
        BY <4>1, <4>2, <1>1
    <3> QED
      BY <3>2, <3>3, <1>1
  <2>8. BucketIsLastWindow(k)'
    <3>1. ASSUME NEW i \in 1..n PROVE windowOf'[k][i] # m1 /\ ~(i > n + 1 - 1)
      <4>1. windowOf[k][i] \in 1..m
        BY DEF KeyInv, CallsInWindows
      <4> QED
        BY <4>1, <1>1, <1>6, <2>1
    <3>2. windowOf'[k][n + 1] = m1 /\ n + 1 > n + 1 - 1
      BY <1>1, <1>6
    <3>3. \A i \in 1..Len(admittedAt'[k]) :
            windowOf'[k][i] = m1 <=> i > Len(admittedAt'[k]) - 1
      <4>1. \A i \in 1..(n + 1) : windowOf'[k][i] = m1 <=> i > n + 1 - 1
        <5> SUFFICES ASSUME NEW i \in 1..(n + 1)
                     PROVE  windowOf'[k][i] = m1 <=> i > n + 1 - 1
          OBVIOUS
        <5>1. i \in 1..n \/ i = n + 1
          BY <1>1
        <5> QED
          BY <5>1, <3>1, <3>2, <1>6
      <4>2. Len(admittedAt'[k]) = n + 1 /\ n \in Nat
        BY <1>1, <1>3
      <4> HIDE DEF n, m1
      <4> QED
        BY <4>1, <4>2
    <3>4. buckets'[k].count = 1 /\ buckets'[k].resetAt = now + Minute
      BY <2>2
    <3>5. /\ buckets'[k].count <= MaxPerMinute
          /\ buckets'[k].count <= Len(admittedAt'[k])
          /\ buckets'[k].count >= 1
          /\ buckets'[k].resetAt = openedAt'[k][m1] + Minute
          /\ openedAt'[k][m1] <= now
          /\ m1 # 0
      BY <3>4, <1>1, <1>3, <2>1
    <3>6. \A i \in 1..Len(admittedAt'[k]) :
            windowOf'[k][i] = m1 <=> i > Len(admittedAt'[k]) - buckets'[k].count
      BY <3>3, <3>4
    <3>7. now' = now
      BY <1>1
    <3> QED
      BY <3>5, <3>6, <3>7 DEF BucketIsLastWindow
  <2>9. RetryIsWindowEnd(k)'
    <3>1. retryAt[k] # 0 => m # 0 /\ retryAt[k] <= now
      BY <1>8, <1>1, <1>2, <2>3 DEF KeyInv, RetryIsWindowEnd, BucketIsLastWindow, NewWindow
    <3> QED
      BY <3>1, <2>1, <1>1 DEF RetryIsWindowEnd
  <2> QED
    BY <2>5, <2>6, <2>7, <2>8, <2>9 DEF KeyInv
<1>9. CASE ~NewWindow(buckets[k], now)
  <2>1. openedAt'[k] = openedAt[k]
    BY <1>9 DEF TypeOK, Admitted
  <2>2. buckets[k].count < MaxPerMinute
    BY <1>9 DEF Admitted, RateAllowed
  <2>3. buckets'[k] = [buckets[k] EXCEPT !.count = @ + 1]
    BY <1>9, <2>2 DEF TypeOK, Admitted, RateCheck
  <2>4. /\ buckets'[k].count = buckets[k].count + 1
        /\ buckets'[k].resetAt = buckets[k].resetAt
    BY <2>3 DEF TypeOK, Bucket
  <2>5. m # 0
    BY <1>9, <1>1 DEF KeyInv, BucketIsLastWindow, NoBucket, NewWindow
  <2>6. m \in 1..m /\ openedAt[k][m] <= now
    BY <2>5, <1>1 DEF KeyInv, BucketIsLastWindow
  <2>7. WindowsApart(k)'
    BY <2>1 DEF KeyInv, WindowsApart
  <2>8. CallsInWindows(k)'
    <3>1. ASSUME NEW i \in 1..n
          PROVE  Fits(i)
      BY <1>3, <1>6, <2>1 DEF KeyInv, CallsInWindows
    <3>2. Fits(n + 1)
      <4>1. /\ windowOf'[k][n + 1] \in 1..m1
            /\ openedAt'[k][windowOf'[k][n + 1]] <= now
        BY <1>1, <1>6, <2>1, <2>6
      <4>2. \A w \in 1..m1 : ~(windowOf'[k][n + 1] < w)
        BY <1>5, <1>6
      <4> QED
        BY <4>1, <4>2, <1>1, <1>3
    <3> QED
      BY <3>1, <3>2, <1>7
  <2>9. WindowsBounded(k)'
    <3> SUFFICES ASSUME NEW i \in 1..(n + 1), NEW j \in 1..(n + 1), j >= i + MaxPerMinute
                 PROVE  windowOf'[k][i] < windowOf'[k][j]
      BY <1>3 DEF WindowsBounded
    <3>1. i \in 1..n
      BY <1>1
    <3>2. CASE j \in 1..n
      BY <3>1, <3>2, <1>6 DEF KeyInv, WindowsBounded
    <3>3. CASE j = n + 1
      <4>1. ~(i > n - buckets[k].count)
        BY <3>1, <3>3, <2>2, <1>1
      <4>2. windowOf[k][i] \in 1..m /\ windowOf[k][i] # m
        BY <3>1, <4>1 DEF KeyInv, CallsInWindows, BucketIsLastWindow
      <4> QED
        BY <4>2, <3>1, <3>3, <2>1, <1>1, <1>6
    <3> QED
      BY <3>2, <3>3, <1>1
  <2>10. BucketIsLastWindow(k)'
    <3>1. ASSUME NEW i \in 1..n
          PROVE  windowOf'[k][i] = m <=> i > n + 1 - buckets'[k].count
      <4>1. windowOf[k][i] = m <=> i > n - buckets[k].count
        BY DEF KeyInv, BucketIsLastWindow
      <4> QED
        BY <4>1, <1>1, <1>6, <2>4
    <3>2. windowOf'[k][n + 1] = m /\ n + 1 > n + 1 - buckets'[k].count
      BY <1>1, <1>6, <2>1, <2>4
    <3>3. /\ buckets'[k].count <= MaxPerMinute
          /\ buckets'[k].count <= n + 1
          /\ buckets'[k].count >= 1
          /\ buckets'[k].resetAt = openedAt'[k][m1] + Minute
          /\ openedAt'[k][m1] <= now
          /\ m1 # 0
      BY <2>1, <2>6, <1>1, <2>2, <2>4, <2>5 DEF KeyInv, BucketIsLastWindow
    <3>4. \A i \in 1..(n + 1) : windowOf'[k][i] = m1 <=> i > n + 1 - buckets'[k].count
      BY <3>1, <3>2, <2>1, <1>1
    <3>5. \A i \in 1..Len(admittedAt'[k]) :
            windowOf'[k][i] = m1 <=> i > Len(admittedAt'[k]) - buckets'[k].count
      <4>1. Len(admittedAt'[k]) = n + 1
        BY <1>3
      <4>2. n \in Nat /\ buckets'[k].count \in Nat
        BY <1>1, <2>4
      <4> HIDE DEF n, m1
      <4> QED
        BY <3>4, <4>1, <4>2
    <3>6. now' = now /\ Len(admittedAt'[k]) = n + 1
      BY <1>1, <1>3
    <3> QED
      BY <3>3, <3>5, <3>6 DEF BucketIsLastWindow
  <2>11. RetryIsWindowEnd(k)'
    BY <2>1, <2>4, <1>1 DEF KeyInv, RetryIsWindowEnd
  <2> QED
    BY <2>7, <2>8, <2>9, <2>10, <2>11 DEF KeyInv
<1> QED
  BY <1>8, <1>9

\* Denying a call changes only the time told to the caller.
LEMMA DeniedKey ==
  ASSUME TypeOK, NEW k \in Keys, KeyInv(k), Denied(k)
  PROVE  KeyInv(k)'
<1>1. /\ buckets'[k] = buckets[k]
      /\ retryAt'[k] = buckets[k].resetAt
      /\ UNCHANGED <<now, admittedAt, windowOf, openedAt>>
  BY DEF TypeOK, Denied, RateAllowed, RateCheck
<1>2. Len(openedAt[k]) # 0
  BY DEF TypeOK, Denied, RateAllowed, NewWindow, KeyInv, BucketIsLastWindow, NoBucket
<1> QED
  BY <1>1, <1>2 DEF KeyInv, WindowsApart, CallsInWindows, WindowsBounded,
     BucketIsLastWindow, RetryIsWindowEnd

\* Every step keeps the invariant, key by key.
LEMMA StepIInv == IInv /\ [Next]_vars => IInv'
<1> SUFFICES ASSUME IInv, [Next]_vars PROVE IInv'
  OBVIOUS
<1>1. TypeOK /\ TypeOK'
  BY TypeStep DEF IInv
<1> SUFFICES ASSUME NEW k \in Keys PROVE KeyInv(k)'
  BY <1>1 DEF IInv
<1>2. KeyInv(k)
  BY DEF IInv
<1>3. CASE Tick
  BY <1>1, <1>2, <1>3, UntouchedKey DEF Tick, TypeOK
<1>4. ASSUME NEW x \in Keys, x # k, Admitted(x) \/ Denied(x) PROVE KeyInv(k)'
  BY <1>1, <1>2, <1>4, UntouchedKey DEF Admitted, Denied, TypeOK
<1>5. CASE Admitted(k)
  BY <1>1, <1>2, <1>5, AdmittedKey
<1>6. CASE Denied(k)
  BY <1>1, <1>2, <1>6, DeniedKey
<1>7. CASE UNCHANGED vars
  BY <1>1, <1>2, <1>7, UntouchedKey DEF vars, TypeOK
<1> QED
  BY <1>3, <1>4, <1>5, <1>6, <1>7 DEF Next

\* The invariant that the three bounds rest on holds in every behaviour.
THEOREM Invariance == Spec => []IInv
BY InitIInv, StepIInv, PTL DEF Spec

\* Every variable has its type.
THEOREM TypeCorrect == Spec => []TypeOK
BY Invariance, PTL DEF IInv

-----------------------------------------------------------------------------
\* For every rate and window length: any 2 * MaxPerMinute + 1 successive
\* admitted calls of a key take at least a minute.  The first and the last
\* are in windows that are not neighbours.
THEOREM RateBound == Spec => []AtMostTwiceTheRate
<1>1. IInv => AtMostTwiceTheRate
  <2> SUFFICES ASSUME IInv, NEW k \in Keys,
                      NEW i \in 1..Len(admittedAt[k]), NEW j \in 1..Len(admittedAt[k]),
                      j >= i + 2 * MaxPerMinute
               PROVE  admittedAt[k][j] >= admittedAt[k][i] + Minute
    BY DEF AtMostTwiceTheRate
  <2> DEFINE h == i + MaxPerMinute
             a == admittedAt[k]
             w == windowOf[k]
             o == openedAt[k]
  <2> USE LimiterAssumption
  <2>1. TypeOK /\ KeyInv(k)
    BY DEF IInv
  <2>2. h \in 1..Len(a) /\ j >= h + MaxPerMinute
    BY <2>1 DEF TypeOK
  <2>3. w[i] < w[h] /\ w[h] < w[j]
    BY <2>1, <2>2 DEF KeyInv, WindowsBounded
  <2>4. w[i] \in 1..Len(o) /\ w[h] \in 1..Len(o) /\ w[j] \in 1..Len(o)
    BY <2>1, <2>2 DEF KeyInv, CallsInWindows
  <2>5. a[i] <= o[w[h]]
    BY <2>1, <2>3, <2>4 DEF KeyInv, CallsInWindows
  <2>6. o[w[j]] >= o[w[h]] + Minute
    BY <2>1, <2>3, <2>4 DEF KeyInv, WindowsApart
  <2>7. o[w[j]] <= a[j]
    BY <2>1 DEF KeyInv, CallsInWindows
  <2>8. a[i] \in Nat /\ a[j] \in Nat /\ o[w[h]] \in Nat /\ o[w[j]] \in Nat
    <3>1. a \in Seq(Nat) /\ o \in Seq(Nat)
      BY <2>1 DEF TypeOK
    <3>2. a[i] \in Nat
      BY <3>1
    <3>3. a[j] \in Nat
      BY <3>1
    <3>4. \A x \in 1..Len(o) : o[x] \in Nat
      BY <3>1
    <3> QED
      BY <3>2, <3>3, <3>4, <2>4
  <2>9. Minute \in Nat
    OBVIOUS
  <2>10. a[j] >= a[i] + Minute
    <3> HIDE DEF a, w, o, h
    <3> QED
      BY <2>5, <2>6, <2>7, <2>8, <2>9
  <2> QED
    BY <2>10
<1> QED
  BY <1>1, Invariance, PTL

\* For every rate: a key that is denied has had MaxPerMinute calls admitted
\* within the minute before.
THEOREM NoEarlyDenial == Spec => []DeniedOnlyAtTheRate
<1>1. IInv => DeniedOnlyAtTheRate
  <2> SUFFICES ASSUME IInv, NEW k \in Keys, ~RateAllowed(buckets[k], now)
               PROVE  /\ Len(admittedAt[k]) >= MaxPerMinute
                      /\ admittedAt[k][Len(admittedAt[k]) - MaxPerMinute + 1] > now - Minute
    BY DEF DeniedOnlyAtTheRate
  <2> DEFINE n == Len(admittedAt[k])
             m == Len(openedAt[k])
             p == n - MaxPerMinute + 1
  <2> USE LimiterAssumption
  <2>1. TypeOK /\ KeyInv(k)
    BY DEF IInv
  <2>2. /\ n \in Nat /\ m \in Nat /\ now \in Nat
        /\ buckets[k].count \in Nat /\ buckets[k].resetAt \in Nat
    BY <2>1 DEF TypeOK, Bucket
  <2>3. now < buckets[k].resetAt /\ buckets[k].count >= MaxPerMinute
    BY <2>2 DEF RateAllowed, NewWindow
  <2>4. buckets[k].count = MaxPerMinute /\ MaxPerMinute <= n
    BY <2>1, <2>2, <2>3 DEF KeyInv, BucketIsLastWindow
  <2>5. m # 0
    BY <2>1, <2>2, <2>3 DEF KeyInv, BucketIsLastWindow, NoBucket
  <2>6. p \in 1..n /\ p > n - buckets[k].count
    BY <2>2, <2>4
  <2>7. windowOf[k][p] = m
    BY <2>1, <2>6 DEF KeyInv, BucketIsLastWindow
  <2>8. openedAt[k][m] <= admittedAt[k][p]
    BY <2>1, <2>6, <2>7 DEF KeyInv, CallsInWindows
  <2>9. buckets[k].resetAt = openedAt[k][m] + Minute
    BY <2>1, <2>5 DEF KeyInv, BucketIsLastWindow
  <2>10. openedAt[k][m] \in Nat /\ admittedAt[k][p] \in Nat
    BY <2>1, <2>2, <2>5, <2>6 DEF TypeOK
  <2> QED
    BY <2>2, <2>3, <2>4, <2>8, <2>9, <2>10
<1> QED
  BY <1>1, Invariance, PTL

\* For every rate: waiting as long as a denial says is enough, unless another
\* call of the key is admitted first.
THEOREM RetryAfter == Spec => []RetryAfterIsEnough
<1>1. IInv => RetryAfterIsEnough
  <2> SUFFICES ASSUME IInv, NEW k \in Keys, now >= retryAt[k], retryAt[k] # 0,
                      \A i \in 1..Len(admittedAt[k]) : admittedAt[k][i] < retryAt[k]
               PROVE  RateAllowed(buckets[k], now)
    BY DEF RetryAfterIsEnough
  <2> DEFINE n == Len(admittedAt[k])
             m == Len(openedAt[k])
  <2>1. TypeOK /\ KeyInv(k)
    BY DEF IInv
  <2>2. /\ n \in Nat /\ m \in Nat /\ now \in Nat /\ retryAt[k] \in Nat
        /\ buckets[k].count \in Nat
    BY <2>1 DEF TypeOK, Bucket
  <2>3. m # 0
    BY <2>1 DEF KeyInv, RetryIsWindowEnd
  <2>4. n \in 1..n /\ n > n - buckets[k].count
    BY <2>1, <2>2, <2>3 DEF KeyInv, BucketIsLastWindow
  <2>5. windowOf[k][n] = m
    BY <2>1, <2>4 DEF KeyInv, BucketIsLastWindow
  <2>6. openedAt[k][m] <= admittedAt[k][n]
    BY <2>1, <2>4, <2>5 DEF KeyInv, CallsInWindows
  <2>7. openedAt[k][m] \in Nat /\ admittedAt[k][n] \in Nat
    BY <2>1, <2>2, <2>3, <2>4 DEF TypeOK
  <2>8. ~(retryAt[k] <= openedAt[k][m])
    BY <2>2, <2>4, <2>6, <2>7
  <2>9. retryAt[k] = buckets[k].resetAt
    BY <2>1, <2>8 DEF KeyInv, RetryIsWindowEnd
  <2> QED
    BY <2>9 DEF RateAllowed, NewWindow
<1> QED
  BY <1>1, Invariance, PTL

=============================================================================
