------------------------- MODULE ControlGateProofs --------------------------
(* The rate bound of TokenBucket and the bound on the gate's log lines,    *)
(* for every capacity, rate, gap and number of connections.                *)
EXTENDS ControlGate, TLAPS

IInv == TypeOK /\ WindowStarted /\ Potential

\* A bucket asked now holds between nothing and its capacity.
LEMMA CurrentType ==
  ASSUME TypeOK, NEW k \in Keys
  PROVE  Current(k) \in Buckets
<1>1. CASE buckets[k] = NoBucket
  BY <1>1, BucketAssumption DEF TypeOK, Current, Buckets
<1>2. CASE buckets[k] # NoBucket
  <2> DEFINE b == buckets[k]
  <2>1. b \in Buckets
    BY <1>2 DEF TypeOK
  <2>2. b.tokens \in 0..Capacity /\ b.lastRefillMs \in 0..Horizon
    BY <2>1 DEF Buckets
  <2>3. CASE now > b.lastRefillMs
    <3> DEFINE n == b.tokens + Rate * (now - b.lastRefillMs)
    <3>1. now - b.lastRefillMs \in Nat /\ now \in 0..Horizon
      BY <2>2, <2>3, BucketAssumption DEF TypeOK
    <3>2. n \in Nat
      <4>1. Rate * (now - b.lastRefillMs) \in Nat
        BY <3>1, BucketAssumption
      <4> QED BY <4>1, <2>2, BucketAssumption
    <3>3. Least(Capacity, n) \in 0..Capacity
      BY <3>2, BucketAssumption DEF Least
    <3>4. Current(k) = [tokens |-> Least(Capacity, n), lastRefillMs |-> now]
      BY <1>2, <2>3 DEF Current, Refilled
    <3> QED BY <3>1, <3>3, <3>4 DEF Buckets
  <2>4. CASE ~(now > b.lastRefillMs)
    BY <1>2, <2>1, <2>4 DEF Current, Refilled
  <2> QED BY <2>3, <2>4
<1> QED BY <1>1, <1>2

LEMMA InitInv == Init => IInv
<1> SUFFICES ASSUME Init PROVE IInv
  OBVIOUS
<1> USE BucketAssumption DEF Init
<1>1. TypeOK
  BY DEF TypeOK
<1>2. WindowStarted
  <2>1. now <= now
    OBVIOUS
  <2>2. \A k \in Keys : window[k].start = now
    OBVIOUS
  <2> QED BY <2>1, <2>2 DEF WindowStarted
<1>3. Potential
  <2> SUFFICES ASSUME NEW k \in Keys
               PROVE  window[k].admitted * Cost + Owed(k)
                        <= Capacity + Rate * (now - window[k].start)
    BY DEF Potential
  <2>1. Owed(k) = Capacity
    BY DEF Owed, Current
  <2>2. window[k].admitted = 0 /\ now - window[k].start = 0
    OBVIOUS
  <2> QED BY <2>1, <2>2
<1> QED BY <1>1, <1>2, <1>3 DEF IInv

LEMMA TypeStep == TypeOK /\ [Next]_vars => TypeOK'
<1> SUFFICES ASSUME TypeOK, [Next]_vars PROVE TypeOK'
  OBVIOUS
<1> USE BucketAssumption DEF TypeOK
<1>1. ASSUME NEW k \in Keys, Admit(k) PROVE TypeOK'
  <2>1. [Current(k) EXCEPT !.tokens = @ - Cost] \in Buckets
    BY <1>1, CurrentType DEF Admit, Buckets
  <2> QED BY <1>1, <2>1 DEF Admit, StillPaced
<1>2. ASSUME NEW k \in Keys, Deny(k) PROVE TypeOK'
  BY <1>2, CurrentType DEF Deny, StillPaced
<1>3. ASSUME NEW k \in Keys, Release(k) PROVE TypeOK'
  BY <1>3 DEF Release
<1>4. ASSUME NEW k \in Keys, StartWindow(k) PROVE TypeOK'
  BY <1>4 DEF StartWindow
<1>5. CASE Advance
  BY <1>5 DEF Advance
<1>6. CASE StepBack
  <2>1. now' \in 0..Horizon
    BY <1>6 DEF StepBack
  <2>2. window' \in [Keys -> [start : 0..Horizon, admitted : Nat]]
    BY <1>6, <2>1 DEF StepBack
  <2>3. paced' \in [Keys -> [ok : BOOLEAN, last : 0..Horizon, any : BOOLEAN]]
    BY <1>6 DEF StepBack
  <2> QED BY <1>6, <2>1, <2>2, <2>3 DEF StepBack
<1>7. CASE UNCHANGED vars
  BY <1>7 DEF vars
<1> QED BY <1>1, <1>2, <1>3, <1>4, <1>5, <1>6, <1>7 DEF Next

LEMMA WindowStartedStep ==
  TypeOK /\ WindowStarted /\ [Next]_vars => WindowStarted'
<1> SUFFICES ASSUME TypeOK, WindowStarted, [Next]_vars PROVE WindowStarted'
  OBVIOUS
<1> USE BucketAssumption DEF TypeOK, WindowStarted
<1>1. ASSUME NEW k \in Keys, Admit(k) \/ Deny(k) \/ Release(k) \/ StartWindow(k)
      PROVE WindowStarted'
  BY <1>1 DEF Admit, Deny, Release, StartWindow
<1>2. CASE Advance
  BY <1>2 DEF Advance
<1>3. CASE StepBack
  BY <1>3 DEF StepBack
<1>4. CASE UNCHANGED vars
  BY <1>4 DEF vars
<1> QED BY <1>1, <1>2, <1>3, <1>4 DEF Next

\* A refill by Rate * e, capped, is at most what the advance of the clock adds.
LEMMA RefillBound ==
  ASSUME NEW t \in 0..Capacity, NEW e \in Nat
  PROVE  /\ Rate * e \in Nat
         /\ Least(Capacity, t + Rate * (e + 1)) <= Least(Capacity, t + Rate * e) + Rate
<1>1. Rate * e \in Nat /\ Rate * (e + 1) = Rate * e + Rate
  BY BucketAssumption
<1> QED BY <1>1, BucketAssumption DEF Least

\* While the bucket is not touched, a tick adds at most Rate to it.
LEMMA OwedAdvance ==
  ASSUME TypeOK, Advance, NEW k \in Keys
  PROVE  Owed(k)' <= Owed(k) + Rate
<1> USE BucketAssumption
<1>1. CASE k \notin open
  BY <1>1 DEF Advance, Owed
<1>2. CASE k \in open /\ buckets[k] = NoBucket
  BY <1>2 DEF Advance, Owed, Current
<1>3. CASE k \in open /\ buckets[k] # NoBucket
  <2> DEFINE b == buckets[k]
  <2>1. b.tokens \in 0..Capacity /\ b.lastRefillMs \in 0..Horizon /\ now \in 0..Horizon
    BY <1>3 DEF TypeOK, Buckets
  <2>2. Owed(k) = Refilled(b).tokens
    BY <1>3 DEF Owed, Current
  <2>3. /\ now' = now + 1 /\ buckets' = buckets /\ open' = open
    BY DEF Advance
  <2>4. Owed(k)' = IF now' > b.lastRefillMs
                     THEN Least(Capacity, b.tokens + Rate * (now' - b.lastRefillMs))
                     ELSE b.tokens
    <3>1. Owed(k)' = Current(k)'.tokens
      BY <1>3, <2>3 DEF Owed
    <3>2. Current(k)' = IF now' > b.lastRefillMs
            THEN [tokens |-> Least(Capacity, b.tokens + Rate * (now' - b.lastRefillMs)),
                  lastRefillMs |-> now']
            ELSE b
      BY <1>3, <2>3 DEF Current, Refilled, NoBucket
    <3> QED BY <3>1, <3>2
  <2>5. CASE now > b.lastRefillMs
    <3>1. PICK e \in Nat : e = now - b.lastRefillMs
      BY <2>1, <2>5
    <3>2. now' - b.lastRefillMs = e + 1 /\ now' > b.lastRefillMs
      BY <2>1, <2>3, <2>5, <3>1
    <3>3. Owed(k) = Least(Capacity, b.tokens + Rate * e)
      BY <2>2, <2>5, <3>1 DEF Refilled
    <3>4. Owed(k)' = Least(Capacity, b.tokens + Rate * (e + 1))
      BY <2>1, <2>4, <2>5, <3>2
    <3> QED BY <2>1, <3>3, <3>4, RefillBound
  <2>6. CASE now = b.lastRefillMs
    <3>1. Owed(k) = b.tokens
      BY <2>1, <2>2, <2>6 DEF Refilled
    <3>2. now' - b.lastRefillMs = 1 /\ now' > b.lastRefillMs
      BY <2>1, <2>3, <2>6
    <3>3. Owed(k)' = Least(Capacity, b.tokens + Rate)
      BY <2>4, <3>2
    <3> QED BY <2>1, <3>1, <3>3 DEF Least
  <2>7. CASE now < b.lastRefillMs
    <3>1. Owed(k) = b.tokens /\ Owed(k)' = b.tokens
      BY <2>1, <2>2, <2>3, <2>4, <2>7 DEF Refilled
    <3> QED BY <2>1, <3>1
  <2> QED BY <2>1, <2>5, <2>6, <2>7
<1> QED BY <1>1, <1>2, <1>3

\* A bucket never owes more than the capacity.
LEMMA OwedBound ==
  ASSUME TypeOK, NEW k \in Keys
  PROVE  Owed(k) \in 0..Capacity
BY CurrentType, BucketAssumption DEF Owed, Buckets

\* A bucket refilled at the present time is not refilled again.
LEMMA SettledBucket ==
  ASSUME TypeOK, NEW k \in Keys, k \in open', now' = now,
         NEW t \in 0..Capacity, buckets'[k] = [Current(k) EXCEPT !.tokens = t]
  PROVE  Owed(k)' = t
<1> DEFINE c == Current(k)
           b == buckets'[k]
<1>1. c \in Buckets
  BY CurrentType
<1>2. c.lastRefillMs >= now
  <2>1. CASE buckets[k] = NoBucket
    BY <2>1, BucketAssumption DEF Current, TypeOK
  <2>2. CASE buckets[k] # NoBucket /\ now > buckets[k].lastRefillMs
    BY <2>2, BucketAssumption DEF Current, Refilled, TypeOK
  <2>3. CASE buckets[k] # NoBucket /\ ~(now > buckets[k].lastRefillMs)
    BY <2>3, BucketAssumption DEF Current, Refilled, TypeOK, Buckets
  <2> QED BY <2>1, <2>2, <2>3
<1>3. b = [tokens |-> t, lastRefillMs |-> c.lastRefillMs]
  BY <1>1 DEF Buckets
<1>4. b # NoBucket
  <2>1. b.tokens # -1
    BY <1>3, BucketAssumption
  <2>2. NoBucket.tokens = -1
    BY DEF NoBucket
  <2> QED BY <2>1, <2>2
<1>5. ~(now' > b.lastRefillMs)
  BY <1>1, <1>2, <1>3, BucketAssumption DEF Buckets, TypeOK
<1>6. Current(k)' = b
  BY <1>4, <1>5 DEF Current, Refilled, NoBucket
<1>7. Owed(k)' = Current(k)'.tokens
  BY DEF Owed
<1> QED BY <1>3, <1>6, <1>7

\* OwedBound in the next state, for a step that leaves the buckets alone.
LEMMA OwedBoundNext ==
  ASSUME TypeOK, NEW k \in Keys, now' \in 0..Horizon, UNCHANGED <<open, buckets>>
  PROVE  Owed(k)' \in 0..Capacity
<1> USE BucketAssumption
<1> DEFINE b == buckets[k]
<1>1. CASE k \notin open
  BY <1>1 DEF Owed
<1>2. CASE k \in open /\ b = NoBucket
  BY <1>2 DEF Owed, Current, NoBucket
<1>3. CASE k \in open /\ b # NoBucket
  <2>1. b.tokens \in 0..Capacity /\ b.lastRefillMs \in 0..Horizon
    BY <1>3 DEF TypeOK, Buckets
  <2>2. Owed(k)' = Current(k)'.tokens
    BY <1>3 DEF Owed
  <2>3. CASE ~(now' > b.lastRefillMs)
    BY <1>3, <2>1, <2>2, <2>3 DEF Current, Refilled, NoBucket
  <2>4. CASE now' > b.lastRefillMs
    <3> DEFINE n == b.tokens + Rate * (now' - b.lastRefillMs)
    <3>1. n \in Nat
      <4>1. now' - b.lastRefillMs \in Nat
        BY <2>1, <2>4
      <4>2. Rate * (now' - b.lastRefillMs) \in Nat
        BY <4>1
      <4> QED BY <2>1, <4>2
    <3>2. Current(k)' = [tokens |-> Least(Capacity, n), lastRefillMs |-> now']
      BY <1>3, <2>4 DEF Current, Refilled, NoBucket
    <3>3. Owed(k)' = Least(Capacity, n)
      BY <2>2, <3>2
    <3> QED BY <3>1, <3>3 DEF Least
  <2> QED BY <2>3, <2>4
<1> QED BY <1>1, <1>2, <1>3

LEMMA PotentialStep ==
  IInv /\ [Next]_vars => Potential'
<1> SUFFICES ASSUME TypeOK, WindowStarted, Potential, [Next]_vars,
                    NEW k \in Keys
             PROVE  (window[k].admitted * Cost + Owed(k)
                       <= Capacity + Rate * (now - window[k].start))'
  BY DEF IInv, Potential
<1> USE BucketAssumption
<1>1. /\ now \in 0..Horizon /\ window[k].start \in 0..Horizon
      /\ window[k].admitted \in Nat /\ window[k].start <= now
  BY DEF TypeOK, WindowStarted
<1>2. window[k].admitted * Cost + Owed(k) <= Capacity + Rate * (now - window[k].start)
  BY DEF Potential
<1>3. Owed(k) \in 0..Capacity
  BY OwedBound
<1>4. now - window[k].start \in Nat /\ Rate * (now - window[k].start) \in Nat
  BY <1>1
<1>5. ASSUME UNCHANGED <<now, open>>, buckets'[k] = buckets[k], window'[k] = window[k]
      PROVE  (window[k].admitted * Cost + Owed(k)
                <= Capacity + Rate * (now - window[k].start))'
  BY <1>2, <1>5 DEF Owed, Current, Refilled
<1>6. ASSUME NEW j \in Keys, j # k, Admit(j) \/ Deny(j) \/ StartWindow(j)
      PROVE  (window[k].admitted * Cost + Owed(k)
                <= Capacity + Rate * (now - window[k].start))'
  BY <1>5, <1>6 DEF Admit, Deny, StartWindow, TypeOK
<1>7. CASE Admit(k)
  <2>1. Current(k) \in Buckets /\ Owed(k) = Current(k).tokens
    BY <1>7, CurrentType DEF Admit, Owed
  <2>2. /\ k \in open' /\ now' = now
        /\ buckets'[k] = [Current(k) EXCEPT !.tokens = @ - Cost]
        /\ window'[k].start = window[k].start
        /\ window'[k].admitted = window[k].admitted + 1
    BY <1>7 DEF Admit, TypeOK
  <2>3. Owed(k)' = Owed(k) - Cost
    <3>1. Owed(k) - Cost \in 0..Capacity
      BY <1>3, <1>7, <2>1 DEF Admit
    <3>2. buckets'[k] = [Current(k) EXCEPT !.tokens = Owed(k) - Cost]
      BY <2>1, <2>2
    <3> QED BY <2>2, <3>1, <3>2, SettledBucket
  <2>4. (window[k].admitted + 1) * Cost = window[k].admitted * Cost + Cost
    BY <1>1
  <2> QED BY <1>1, <1>2, <1>3, <1>4, <2>2, <2>3, <2>4
<1>8. CASE Deny(k)
  <2>1. Current(k) \in Buckets /\ Owed(k) = Current(k).tokens
    BY <1>8, CurrentType DEF Deny, Owed
  <2>2. /\ k \in open' /\ now' = now /\ buckets'[k] = Current(k) /\ window' = window
    BY <1>8 DEF Deny, TypeOK
  <2>3. Owed(k)' = Owed(k)
    <3>1. buckets'[k] = [Current(k) EXCEPT !.tokens = Owed(k)]
      BY <2>1, <2>2 DEF Buckets
    <3> QED BY <1>3, <2>2, <3>1, SettledBucket
  <2> QED BY <1>2, <2>2, <2>3
<1>9. CASE StartWindow(k)
  <2>1. window'[k] = [start |-> now, admitted |-> 0]
    BY <1>9 DEF StartWindow, TypeOK
  <2>2. Owed(k)' = Owed(k) /\ now' = now
    BY <1>9 DEF StartWindow, Owed, Current, Refilled
  <2>3. Rate * (now - now) = 0
    BY <1>1
  <2> QED BY <1>1, <1>3, <2>1, <2>2, <2>3
<1>10. ASSUME NEW j \in Keys, Release(j)
       PROVE  (window[k].admitted * Cost + Owed(k)
                 <= Capacity + Rate * (now - window[k].start))'
  <2>1. CASE j # k
    <3>1. now' = now /\ window' = window /\ buckets'[k] = buckets[k] /\ (k \in open' <=> k \in open)
      BY <1>10, <2>1 DEF Release, TypeOK
    <3>2. Owed(k)' = Owed(k)
      BY <3>1 DEF Owed, Current, Refilled, NoBucket
    <3> QED BY <1>2, <3>1, <3>2
  <2>2. CASE j = k
    <3>1. Owed(k)' = 0 /\ window' = window /\ now' = now
      BY <1>10, <2>2 DEF Release, Owed
    <3>2. window[k].admitted * Cost \in Nat
      BY <1>1
    <3> QED BY <1>2, <1>3, <1>4, <3>1, <3>2
  <2> QED BY <2>1, <2>2
<1>11. CASE Advance
  <2>1. Owed(k)' <= Owed(k) + Rate
    BY <1>11, OwedAdvance
  <2>2. now' = now + 1 /\ window' = window
    BY <1>11 DEF Advance
  <2>3. Rate * (now + 1 - window[k].start) = Rate * (now - window[k].start) + Rate
    BY <1>1
  <2>4. Owed(k)' \in Int
    <3>1. now' \in 0..Horizon /\ UNCHANGED <<open, buckets>>
      BY <1>1, <1>11 DEF Advance
    <3>2. Owed(k)' \in 0..Capacity
      BY <3>1, OwedBoundNext
    <3> QED BY <3>2
  <2>5. window[k].admitted * Cost \in Nat
    BY <1>1
  <2> DEFINE used == window[k].admitted * Cost
             grown == Rate * (now - window[k].start)
  <2>6. used + Owed(k)' <= Capacity + (grown + Rate)
    <3>1. used + Owed(k) <= Capacity + grown
      BY <1>2
    <3>2. used \in Int /\ grown \in Int /\ Owed(k) \in Int /\ Owed(k)' \in Int
      BY <1>3, <1>4, <2>4, <2>5
    <3> HIDE DEF used, grown
    <3> QED BY <2>1, <3>1, <3>2
  <2>7. /\ (window[k].admitted * Cost)' = used
        /\ (Rate * (now - window[k].start))' = Rate * (now + 1 - window[k].start)
    BY <1>1, <2>2
  <2> HIDE DEF used, grown
  <2> QED BY <2>3, <2>6, <2>7 DEF grown
<1>12. CASE StepBack
  <2>1. window'[k] = [start |-> now', admitted |-> 0] /\ now' \in 0..Horizon
    BY <1>1, <1>12 DEF StepBack
  <2>2. Owed(k)' \in 0..Capacity
    <3>1. UNCHANGED <<open, buckets>>
      BY <1>12 DEF StepBack
    <3> QED BY <2>1, <3>1, OwedBoundNext
  <2>3. Rate * (now' - now') = 0 /\ 0 * Cost = 0
    <3>1. \A n \in Nat : n - n = 0
      OBVIOUS
    <3> QED BY <2>1, <3>1
  <2> QED BY <2>1, <2>2, <2>3
<1>13. CASE UNCHANGED vars
  BY <1>5, <1>13 DEF vars
<1> QED BY <1>6, <1>7, <1>8, <1>9, <1>10, <1>11, <1>12, <1>13 DEF Next

-----------------------------------------------------------------------------

\* The rate bound follows, as a bucket never owes a negative amount.
LEMMA InvImpliesRateBound == IInv => RateBound
<1> SUFFICES ASSUME IInv, NEW k \in Keys
             PROVE  window[k].admitted * Cost <= Capacity + Rate * (now - window[k].start)
  BY DEF RateBound
<1> USE BucketAssumption
<1>1. Owed(k) \in 0..Capacity
  BY OwedBound DEF IInv
<1>2. window[k].admitted * Cost + Owed(k) <= Capacity + Rate * (now - window[k].start)
  BY DEF IInv, Potential
<1>3. now - window[k].start \in Int /\ window[k].admitted \in Nat
  BY DEF IInv, TypeOK
<1>4. window[k].admitted * Cost \in Int /\ Rate * (now - window[k].start) \in Int
  BY <1>3
<1> QED BY <1>1, <1>2, <1>4

THEOREM Invariance == Spec => []IInv
<1>1. IInv /\ [Next]_vars => IInv'
  BY TypeStep, WindowStartedStep, PotentialStep DEF IInv
<1> QED BY InitInv, <1>1, PTL DEF Spec

\* Every key's bucket stays within its capacity, for every clock.
THEOREM TypeCorrect == Spec => []TypeOK
<1>1. IInv => TypeOK
  BY DEF IInv
<1> QED BY Invariance, <1>1, PTL

\* The bound on admitted control events of rate-limiter.ts lines 11 to 14, for
\* every capacity, refill rate, number of connections and behaviour of the clock.
THEOREM RateBounded == Spec => []RateBound
BY Invariance, InvImpliesRateBound, PTL

-----------------------------------------------------------------------------
(* Who paces its events finds the bucket full each time. *)

PacedFull(k) ==
  k \in open /\ paced[k].ok =>
    IF paced[k].any
      THEN /\ paced[k].last <= now
           /\ buckets[k] = [tokens |-> Capacity - Cost, lastRefillMs |-> paced[k].last]
      ELSE buckets[k] = NoBucket

\* Cost of refill makes up for the one token that is missing.
LEMMA PacedCurrent ==
  ASSUME TypeOK, NEW k \in Keys, PacedFull(k), k \in open, StillPaced(k)
  PROVE  Current(k) = [tokens |-> Capacity, lastRefillMs |-> now]
<1> USE BucketAssumption
<1>1. CASE ~paced[k].any
  BY <1>1 DEF PacedFull, StillPaced, Current
<1>2. CASE paced[k].any
  <2> DEFINE last == paced[k].last
  <2>1. /\ last \in Nat /\ now \in Nat /\ last <= now /\ Rate * (now - last) >= Cost
        /\ buckets[k] = [tokens |-> Capacity - Cost, lastRefillMs |-> last]
    BY <1>2 DEF PacedFull, StillPaced, TypeOK
  <2>2. buckets[k] # NoBucket
    BY <2>1 DEF NoBucket
  <2>3. last # now
    BY <2>1
  <2>4. Rate * (now - last) \in Nat
    BY <2>1
  <2>5. Least(Capacity, (Capacity - Cost) + Rate * (now - last)) = Capacity
    BY <2>1, <2>4 DEF Least
  <2> HIDE DEF last
  <2>6. now > last
    BY <2>1, <2>3
  <2> QED BY <2>1, <2>2, <2>5, <2>6 DEF Current, Refilled
<1> QED BY <1>1, <1>2

LEMMA PacedStep ==
  ASSUME TypeOK, [Next]_vars, NEW k \in Keys, PacedFull(k)
  PROVE  PacedFull(k)'
<1>1. CASE UNCHANGED <<open, buckets, paced>> /\ now' \in Nat /\ now <= now'
  <2>1. paced[k].last \in Nat /\ now \in Nat
    BY BucketAssumption DEF TypeOK
  <2> QED BY <1>1, <2>1 DEF PacedFull
<1>2. ASSUME NEW j \in Keys, Admit(j) \/ Deny(j) \/ Release(j), j # k
      PROVE  PacedFull(k)'
  <2>1. /\ buckets'[k] = buckets[k] /\ paced'[k] = paced[k]
        /\ now' = now /\ (k \in open' => k \in open)
    BY <1>2 DEF Admit, Deny, Release, TypeOK
  <2> QED BY <2>1 DEF PacedFull
<1>3. CASE Admit(k)
  <2> SUFFICES ASSUME StillPaced(k)
               PROVE  buckets'[k] = [tokens |-> Capacity - Cost, lastRefillMs |-> now]
    BY <1>3, BucketAssumption DEF PacedFull, Admit, TypeOK
  <2>1. Current(k) = [tokens |-> Capacity, lastRefillMs |-> now]
    BY <1>3, PacedCurrent DEF Admit
  <2> QED BY <1>3, <2>1 DEF Admit, TypeOK
<1>4. CASE Deny(k)
  <2>1. ~StillPaced(k)
    BY <1>4, PacedCurrent, BucketAssumption DEF Deny
  <2> QED BY <1>4, <2>1 DEF PacedFull, Deny, TypeOK
<1>5. CASE Release(k)
  BY <1>5 DEF PacedFull, Release
<1>6. CASE StepBack
  BY <1>6 DEF PacedFull, StepBack, TypeOK
<1>7. CASE Advance \/ (\E j \in Keys : StartWindow(j)) \/ UNCHANGED vars
  BY <1>1, <1>7, BucketAssumption DEF Advance, StartWindow, vars, TypeOK
<1> QED BY <1>2, <1>3, <1>4, <1>5, <1>6, <1>7 DEF Next

\* A connection whose events come at least one token's refill apart is never
\* throttled, for every capacity, refill rate and clock.
THEOREM PacedAdmitted == Spec => PacedNeverDenied
<1> DEFINE Full == \A k \in Keys : PacedFull(k)
<1>1. Init => Full
  BY DEF Init, PacedFull
<1>2. TypeOK /\ [Next]_vars /\ Full => Full'
  BY PacedStep
<1>3. TypeOK /\ Full => \A k \in Keys : Deny(k) => ~StillPaced(k)
  BY PacedCurrent, BucketAssumption DEF Deny
<1> HIDE DEF Full
<1> QED BY <1>1, <1>2, <1>3, TypeCorrect, PTL DEF Spec, PacedNeverDenied

-----------------------------------------------------------------------------
(* The gate: each of its steps is a step of the bucket or leaves it alone. *)

LEMMA GateUsesBucket == [GateNext]_allVars => [Next]_vars
<1> SUFFICES ASSUME [GateNext]_allVars PROVE [Next]_vars
  OBVIOUS
<1>1. ASSUME NEW k \in Keys, Follow(k) \/ Ignore(k) \/ EmergencyStop(k) PROVE UNCHANGED vars
  BY <1>1 DEF Follow, Ignore, EmergencyStop
<1>2. ASSUME NEW k \in Keys, Throttle(k) PROVE Next
  BY <1>2 DEF Throttle, Next
<1>3. ASSUME NEW k \in Keys, NEW w \in BOOLEAN, Command(k, w) PROVE Next
  BY <1>3 DEF Command, Next
<1>4. ASSUME NEW k \in Keys, Disconnect(k) PROVE Next
  BY <1>4 DEF Disconnect, Next
<1>5. CASE RobotComesOrGoes
  BY <1>5 DEF RobotComesOrGoes
<1>6. CASE Pass
  BY <1>6 DEF Pass, Next
<1>7. CASE UNCHANGED allVars
  BY <1>7 DEF allVars
<1> QED BY <1>1, <1>2, <1>3, <1>4, <1>5, <1>6, <1>7 DEF GateNext

GateInv == IInv /\ GateTypeOK /\ LogBound /\ LogSpacing

LEMMA GateInit0 == GateInit => GateInv
<1> SUFFICES ASSUME GateInit PROVE GateInv
  OBVIOUS
<1>1. IInv
  BY InitInv DEF GateInit
<1>2. GateTypeOK /\ LogBound /\ LogSpacing
  BY <1>1 DEF GateInit, IInv, GateTypeOK, Answers, LogBound, LogSpacing
<1> QED BY <1>1, <1>2 DEF GateInv

LEMMA GateTypeStep == IInv' /\ GateTypeOK /\ [GateNext]_allVars => GateTypeOK'
<1> SUFFICES ASSUME IInv', GateTypeOK, [GateNext]_allVars PROVE GateTypeOK'
  OBVIOUS
<1> USE DEF GateTypeOK, IInv, Answer, Answers
<1>1. ASSUME NEW k \in Keys, Follow(k) \/ Ignore(k) \/ EmergencyStop(k) PROVE GateTypeOK'
  BY <1>1 DEF Follow, Ignore, EmergencyStop, vars
<1>2. ASSUME NEW k \in Keys, Throttle(k) PROVE GateTypeOK'
  <2>1. now \in 0..Horizon
    BY DEF TypeOK
  <2>2. CASE LogDue(k)
    BY <1>2, <2>1, <2>2 DEF Throttle, Deny
  <2>3. CASE ~LogDue(k)
    BY <1>2, <2>3 DEF Throttle, Deny
  <2> QED BY <2>2, <2>3
<1>3. ASSUME NEW k \in Keys, NEW w \in BOOLEAN, Command(k, w) PROVE GateTypeOK'
  BY <1>3 DEF Command, Admit
<1>4. ASSUME NEW k \in Keys, Disconnect(k) PROVE GateTypeOK'
  BY <1>4 DEF Disconnect, Release
<1>5. CASE RobotComesOrGoes
  BY <1>5 DEF RobotComesOrGoes, vars
<1>6. CASE Pass
  BY <1>6 DEF Pass, Advance, StepBack, StartWindow
<1>7. CASE UNCHANGED allVars
  BY <1>7 DEF allVars, gateVars, vars
<1> QED BY <1>1, <1>2, <1>3, <1>4, <1>5, <1>6, <1>7 DEF GateNext

\* A window in which the lines of k are spaced stays within the bound.
LEMMA LogStep ==
  ASSUME GateInv, IInv', GateTypeOK', [GateNext]_allVars, NEW k \in Keys
  PROVE  /\ (logged[k] > 0 => (logged[k] - 1) * (LogGap + 1) <= now - window[k].start)'
         /\ (logged[k] > 0 /\ k \in open =>
               /\ lastLimitLogMs[k] \in window[k].start..now
               /\ (logged[k] - 1) * (LogGap + 1) <= lastLimitLogMs[k] - window[k].start)'
<1> DEFINE Bound == logged[k] > 0 => (logged[k] - 1) * (LogGap + 1) <= now - window[k].start
           Spaced == logged[k] > 0 /\ k \in open =>
               /\ lastLimitLogMs[k] \in window[k].start..now
               /\ (logged[k] - 1) * (LogGap + 1) <= lastLimitLogMs[k] - window[k].start
<1>1. Bound /\ Spaced
  BY DEF GateInv, LogBound, LogSpacing
<1>2. /\ now \in 0..Horizon /\ now' \in 0..Horizon /\ window[k].start \in 0..Horizon
      /\ window[k].start <= now /\ logged[k] \in Nat /\ LogGap \in Nat
      /\ lastLimitLogMs[k] \in 0..Horizon \cup {Never}
  BY GateAssumption DEF GateInv, GateTypeOK, IInv, TypeOK, WindowStarted
<1>3. ASSUME now' = now, window'[k] = window[k], logged'[k] = logged[k],
             lastLimitLogMs'[k] = lastLimitLogMs[k], k \in open' => k \in open
      PROVE  Bound' /\ Spaced'
  BY <1>1, <1>3
<1>4. ASSUME NEW j \in Keys, Follow(j) \/ Ignore(j) \/ EmergencyStop(j) PROVE Bound' /\ Spaced'
  BY <1>3, <1>4 DEF Follow, Ignore, EmergencyStop, vars
<1>5. ASSUME NEW j \in Keys, NEW w \in BOOLEAN, Command(j, w) PROVE Bound' /\ Spaced'
  <2>1. window'[k].start = window[k].start
    BY <1>5 DEF Command, Admit, GateInv, IInv, TypeOK
  <2> QED BY <1>1, <1>5, <2>1 DEF Command, Admit
<1>6. ASSUME NEW j \in Keys, Throttle(j) PROVE Bound' /\ Spaced'
  <2>1. now' = now /\ window' = window /\ open' = open
    BY <1>6 DEF Throttle, Deny
  <2>2. CASE j # k \/ ~LogDue(j)
    BY <1>3, <1>6, <2>1, <2>2 DEF Throttle, GateInv, GateTypeOK
  <2>3. CASE j = k /\ LogDue(j)
    <3>1. logged'[k] = logged[k] + 1 /\ lastLimitLogMs'[k] = now /\ k \in open
      BY <1>6, <2>3 DEF Throttle, Deny, GateInv, GateTypeOK
    <3>2. CASE logged[k] = 0
      BY <1>2, <2>1, <3>1, <3>2
    <3>3. CASE logged[k] > 0
      <4> DEFINE lines == logged[k]
                 last == lastLimitLogMs[k]
                 start == window[k].start
      <4>1. last \in start..now /\ (lines - 1) * (LogGap + 1) <= last - start
        BY <1>1, <3>1, <3>3
      <4>2. now - last > LogGap
        <5>1. last \in 0..Horizon
          <6>1. last \in start..now
            BY <4>1
          <6>2. start \in 0..Horizon /\ now \in 0..Horizon
            BY <1>2
          <6> HIDE DEF last, start
          <6> QED BY <6>1, <6>2, BucketAssumption
        <5>2. last # Never
          BY <5>1, GateAssumption
        <5>3. LogDue(k)
          BY <2>3
        <5> QED BY <5>2, <5>3 DEF LogDue
      <4>3. lines * (LogGap + 1) = (lines - 1) * (LogGap + 1) + (LogGap + 1)
        BY <1>2
      <4>4. (lines - 1) * (LogGap + 1) \in Int
        BY <1>2
      <4>5. lines * (LogGap + 1) <= now - start
        BY <1>2, <4>1, <4>2, <4>3, <4>4
      <4>6. logged'[k] - 1 = lines
        BY <1>2, <3>1
      <4> QED BY <1>2, <2>1, <3>1, <4>5, <4>6
    <3> QED BY <1>2, <3>2, <3>3
  <2> QED BY <2>2, <2>3
<1>7. ASSUME NEW j \in Keys, Disconnect(j) PROVE Bound' /\ Spaced'
  <2>1. now' = now /\ window' = window /\ logged' = logged /\ open' = open \ {j}
    BY <1>7 DEF Disconnect, Release
  <2>2. Bound'
    BY <1>1, <2>1
  <2>3. Spaced'
    BY <1>1, <1>7, <2>1 DEF Disconnect, GateInv, GateTypeOK
  <2> QED BY <2>2, <2>3
<1>8. CASE RobotComesOrGoes
  BY <1>3, <1>8 DEF RobotComesOrGoes, vars
<1>9. CASE Pass
  <2>1. open' = open /\ lastLimitLogMs' = lastLimitLogMs
    BY <1>9 DEF Pass, Advance, StepBack, StartWindow
  <2>2. CASE Advance /\ UNCHANGED logged
    <3>1. now' = now + 1 /\ window' = window
      BY <2>2 DEF Advance
    <3>2. (logged[k] - 1) * (LogGap + 1) \in Int
      BY <1>2
    <3> QED BY <1>1, <1>2, <2>1, <2>2, <3>1, <3>2
  <2>3. CASE logged'[k] = 0
    BY <2>3
  <2>4. ASSUME NEW j \in Keys, StartWindow(j), logged' = [logged EXCEPT ![j] = 0], j # k
        PROVE  Bound' /\ Spaced'
    BY <1>3, <2>1, <2>4 DEF StartWindow, GateInv, GateTypeOK, IInv, TypeOK
  <2> QED BY <1>9, <2>2, <2>3, <2>4 DEF Pass, GateInv, GateTypeOK
<1>10. CASE UNCHANGED allVars
  BY <1>3, <1>10 DEF allVars, gateVars, vars
<1> QED BY <1>4, <1>5, <1>6, <1>7, <1>8, <1>9, <1>10 DEF GateNext

THEOREM GateInvariance == GateSpec => []GateInv
<1>1. GateInv /\ [GateNext]_allVars => GateInv'
  <2> SUFFICES ASSUME GateInv, [GateNext]_allVars PROVE GateInv'
    OBVIOUS
  <2>1. IInv'
    BY GateUsesBucket, TypeStep, WindowStartedStep, PotentialStep DEF GateInv, IInv
  <2>2. GateTypeOK'
    BY <2>1, GateTypeStep DEF GateInv
  <2> QED BY <2>1, <2>2, LogStep DEF GateInv, LogBound, LogSpacing
<1> QED BY GateInit0, <1>1, PTL DEF GateSpec

\* The gate implements the bucket it is built on: no handler touches a bucket
\* but through tryAcquire and release.
THEOREM GateImplementsBucket == GateSpec => Spec
<1>1. GateInit => Init
  BY DEF GateInit
<1> QED BY <1>1, GateUsesBucket, PTL DEF GateSpec, Spec

\* Types of the gate and its buckets, for every clock.
THEOREM GateTypeCorrect == GateSpec => []GateTypeOK
<1>1. GateInv => GateTypeOK
  BY DEF GateInv
<1> QED BY GateInvariance, <1>1, PTL

\* The bound on admitted events of rate-limiter.ts lines 11 to 14, through the
\* gate, for every capacity, refill rate, number of connections and clock.
THEOREM GateRateBounded == GateSpec => []RateBound
BY GateImplementsBucket, RateBounded, PTL

\* The same through the gate.
THEOREM GatePacedAdmitted == GateSpec => PacedNeverDenied
BY GateImplementsBucket, PacedAdmitted, PTL

\* The bound on the gate's log lines, for every gap and however fast the
\* connections send.
THEOREM LogBounded == GateSpec => []LogBound
<1>1. GateInv => LogBound
  BY DEF GateInv
<1> QED BY GateInvariance, <1>1, PTL
=============================================================================
