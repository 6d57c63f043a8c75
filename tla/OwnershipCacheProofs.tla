------------------------ MODULE OwnershipCacheProofs ------------------------
(***************************************************************************)
(* Theorems of OwnershipCache: the bound of the map, the age of a stale    *)
(* answer and what an invalidation leaves behind.                          *)
(***************************************************************************)
EXTENDS OwnershipCache, FiniteSetTheorems, WellFoundedInduction, TLAPS

-----------------------------------------------------------------------------
(* What the removal of some entries of a map leaves.                        *)

LEMMA LeastNatural ==
  ASSUME NEW T, T \subseteq Nat, T # {}
  PROVE  \E n \in T : \A m \in T : n <= m
<1>1. PICK n \in T : \A m \in T : <<m, n>> \notin OpToRel(<, Nat)
  BY WFMin, NatLessThanWellFounded, Zenon
<1>2. ASSUME NEW m \in T PROVE n <= m
  <2>1. ~(m < n)
    <3> SUFFICES ASSUME m < n PROVE <<m, n>> \in OpToRel(<, Nat)
      BY <1>1, Zenon
    <3>1. <<m, n>> \in Nat \X Nat /\ <<m, n>>[1] = m /\ <<m, n>>[2] = n
      OBVIOUS
    <3> QED BY <3>1, Zenon DEF OpToRel
  <2> QED BY <2>1
<1> QED BY <1>2

LEMMA IntervalFacts ==
  ASSUME NEW n \in Nat
  PROVE  IsFiniteSet(1..n) /\ Cardinality(1..n) = n
<1>1. 1 \in Int /\ n \in Int
  OBVIOUS
<1>2. IsFiniteSet(1..n) /\ Cardinality(1..n) = IF 1 > n THEN 0 ELSE n - 1 + 1
  BY <1>1, FS_Interval
<1> QED BY <1>2

Increasing(f, n) == \A i, j \in 1..n : i < j => f[i] < f[j]
Enumerable(places) ==
  \E f \in [1..Cardinality(places) -> places] : Increasing(f, Cardinality(places))

\* Any set of places can be listed in order.  By induction on the last one:
\* the least n for which it fails would have n - 1 fail too.
LEMMA PlacesEnumerable ==
  ASSUME NEW n \in Nat, NEW places \in SUBSET (1..n)
  PROVE  Enumerable(places)
<1> DEFINE Bad == {m \in Nat : \E set \in SUBSET (1..m) : ~Enumerable(set)}
<1> SUFFICES ASSUME Bad # {} PROVE FALSE
  OBVIOUS
<1>1. PICK m \in Bad : \A k \in Bad : m <= k
  <2> HIDE DEF Bad
  <2>1. Bad \subseteq Nat
    BY DEF Bad
  <2> QED BY <2>1, LeastNatural
<1>2. m \in Nat
  OBVIOUS
<1>3. PICK set \in SUBSET (1..m) : ~Enumerable(set)
  OBVIOUS
<1>4. ASSUME m # 0, NEW rest \in SUBSET (1..(m - 1))
      PROVE  Enumerable(rest)
  <2>1. m - 1 \in Nat /\ m - 1 \notin Bad
    BY <1>1, <1>2, <1>4
  <2> QED BY <2>1
<1> HIDE DEF Bad
<1>5. CASE m = 0
  <2>1. set = {} /\ Cardinality(set) = 0
    <3>1. set = {}
      BY <1>5
    <3> QED BY <3>1, FS_EmptySet
  <2>2. [i \in 1..0 |-> 0] \in [1..Cardinality(set) -> set]
    BY <2>1
  <2>3. Increasing([i \in 1..0 |-> 0], Cardinality(set))
    BY <2>1 DEF Increasing
  <2> QED BY <1>3, <2>2, <2>3 DEF Enumerable
<1>6. CASE m # 0 /\ m \notin set
  <2>1. set \in SUBSET (1..(m - 1))
    BY <1>2, <1>6
  <2> QED BY <1>3, <1>4, <1>6, <2>1
<1>7. CASE m # 0 /\ m \in set
  <2> DEFINE rest == set \ {m}
             c == Cardinality(rest)
  <2>1. rest \in SUBSET (1..(m - 1))
    BY <1>2
  <2>2. IsFiniteSet(set) /\ c \in Nat /\ Cardinality(set) = c + 1
    <3>1. IsFiniteSet(set)
      BY <1>2, IntervalFacts, FS_Subset
    <3>2. Cardinality(rest) = Cardinality(set) - 1 /\ IsFiniteSet(rest)
      BY <1>7, <3>1, FS_RemoveElement
    <3> QED BY <3>1, <3>2, FS_CardinalityType
  <2>3. PICK f \in [1..c -> rest] : Increasing(f, c)
    BY <1>4, <1>7, <2>1 DEF Enumerable
  <2> HIDE DEF c
  <2> DEFINE g == [i \in 1..(c + 1) |-> IF i = c + 1 THEN m ELSE f[i]]
  <2>4. g \in [1..(c + 1) -> set]
    BY <1>7, <2>2
  <2>5. Increasing(g, c + 1)
    <3> SUFFICES ASSUME NEW i \in 1..(c + 1), NEW j \in 1..(c + 1), i < j
                 PROVE  g[i] < g[j]
      BY DEF Increasing
    <3>1. i \in 1..c /\ g[i] = f[i] /\ f[i] \in 1..(m - 1)
      BY <2>1, <2>2
    <3>2. CASE j = c + 1
      BY <1>2, <3>1, <3>2
    <3>3. CASE j # c + 1
      BY <2>2, <2>3, <3>1, <3>3 DEF Increasing
    <3> QED BY <3>2, <3>3
  <2> QED BY <1>3, <2>2, <2>4, <2>5 DEF Enumerable
<1> QED BY <1>5, <1>6, <1>7

\* Left keeps the entries at the given places, each once.
LEMMA LeftFacts ==
  ASSUME NEW S, NEW entries \in Seq(S), NEW places \in SUBSET DOMAIN entries
  PROVE  /\ Left(entries, places) \in Seq(S)
         /\ Len(Left(entries, places)) <= Len(entries)
         /\ \E f \in [DOMAIN Left(entries, places) -> places] :
              /\ \A i, j \in DOMAIN Left(entries, places) : f[i] = f[j] => i = j
              /\ \A i \in DOMAIN Left(entries, places) :
                   Left(entries, places)[i] = entries[f[i]]
<1> DEFINE n == Cardinality(places)
           f == CHOOSE p \in [1..n -> places] : \A i, j \in 1..n : i < j => p[i] < p[j]
<1>1. Len(entries) \in Nat /\ DOMAIN entries = 1..Len(entries)
  OBVIOUS
<1>2. f \in [1..n -> places] /\ Increasing(f, n)
  BY <1>1, PlacesEnumerable DEF Enumerable, Increasing
<1>3. n \in Nat /\ n <= Len(entries)
  <2> QED BY <1>1, IntervalFacts, FS_Subset, FS_CardinalityType
<1>4. Left(entries, places) = [i \in 1..n |-> entries[f[i]]]
  BY DEF Left
<1> HIDE DEF n, f
<1>5. \A i \in 1..n : f[i] \in DOMAIN entries /\ entries[f[i]] \in S
  BY <1>1, <1>2
<1>6. Left(entries, places) \in Seq(S) /\ Len(Left(entries, places)) = n
  BY <1>3, <1>4, <1>5
<1>7. \A i, j \in 1..n : f[i] = f[j] => i = j
  <2> SUFFICES ASSUME NEW i \in 1..n, NEW j \in 1..n, i # j
               PROVE  f[i] # f[j]
    OBVIOUS
  <2>1. f[i] \in Nat /\ f[j] \in Nat /\ (i < j \/ j < i)
    BY <1>1, <1>3, <1>5
  <2> QED BY <1>2, <2>1 DEF Increasing
<1> QED BY <1>2, <1>3, <1>4, <1>6, <1>7

-----------------------------------------------------------------------------
(* Types *)

\* What a pending call holds, by the statement it executes next.
LEMMA CallType ==
  ASSUME TypeOK, NEW c \in Calls
  PROVE  /\ calls[c].at = "lookup" =>
              calls[c].user \in Users /\ calls[c].robot \in Robots /\ calls[c].age \in Ages
         /\ calls[c].at = "store" => calls[c].answer \in Answers
         /\ calls[c].at \in {"owned", "write"} =>
              calls[c].robot \in Robots /\ calls[c].serial \in Serials \cup {Gone}
BY DEF TypeOK, CallStates, Idle

LEMMA AgesType == 0 \in Ages /\ Ages \subseteq Nat /\ \A a \in Ages : Older(a) \in Ages
BY BoundsAssumption DEF Ages, Older

LEMMA AgedType ==
  ASSUME NEW answer \in Answers
  PROVE  /\ Aged(answer) \in Answers
         /\ Aged(answer).user = answer.user /\ Aged(answer).robot = answer.robot
         /\ Aged(answer).serial = answer.serial /\ Aged(answer).crossed = answer.crossed
         /\ Aged(answer).age = Older(answer.age)
         /\ Aged(answer).untrue \in {0, Older(answer.untrue)}
BY AgesType DEF Answers, Aged

\* The oldest entry makes room.
LEMMA EvictedFacts ==
  ASSUME TypeOK
  PROVE  /\ Evicted \in Seq(Answers)
         /\ BoundedMap => Len(Evicted) < MaxEntries
         /\ Evicted = cache \/ (/\ Len(cache) = Len(Evicted) + 1
                                /\ \A i \in DOMAIN Evicted :
                                     i + 1 \in DOMAIN cache /\ Evicted[i] = cache[i + 1])
<1>1. cache \in Seq(Answers) /\ Len(cache) \in Nat /\ MaxEntries \in Nat \ {0}
  BY BoundsAssumption DEF TypeOK
<1>2. CASE Len(cache) >= MaxEntries
  <2>1. cache # <<>> /\ Evicted = Tail(cache)
    BY <1>1, <1>2 DEF Evicted
  <2> QED BY <1>1, <1>2, <2>1 DEF BoundedMap
<1>3. CASE ~(Len(cache) >= MaxEntries)
  BY <1>1, <1>3 DEF Evicted
<1> QED BY <1>2, <1>3

SameKey(a, b) == a.user = b.user /\ a.robot = b.robot
OneEntryPerKey(entries) == \A i, j \in DOMAIN entries : SameKey(entries[i], entries[j]) => i = j

\* Map.set adds at most one entry, and what it holds after is the new entry
\* and what it held before.
LEMMA SetFacts ==
  ASSUME NEW entries \in Seq(Answers), NEW entry \in Answers
  PROVE  /\ Set(entries, entry) \in Seq(Answers)
         /\ Len(Set(entries, entry)) <= Len(entries) + 1
         /\ OneEntryPerKey(entries) => OneEntryPerKey(Set(entries, entry))
         /\ \A i \in DOMAIN Set(entries, entry) :
              \/ Set(entries, entry)[i] = entry
              \/ i \in DOMAIN entries /\ Set(entries, entry)[i] = entries[i]
<1>1. Len(entries) \in Nat /\ DOMAIN entries = 1..Len(entries)
  OBVIOUS
<1>2. CASE \E i \in DOMAIN entries : SameKey(entries[i], entry)
  <2> DEFINE new == [i \in 1..Len(entries) |->
                       IF SameKey(entries[i], entry) THEN entry ELSE entries[i]]
  <2>1. Set(entries, entry) = new
    BY <1>1, <1>2 DEF Set, SameKey
  <2>2. new \in Seq(Answers) /\ Len(new) = Len(entries) /\ DOMAIN new = 1..Len(entries)
    BY <1>1
  <2>3. \A i \in 1..Len(entries) : SameKey(new[i], entries[i])
    BY <1>1 DEF SameKey
  <2>4. \A i \in 1..Len(entries) : new[i] = entry \/ new[i] = entries[i]
    OBVIOUS
  <2> HIDE DEF new
  <2>5. OneEntryPerKey(entries) => OneEntryPerKey(new)
    BY <1>1, <2>2, <2>3 DEF OneEntryPerKey, SameKey
  <2> QED BY <1>1, <2>1, <2>2, <2>4, <2>5
<1>3. CASE ~\E i \in DOMAIN entries : SameKey(entries[i], entry)
  <2>1. Set(entries, entry) = Append(entries, entry)
    BY <1>3 DEF Set, SameKey
  <2>2. /\ Append(entries, entry) \in Seq(Answers)
        /\ Len(Append(entries, entry)) = Len(entries) + 1
        /\ DOMAIN Append(entries, entry) = 1..(Len(entries) + 1)
        /\ Append(entries, entry)[Len(entries) + 1] = entry
        /\ \A i \in 1..Len(entries) : Append(entries, entry)[i] = entries[i]
    BY <1>1
  <2> DEFINE new == Append(entries, entry)
  <2> HIDE DEF new
  <2>3. OneEntryPerKey(entries) => OneEntryPerKey(new)
    <3> SUFFICES ASSUME OneEntryPerKey(entries),
                        NEW i \in 1..(Len(entries) + 1), NEW j \in 1..(Len(entries) + 1),
                        SameKey(new[i], new[j])
                 PROVE  i = j
      BY <2>2 DEF OneEntryPerKey, new
    <3>1. CASE i \in 1..Len(entries) /\ j \in 1..Len(entries)
      BY <1>1, <2>2, <3>1 DEF OneEntryPerKey, new
    <3>2. CASE i \in 1..Len(entries) /\ j = Len(entries) + 1
      BY <1>1, <1>3, <2>2, <3>2 DEF SameKey, new
    <3>3. CASE i = Len(entries) + 1 /\ j \in 1..Len(entries)
      BY <1>1, <1>3, <2>2, <3>3 DEF SameKey, new
    <3> QED BY <1>1, <3>1, <3>2, <3>3
  <2>4. \A i \in 1..(Len(entries) + 1) : new[i] = entry \/ (i \in DOMAIN entries /\ new[i] = entries[i])
    BY <1>1, <2>2 DEF new
  <2> QED BY <1>1, <2>1, <2>2, <2>3, <2>4 DEF new
<1> QED BY <1>2, <1>3

LEMMA GotoType ==
  ASSUME TypeOK, NEW c \in Calls, NEW call \in CallStates, Goto(c, call)
  PROVE  calls' \in [Calls -> CallStates]
BY DEF TypeOK, Goto

LEMMA IdleType == Idle \in CallStates
BY DEF CallStates

\* What is left after an invalidation are entries of other robots.
Others(robot) == {i \in DOMAIN cache : cache[i].robot # robot}

LEMMA InvalidatedFacts ==
  ASSUME TypeOK, NEW robot \in Robots
  PROVE  /\ Invalidated(robot) \in Seq(Answers) /\ Len(Invalidated(robot)) <= Len(cache)
         /\ \E f \in [DOMAIN Invalidated(robot) -> Others(robot)] :
              /\ \A i, j \in DOMAIN Invalidated(robot) : f[i] = f[j] => i = j
              /\ \A i \in DOMAIN Invalidated(robot) : Invalidated(robot)[i] = cache[f[i]]
<1>1. cache \in Seq(Answers) /\ Others(robot) \in SUBSET DOMAIN cache
  BY DEF TypeOK, Others
<1>2. Invalidated(robot) = Left(cache, Others(robot))
  BY DEF Invalidated, Others
<1> QED BY <1>1, <1>2, LeftFacts

LEMMA TypeStep == TypeOK /\ [Next]_vars => TypeOK'
<1> SUFFICES ASSUME TypeOK, [Next]_vars PROVE TypeOK'
  OBVIOUS
<1>1. /\ owner \in [Robots -> Users] /\ serial \in [Robots -> Serials \cup {Gone}]
      /\ cache \in Seq(Answers) /\ calls \in [Calls -> CallStates]
  BY DEF TypeOK
<1>2. ASSUME NEW c \in Calls, NEW user \in Users, NEW robot \in Robots, Lookup(c, user, robot)
      PROVE  TypeOK'
  <2>1. [at |-> "lookup", user |-> user, robot |-> robot, age |-> 0] \in CallStates
    BY AgesType DEF CallStates
  <2> QED BY <1>1, <1>2, <2>1, GotoType DEF Lookup, TypeOK
<1>3. ASSUME NEW c \in Calls, Read(c) PROVE TypeOK'
  <2>1. CASE serial[calls[c].robot] # Gone
    <3>1. Answer(calls[c]) \in Answers
      BY <1>1, <1>3, <2>1, CallType, AgesType DEF Read, Answer, Answers, UpdatePending
    <3>2. [at |-> "store", answer |-> Answer(calls[c])] \in CallStates
      BY <3>1 DEF CallStates
    <3> QED BY <1>1, <1>3, <3>2, GotoType, IdleType DEF Read, TypeOK
  <2>2. CASE serial[calls[c].robot] = Gone
    BY <1>1, <1>3, <2>2, GotoType, IdleType DEF Read, TypeOK
  <2> QED BY <2>1, <2>2
<1>4. ASSUME NEW c \in Calls, Store(c) PROVE TypeOK'
  <2>1. cache' \in Seq(Answers)
    BY <1>4, CallType, EvictedFacts, SetFacts DEF Store, Stored
  <2> QED BY <1>1, <1>4, <2>1, GotoType, IdleType DEF Store, TypeOK
<1>5. ASSUME NEW c \in Calls, NEW user \in Users, NEW robot \in Robots,
             NEW value \in Serials \cup {Gone}, FindOwned(c, user, robot, value)
      PROVE  TypeOK'
  <2>1. [at |-> "owned", robot |-> robot, serial |-> value] \in CallStates
    BY DEF CallStates
  <2> QED BY <1>1, <1>5, <2>1, GotoType DEF FindOwned, TypeOK
<1>6. ASSUME NEW c \in Calls, Invalidate(c) PROVE TypeOK'
  <2>1. cache' \in Seq(Answers)
    BY <1>6, CallType, InvalidatedFacts DEF Invalidate
  <2>2. ASSUME NEW d \in Calls PROVE calls'[d] \in CallStates
    <3>1. CASE d = c
      <4>1. calls[c] \in [at : {"owned", "write"}, robot : Robots, serial : Serials \cup {Gone}]
        BY <1>1, <1>6 DEF Invalidate, CallStates, Idle
      <4>2. calls'[d] = [calls[c] EXCEPT !.at = "write"]
        BY <1>6, <3>1 DEF Invalidate
      <4> QED BY <4>1, <4>2 DEF CallStates
    <3>2. CASE d # c /\ calls[d].at = "store" /\ calls[d].answer.robot = calls[c].robot
      <4>1. calls'[d] = [calls[d] EXCEPT !.answer.crossed = TRUE]
        BY <1>6, <3>2 DEF Invalidate
      <4>2. calls[d] \in [at : {"store"}, answer : Answers]
        BY <1>1, <3>2 DEF CallStates, Idle
      <4>3. [calls[d].answer EXCEPT !.crossed = TRUE] \in Answers
        BY <4>2 DEF Answers
      <4>4. calls'[d] \in [at : {"store"}, answer : Answers]
        BY <4>1, <4>2, <4>3
      <4> QED BY <4>4 DEF CallStates
    <3>3. CASE d # c /\ ~(calls[d].at = "store" /\ calls[d].answer.robot = calls[c].robot)
      BY <1>1, <1>6, <3>3 DEF Invalidate
    <3> QED BY <3>1, <3>2, <3>3
  <2>3. calls' \in [Calls -> CallStates]
    BY <1>6, <2>2 DEF Invalidate
  <2> QED BY <1>1, <1>6, <2>1, <2>3 DEF Invalidate, TypeOK
<1>7. ASSUME NEW c \in Calls, Write(c) PROVE TypeOK'
  BY <1>1, <1>7, CallType, GotoType, IdleType DEF Write, TypeOK
<1>8. ASSUME NEW c \in Calls, Fail(c) PROVE TypeOK'
  BY <1>1, <1>8, GotoType, IdleType DEF Fail, TypeOK
<1>9. ASSUME NEW robot \in Robots, NEW user \in Users, Transfer(robot, user) PROVE TypeOK'
  BY <1>1, <1>9 DEF Transfer, TypeOK
<1>10. CASE Tick
  <2>1. cache' \in Seq(Answers)
    BY <1>1, <1>10, AgedType DEF Tick
  <2>2. ASSUME NEW c \in Calls PROVE calls'[c] \in CallStates
    <3>1. CASE calls[c].at = "lookup"
      <4>1. calls[c] \in [at : {"lookup"}, user : Users, robot : Robots, age : Ages]
        BY <1>1, <3>1 DEF CallStates, Idle
      <4> QED BY <1>10, <3>1, <4>1, AgesType DEF Tick, CallStates
    <3>2. CASE calls[c].at = "store"
      <4>1. calls[c] \in [at : {"store"}, answer : Answers]
        BY <1>1, <3>2 DEF CallStates, Idle
      <4> QED BY <1>10, <3>2, <4>1, AgedType DEF Tick, CallStates
    <3>3. CASE calls[c].at # "lookup" /\ calls[c].at # "store"
      BY <1>1, <1>10, <3>3 DEF Tick
    <3> QED BY <3>1, <3>2, <3>3
  <2> QED BY <1>1, <1>10, <2>1, <2>2 DEF Tick, TypeOK
<1>11. CASE Restart
  BY <1>1, <1>11, IdleType DEF Restart, TypeOK
<1>12. CASE UNCHANGED vars
  BY <1>1, <1>12 DEF vars, TypeOK
<1> QED BY <1>2, <1>3, <1>4, <1>5, <1>6, <1>7, <1>8, <1>9, <1>10, <1>11, <1>12 DEF Next

-----------------------------------------------------------------------------
(* The inductive invariant: an answer is younger than it is untrue, and,   *)
(* unless its lookup crossed an update, it is the row's and no update is   *)
(* about to change that; in the map as in a lookup yet to store.           *)

Aging(answer) == answer.untrue <= answer.age
Updating == {calls[c].robot : c \in {d \in Calls : calls[d].at = "write"}}
Sound(answer, serials, updating) ==
  answer.crossed \/ (answer.serial = serials[answer.robot] /\ answer.robot \notin updating)

EntriesSound == \A i \in DOMAIN cache : Aging(cache[i]) /\ Sound(cache[i], serial, Updating)
AnswersSound ==
  \A c \in Calls : calls[c].at = "store" =>
    Aging(calls[c].answer) /\ Sound(calls[c].answer, serial, Updating)

CacheInv == TypeOK /\ BoundedMap /\ EntriesSound /\ AnswersSound

LEMMA UpdatingFacts == \A robot : UpdatePending(robot) <=> robot \in Updating
BY DEF UpdatePending, Updating

\* A call that does not reach its write leaves fewer writes pending.
LEMMA GotoUpdating ==
  ASSUME TypeOK, NEW c \in Calls, NEW call, Goto(c, call), call.at # "write"
  PROVE  /\ Updating' \subseteq Updating
         /\ calls'[c] = call /\ \A d \in Calls \ {c} : calls'[d] = calls[d]
BY DEF TypeOK, Goto, Updating

\* Steps that change no serial number and begin no write keep answers sound.
LEMMA SoundKept ==
  ASSUME NEW answer, NEW serials, NEW before, NEW after,
         Sound(answer, serials, before), after \subseteq before
  PROVE  Sound(answer, serials, after)
BY DEF Sound

\* The steps that change neither the map nor a serial number.
LEMMA GotoSound ==
  ASSUME CacheInv, TypeOK', NEW c \in Calls, NEW call, Goto(c, call), call.at # "write",
         UNCHANGED <<serial, cache>>,
         call.at = "store" => Aging(call.answer) /\ Sound(call.answer, serial, Updating)
  PROVE  CacheInv'
<1>1. /\ Updating' \subseteq Updating
      /\ calls'[c] = call /\ \A d \in Calls \ {c} : calls'[d] = calls[d]
  BY GotoUpdating DEF CacheInv
<1>2. EntriesSound'
  BY <1>1, SoundKept DEF CacheInv, EntriesSound
<1>3. AnswersSound'
  BY <1>1, SoundKept DEF CacheInv, AnswersSound
<1> QED BY <1>2, <1>3 DEF CacheInv, BoundedMap

LEMMA StoreSound == ASSUME CacheInv, TypeOK', NEW c \in Calls, Store(c) PROVE CacheInv'
<1> DEFINE answer == calls[c].answer
<1>1. /\ calls[c].at = "store" /\ answer \in Answers /\ Aging(answer) /\ Sound(answer, serial, Updating)
      /\ cache' = Set(Evicted, answer) /\ Goto(c, Idle) /\ UNCHANGED serial
  BY CallType DEF Store, Stored, CacheInv, AnswersSound
<1>2. /\ Updating' \subseteq Updating
      /\ calls'[c] = Idle /\ \A d \in Calls \ {c} : calls'[d] = calls[d]
  BY <1>1, GotoUpdating DEF CacheInv, Idle
<1>3. Evicted \in Seq(Answers) /\ Len(Evicted) < MaxEntries
  BY EvictedFacts DEF CacheInv
<1>4. \A i \in DOMAIN Evicted : \E j \in DOMAIN cache : Evicted[i] = cache[j]
  BY EvictedFacts DEF CacheInv
<1>5. OneEntryPerKey(Evicted)
  <2>1. CASE Evicted = cache
    BY <2>1 DEF CacheInv, BoundedMap, OneEntryPerKey, SameKey
  <2>2. CASE \A i \in DOMAIN Evicted : i + 1 \in DOMAIN cache /\ Evicted[i] = cache[i + 1]
    <3> SUFFICES ASSUME NEW i \in DOMAIN Evicted, NEW j \in DOMAIN Evicted,
                        SameKey(Evicted[i], Evicted[j])
                 PROVE  i = j
      BY DEF OneEntryPerKey
    <3>1. i \in Nat /\ j \in Nat
      BY <1>3
    <3>2. i + 1 = j + 1
      BY <2>2 DEF CacheInv, BoundedMap, SameKey
    <3> QED BY <3>1, <3>2
  <2> QED BY <2>1, <2>2, EvictedFacts DEF CacheInv
<1>6. BoundedMap'
  <2>1. Len(cache') <= Len(Evicted) + 1 /\ OneEntryPerKey(cache') /\ cache' \in Seq(Answers)
    BY <1>1, <1>3, <1>5, SetFacts
  <2>2. Len(cache') \in Nat /\ Len(Evicted) \in Nat /\ MaxEntries \in Nat
    BY <1>3, <2>1, BoundsAssumption
  <2>3. Len(cache') <= MaxEntries
    BY <1>3, <2>1, <2>2
  <2> QED BY <2>1, <2>3 DEF BoundedMap, OneEntryPerKey, SameKey
<1>7. EntriesSound'
  <2> SUFFICES ASSUME NEW i \in DOMAIN cache'
               PROVE  Aging(cache'[i]) /\ Sound(cache'[i], serial', Updating')
    BY DEF EntriesSound
  <2>1. CASE cache'[i] = answer
    BY <1>1, <1>2, <2>1, SoundKept
  <2>2. CASE i \in DOMAIN Evicted /\ cache'[i] = Evicted[i]
    <3>1. PICK j \in DOMAIN cache : cache'[i] = cache[j]
      BY <1>4, <2>2
    <3>2. Aging(cache[j]) /\ Sound(cache[j], serial, Updating)
      BY DEF CacheInv, EntriesSound
    <3> QED BY <1>1, <1>2, <3>1, <3>2, SoundKept
  <2> QED BY <1>1, <1>3, <2>1, <2>2, SetFacts
<1>8. AnswersSound'
  BY <1>1, <1>2, SoundKept DEF CacheInv, AnswersSound, Idle
<1> QED BY <1>6, <1>7, <1>8 DEF CacheInv

LEMMA InvalidateSound == ASSUME CacheInv, TypeOK', NEW c \in Calls, Invalidate(c) PROVE CacheInv'
<1> DEFINE robot == calls[c].robot
<1>1. /\ calls[c].at = "owned" /\ robot \in Robots
      /\ cache' = Invalidated(robot) /\ UNCHANGED serial
  BY CallType DEF Invalidate, CacheInv
<1>2. PICK f \in [DOMAIN cache' -> Others(robot)] :
        /\ \A i, j \in DOMAIN cache' : f[i] = f[j] => i = j
        /\ \A i \in DOMAIN cache' : cache'[i] = cache[f[i]]
  BY <1>1, InvalidatedFacts DEF CacheInv
<1>3. ASSUME NEW d \in Calls
      PROVE  /\ d = c => calls'[d].at = "write" /\ calls'[d].robot = robot
             /\ d # c => /\ calls'[d].at = calls[d].at
                         /\ calls[d].at # "store" => calls'[d] = calls[d]
                         /\ calls[d].at = "store" =>
                              /\ calls'[d].answer.robot = calls[d].answer.robot
                              /\ calls'[d].answer.serial = calls[d].answer.serial
                              /\ calls'[d].answer.age = calls[d].answer.age
                              /\ calls'[d].answer.untrue = calls[d].answer.untrue
                              /\ calls'[d].answer.crossed =
                                   (calls[d].answer.robot = robot \/ calls[d].answer.crossed)
  <2>1. CASE d = c
    <3>1. calls[c] \in [at : {"owned", "write"}, robot : Robots, serial : Serials \cup {Gone}]
      BY <1>1 DEF CacheInv, TypeOK, CallStates, Idle
    <3>2. calls'[d] = [calls[c] EXCEPT !.at = "write"]
      BY <2>1 DEF Invalidate
    <3> QED BY <2>1, <3>1, <3>2
  <2>2. CASE d # c /\ calls[d].at = "store" /\ calls[d].answer.robot = robot
    <3>1. calls'[d] = [calls[d] EXCEPT !.answer.crossed = TRUE]
      BY <2>2 DEF Invalidate
    <3>2. calls[d] \in [at : {"store"}, answer : Answers]
      BY <2>2 DEF CacheInv, TypeOK, CallStates, Idle
    <3>3. /\ [calls[d].answer EXCEPT !.crossed = TRUE].crossed = TRUE
          /\ \A field \in {"robot", "serial", "age", "untrue"} :
               [calls[d].answer EXCEPT !.crossed = TRUE][field] = calls[d].answer[field]
      BY <3>2 DEF Answers
    <3> QED BY <2>2, <3>1, <3>2, <3>3
  <2>3. CASE d # c /\ ~(calls[d].at = "store" /\ calls[d].answer.robot = robot)
    <3>1. calls'[d] = calls[d]
      BY <2>3 DEF Invalidate
    <3>2. calls[d].at = "store" => calls[d].answer.crossed \in BOOLEAN
      BY CallType DEF CacheInv, Answers
    <3> QED BY <2>3, <3>1, <3>2
  <2> QED BY <2>1, <2>2, <2>3
<1>4. Updating' \subseteq Updating \cup {robot}
  BY <1>3 DEF Updating
<1>5. \A i \in DOMAIN cache' : f[i] \in DOMAIN cache /\ cache[f[i]].robot # robot
  BY <1>2 DEF Others
<1>6. BoundedMap'
  <2>1. Len(cache') <= Len(cache) /\ Len(cache) <= MaxEntries
    BY <1>1, InvalidatedFacts DEF CacheInv, BoundedMap
  <2>2. Len(cache') \in Nat /\ Len(cache) \in Nat /\ MaxEntries \in Nat
    BY BoundsAssumption DEF CacheInv, TypeOK
  <2> QED BY <1>2, <1>5, <2>1, <2>2 DEF CacheInv, BoundedMap
<1>7. EntriesSound'
  BY <1>1, <1>2, <1>4, <1>5 DEF CacheInv, EntriesSound, Aging, Sound
<1>8. AnswersSound'
  BY <1>1, <1>3, <1>4 DEF CacheInv, AnswersSound, Aging, Sound
<1> QED BY <1>6, <1>7, <1>8 DEF CacheInv

\* A write changes the serial number of a robot whose answers are all crossed.
LEMMA WriteSound == ASSUME CacheInv, TypeOK', NEW c \in Calls, Write(c) PROVE CacheInv'
<1> DEFINE robot == calls[c].robot
<1>1. /\ Goto(c, Idle) /\ UNCHANGED cache /\ robot \in Updating
      /\ \A other \in Robots \ {robot} : serial'[other] = serial[other]
  BY DEF Write, Updating, CacheInv, TypeOK
<1>2. /\ Updating' \subseteq Updating
      /\ calls'[c] = Idle /\ \A d \in Calls \ {c} : calls'[d] = calls[d]
  BY <1>1, GotoUpdating DEF CacheInv, Idle
<1>3. ASSUME NEW answer \in Answers, Sound(answer, serial, Updating)
      PROVE  Sound(answer, serial', Updating')
  BY <1>1, <1>2, <1>3 DEF Sound, Answers
<1>4. EntriesSound'
  <2>1. \A i \in DOMAIN cache : cache[i] \in Answers
    BY DEF CacheInv, TypeOK
  <2> QED BY <1>1, <1>3, <2>1 DEF CacheInv, EntriesSound
<1>5. AnswersSound'
  BY <1>2, <1>3, CallType DEF CacheInv, AnswersSound, Idle
<1> QED BY <1>1, <1>4, <1>5 DEF CacheInv, BoundedMap

LEMMA TickSound == ASSUME CacheInv, TypeOK', Tick PROVE CacheInv'
<1>1. /\ cache \in Seq(Answers) /\ DOMAIN cache' = DOMAIN cache /\ Len(cache') = Len(cache)
      /\ \A i \in DOMAIN cache : cache[i] \in Answers /\ cache'[i] = Aged(cache[i])
      /\ UNCHANGED serial
  BY DEF Tick, CacheInv, TypeOK
<1>2. ASSUME NEW c \in Calls
      PROVE  /\ calls'[c].at = calls[c].at
             /\ calls[c].at = "write" => calls'[c].robot = calls[c].robot
             /\ calls[c].at = "store" =>
                  calls[c].answer \in Answers /\ calls'[c].answer = Aged(calls[c].answer)
  <2>1. CASE calls[c].at = "lookup"
    <3>1. calls[c] \in [at : {"lookup"}, user : Users, robot : Robots, age : Ages]
      BY <2>1 DEF CacheInv, TypeOK, CallStates, Idle
    <3> QED BY <2>1, <3>1 DEF Tick
  <2>2. CASE calls[c].at = "store"
    <3>1. calls[c] \in [at : {"store"}, answer : Answers]
      BY <2>2 DEF CacheInv, TypeOK, CallStates, Idle
    <3> QED BY <2>2, <3>1 DEF Tick
  <2>3. CASE calls[c].at # "lookup" /\ calls[c].at # "store"
    BY <2>3 DEF Tick
  <2> QED BY <2>1, <2>2, <2>3
<1>3. Updating' = Updating
  BY <1>2 DEF Updating
<1>4. ASSUME NEW answer \in Answers, Aging(answer), Sound(answer, serial, Updating)
      PROVE  Aging(Aged(answer)) /\ Sound(Aged(answer), serial', Updating')
  <2>1. Sound(Aged(answer), serial', Updating')
    BY <1>1, <1>3, <1>4, AgedType DEF Sound
  <2>2. 0 <= Older(answer.age) /\ Older(answer.untrue) <= Older(answer.age)
    BY <1>4, BoundsAssumption DEF Answers, Ages, Aging, Older
  <2> QED BY <2>1, <2>2, AgedType DEF Aging
<1>5. BoundedMap'
  BY <1>1, AgedType DEF CacheInv, BoundedMap
<1>6. EntriesSound'
  BY <1>1, <1>4 DEF CacheInv, EntriesSound
<1>7. AnswersSound'
  BY <1>2, <1>4 DEF CacheInv, AnswersSound
<1> QED BY <1>5, <1>6, <1>7 DEF CacheInv

LEMMA CacheStep == CacheInv /\ [Next]_vars => CacheInv'
<1> SUFFICES ASSUME CacheInv, [Next]_vars, TypeOK' PROVE CacheInv'
  BY TypeStep DEF CacheInv
<1>1. ASSUME NEW c \in Calls, NEW user \in Users, NEW robot \in Robots, Lookup(c, user, robot)
      PROVE  CacheInv'
  <2>1. PICK call : /\ call = [at |-> "lookup", user |-> user, robot |-> robot, age |-> 0]
                    /\ Goto(c, call)
    BY <1>1 DEF Lookup
  <2> QED BY <1>1, <2>1, GotoSound DEF Lookup
<1>2. ASSUME NEW c \in Calls, Read(c) PROVE CacheInv'
  <2>1. PICK call : /\ Goto(c, call)
                    /\ call = Idle \/ call = [at |-> "store", answer |-> Answer(calls[c])]
    BY <1>2 DEF Read
  <2>2. call.at = "store" => Aging(call.answer) /\ Sound(call.answer, serial, Updating)
    <3> SUFFICES ASSUME call.answer = Answer(calls[c])
                 PROVE  Aging(call.answer) /\ Sound(call.answer, serial, Updating)
      BY <2>1 DEF Idle
    <3>1. calls[c].age \in Nat
      BY <1>2, CallType, AgesType DEF Read, CacheInv
    <3> QED BY <3>1, UpdatingFacts DEF Answer, Aging, Sound
  <2> QED BY <1>2, <2>1, <2>2, GotoSound DEF Read, Idle
<1>3. ASSUME NEW c \in Calls, NEW user \in Users, NEW robot \in Robots,
             NEW value \in Serials \cup {Gone}, FindOwned(c, user, robot, value)
      PROVE  CacheInv'
  <2>1. PICK call : call = [at |-> "owned", robot |-> robot, serial |-> value] /\ Goto(c, call)
    BY <1>3 DEF FindOwned
  <2> QED BY <1>3, <2>1, GotoSound DEF FindOwned
<1>4. ASSUME NEW c \in Calls, Fail(c) PROVE CacheInv'
  BY <1>4, GotoSound DEF Fail, Idle
<1>5. ASSUME NEW robot \in Robots, NEW user \in Users, Transfer(robot, user) PROVE CacheInv'
  BY <1>5 DEF Transfer, CacheInv, BoundedMap, EntriesSound, AnswersSound, Updating
<1>6. CASE Restart
  BY <1>6, BoundsAssumption DEF Restart, CacheInv, BoundedMap, EntriesSound, AnswersSound, Idle
<1>7. CASE UNCHANGED vars
  BY <1>7 DEF vars, CacheInv, BoundedMap, EntriesSound, AnswersSound, Updating
<1> QED BY <1>1, <1>2, <1>3, <1>4, <1>5, <1>6, <1>7,
           StoreSound, InvalidateSound, WriteSound, TickSound DEF Next

LEMMA CacheInit == Init => CacheInv
BY BoundsAssumption DEF Init, CacheInv, TypeOK, BoundedMap, EntriesSound, AnswersSound,
   CallStates, Idle

THEOREM Invariance == Spec => []CacheInv
BY CacheInit, CacheStep, PTL DEF Spec

\* Every reachable state has the declared types.
THEOREM TypeCorrect == Spec => []TypeOK
<1>1. CacheInv => TypeOK
  BY DEF CacheInv
<1> QED BY <1>1, Invariance, PTL

\* BoundedMap: the eviction of one entry before each Map.set suffices, and
\* the map holds a key once.
THEOREM MapStaysBounded == Spec => []BoundedMap
<1>1. CacheInv => BoundedMap
  BY DEF CacheInv
<1> QED BY <1>1, Invariance, PTL

\* StaleLessThanTTL: what is served was the row's within the last TTL.
THEOREM StaleForLessThanTTL == Spec => []StaleLessThanTTL
<1>1. CacheInv => StaleLessThanTTL
  <2> SUFFICES ASSUME CacheInv, NEW i \in DOMAIN cache, Fresh(cache[i])
               PROVE  cache[i].untrue < TTL
    BY DEF StaleLessThanTTL
  <2>1. cache[i] \in Answers /\ cache[i].untrue <= cache[i].age
    BY DEF CacheInv, TypeOK, EntriesSound, Aging
  <2> QED BY <2>1, BoundsAssumption DEF Answers, Ages, Fresh
<1> QED BY <1>1, Invariance, PTL

\* InvalidationHolds: an entry with another serial number than the row's
\* comes from a lookup that crossed the update.
THEOREM InvalidationSuffices == Spec => []InvalidationHolds
<1>1. CacheInv => InvalidationHolds
  BY DEF CacheInv, EntriesSound, Sound, InvalidationHolds
<1> QED BY <1>1, Invariance, PTL
=============================================================================
