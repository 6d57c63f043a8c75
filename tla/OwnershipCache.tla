--------------------------- MODULE OwnershipCache ---------------------------
(***************************************************************************)
(* The ownership cache of RobotService: findOneForCommand, which every     *)
(* forwarded joystick command calls, beside update and remove, which       *)
(* invalidate it.  A hit changes nothing and is not an action: it is what  *)
(* `Fresh` says of an entry.  Each of the others awaits the database, so a *)
(* lookup and an update interleave at every await.                         *)
(*                                                                         *)
(* Ages count ticks since the `now` that a lookup captured, up to TTL,     *)
(* where the entry has expired.                                            *)
(***************************************************************************)
EXTENDS Naturals, Sequences, FiniteSets

CONSTANTS
  Users, Robots,
  Serials,     \* robots.serialNumber, unique
  Calls,       \* slots for the calls in flight (bound)
  MaxEntries,  \* OWNERSHIP_MAX_ENTRIES
  TTL,         \* OWNERSHIP_TTL_MS, in ticks
  Transfers,   \* whether scripts/assign-robot-owner.ts may run
  Gone         \* the robot's row is deleted

ASSUME BoundsAssumption ==
  /\ MaxEntries \in Nat \ {0} /\ TTL \in Nat \ {0}
  /\ Transfers \in BOOLEAN
ASSUME GoneAssumption == Gone \notin Serials

VARIABLES
  owner,  \* robots.userId
  serial, \* robots.serialNumber, or Gone
  cache,  \* ownershipCache, in insertion order as a Map keeps it
  calls   \* the calls in flight

vars == <<owner, serial, cache, calls>>

Idle == [at |-> "idle"]
Ages == 0..TTL
Older(a) == IF a < TTL THEN a + 1 ELSE TTL

\* `untrue`: ticks for which the answer has not been the row's; `crossed`: the
\* lookup's read lay between an update's invalidation and its write, or its
\* read and its store on the two sides of an invalidation.  Both are history.
Answers == [user : Users, robot : Robots, serial : Serials, age : Ages,
            untrue : Ages, crossed : BOOLEAN]

CallStates ==
  {Idle}
    \cup [at : {"lookup"}, user : Users, robot : Robots, age : Ages]
    \cup [at : {"store"}, answer : Answers]
    \cup [at : {"owned", "write"}, robot : Robots, serial : Serials \cup {Gone}]

Init ==
  /\ owner \in [Robots -> Users]
  /\ serial \in [Robots -> Serials]
  /\ \A a, b \in Robots : serial[a] = serial[b] => a = b
  /\ cache = <<>>
  /\ calls = [c \in Calls |-> Idle]

Goto(c, call) == calls' = [calls EXCEPT ![c] = call]

-----------------------------------------------------------------------------
(* findOneForCommand *)

Fresh(entry) == entry.age < TTL
Hit(user, robot) ==
  \E i \in DOMAIN cache :
    cache[i].user = user /\ cache[i].robot = robot /\ Fresh(cache[i])

\* A miss: `now` is taken, and the read awaited.
Lookup(c, user, robot) ==
  /\ calls[c] = Idle
  /\ ~Hit(user, robot)
  /\ Goto(c, [at |-> "lookup", user |-> user, robot |-> robot, age |-> 0])
  /\ UNCHANGED <<owner, serial, cache>>

\* An update of the robot that has invalidated and not yet written.
UpdatePending(robot) == \E c \in Calls : calls[c].at = "write" /\ calls[c].robot = robot

Answer(call) ==
  [user |-> call.user, robot |-> call.robot, serial |-> serial[call.robot],
   age |-> call.age, untrue |-> 0, crossed |-> UpdatePending(call.robot)]

ReadAny(c) ==                               \* mutant: no check for a missing robot
  /\ calls[c].at = "lookup"
  /\ Goto(c, IF owner[calls[c].robot] = calls[c].user
               THEN [at |-> "store", answer |-> Answer(calls[c])]
               ELSE Idle)
  /\ UNCHANGED <<owner, serial, cache>>

\* No robot: 404.  Another owner: 403.
Read(c) ==
  /\ calls[c].at = "lookup"
  /\ Goto(c, IF serial[calls[c].robot] # Gone /\ owner[calls[c].robot] = calls[c].user
               THEN [at |-> "store", answer |-> Answer(calls[c])]
               ELSE Idle)
  /\ UNCHANGED <<owner, serial, cache>>

\* Map.delete of the first key, when the map is full; a key that is present
\* and only expired counts too.
EvictedLate == IF Len(cache) > MaxEntries THEN Tail(cache) ELSE cache    \* mutant
Evicted == IF Len(cache) >= MaxEntries THEN Tail(cache) ELSE cache

\* Map.set: a key that is present keeps its place.
SetAppended(entries, entry) == Append(entries, entry)   \* mutant: keys repeat
Set(entries, entry) ==
  LET same(e) == e.user = entry.user /\ e.robot = entry.robot IN
  IF \E i \in DOMAIN entries : same(entries[i])
    THEN [i \in DOMAIN entries |-> IF same(entries[i]) THEN entry ELSE entries[i]]
    ELSE Append(entries, entry)

StoredFromNow(answer) == [answer EXCEPT !.age = 0]      \* mutant: Date.now() after the await
Stored(answer) == answer

Store(c) ==
  /\ calls[c].at = "store"
  /\ cache' = Set(Evicted, Stored(calls[c].answer))
  /\ Goto(c, Idle)
  /\ UNCHANGED <<owner, serial>>

-----------------------------------------------------------------------------
(* update (a new serial number) and remove (Gone) *)

\* findOne succeeds.  An update of other columns is one that ends in `Fail`.
FindOwned(c, user, robot, value) ==
  /\ calls[c] = Idle
  /\ serial[robot] # Gone /\ owner[robot] = user
  /\ Goto(c, [at |-> "owned", robot |-> robot, serial |-> value])
  /\ UNCHANGED <<owner, serial, cache>>

\* What is left of the entries at `places`, in their order.
Left(entries, places) ==
  LET n == Cardinality(places)
      place == CHOOSE f \in [1..n -> places] : \A i, j \in 1..n : i < j => f[i] < f[j]
  IN [i \in 1..n |-> entries[place[i]]]

InvalidatedNothing(robot) == cache                      \* mutant: wrong key
Invalidated(robot) == Left(cache, {i \in DOMAIN cache : cache[i].robot # robot})

Invalidate(c) ==
  /\ calls[c].at = "owned"
  /\ cache' = Invalidated(calls[c].robot)
  /\ calls' = [d \in Calls |->
       IF d = c THEN [calls[c] EXCEPT !.at = "write"]
       ELSE IF calls[d].at = "store" /\ calls[d].answer.robot = calls[c].robot
       THEN [calls[d] EXCEPT !.answer.crossed = TRUE]
       ELSE calls[d]]
  /\ UNCHANGED <<owner, serial>>

Taken(robot, value) == value # Gone /\ \E b \in Robots \ {robot} : serial[b] = value

\* robot.update or robot.delete; it throws when the row is gone or another
\* robot has the serial number.
Write(c) ==
  /\ calls[c].at = "write"
  /\ LET robot == calls[c].robot IN
     serial' = IF serial[robot] = Gone \/ Taken(robot, calls[c].serial) THEN serial
               ELSE [serial EXCEPT ![robot] = calls[c].serial]
  /\ Goto(c, Idle)
  /\ UNCHANGED <<owner, cache>>

\* A statement of any call fails.
Fail(c) ==
  /\ calls[c].at \in {"lookup", "owned", "write"}
  /\ Goto(c, Idle)
  /\ UNCHANGED <<owner, serial, cache>>

\* scripts/assign-robot-owner.ts: another process, which knows no cache.
Transfer(robot, user) ==
  /\ Transfers
  /\ serial[robot] # Gone /\ owner[robot] # user
  /\ owner' = [owner EXCEPT ![robot] = user]
  /\ UNCHANGED <<serial, cache, calls>>

-----------------------------------------------------------------------------

True(answer) == owner[answer.robot] = answer.user /\ serial[answer.robot] = answer.serial

Aged(answer) ==
  [answer EXCEPT !.age = Older(@), !.untrue = IF True(answer) THEN 0 ELSE Older(@)]

Tick ==
  /\ cache' = [i \in DOMAIN cache |-> Aged(cache[i])]
  /\ calls' = [c \in Calls |->
       CASE calls[c].at = "lookup" -> [calls[c] EXCEPT !.age = Older(@)]
         [] calls[c].at = "store"  -> [calls[c] EXCEPT !.answer = Aged(@)]
         [] OTHER                  -> calls[c]]
  /\ UNCHANGED <<owner, serial>>

\* The process restarts: the map is empty again.
Restart ==
  /\ cache' = <<>>
  /\ calls' = [c \in Calls |-> Idle]
  /\ UNCHANGED <<owner, serial>>

Next ==
  \/ \E c \in Calls :
       \/ \E user \in Users, robot \in Robots :
            \/ Lookup(c, user, robot)
            \/ \E value \in Serials \cup {Gone} : FindOwned(c, user, robot, value)
       \/ Read(c) \/ Store(c) \/ Invalidate(c) \/ Write(c) \/ Fail(c)
  \/ \E robot \in Robots, user \in Users : Transfer(robot, user)
  \/ Tick \/ Restart

Spec == Init /\ [][Next]_vars

-----------------------------------------------------------------------------

TypeOK ==
  /\ owner \in [Robots -> Users]
  /\ serial \in [Robots -> Serials \cup {Gone}]
  /\ cache \in Seq(Answers)
  /\ calls \in [Calls -> CallStates]

(* However many lookups of the same and of different keys end together, the *)
(* map keeps to its bound, with one entry per key.                          *)
BoundedMap ==
  /\ Len(cache) <= MaxEntries
  /\ \A i, j \in DOMAIN cache :
       cache[i].user = cache[j].user /\ cache[i].robot = cache[j].robot => i = j

(* A command is never forwarded for an owner or to a serial number that the *)
(* row lost a whole TTL ago, through renames, deletions and transfers: the  *)
(* expiry counts from before the read.                                      *)
StaleLessThanTTL ==
  \A i \in DOMAIN cache : Fresh(cache[i]) => cache[i].untrue < TTL

(* After an update or remove has returned, an entry that is still served    *)
(* for the robot's old serial number comes from a lookup that crossed it.   *)
InvalidationHolds ==
  \A i \in DOMAIN cache :
    cache[i].serial = serial[cache[i].robot] \/ cache[i].crossed

=============================================================================
