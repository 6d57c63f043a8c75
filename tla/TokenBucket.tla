---------------------------- MODULE TokenBucket -----------------------------
(***************************************************************************)
(* TokenBucketRateLimiter of rate-limiter.ts, as SocketGateway uses it: a  *)
(* bucket for each Socket.IO connection, created full by its first control *)
(* event, refilled by the time that passed whenever it is asked, released  *)
(* when the connection closes.                                             *)
(*                                                                         *)
(* Tokens are counted in thousandths, so that refillPerSec is the number   *)
(* of units a millisecond adds and the arithmetic is exact (the code's     *)
(* doubles round).  The clock is Date.now(): it may step back.             *)
(***************************************************************************)
EXTENDS Integers

CONSTANTS
  Keys,      \* socket ids; Socket.IO never uses one twice
  Capacity,  \* capacity, in units
  Rate,      \* units a tick of the clock adds
  Cost,      \* one token, in units
  Horizon    \* bound of the clock

ASSUME BucketAssumption ==
  /\ Capacity \in Nat /\ Rate \in Nat /\ Cost \in Nat /\ Horizon \in Nat
  /\ 0 < Cost /\ Cost <= Capacity

VARIABLES
  now,      \* Date.now()
  open,     \* the connections that are open
  buckets,  \* buckets: key -> BucketState, or NoBucket
  window,   \* an observer's window: where it began, and the events it admitted
  paced     \* keys whose events all came at least Cost of refill apart,
            \* with the time of the last one

vars == <<now, open, buckets, window, paced>>

NoBucket == [tokens |-> -1, lastRefillMs |-> 0]
Buckets == [tokens : 0..Capacity, lastRefillMs : 0..Horizon]

Least(a, b) == IF a <= b THEN a ELSE b

-----------------------------------------------------------------------------

RefilledUncapped(bucket) ==                                     \* mutant
  IF now > bucket.lastRefillMs
    THEN [tokens |-> bucket.tokens + Rate * (now - bucket.lastRefillMs), lastRefillMs |-> now]
    ELSE bucket

RefilledTwice(bucket) ==                                        \* mutant
  [bucket EXCEPT !.tokens =
     IF now > bucket.lastRefillMs
       THEN Least(Capacity, @ + Rate * (now - bucket.lastRefillMs)) ELSE @]

\* The bucket after the refill of tryAcquire; a clock that stepped back adds
\* nothing and leaves lastRefillMs alone.
Refilled(bucket) ==
  IF now > bucket.lastRefillMs
    THEN [tokens |-> Least(Capacity, bucket.tokens + Rate * (now - bucket.lastRefillMs)),
          lastRefillMs |-> now]
    ELSE bucket

CurrentEmpty(k) ==                                              \* mutant
  IF buckets[k] = NoBucket THEN [tokens |-> 0, lastRefillMs |-> now] ELSE Refilled(buckets[k])

Current(k) ==
  IF buckets[k] = NoBucket THEN [tokens |-> Capacity, lastRefillMs |-> now]
  ELSE Refilled(buckets[k])

Init ==
  /\ now \in 0..Horizon
  /\ open = Keys
  /\ buckets = [k \in Keys |-> NoBucket]
  /\ window = [k \in Keys |-> [start |-> now, admitted |-> 0]]
  /\ paced = [k \in Keys |-> [ok |-> TRUE, last |-> now, any |-> FALSE]]

StillPaced(k) == paced[k].ok /\ (paced[k].any => Rate * (now - paced[k].last) >= Cost)

\* tryAcquire returns true.
Admit(k) ==
  /\ k \in open
  /\ Current(k).tokens >= Cost
  /\ buckets' = [buckets EXCEPT ![k] = [Current(k) EXCEPT !.tokens = @ - Cost]]
  /\ window' = [window EXCEPT ![k].admitted = @ + 1]
  /\ paced' = [paced EXCEPT ![k] = [ok |-> StillPaced(k), last |-> now, any |-> TRUE]]
  /\ UNCHANGED <<now, open>>

\* tryAcquire returns false, and keeps the refill.
Deny(k) ==
  /\ k \in open
  /\ Current(k).tokens < Cost
  /\ buckets' = [buckets EXCEPT ![k] = Current(k)]
  /\ paced' = [paced EXCEPT ![k] = [ok |-> StillPaced(k), last |-> now, any |-> TRUE]]
  /\ UNCHANGED <<now, open, window>>

\* release, from handleDisconnect: no event of this socket id follows.
Release(k) ==
  /\ k \in open
  /\ open' = open \ {k}
  /\ buckets' = [buckets EXCEPT ![k] = NoBucket]
  /\ UNCHANGED <<now, window, paced>>

Advance ==
  /\ now < Horizon
  /\ now' = now + 1
  /\ UNCHANGED <<open, buckets, window, paced>>

\* The system clock is set back: what was measured against it starts over.
StepBack ==
  /\ now' \in 0..(now - 1)
  /\ window' = [k \in Keys |-> [start |-> now', admitted |-> 0]]
  /\ paced' = [k \in Keys |-> [paced[k] EXCEPT !.ok = FALSE]]
  /\ UNCHANGED <<open, buckets>>

\* The observer begins another window.
StartWindow(k) ==
  /\ window' = [window EXCEPT ![k] = [start |-> now, admitted |-> 0]]
  /\ UNCHANGED <<now, open, buckets, paced>>

Next ==
  \/ \E k \in Keys : Admit(k) \/ Deny(k) \/ Release(k) \/ StartWindow(k)
  \/ Advance \/ StepBack

Spec == Init /\ [][Next]_vars

-----------------------------------------------------------------------------

TypeOK ==
  /\ now \in 0..Horizon
  /\ open \in SUBSET Keys
  /\ buckets \in [Keys -> Buckets \cup {NoBucket}]
  /\ window \in [Keys -> [start : 0..Horizon, admitted : Nat]]
  /\ paced \in [Keys -> [ok : BOOLEAN, last : 0..Horizon, any : BOOLEAN]]

(* "bursts up to 30 commands then ~15 Hz steady": over every window of      *)
(* time, wherever it begins and also after the clock was set back, the      *)
(* events admitted on a connection are at most the capacity plus the refill *)
(* of the window.                                                           *)
RateBound ==
  \A k \in Keys : window[k].admitted * Cost <= Capacity + Rate * (now - window[k].start)

(* A connection whose events come no faster than the refill is never        *)
(* throttled.                                                               *)
PacedNeverDenied == [][\A k \in Keys : Deny(k) => ~StillPaced(k)]_vars

-----------------------------------------------------------------------------
(* The inductive strengthening of RateBound: what the bucket would hold if  *)
(* it were asked now counts as admitted.                                    *)
Owed(k) == IF k \in open THEN Current(k).tokens ELSE 0

WindowStarted == \A k \in Keys : window[k].start <= now

Potential ==
  \A k \in Keys :
    window[k].admitted * Cost + Owed(k) <= Capacity + Rate * (now - window[k].start)
=============================================================================
