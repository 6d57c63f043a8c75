----------------------------- MODULE ControlGate -----------------------------
(***************************************************************************)
(* The operator's commands on the Socket.IO gateway: gateControl, the      *)
(* control:* and patrol:* handlers behind it and control:emergency beside  *)
(* it, over the token bucket of module TokenBucket.  A connection may send *)
(* before handleConnection has set client.data, the robot comes and goes,  *)
(* and the throttled log line is throttled itself.                         *)
(*                                                                         *)
(* The kinds of command differ in nothing the gate sees, so one stands for *)
(* all but patrol:start, whose body may lack its patrolId.                 *)
(***************************************************************************)
EXTENDS TokenBucket

CONSTANTS
  LogGap,  \* ticks that must have passed since the last line (2000 ms)
  Never    \* lastLimitLogMs.get(...) of an absent key

ASSUME GateAssumption == LogGap \in Nat /\ Never \notin 0..Horizon

VARIABLES
  following,       \* the connections whose client.data names a robot
  robotConnected,  \* whether connectedRobots holds the robot's socket
  lastLimitLogMs,  \* socket id -> time of its last "rate-limit dropped" line
  answer,          \* what the last event of a connection led to
  logged           \* lines written in the observer's window: history

gateVars == <<following, robotConnected, lastLimitLogMs, answer, logged>>
allVars == <<vars, gateVars>>

Answers == {"none", "forwarded", "stopped", "throttled", "error", "silence"}

GateInit ==
  /\ Init
  /\ following = {} /\ robotConnected \in BOOLEAN
  /\ lastLimitLogMs = [k \in Keys |-> Never]
  /\ answer = [k \in Keys |-> "none"]
  /\ logged = [k \in Keys |-> 0]

Answer(k, what) == answer' = [answer EXCEPT ![k] = what]

\* handleConnection has awaited assertOwnership and sets client.data.
Follow(k) ==
  /\ k \in open \ following
  /\ following' = following \cup {k}
  /\ UNCHANGED <<vars, robotConnected, lastLimitLogMs, answer, logged>>

\* An event of a connection without client.data.robotId is dropped unheard.
Ignore(k) ==
  /\ k \in open \ following
  /\ Answer(k, "silence")
  /\ UNCHANGED <<vars, following, robotConnected, lastLimitLogMs, logged>>

LogDueEarly(k) ==                                               \* mutant: >=
  lastLimitLogMs[k] = Never \/ now - lastLimitLogMs[k] >= LogGap

\* An absent key counts as 0, which Date.now() exceeds by more than any gap.
LogDue(k) == lastLimitLogMs[k] = Never \/ now - lastLimitLogMs[k] > LogGap

\* gateControl without a token: one line a gap, and control:throttled.
Throttle(k) ==
  /\ k \in following
  /\ Deny(k)
  /\ IF LogDue(k)
       THEN /\ lastLimitLogMs' = [lastLimitLogMs EXCEPT ![k] = now]
            /\ logged' = [logged EXCEPT ![k] = @ + 1]
       ELSE UNCHANGED <<lastLimitLogMs, logged>>
  /\ Answer(k, "throttled")
  /\ UNCHANGED <<following, robotConnected>>

\* gateControl with a token, which is spent whether or not a robot is there
\* and whether or not patrol:start then finds its patrolId.
Command(k, wellFormed) ==
  /\ k \in following
  /\ Admit(k)
  /\ Answer(k, IF robotConnected /\ wellFormed THEN "forwarded" ELSE "error")
  /\ UNCHANGED <<following, robotConnected, lastLimitLogMs, logged>>

\* handleEmergencyStop: no bucket, and no word to the operator when the robot
\* is away.
EmergencyStop(k) ==
  /\ k \in following
  /\ Answer(k, IF robotConnected THEN "stopped" ELSE "silence")
  /\ UNCHANGED <<vars, following, robotConnected, lastLimitLogMs, logged>>

\* handleDisconnect of a client.
Disconnect(k) ==
  /\ Release(k)
  /\ following' = following \ {k}
  /\ lastLimitLogMs' = [lastLimitLogMs EXCEPT ![k] = Never]
  /\ UNCHANGED <<robotConnected, answer, logged>>

\* The robot's socket enters or leaves connectedRobots.
RobotComesOrGoes ==
  /\ robotConnected' = ~robotConnected
  /\ UNCHANGED <<vars, following, lastLimitLogMs, answer, logged>>

\* Time, and the observer, whose windows also count the lines.
Pass ==
  /\ \/ Advance /\ UNCHANGED logged
     \/ StepBack /\ logged' = [k \in Keys |-> 0]
     \/ \E k \in Keys : StartWindow(k) /\ logged' = [logged EXCEPT ![k] = 0]
  /\ UNCHANGED <<following, robotConnected, lastLimitLogMs, answer>>

GateNext ==
  \/ \E k \in Keys :
       \/ Follow(k) \/ Ignore(k) \/ Throttle(k)
       \/ \E wellFormed \in BOOLEAN : Command(k, wellFormed)
       \/ EmergencyStop(k) \/ Disconnect(k)
  \/ RobotComesOrGoes \/ Pass

GateSpec == GateInit /\ [][GateNext]_allVars

-----------------------------------------------------------------------------

GateTypeOK ==
  /\ TypeOK
  /\ following \in SUBSET open
  /\ robotConnected \in BOOLEAN
  /\ lastLimitLogMs \in [Keys -> 0..Horizon \cup {Never}]
  /\ answer \in [Keys -> Answers]
  /\ logged \in [Keys -> Nat]

(* "a misbehaving client cannot also spam the log file": however fast a     *)
(* connection sends, a window of time sees at most one line, and one more   *)
(* for every gap it has room for, also when the clock is set back.          *)
LogBound ==
  \A k \in Keys : logged[k] > 0 => (logged[k] - 1) * (LogGap + 1) <= now - window[k].start

-----------------------------------------------------------------------------
(* The inductive strengthening of LogBound: the lines of the window were    *)
(* written at least a gap apart, the last of them at lastLimitLogMs.        *)
LogSpacing ==
  \A k \in Keys : logged[k] > 0 /\ k \in open =>
    /\ lastLimitLogMs[k] \in window[k].start..now
    /\ (logged[k] - 1) * (LogGap + 1) <= lastLimitLogMs[k] - window[k].start
=============================================================================
