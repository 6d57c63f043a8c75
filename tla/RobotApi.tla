------------------------------ MODULE RobotApi ------------------------------
(***************************************************************************)
(* Everything that hangs on one robot's row, over one process and one      *)
(* broker connection: the alarm rules (AlarmRules), the lamp schedule and  *)
(* commands (RobotTopics), patrols, alerts, events and the inbox           *)
(* (RobotRecords).                                                         *)
(*                                                                         *)
(* The components share `known` and `link`.  A removal, a rename, a crash, *)
(* a connection and its loss are one step of all that they touch; every    *)
(* other step belongs to one component.                                    *)
(***************************************************************************)
EXTENDS AlarmRules

CONSTANTS
  Schedules, Puts, Commands, Frames, MaxQueue, DefaultSchedule, NoSchedule, Nobody,
  Patrols, Foreign, MaxLogs, Alarms, Events, Tasks, Nothing,
  Workloads  \* which kinds of request arrive in one behaviour (bound)

RequestKinds == {"rules", "lamp", "commands", "patrols", "alarms", "events"}

ASSUME TopicsAssumption ==
  /\ DefaultSchedule \in Schedules /\ NoSchedule \notin Schedules
  /\ Frames \subseteq Commands
  /\ Nobody \notin Puts /\ MaxQueue \in Nat \ {0}
ASSUME WorkloadsAssumption == Workloads \subseteq SUBSET RequestKinds

VARIABLES
  schedule, puts, writer, queue, kept, missed,
  commands, line, again, passed, before,
  patrols, logs, stored, seen, shown, events, classes, inbox, broken, tasks,
  workload   \* the kinds of request of this behaviour

INSTANCE RobotTopics
INSTANCE RobotRecords

ASSUME RecordsAssumption ==
  /\ Patrols \cap Foreign = {} /\ MaxLogs \in Nat
  /\ Nothing \notin Patrols \cup Foreign \cup Alarms \cup Events \cup Classes

topicsOnly == <<schedule, puts, writer, queue, kept, missed, commands, line, again, passed, before>>
recordsOnly == <<patrols, logs, stored, seen, shown, events, classes, inbox, broken, tasks>>
rulesOnly == <<rules, jobs, reader, outbox, retained, suspect>>
apiVars == <<known, link, rulesOnly, topicsOnly, recordsOnly, workload>>

ApiInit ==
  /\ Init /\ TopicsInit /\ RecordsInit
  /\ workload \in Workloads

\* A step of the rules alone.  Where no rule is ever edited every hydration
\* fails (bound): what it would publish is the same empty list.
RulesStep ==
  /\ "rules" \in workload
  /\ \/ EditStep \/ Deliver
     \/ \E j \in Jobs : JobStep(j) \/ FailRead(j) \/ FailEdit(j)
  /\ UNCHANGED <<topicsOnly, recordsOnly, workload>>

TopicsStep ==
  /\ \/ "lamp" \in workload /\ LampRequest
     \/ "commands" \in workload /\ CommandRequest
     \/ TopicWork
  /\ UNCHANGED <<rulesOnly, recordsOnly, workload>>

RecordsStep ==
  /\ Running
  /\ \/ "patrols" \in workload /\ PatrolRequest
     \/ "alarms" \in workload /\ AlarmFrame
     \/ "events" \in workload /\ EventRequest
     \/ RecordWork
  /\ UNCHANGED <<link, rulesOnly, topicsOnly, workload>>

ConnectStep ==
  /\ \/ "rules" \in workload /\ \E j \in Jobs : Connect(j)
     \/ ConnectUnhydrated \/ Boot
  /\ TopicsConnect
  /\ UNCHANGED <<recordsOnly, workload>>

DisconnectStep == Disconnect /\ TopicsDisconnect /\ UNCHANGED <<recordsOnly, workload>>
WipeStep == Wipe /\ TopicsWipe /\ UNCHANGED <<recordsOnly, workload>>
CrashStep == Crash /\ TopicsCrash /\ RecordsCrash /\ UNCHANGED workload
RenameStep == Rename /\ TopicsRename /\ UNCHANGED <<recordsOnly, workload>>
RemoveStep == RemoveRobot /\ TopicsRemove /\ RecordsRemove /\ UNCHANGED workload

ApiNext ==
  \/ RulesStep \/ TopicsStep \/ RecordsStep
  \/ ConnectStep \/ DisconnectStep \/ WipeStep \/ CrashStep
  \/ RenameStep \/ RemoveStep

ApiSpec == ApiInit /\ [][ApiNext]_apiVars
ApiFairSpec == ApiSpec /\ Fairness

TypesOK == TypeOK /\ TopicsTypeOK /\ RecordsTypeOK
=============================================================================
