---------------------------- MODULE RobotRecords -----------------------------
(***************************************************************************)
(* The rows that hang on one robot's row and who writes them: patrols and  *)
(* their logs (RobotService, handlePatrolLog of the gateway), alerts that  *)
(* arrive by socket (handleRobotAlert) and are acknowledged, robot events  *)
(* and the notices they cause (RobotEventService), the owner's inbox       *)
(* (NotificationService) and the clean-ups of events and alerts.           *)
(*                                                                         *)
(* Every handler checks first and writes after an await; the row it        *)
(* checked may be gone by then, and with it, by the cascades of the        *)
(* schema, everything that hung on it.  The handlers that only read        *)
(* (listings, statistics, counts) are left out.                            *)
(***************************************************************************)
EXTENDS Naturals

CONSTANTS
  Patrols,   \* patrol ids ever drawn (bound)
  Foreign,   \* patrols of another robot
  MaxLogs,   \* log lines of one patrol (bound)
  Alarms,    \* robot:alert frames, each sent once (bound)
  Events,    \* robot event ids ever drawn (bound)
  Tasks,     \* slots for the handlers in flight (bound)
  Nothing    \* no row, or no operand

VARIABLES
  known,    \* whether robots has the row
  patrols,  \* patrols.status, "unborn" or "deleted"
  logs,     \* how many patrol_logs rows each patrol has
  stored,   \* the alarms with an alerts row
  seen,     \* the alarms an operator has acknowledged
  shown,    \* what became of each alarm on the operators' screens
  events,   \* robot_events: the class of each event, "unborn" or "deleted"
  classes,  \* the class of every event ever created: history
  inbox,    \* notifications: the notice of each kind for each event
  broken,   \* events whose fan-out failed or died: history
  tasks     \* the statement each handler awaits

recordVars == <<known, patrols, logs, stored, seen, shown, events, classes, inbox, broken, tasks>>

Statuses == {"PENDING", "moved on"}
Kinds == {"alert", "lowBattery"}
Notices == {"none", "unread", "read", "deleted"}

\* eventType, severity and whether data carries a battery level under 20.
Classes == [safety : BOOLEAN, severity : {"info", "warning", "error"}, low : BOOLEAN]

Task(at, id, what) == [at |-> at, id |-> id, what |-> what]
NoTask == Task("idle", Nothing, Nothing)

RecordsInit ==
  /\ known = TRUE
  /\ patrols = [p \in Patrols |-> "unborn"]
  /\ logs = [p \in Patrols \cup Foreign |-> 0]
  /\ stored = {} /\ seen = {} /\ shown = [a \in Alarms |-> "unsent"]
  /\ events = [e \in Events |-> "unborn"]
  /\ classes = [e \in Events |-> Nothing]
  /\ inbox = [e \in Events |-> [k \in Kinds |-> "none"]]
  /\ broken = {}
  /\ tasks = [t \in Tasks |-> NoTask]

Do(t, task) == tasks' = [tasks EXCEPT ![t] = task]
Starts(t, task) == tasks[t] = NoTask /\ Do(t, task)
Row(status) == status \notin {"unborn", "deleted"}

-----------------------------------------------------------------------------
(* Patrols *)

\* createPatrol: findOne, then patrol.create, which the foreign key refuses
\* when the robot has been removed.
AskPatrol(t) ==
  /\ known /\ Starts(t, Task("createPatrol", Nothing, Nothing))
  /\ UNCHANGED <<known, patrols, logs, stored, seen, shown, events, classes, inbox, broken>>

CreatePatrol(t, p) ==
  /\ tasks[t].at = "createPatrol"
  /\ patrols[p] = "unborn"
  /\ patrols' = IF known THEN [patrols EXCEPT ![p] = "PENDING"] ELSE patrols
  /\ Do(t, NoTask)
  /\ UNCHANGED <<known, logs, stored, seen, shown, events, classes, inbox, broken>>

\* assertPatrolOwnership, for a new status or for deletePatrol: a patrol that
\* is missing or another robot's ends the request.
AssertPatrol(t, p, what) ==
  /\ known /\ Row(patrols[p])
  /\ Starts(t, Task("writePatrol", p, what))
  /\ UNCHANGED <<known, patrols, logs, stored, seen, shown, events, classes, inbox, broken>>

\* patrol.update or patrol.delete: both throw when the row is gone; the logs
\* of a deleted patrol go with it.
WritePatrol(t) ==
  /\ tasks[t].at = "writePatrol"
  /\ LET p == tasks[t].id what == tasks[t].what IN
       IF Row(patrols[p])
         THEN /\ patrols' = [patrols EXCEPT ![p] = what]
              /\ logs' = IF what = "deleted" THEN [logs EXCEPT ![p] = 0] ELSE logs
         ELSE UNCHANGED <<patrols, logs>>
  /\ Do(t, NoTask)
  /\ UNCHANGED <<known, stored, seen, shown, events, classes, inbox, broken>>

CheckLogExists(t, p) ==                     \* mutant: whose patrol is not compared
  /\ IF p \in Foreign THEN TRUE ELSE Row(patrols[p])
  /\ Starts(t, Task("log", p, Nothing))
  /\ UNCHANGED <<known, patrols, logs, stored, seen, shown, events, classes, inbox, broken>>

\* handlePatrolLog: any patrolId the robot names; only patrolBelongsToRobot
\* lets it go on.
CheckLog(t, p) ==
  /\ p \in Patrols /\ Row(patrols[p])
  /\ Starts(t, Task("log", p, Nothing))
  /\ UNCHANGED <<known, patrols, logs, stored, seen, shown, events, classes, inbox, broken>>

\* addPatrolLog: refused by the foreign key when the patrol is gone.
AppendLog(t) ==
  /\ tasks[t].at = "log"
  /\ LET p == tasks[t].id IN
       IF p \in Foreign \/ Row(patrols[p])
         THEN logs[p] < MaxLogs /\ logs' = [logs EXCEPT ![p] = @ + 1]
         ELSE UNCHANGED logs
  /\ Do(t, NoTask)
  /\ UNCHANGED <<known, patrols, stored, seen, shown, events, classes, inbox, broken>>

-----------------------------------------------------------------------------
(* robot:alert *)

ReceiveAlarm(t, a) ==
  /\ shown[a] = "unsent"
  /\ shown' = [shown EXCEPT ![a] = "not yet"]
  /\ Starts(t, Task("alarm", a, Nothing))
  /\ UNCHANGED <<known, patrols, logs, stored, seen, events, classes, inbox, broken>>

\* alert.create commits; its answer is on the way.
StoreAlarm(t) ==
  /\ tasks[t].at = "alarm" /\ known
  /\ stored' = stored \cup {tasks[t].id}
  /\ Do(t, Task("alarmStored", tasks[t].id, Nothing))
  /\ UNCHANGED <<known, patrols, logs, seen, shown, events, classes, inbox, broken>>

Broadcast(t, what) ==
  /\ shown' = [shown EXCEPT ![tasks[t].id] = what]
  /\ Do(t, NoTask)
  /\ UNCHANGED <<known, patrols, logs, stored, seen, events, classes, inbox, broken>>

ShowAlarm(t) == tasks[t].at = "alarmStored" /\ Broadcast(t, "saved")

ShowUnsavedNever(t) ==                          \* mutant: no fallback broadcast
  /\ tasks[t].at \in {"alarm", "alarmStored"}
  /\ Do(t, NoTask)
  /\ UNCHANGED <<known, patrols, logs, stored, seen, shown, events, classes, inbox, broken>>

\* createAlert throws, for want of the robot or of an answer: the operators
\* get the frame with persisted: false, which a row may belie.
ShowUnsaved(t) == tasks[t].at \in {"alarm", "alarmStored"} /\ Broadcast(t, "unsaved")

\* acknowledgeAlert (REST): its update throws when the row is gone.
AcknowledgeAlarm(a) ==
  /\ a \in stored
  /\ seen' = seen \cup {a}
  /\ UNCHANGED <<known, patrols, logs, stored, shown, events, classes, inbox, broken, tasks>>

\* cleanupAcknowledgedAlerts, a cron job, of those that are 14 days old.
CleanupAcknowledgedAlerts ==
  /\ \E old \in SUBSET (stored \cap seen) : old # {} /\ stored' = stored \ old
  /\ UNCHANGED <<known, patrols, logs, seen, shown, events, classes, inbox, broken, tasks>>

-----------------------------------------------------------------------------
(* Robot events *)

\* resolveOwnedRobot, of createEvent, clearEvents and deleteEvent.
ResolveRobot(t, what) ==
  /\ known
  /\ Starts(t, what)
  /\ UNCHANGED <<known, patrols, logs, stored, seen, shown, events, classes, inbox, broken>>

\* maybeFanOut: what is notified as an alert...
Notable(class) == class.severity = "error" \/ (class.severity = "warning" /\ class.safety)

\* ... and the statement it awaits first.
FanOut(e, class) ==
  IF Notable(class) THEN Task("notifyAlert", e, class)
  ELSE IF class.low THEN Task("notifyLow", e, class)
  ELSE NoTask

\* robotEvent.create; the fan-out goes on when the request has been answered.
CreateEvent(t, e) ==
  /\ tasks[t].at = "createEvent"
  /\ events[e] = "unborn"
  /\ IF known
       THEN /\ events' = [events EXCEPT ![e] = "row"]
            /\ classes' = [classes EXCEPT ![e] = tasks[t].what]
            /\ Do(t, FanOut(e, tasks[t].what))
       ELSE Do(t, NoTask) /\ UNCHANGED <<events, classes>>
  /\ UNCHANGED <<known, patrols, logs, stored, seen, shown, inbox, broken>>

\* robotEvent.create commits and its answer is lost: 500, and no fan-out.
CreateEventUnanswered(t, e) ==
  /\ tasks[t].at = "createEvent"
  /\ known /\ events[e] = "unborn"
  /\ events' = [events EXCEPT ![e] = "row"]
  /\ classes' = [classes EXCEPT ![e] = tasks[t].what]
  /\ broken' = broken \cup {e}
  /\ Do(t, NoTask)
  /\ UNCHANGED <<known, patrols, logs, stored, seen, shown, inbox>>

Notice(e, kind) == inbox' = [inbox EXCEPT ![e][kind] = "unread"]

NotifyAlertOnly(t) ==                       \* mutant: returns after the alert
  /\ tasks[t].at = "notifyAlert"
  /\ Notice(tasks[t].id, "alert")
  /\ Do(t, NoTask)
  /\ UNCHANGED <<known, patrols, logs, stored, seen, shown, events, classes, broken>>

\* notifyAlert has created the inbox record: on to the battery.
NotifyAlert(t) ==
  /\ tasks[t].at = "notifyAlert"
  /\ Notice(tasks[t].id, "alert")
  /\ Do(t, IF tasks[t].what.low THEN Task("notifyLow", tasks[t].id, tasks[t].what) ELSE NoTask)
  /\ UNCHANGED <<known, patrols, logs, stored, seen, shown, events, classes, broken>>

NotifyLow(t) ==
  /\ tasks[t].at = "notifyLow"
  /\ Notice(tasks[t].id, "lowBattery")
  /\ Do(t, NoTask)
  /\ UNCHANGED <<known, patrols, logs, stored, seen, shown, events, classes, broken>>

\* The one try of maybeFanOut: a notice that fails takes the next one with it.
FailNotify(t) ==
  /\ tasks[t].at \in {"notifyAlert", "notifyLow"}
  /\ broken' = broken \cup {tasks[t].id}
  /\ Do(t, NoTask)
  /\ UNCHANGED <<known, patrols, logs, stored, seen, shown, events, classes, inbox>>

Dropped(es) == events' = [e \in Events |-> IF e \in es /\ Row(events[e]) THEN "deleted" ELSE events[e]]

\* clearEvents and deleteEvent: deleteMany never throws.
DeleteEvents(t) ==
  /\ tasks[t].at = "deleteEvents"
  /\ Dropped(IF tasks[t].id = Nothing THEN Events ELSE {tasks[t].id})
  /\ Do(t, NoTask)
  /\ UNCHANGED <<known, patrols, logs, stored, seen, shown, classes, inbox, broken>>

\* cleanupOldEvents, a cron job, of those that are 30 days old.
CleanupOldEvents ==
  /\ \E old \in SUBSET {e \in Events : Row(events[e])} : old # {} /\ Dropped(old)
  /\ UNCHANGED <<known, patrols, logs, stored, seen, shown, classes, inbox, broken, tasks>>

-----------------------------------------------------------------------------
(* The owner's inbox: each endpoint is one updateMany or deleteMany. *)

Marked(which, from, to) ==
  inbox' = [e \in Events |-> [k \in Kinds |->
              IF <<e, k>> \in which /\ inbox[e][k] \in from THEN to ELSE inbox[e][k]]]

\* markAsRead, delete.
OneNotice ==
  /\ \E e \in Events, k \in Kinds :
       \/ Marked({<<e, k>>}, {"unread"}, "read")
       \/ Marked({<<e, k>>}, {"unread", "read"}, "deleted")
  /\ UNCHANGED <<known, patrols, logs, stored, seen, shown, events, classes, broken, tasks>>

\* markAllAsRead, deleteAll.
AllNotices ==
  /\ \/ Marked(Events \X Kinds, {"unread"}, "read")
     \/ Marked(Events \X Kinds, {"unread", "read"}, "deleted")
  /\ UNCHANGED <<known, patrols, logs, stored, seen, shown, events, classes, broken, tasks>>

-----------------------------------------------------------------------------

\* A statement of a request fails: 500, or a line in the log.
FailTask(t) ==
  /\ tasks[t].at \in {"createPatrol", "writePatrol", "log", "createEvent", "deleteEvents"}
  /\ Do(t, NoTask)
  /\ UNCHANGED <<known, patrols, logs, stored, seen, shown, events, classes, inbox, broken>>

PatrolRequest ==
  \E t \in Tasks :
    \/ AskPatrol(t)
    \/ \E p \in Patrols, what \in Statuses \cup {"deleted"} : AssertPatrol(t, p, what)
    \/ \E p \in Patrols \cup Foreign : CheckLog(t, p)

AlarmFrame == \E t \in Tasks, a \in Alarms : ReceiveAlarm(t, a)

EventRequest ==
  \E t \in Tasks :
    \/ \E class \in Classes : ResolveRobot(t, Task("createEvent", Nothing, class))
    \/ \E e \in Events \cup {Nothing} : ResolveRobot(t, Task("deleteEvents", e, Nothing))

RecordWork ==
  \/ \E t \in Tasks :
       \/ \E p \in Patrols : CreatePatrol(t, p)
       \/ WritePatrol(t) \/ AppendLog(t)
       \/ StoreAlarm(t) \/ ShowAlarm(t) \/ ShowUnsaved(t)
       \/ \E e \in Events : CreateEvent(t, e) \/ CreateEventUnanswered(t, e)
       \/ NotifyAlert(t) \/ NotifyLow(t) \/ FailNotify(t) \/ DeleteEvents(t)
       \/ FailTask(t)
  \/ \E a \in Alarms : AcknowledgeAlarm(a)
  \/ CleanupAcknowledgedAlerts \/ CleanupOldEvents \/ OneNotice \/ AllNotices

\* RobotService.remove: the cascades of the schema.  The inbox is the user's.
RecordsRemove ==
  /\ known /\ known' = FALSE
  /\ patrols' = [p \in Patrols |-> IF Row(patrols[p]) THEN "deleted" ELSE patrols[p]]
  /\ logs' = [p \in Patrols \cup Foreign |-> IF p \in Patrols THEN 0 ELSE logs[p]]
  /\ stored' = {}
  /\ Dropped(Events)
  /\ UNCHANGED <<seen, shown, classes, inbox, broken, tasks>>

\* The process dies with its handlers.
Interrupted == {tasks[t].id : t \in {u \in Tasks : tasks[u].at \in {"notifyAlert", "notifyLow"}}}
RecordsCrash ==
  /\ tasks' = [t \in Tasks |-> NoTask]
  /\ broken' = broken \cup Interrupted
  /\ shown' = [a \in Alarms |-> IF shown[a] = "not yet" THEN "died" ELSE shown[a]]
  /\ UNCHANGED <<known, patrols, logs, stored, seen, events, classes, inbox>>

RecordsNext ==
  \/ PatrolRequest \/ AlarmFrame \/ EventRequest \/ RecordWork
  \/ RecordsRemove \/ RecordsCrash

RecordsSpec == RecordsInit /\ [][RecordsNext]_recordVars

-----------------------------------------------------------------------------

TaskType ==
  {NoTask, Task("createPatrol", Nothing, Nothing)}
    \cup [at : {"writePatrol"}, id : Patrols, what : Statuses \cup {"deleted"}]
    \cup [at : {"log"}, id : Patrols, what : {Nothing}]
    \cup [at : {"alarm", "alarmStored"}, id : Alarms, what : {Nothing}]
    \cup [at : {"createEvent"}, id : {Nothing}, what : Classes]
    \cup [at : {"notifyAlert", "notifyLow"}, id : Events, what : Classes]
    \cup [at : {"deleteEvents"}, id : Events \cup {Nothing}, what : {Nothing}]

RecordsTypeOK ==
  /\ known \in BOOLEAN
  /\ patrols \in [Patrols -> Statuses \cup {"unborn", "deleted"}]
  /\ logs \in [Patrols \cup Foreign -> 0..MaxLogs]
  /\ stored \in SUBSET Alarms /\ seen \in SUBSET Alarms
  /\ shown \in [Alarms -> {"unsent", "not yet", "saved", "unsaved", "died"}]
  /\ events \in [Events -> {"unborn", "row", "deleted"}]
  /\ classes \in [Events -> Classes \cup {Nothing}]
  /\ inbox \in [Events -> [Kinds -> Notices]]
  /\ broken \in SUBSET Events
  /\ tasks \in [Tasks -> TaskType]

(* "robot may only log against its own patrols": no interleaving of a log   *)
(* with the patrol's or the robot's removal leaves a line on another        *)
(* robot's patrol, or on one that is gone.                                  *)
LogsOfOwnPatrols ==
  /\ \A p \in Foreign : logs[p] = 0
  /\ \A p \in Patrols : logs[p] > 0 => known /\ Row(patrols[p])

(* "so operators still see it": an alert the handler took is on its way to  *)
(* the screens until it is there, whatever becomes of the statement and of  *)
(* the robot, unless the process dies; and what is shown as stored has a    *)
(* row as long as the robot has one, unless an operator has acknowledged it *)
(* (the clean-up removes it then): nobody misses an alert that was stored.  *)
AlarmsShown ==
  \A a \in Alarms :
    /\ shown[a] = "not yet" => \E t \in Tasks : tasks[t].at \in {"alarm", "alarmStored"} /\ tasks[t].id = a
    /\ shown[a] = "saved" /\ known => a \in stored \cup seen

(* The inbox holds what the fan-out rules say, for every class of event: no *)
(* notice an event does not call for, the battery's never instead of the    *)
(* alert's, and once the fan-out is over every notice it calls for, unless  *)
(* it failed or the process died.                                           *)
Called(class) ==
  (IF class.severity = "error" \/ (class.severity = "warning" /\ class.safety)
     THEN {"alert"} ELSE {})
    \cup (IF class.low THEN {"lowBattery"} ELSE {})

Made(e) == {k \in Kinds : inbox[e][k] # "none"}

Pending(e) == \E t \in Tasks : tasks[t].at \in {"notifyAlert", "notifyLow"} /\ tasks[t].id = e

NoticesMatchEvents ==
  \A e \in Events :
    IF classes[e] = Nothing THEN Made(e) = {}
    ELSE /\ Made(e) \subseteq Called(classes[e])
         /\ "lowBattery" \in Made(e) => Called(classes[e]) \ Made(e) = {}
         /\ Made(e) = Called(classes[e]) \/ Pending(e) \/ e \in broken
=============================================================================
