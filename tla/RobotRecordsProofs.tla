------------------------- MODULE RobotRecordsProofs -------------------------
(***************************************************************************)
(* Proofs about the rows that hang on the robot's: RobotRecords, with the  *)
(* assumptions on its constants that RobotApi states.                      *)
(***************************************************************************)
EXTENDS RobotApi, TLAPS

(* What else holds of the handlers in flight: an alert that was stored has  *)
(* its row while the robot has one, or was acknowledged, and a fan-out in   *)
(* progress notifies the class of its event, the alert before the battery.  *)
StoredOrSeen == stored \cup seen

StoredTasks ==
  \A t \in Tasks : tasks[t].at = "alarmStored" /\ known => tasks[t].id \in StoredOrSeen

NewEvents == \A e \in Events : events[e] = "unborn" => classes[e] = Nothing

FanOutOf(t) ==
  /\ tasks[t].at \in {"notifyAlert", "notifyLow"} => classes[tasks[t].id] = tasks[t].what
  /\ tasks[t].at = "notifyAlert" => "alert" \in Called(tasks[t].what)
  /\ tasks[t].at = "notifyLow" =>
       /\ "lowBattery" \in Called(tasks[t].what)
       /\ Called(tasks[t].what) \ {"lowBattery"} \subseteq Made(tasks[t].id)

FanOuts == \A t \in Tasks : FanOutOf(t)

-----------------------------------------------------------------------------

LEMMA TaskFields ==
  /\ NoTask.at = "idle"
  /\ \A at, id, what : /\ Task(at, id, what).at = at /\ Task(at, id, what).id = id
                        /\ Task(at, id, what).what = what
BY DEF NoTask, Task

LEMMA TaskTypes ==
  ASSUME RecordsTypeOK, NEW t \in Tasks
  PROVE  /\ tasks[t].at = "writePatrol" => tasks[t].id \in Patrols /\ tasks[t].what \in Statuses \cup {"deleted"}
         /\ tasks[t].at = "log" => tasks[t].id \in Patrols
         /\ tasks[t].at \in {"alarm", "alarmStored"} => tasks[t].id \in Alarms /\ tasks[t].what = Nothing
         /\ tasks[t].at = "createEvent" => tasks[t].what \in Classes
         /\ tasks[t].at \in {"notifyAlert", "notifyLow"} => tasks[t].id \in Events /\ tasks[t].what \in Classes
         /\ tasks[t].at = "deleteEvents" => tasks[t].id \in Events \cup {Nothing}
         /\ tasks[t] \in TaskType
<1>1. tasks[t] \in TaskType
  BY DEF RecordsTypeOK
<1> QED BY <1>1, SMTT(60) DEF TaskType, NoTask, Task

LEMMA FanOutType ==
  ASSUME NEW e \in Events, NEW class \in Classes
  PROVE  FanOut(e, class) \in TaskType
BY DEF FanOut, TaskType, Task, NoTask

LEMMA DroppedType ==
  ASSUME events \in [Events -> {"unborn", "row", "deleted"}], NEW es, Dropped(es)
  PROVE  /\ events' \in [Events -> {"unborn", "row", "deleted"}]
         /\ \A e \in Events : events'[e] = "unborn" => events[e] = "unborn"
BY DEF Dropped, Row

LEMMA MarkedType ==
  ASSUME inbox \in [Events -> [Kinds -> Notices]], NEW which, NEW from, NEW to \in Notices \ {"none"},
         "none" \notin from, Marked(which, from, to)
  PROVE  /\ inbox' \in [Events -> [Kinds -> Notices]]
         /\ \A e \in Events, k \in Kinds : inbox'[e][k] = "none" <=> inbox[e][k] = "none"
BY DEF Marked

LEMMA NoticesType ==
  ASSUME inbox \in [Events -> [Kinds -> Notices]], OneNotice \/ AllNotices
  PROVE  /\ inbox' \in [Events -> [Kinds -> Notices]]
         /\ \A e \in Events, k \in Kinds : inbox'[e][k] = "none" <=> inbox[e][k] = "none"
<1>1. "none" \notin {"unread"} /\ "none" \notin {"unread", "read"} /\ {"read", "deleted"} \subseteq Notices \ {"none"}
  BY DEF Notices
<1>2. CASE OneNotice
  BY <1>1, <1>2, MarkedType DEF OneNotice
<1>3. CASE AllNotices
  BY <1>1, <1>3, MarkedType DEF AllNotices
<1> QED BY <1>2, <1>3

LEMMA AfterAlert ==
  ASSUME RecordsTypeOK, NEW t \in Tasks, tasks[t].at \in {"alarm", "notifyAlert"}
  PROVE  /\ tasks[t].at = "alarm" => Task("alarmStored", tasks[t].id, Nothing) \in TaskType
         /\ tasks[t].at = "notifyAlert" => Task("notifyLow", tasks[t].id, tasks[t].what) \in TaskType
BY TaskTypes DEF TaskType, Task

LEMMA RequestTypes ==
  /\ NoTask \in TaskType /\ Task("createPatrol", Nothing, Nothing) \in TaskType
  /\ \A p \in Patrols, what \in Statuses \cup {"deleted"} : Task("writePatrol", p, what) \in TaskType
  /\ \A p \in Patrols : Task("log", p, Nothing) \in TaskType
  /\ \A a \in Alarms : Task("alarm", a, Nothing) \in TaskType
  /\ \A class \in Classes : Task("createEvent", Nothing, class) \in TaskType
  /\ \A e \in Events \cup {Nothing} : Task("deleteEvents", e, Nothing) \in TaskType
BY DEF TaskType, Task

LEMMA LogAdded ==
  ASSUME logs \in [Patrols \cup Foreign -> 0..MaxLogs], NEW p \in Patrols
  PROVE  /\ [logs EXCEPT ![p] = 0] \in [Patrols \cup Foreign -> 0..MaxLogs]
         /\ logs[p] < MaxLogs =>
              [logs EXCEPT ![p] = logs[p] + 1] \in [Patrols \cup Foreign -> 0..MaxLogs]
<1>1. MaxLogs \in Nat
  BY RecordsAssumption
<1>2. logs[p] \in 0..MaxLogs
  OBVIOUS
<1>3. 0 \in 0..MaxLogs /\ (logs[p] < MaxLogs => logs[p] + 1 \in 0..MaxLogs)
  BY <1>1, <1>2
<1> QED BY <1>3

LEMMA NoLog == 0 \in 0..MaxLogs
BY RecordsAssumption

LEMMA NoticeAdded ==
  ASSUME inbox \in [Events -> [Kinds -> Notices]], NEW e \in Events, NEW k \in Kinds
  PROVE  [inbox EXCEPT ![e][k] = "unread"] \in [Events -> [Kinds -> Notices]]
<1>1. "unread" \in Notices
  BY DEF Notices
<1>2. inbox[e] \in [Kinds -> Notices]
  OBVIOUS
<1>3. [inbox[e] EXCEPT ![k] = "unread"] \in [Kinds -> Notices]
  BY <1>1, <1>2
<1> QED BY <1>3

LEMMA InterruptedType == RecordsTypeOK => Interrupted \subseteq Events
<1> SUFFICES ASSUME RecordsTypeOK, NEW t \in Tasks, tasks[t].at \in {"notifyAlert", "notifyLow"}
             PROVE  tasks[t].id \in Events
  BY DEF Interrupted
<1> QED BY TaskTypes

LEMMA RecordsTypeStep == RecordsTypeOK /\ [RecordsNext]_recordVars => RecordsTypeOK'
<1> SUFFICES ASSUME RecordsTypeOK, [RecordsNext]_recordVars PROVE RecordsTypeOK'
  OBVIOUS
<1> USE RequestTypes DEF RecordsTypeOK, Do, Starts
<1>1. CASE PatrolRequest \/ AlarmFrame \/ EventRequest
  <2>1. CASE PatrolRequest
    BY <2>1 DEF PatrolRequest, AskPatrol, AssertPatrol, CheckLog
  <2>2. CASE AlarmFrame
    BY <2>2 DEF AlarmFrame, ReceiveAlarm
  <2>3. CASE EventRequest
    BY <2>3 DEF EventRequest, ResolveRobot
  <2> QED BY <1>1, <2>1, <2>2, <2>3
<1>2. ASSUME NEW t \in Tasks, NEW p \in Patrols, CreatePatrol(t, p) PROVE RecordsTypeOK'
  BY <1>2 DEF CreatePatrol, Statuses
<1>3. ASSUME NEW t \in Tasks, WritePatrol(t) PROVE RecordsTypeOK'
  <2>1. tasks[t].id \in Patrols /\ tasks[t].what \in Statuses \cup {"deleted"}
    BY <1>3, TaskTypes DEF WritePatrol
  <2>2. patrols' \in [Patrols -> Statuses \cup {"unborn", "deleted"}]
    BY <1>3, <2>1 DEF WritePatrol
  <2>3. logs' \in [Patrols \cup Foreign -> 0..MaxLogs]
    <3>1. logs' = logs \/ logs' = [logs EXCEPT ![tasks[t].id] = 0]
      BY <1>3 DEF WritePatrol
    <3> QED BY <2>1, <3>1, LogAdded
  <2> QED BY <1>3, <2>2, <2>3 DEF WritePatrol
<1>4. ASSUME NEW t \in Tasks, AppendLog(t) PROVE RecordsTypeOK'
  <2>1. logs' \in [Patrols \cup Foreign -> 0..MaxLogs]
    <3>1. tasks[t].id \in Patrols
      BY <1>4, TaskTypes DEF AppendLog
    <3>2. \/ logs' = logs
          \/ logs[tasks[t].id] < MaxLogs /\ logs' = [logs EXCEPT ![tasks[t].id] = logs[tasks[t].id] + 1]
      BY <1>4 DEF AppendLog
    <3> QED BY <3>1, <3>2, LogAdded
  <2> QED BY <1>4, <2>1 DEF AppendLog
<1>5. ASSUME NEW t \in Tasks, StoreAlarm(t) PROVE RecordsTypeOK'
  BY <1>5, TaskTypes, AfterAlert DEF StoreAlarm
<1>6. ASSUME NEW t \in Tasks, ShowAlarm(t) \/ ShowUnsaved(t) PROVE RecordsTypeOK'
  BY <1>6, TaskTypes DEF ShowAlarm, ShowUnsaved, Broadcast
<1>7. ASSUME NEW t \in Tasks, NEW e \in Events, CreateEvent(t, e) \/ CreateEventUnanswered(t, e)
      PROVE  RecordsTypeOK'
  <2>1. tasks[t].what \in Classes
    BY <1>7, TaskTypes DEF CreateEvent, CreateEventUnanswered
  <2>2. FanOut(e, tasks[t].what) \in TaskType
    BY <2>1, FanOutType
  <2>3. tasks' \in [Tasks -> TaskType]
    BY <1>7, <2>2 DEF CreateEvent, CreateEventUnanswered
  <2> QED BY <1>7, <2>1, <2>3 DEF CreateEvent, CreateEventUnanswered
<1>8. ASSUME NEW t \in Tasks, NotifyAlert(t) \/ NotifyLow(t) \/ FailNotify(t) PROVE RecordsTypeOK'
  <2>1. tasks[t].id \in Events
    BY <1>8, TaskTypes DEF NotifyAlert, NotifyLow, FailNotify
  <2>2. tasks' \in [Tasks -> TaskType]
    BY <1>8, AfterAlert DEF NotifyAlert, NotifyLow, FailNotify
  <2>3. inbox' \in [Events -> [Kinds -> Notices]]
    <3>1. "alert" \in Kinds /\ "lowBattery" \in Kinds
      BY DEF Kinds
    <3>2. inbox' = inbox \/ \E k \in Kinds : inbox' = [inbox EXCEPT ![tasks[t].id][k] = "unread"]
      BY <1>8, <3>1 DEF NotifyAlert, NotifyLow, FailNotify, Notice
    <3>3. CASE inbox' = inbox
      BY <3>3
    <3>4. ASSUME NEW k \in Kinds, inbox' = [inbox EXCEPT ![tasks[t].id][k] = "unread"]
          PROVE  inbox' \in [Events -> [Kinds -> Notices]]
      BY <2>1, <3>4, NoticeAdded, Zenon
    <3> QED BY <3>2, <3>3, <3>4
  <2> QED BY <1>8, <2>1, <2>2, <2>3 DEF NotifyAlert, NotifyLow, FailNotify
<1>9. ASSUME NEW t \in Tasks, DeleteEvents(t) PROVE RecordsTypeOK'
  <2>1. events' \in [Events -> {"unborn", "row", "deleted"}]
    BY <1>9, DroppedType DEF DeleteEvents
  <2> QED BY <1>9, <2>1 DEF DeleteEvents
<1>10. ASSUME NEW t \in Tasks, FailTask(t) PROVE RecordsTypeOK'
  BY <1>10 DEF FailTask
<1>11. CASE CleanupOldEvents
  <2>1. events' \in [Events -> {"unborn", "row", "deleted"}]
    BY <1>11, DroppedType DEF CleanupOldEvents
  <2> QED BY <1>11, <2>1 DEF CleanupOldEvents
<1>12. CASE OneNotice \/ AllNotices
  <2>1. inbox' \in [Events -> [Kinds -> Notices]]
    BY <1>12, NoticesType
  <2> QED BY <1>12, <2>1 DEF OneNotice, AllNotices
<1>13. CASE RecordsRemove
  <2>1. events' \in [Events -> {"unborn", "row", "deleted"}]
    BY <1>13, DroppedType DEF RecordsRemove
  <2>2. logs' \in [Patrols \cup Foreign -> 0..MaxLogs]
    BY <1>13, NoLog DEF RecordsRemove
  <2> QED BY <1>13, <2>1, <2>2 DEF RecordsRemove
<1>14. CASE RecordsCrash
  <2>1. broken' \in SUBSET Events
    BY <1>14, InterruptedType DEF RecordsCrash
  <2> QED BY <1>14, <2>1 DEF RecordsCrash
<1>15. CASE UNCHANGED recordVars
  BY <1>15 DEF recordVars
<1>16. CASE CleanupAcknowledgedAlerts \/ \E a \in Alarms : AcknowledgeAlarm(a)
  BY <1>16 DEF CleanupAcknowledgedAlerts, AcknowledgeAlarm
<1> QED BY <1>1, <1>2, <1>3, <1>4, <1>5, <1>6, <1>7, <1>8, <1>9, <1>10, <1>11, <1>12, <1>13,
        <1>14, <1>15, <1>16 DEF RecordsNext, RecordWork

-----------------------------------------------------------------------------
(* Patrol logs. *)

PatrolsOfRobot == known \/ \A p \in Patrols : ~Row(patrols[p])

LEMMA LogsStep ==
  RecordsTypeOK /\ PatrolsOfRobot /\ LogsOfOwnPatrols /\ [RecordsNext]_recordVars
    => (PatrolsOfRobot /\ LogsOfOwnPatrols)'
<1> SUFFICES ASSUME RecordsTypeOK, PatrolsOfRobot, LogsOfOwnPatrols, [RecordsNext]_recordVars
             PROVE  (PatrolsOfRobot /\ LogsOfOwnPatrols)'
  OBVIOUS
<1>a. /\ logs \in [Patrols \cup Foreign -> 0..MaxLogs] /\ known \in BOOLEAN
      /\ patrols \in [Patrols -> Statuses \cup {"unborn", "deleted"}]
  BY DEF RecordsTypeOK
<1>b. Patrols \cap Foreign = {}
  BY RecordsAssumption
<1> USE DEF PatrolsOfRobot, LogsOfOwnPatrols, Row
<1>1. CASE UNCHANGED <<known, patrols, logs>>
  BY <1>1
<1>2. ASSUME NEW t \in Tasks, NEW p \in Patrols, CreatePatrol(t, p)
      PROVE  (PatrolsOfRobot /\ LogsOfOwnPatrols)'
  BY <1>2, <1>a DEF CreatePatrol
<1>3. ASSUME NEW t \in Tasks, WritePatrol(t) PROVE (PatrolsOfRobot /\ LogsOfOwnPatrols)'
  <2>1. tasks[t].id \in Patrols /\ tasks[t].what \in {"PENDING", "moved on", "deleted"}
    BY <1>3, TaskTypes DEF WritePatrol, Statuses
  <2>2. CASE ~Row(patrols[tasks[t].id])
    BY <1>3, <2>2 DEF WritePatrol
  <2>3. CASE Row(patrols[tasks[t].id])
    <3>1. known /\ known'
      BY <1>3, <2>1, <2>3 DEF WritePatrol
    <3>2. /\ patrols' = [patrols EXCEPT ![tasks[t].id] = tasks[t].what]
          /\ logs' = IF tasks[t].what = "deleted" THEN [logs EXCEPT ![tasks[t].id] = 0] ELSE logs
      BY <1>3, <2>3 DEF WritePatrol
    <3>3. \A p \in Foreign : logs'[p] = 0
      BY <1>a, <1>b, <2>1, <3>2
    <3>4. ASSUME NEW p \in Patrols, logs'[p] > 0 PROVE Row(patrols'[p])
      <4>1. CASE p = tasks[t].id
        <5>1. tasks[t].what # "deleted"
          <6>1. tasks[t].what = "deleted" => logs'[p] = 0
            BY <1>a, <2>1, <3>2, <4>1
          <6> QED BY <3>4, <6>1
        <5>2. patrols'[p] = tasks[t].what
          BY <1>a, <2>1, <3>2, <4>1
        <5> QED BY <2>1, <5>1, <5>2
      <4>2. CASE p # tasks[t].id
        BY <1>a, <2>1, <3>2, <3>4, <4>2
      <4> QED BY <4>1, <4>2
    <3> QED BY <3>1, <3>3, <3>4
  <2> QED BY <2>2, <2>3
<1>4. ASSUME NEW t \in Tasks, AppendLog(t) PROVE (PatrolsOfRobot /\ LogsOfOwnPatrols)'
  <2>1. tasks[t].id \in Patrols
    BY <1>4, TaskTypes DEF AppendLog
  <2>2. \A q \in Patrols \cup Foreign : q # tasks[t].id => logs'[q] = logs[q]
    BY <1>4, <1>a, <2>1 DEF AppendLog
  <2>3. logs' = logs \/ Row(patrols[tasks[t].id])
    BY <1>4, <1>b, <2>1 DEF AppendLog
  <2> QED BY <1>4, <1>a, <1>b, <2>1, <2>2, <2>3 DEF AppendLog
<1>5. CASE RecordsRemove
  BY <1>5, <1>a, <1>b DEF RecordsRemove
<1> QED BY <1>1, <1>2, <1>3, <1>4, <1>5 DEF RecordsNext, RecordWork, PatrolRequest, AlarmFrame,
        EventRequest, AskPatrol, AssertPatrol, CheckLog, ReceiveAlarm, ResolveRobot, StoreAlarm,
        ShowAlarm, ShowUnsaved, Broadcast, CreateEvent, CreateEventUnanswered, NotifyAlert, NotifyLow,
        FailNotify, DeleteEvents, FailTask, CleanupOldEvents, CleanupAcknowledgedAlerts,
        AcknowledgeAlarm, OneNotice, AllNotices, RecordsCrash, recordVars

-----------------------------------------------------------------------------
(* Alerts. *)

Holds(t, a) == tasks[t].at \in {"alarm", "alarmStored"} /\ tasks[t].id = a

Shown(a) ==
  /\ shown[a] = "not yet" => \E t \in Tasks : Holds(t, a)
  /\ shown[a] = "saved" /\ known => a \in StoredOrSeen

LEMMA ShownAll == AlarmsShown <=> \A a \in Alarms : Shown(a)
BY DEF AlarmsShown, Shown, Holds, StoredOrSeen

\* The handler t moves on, and nothing becomes of the alert a.
LEMMA OtherAlarm ==
  ASSUME NEW t \in Tasks, NEW a \in Alarms, Shown(a),
         \A u \in Tasks : u # t => tasks'[u] = tasks[u],
         shown'[a] = shown[a], Holds(t, a) => Holds(t, a)',
         known' => known, StoredOrSeen \subseteq StoredOrSeen'
  PROVE  Shown(a)'
<1>1. ASSUME shown'[a] = "not yet" PROVE \E u \in Tasks : Holds(u, a)'
  <2>1. PICK u \in Tasks : Holds(u, a)
    BY <1>1 DEF Shown
  <2>2. CASE u = t
    BY <2>1, <2>2
  <2>3. CASE u # t
    BY <2>1, <2>3 DEF Holds
  <2> QED BY <2>2, <2>3
<1>2. shown'[a] = "saved" /\ known' => a \in StoredOrSeen'
  BY DEF Shown
<1> QED BY <1>1, <1>2 DEF Shown

LEMMA OtherStored ==
  ASSUME NEW t \in Tasks, StoredTasks,
         \A u \in Tasks : u # t => tasks'[u] = tasks[u],
         known' => known, StoredOrSeen \subseteq StoredOrSeen',
         tasks'[t].at = "alarmStored" /\ known' => tasks'[t].id \in StoredOrSeen'
  PROVE  StoredTasks'
BY DEF StoredTasks

\* A handler that has no alert takes none.
LEMMA NoAlarm ==
  ASSUME StoredTasks, AlarmsShown, NEW t \in Tasks, UNCHANGED <<known, stored, seen, shown>>,
         tasks[t].at \notin {"alarm", "alarmStored"}, tasks'[t].at \notin {"alarm", "alarmStored"},
         \A u \in Tasks : u # t => tasks'[u] = tasks[u]
  PROVE  (StoredTasks /\ AlarmsShown)'
<1>1. StoredTasks'
  BY OtherStored DEF StoredOrSeen
<1>2. ASSUME NEW a \in Alarms PROVE Shown(a)'
  <2>1. Shown(a) /\ ~Holds(t, a)
    BY ShownAll DEF Holds
  <2> QED BY <2>1, OtherAlarm DEF StoredOrSeen
<1>3. AlarmsShown'
  BY <1>2, ShownAll DEF AlarmsShown, Shown, Holds, StoredOrSeen
<1> QED BY <1>1, <1>3

LEMMA AlarmsStep ==
  RecordsTypeOK /\ StoredTasks /\ AlarmsShown /\ [RecordsNext]_recordVars
    => (StoredTasks /\ AlarmsShown)'
<1> SUFFICES ASSUME RecordsTypeOK, StoredTasks, AlarmsShown, [RecordsNext]_recordVars
             PROVE  (StoredTasks /\ AlarmsShown)'
  OBVIOUS
<1>a. /\ known \in BOOLEAN /\ stored \in SUBSET Alarms
      /\ shown \in [Alarms -> {"unsent", "not yet", "saved", "unsaved", "died"}]
      /\ tasks \in [Tasks -> TaskType]
  BY DEF RecordsTypeOK
<1>b. \A a \in Alarms : Shown(a)
  BY ShownAll
<1>2. CASE UNCHANGED <<known, stored, seen, shown, tasks>>
  BY <1>2 DEF StoredTasks, AlarmsShown, StoredOrSeen
<1>3. CASE PatrolRequest \/ EventRequest
  <2>1. PICK t \in Tasks : \E task : /\ tasks[t] = NoTask /\ tasks' = [tasks EXCEPT ![t] = task]
                                 /\ task.at \notin {"alarm", "alarmStored"}
                                 /\ UNCHANGED <<known, stored, seen, shown>>
    BY <1>3 DEF PatrolRequest, EventRequest, AskPatrol, AssertPatrol, CheckLog, ResolveRobot, Starts,
                Do, Task
  <2>2. tasks[t].at \notin {"alarm", "alarmStored"}
    BY <2>1, TaskFields
  <2>3. tasks'[t].at \notin {"alarm", "alarmStored"} /\ \A u \in Tasks : u # t => tasks'[u] = tasks[u]
    BY <2>1, <1>a
  <2> QED BY <2>1, <2>2, <2>3, NoAlarm
<1>4. ASSUME NEW t \in Tasks, NEW a \in Alarms, ReceiveAlarm(t, a) PROVE (StoredTasks /\ AlarmsShown)'
  <2>1. /\ tasks[t] = NoTask /\ tasks'[t] = Task("alarm", a, Nothing)
        /\ \A u \in Tasks : u # t => tasks'[u] = tasks[u]
        /\ UNCHANGED <<known, stored, seen>>
    BY <1>4, <1>a DEF ReceiveAlarm, Starts, Do
  <2>2. \A b \in Alarms : b # a => shown'[b] = shown[b]
    BY <1>4, <1>a DEF ReceiveAlarm
  <2>3. shown'[a] = "not yet"
    BY <1>4, <1>a DEF ReceiveAlarm
  <2>4. tasks[t].at = "idle" /\ tasks'[t].at = "alarm" /\ tasks'[t].id = a
    BY <2>1, TaskFields
  <2>5. StoredTasks'
    BY <2>1, <2>4, OtherStored DEF StoredOrSeen
  <2>6. ASSUME NEW b \in Alarms PROVE Shown(b)'
    <3>1. CASE b = a
      BY <2>3, <2>4, <3>1 DEF Shown, Holds
    <3>2. CASE b # a
      <4>1. ~Holds(t, b)
        BY <2>4 DEF Holds
      <4> QED BY <1>b, <2>1, <2>2, <3>2, <4>1, OtherAlarm DEF StoredOrSeen
    <3> QED BY <3>1, <3>2
  <2> QED BY <2>5, <2>6 DEF AlarmsShown, Shown, Holds, StoredOrSeen
<1>5. ASSUME NEW t \in Tasks, StoreAlarm(t) PROVE (StoredTasks /\ AlarmsShown)'
  <2>1. /\ tasks'[t] = Task("alarmStored", tasks[t].id, Nothing) /\ tasks[t].at = "alarm"
        /\ \A u \in Tasks : u # t => tasks'[u] = tasks[u]
        /\ stored' = stored \cup {tasks[t].id} /\ UNCHANGED <<known, seen, shown>>
    BY <1>5, <1>a DEF StoreAlarm, Do
  <2>2. tasks'[t].at = "alarmStored" /\ tasks'[t].id = tasks[t].id
    BY <2>1, TaskFields
  <2>3. StoredOrSeen \subseteq StoredOrSeen' /\ tasks'[t].id \in StoredOrSeen'
    BY <2>1, <2>2 DEF StoredOrSeen
  <2>4. StoredTasks'
    BY <2>1, <2>3, OtherStored DEF StoredOrSeen
  <2>5. ASSUME NEW b \in Alarms PROVE Shown(b)'
    <3>1. Holds(t, b) => Holds(t, b)'
      BY <2>2 DEF Holds
    <3> QED BY <1>b, <2>1, <2>3, <3>1, OtherAlarm DEF StoredOrSeen
  <2> QED BY <2>4, <2>5 DEF AlarmsShown, Shown, Holds, StoredOrSeen
<1>6. ASSUME NEW t \in Tasks, ShowAlarm(t) \/ ShowUnsaved(t) PROVE (StoredTasks /\ AlarmsShown)'
  <2>1. tasks[t].id \in Alarms
    BY <1>6, TaskTypes DEF ShowAlarm, ShowUnsaved
  <2>2. /\ tasks'[t] = NoTask /\ \A u \in Tasks : u # t => tasks'[u] = tasks[u]
        /\ UNCHANGED <<known, stored, seen>>
    BY <1>6, <1>a DEF ShowAlarm, ShowUnsaved, Broadcast, Do
  <2>3. /\ shown'[tasks[t].id] \in {"saved", "unsaved"}
        /\ shown'[tasks[t].id] = "saved" => tasks[t].at = "alarmStored"
        /\ \A a \in Alarms : a # tasks[t].id => shown'[a] = shown[a]
    BY <1>6, <1>a, <2>1 DEF ShowAlarm, ShowUnsaved, Broadcast
  <2>4. tasks'[t].at = "idle"
    BY <2>2, TaskFields
  <2>5. StoredTasks'
    BY <2>2, <2>4, OtherStored DEF StoredOrSeen
  <2>6. ASSUME NEW b \in Alarms PROVE Shown(b)'
    <3>1. CASE b = tasks[t].id
      BY <2>2, <2>3, <3>1 DEF Shown, StoredTasks, StoredOrSeen
    <3>2. CASE b # tasks[t].id
      <4>1. ~Holds(t, b)
        BY <3>2 DEF Holds
      <4> QED BY <1>b, <2>2, <2>3, <3>2, <4>1, OtherAlarm DEF StoredOrSeen
    <3> QED BY <3>1, <3>2
  <2> QED BY <2>5, <2>6 DEF AlarmsShown, Shown, Holds, StoredOrSeen
<1>7. ASSUME NEW t \in Tasks,
             \/ \E p \in Patrols : CreatePatrol(t, p)
             \/ WritePatrol(t) \/ AppendLog(t) \/ NotifyLow(t) \/ FailNotify(t)
             \/ DeleteEvents(t) \/ FailTask(t)
      PROVE  (StoredTasks /\ AlarmsShown)'
  <2>1. /\ tasks[t].at \notin {"alarm", "alarmStored"} /\ UNCHANGED <<known, stored, seen, shown>>
        /\ tasks' = [tasks EXCEPT ![t] = NoTask]
    BY <1>7 DEF CreatePatrol, WritePatrol, AppendLog, NotifyLow, FailNotify, DeleteEvents, FailTask, Do
  <2>2. tasks'[t].at = "idle" /\ \A u \in Tasks : u # t => tasks'[u] = tasks[u]
    BY <1>a, <2>1, TaskFields
  <2> QED BY <2>1, <2>2, NoAlarm
<1>8. ASSUME NEW t \in Tasks, NotifyAlert(t) PROVE (StoredTasks /\ AlarmsShown)'
  <2>1. /\ tasks[t].at = "notifyAlert" /\ UNCHANGED <<known, stored, seen, shown>>
        /\ tasks'[t] \in {NoTask, Task("notifyLow", tasks[t].id, tasks[t].what)}
        /\ \A u \in Tasks : u # t => tasks'[u] = tasks[u]
    BY <1>8, <1>a DEF NotifyAlert, Do
  <2>2. tasks'[t].at \in {"idle", "notifyLow"}
    BY <2>1, TaskFields
  <2> QED BY <2>1, <2>2, NoAlarm
<1>9. ASSUME NEW t \in Tasks, NEW e \in Events, CreateEvent(t, e) \/ CreateEventUnanswered(t, e)
      PROVE  (StoredTasks /\ AlarmsShown)'
  <2>1. /\ tasks[t].at = "createEvent" /\ UNCHANGED <<known, stored, seen, shown>>
        /\ tasks'[t] \in {NoTask, FanOut(e, tasks[t].what)}
        /\ \A u \in Tasks : u # t => tasks'[u] = tasks[u]
    BY <1>9, <1>a DEF CreateEvent, CreateEventUnanswered, Do
  <2>2. FanOut(e, tasks[t].what) \in
          {NoTask, Task("notifyAlert", e, tasks[t].what), Task("notifyLow", e, tasks[t].what)}
    BY DEF FanOut
  <2>3. tasks'[t].at \in {"idle", "notifyAlert", "notifyLow"}
    BY <2>1, <2>2, TaskFields
  <2> QED BY <2>1, <2>3, NoAlarm
<1>10. CASE CleanupOldEvents \/ OneNotice \/ AllNotices
  BY <1>2, <1>10 DEF CleanupOldEvents, OneNotice, AllNotices
<1>11. CASE RecordsRemove
  BY <1>11 DEF RecordsRemove, StoredTasks, AlarmsShown, StoredOrSeen
<1>12. CASE RecordsCrash
  <2>1. \A t \in Tasks : tasks'[t].at = "idle"
    BY <1>12, TaskFields DEF RecordsCrash
  <2>2. \A a \in Alarms : shown'[a] # "not yet" /\ (shown'[a] = "saved" => shown[a] = "saved")
    BY <1>12, <1>a DEF RecordsCrash
  <2> QED BY <1>12, <2>1, <2>2 DEF RecordsCrash, StoredTasks, AlarmsShown, StoredOrSeen
<1>13. CASE CleanupAcknowledgedAlerts \/ \E a \in Alarms : AcknowledgeAlarm(a)
  <2>1. StoredOrSeen \subseteq StoredOrSeen' /\ UNCHANGED <<known, shown, tasks>>
    BY <1>13 DEF CleanupAcknowledgedAlerts, AcknowledgeAlarm, StoredOrSeen
  <2> QED BY <2>1 DEF StoredTasks, AlarmsShown, StoredOrSeen
<1> QED BY <1>2, <1>3, <1>4, <1>5, <1>6, <1>7, <1>8, <1>9, <1>10, <1>11, <1>12, <1>13
        DEF RecordsNext, RecordWork, AlarmFrame, recordVars

-----------------------------------------------------------------------------
(* Notices. *)

Notifies(t, e) == tasks[t].at \in {"notifyAlert", "notifyLow"} /\ tasks[t].id = e

Matched(e) ==
  IF classes[e] = Nothing THEN Made(e) = {}
  ELSE /\ Made(e) \subseteq Called(classes[e])
       /\ "lowBattery" \in Made(e) => Called(classes[e]) \ Made(e) = {}
       /\ Made(e) = Called(classes[e]) \/ (\E t \in Tasks : Notifies(t, e)) \/ e \in broken

LEMMA MatchedAll == NoticesMatchEvents <=> \A e \in Events : Matched(e)
BY DEF NoticesMatchEvents, Matched, Pending, Notifies

LEMMA CalledKinds ==
  ASSUME NEW class \in Classes
  PROVE  /\ Called(class) \subseteq {"alert", "lowBattery"}
         /\ "alert" \in Called(class) <=> Notable(class)
         /\ "lowBattery" \in Called(class) <=> class.low
BY DEF Called, Notable, Classes

LEMMA MadeSame ==
  ASSUME NEW e \in Events, \A k \in Kinds : inbox'[e][k] = "none" <=> inbox[e][k] = "none"
  PROVE  Made(e)' = Made(e)
BY DEF Made

LEMMA MadeOne ==
  ASSUME inbox \in [Events -> [Kinds -> Notices]], NEW e \in Events, NEW k \in Kinds, Notice(e, k)
  PROVE  /\ Made(e)' = Made(e) \cup {k}
         /\ \A d \in Events : d # e => Made(d)' = Made(d)
<1>1. inbox' = [inbox EXCEPT ![e] = [inbox[e] EXCEPT ![k] = "unread"]]
  BY DEF Notice
<1>2. inbox'[e] = [inbox[e] EXCEPT ![k] = "unread"] /\ \A d \in Events : d # e => inbox'[d] = inbox[d]
  BY <1>1
<1>3. inbox'[e][k] = "unread" /\ \A j \in Kinds : j # k => inbox'[e][j] = inbox[e][j]
  BY <1>2
<1>4. Made(e)' = Made(e) \cup {k}
  BY <1>3 DEF Made
<1>5. \A d \in Events : d # e => Made(d)' = Made(d)
  BY <1>2 DEF Made
<1> QED BY <1>4, <1>5

\* The handler t moves on; the event e is as it was, unless its fan-out ends.
LEMMA OtherNotices ==
  ASSUME NEW t \in Tasks, NEW e \in Events, Matched(e), Made(e)' = Made(e), classes'[e] = classes[e],
         broken \subseteq broken', \A u \in Tasks : u # t => tasks'[u] = tasks[u],
         Notifies(t, e) => Notifies(t, e)' \/ e \in broken'
  PROVE  Matched(e)'
<1>1. CASE classes[e] = Nothing
  BY <1>1 DEF Matched
<1>2. CASE classes[e] # Nothing
  <2>1. ASSUME NEW u \in Tasks, Notifies(u, e) PROVE e \in broken' \/ \E v \in Tasks : Notifies(v, e)'
    <3>1. CASE u = t
      BY <2>1, <3>1
    <3>2. CASE u # t
      BY <2>1, <3>2 DEF Notifies
    <3> QED BY <3>1, <3>2
  <2>2. Called(classes[e])' = Called(classes[e])
    BY DEF Called
  <2>3. (Made(e) = Called(classes[e]))' \/ (\E v \in Tasks : Notifies(v, e)') \/ e \in broken'
    BY <1>2, <2>1, <2>2 DEF Matched
  <2> QED BY <1>2, <2>2, <2>3 DEF Matched
<1> QED BY <1>1, <1>2

LEMMA OtherFanOuts ==
  ASSUME RecordsTypeOK, FanOuts, NEW t \in Tasks,
         \A u \in Tasks : u # t => tasks'[u] = tasks[u],
         \A e \in Events : classes[e] # Nothing => classes'[e] = classes[e],
         \A e \in Events : Made(e) \subseteq Made(e)',
         FanOutOf(t)'
  PROVE  FanOuts'
<1> SUFFICES ASSUME NEW u \in Tasks, u # t PROVE FanOutOf(u)'
  BY DEF FanOuts
<1>1. tasks'[u] = tasks[u] /\ FanOutOf(u)
  BY DEF FanOuts
<1>2. CASE tasks[u].at \in {"notifyAlert", "notifyLow"}
  <2>1. tasks[u].id \in Events /\ tasks[u].what \in Classes
    BY <1>2, TaskTypes
  <2>2. classes'[tasks[u].id] = tasks[u].what
    BY <1>1, <1>2, <2>1, RecordsAssumption DEF FanOutOf
  <2>3. Called(tasks[u].what)' = Called(tasks[u].what)
    BY <1>1 DEF Called
  <2> QED BY <1>1, <1>2, <2>1, <2>2, <2>3 DEF FanOutOf
<1>3. CASE tasks[u].at \notin {"notifyAlert", "notifyLow"}
  BY <1>1, <1>3 DEF FanOutOf
<1> QED BY <1>2, <1>3

NoticesInv == NewEvents /\ FanOuts /\ NoticesMatchEvents

\* A handler that notifies of nothing.
LEMMA NoNotice ==
  ASSUME RecordsTypeOK, NoticesInv, NEW t \in Tasks, UNCHANGED <<classes, inbox, broken>>,
         \A e \in Events : events'[e] = "unborn" => events[e] = "unborn",
         tasks[t].at \notin {"notifyAlert", "notifyLow"},
         tasks'[t].at \notin {"notifyAlert", "notifyLow"},
         \A u \in Tasks : u # t => tasks'[u] = tasks[u]
  PROVE  NoticesInv'
<1>1. \A e \in Events : Made(e)' = Made(e)
  BY DEF Made
<1>2. NewEvents'
  BY DEF NoticesInv, NewEvents
<1>3. FanOutOf(t)'
  BY DEF FanOutOf
<1>4. FanOuts'
  BY <1>1, <1>3, OtherFanOuts DEF NoticesInv
<1>5. ASSUME NEW e \in Events PROVE Matched(e)'
  <2>1. Matched(e) /\ ~Notifies(t, e)
    BY MatchedAll DEF NoticesInv, Notifies
  <2> QED BY <1>1, <2>1, OtherNotices
<1>6. NoticesMatchEvents'
  BY <1>5 DEF NoticesMatchEvents, Matched, Pending, Notifies
<1> QED BY <1>2, <1>4, <1>6 DEF NoticesInv

LEMMA NoticesStep == RecordsTypeOK /\ NoticesInv /\ [RecordsNext]_recordVars => NoticesInv'
<1> SUFFICES ASSUME RecordsTypeOK, NoticesInv, [RecordsNext]_recordVars PROVE NoticesInv'
  OBVIOUS
<1>a. /\ tasks \in [Tasks -> TaskType] /\ classes \in [Events -> Classes \cup {Nothing}]
      /\ events \in [Events -> {"unborn", "row", "deleted"}]
      /\ inbox \in [Events -> [Kinds -> Notices]]
  BY DEF RecordsTypeOK
<1>b. NewEvents /\ FanOuts /\ \A e \in Events : Matched(e)
  BY MatchedAll DEF NoticesInv
<1>c. ASSUME NewEvents', FanOuts', \A e \in Events : Matched(e)' PROVE NoticesInv'
  BY <1>c DEF NoticesInv, NoticesMatchEvents, Matched, Pending, Notifies
<1>1. ASSUME UNCHANGED <<classes, broken, tasks>>,
             \A e \in Events : Made(e)' = Made(e),
             \A e \in Events : events'[e] = "unborn" => events[e] = "unborn"
      PROVE  NoticesInv'
  <2>1. NewEvents'
    BY <1>1, <1>b DEF NewEvents
  <2>2. FanOuts'
    <3> SUFFICES ASSUME NEW t \in Tasks PROVE FanOutOf(t)'
      BY DEF FanOuts
    <3>1. FanOutOf(t)
      BY <1>b DEF FanOuts
    <3>2. tasks[t].at = "notifyLow" => tasks[t].id \in Events
      BY TaskTypes
    <3>3. Called(tasks[t].what)' = Called(tasks[t].what)
      BY <1>1 DEF Called
    <3> QED BY <1>1, <3>1, <3>2, <3>3 DEF FanOutOf
  <2>3. ASSUME NEW e \in Events PROVE Matched(e)'
    <3>1. Matched(e) /\ Called(classes[e])' = Called(classes[e])
      BY <1>1, <1>b DEF Called
    <3> QED BY <1>1, <3>1 DEF Matched, Notifies
  <2> QED BY <1>c, <2>1, <2>2, <2>3
<1>2. CASE UNCHANGED recordVars
  BY <1>1, <1>2 DEF recordVars, Made
<1>3. CASE PatrolRequest \/ AlarmFrame \/ EventRequest
  <2>1. PICK t \in Tasks : \E task : /\ tasks[t] = NoTask /\ tasks' = [tasks EXCEPT ![t] = task]
                                 /\ task.at \notin {"notifyAlert", "notifyLow"}
                                 /\ UNCHANGED <<classes, inbox, broken, events>>
    BY <1>3 DEF PatrolRequest, AlarmFrame, EventRequest, AskPatrol, AssertPatrol, CheckLog,
                ReceiveAlarm, ResolveRobot, Starts, Do, Task
  <2>2. tasks[t].at \notin {"notifyAlert", "notifyLow"}
    BY <2>1, TaskFields
  <2>3. tasks'[t].at \notin {"notifyAlert", "notifyLow"} /\ \A u \in Tasks : u # t => tasks'[u] = tasks[u]
    BY <2>1, <1>a
  <2> QED BY <2>1, <2>2, <2>3, NoNotice
<1>4. ASSUME NEW t \in Tasks,
             \/ \E p \in Patrols : CreatePatrol(t, p)
             \/ WritePatrol(t) \/ AppendLog(t) \/ ShowAlarm(t) \/ ShowUnsaved(t) \/ FailTask(t)
      PROVE  NoticesInv'
  <2>1. /\ tasks[t].at \notin {"notifyAlert", "notifyLow"} /\ UNCHANGED <<classes, inbox, broken, events>>
        /\ tasks' = [tasks EXCEPT ![t] = NoTask]
    BY <1>4 DEF CreatePatrol, WritePatrol, AppendLog, ShowAlarm, ShowUnsaved, Broadcast, FailTask, Do
  <2>2. tasks'[t].at = "idle" /\ \A u \in Tasks : u # t => tasks'[u] = tasks[u]
    BY <1>a, <2>1, TaskFields
  <2> QED BY <2>1, <2>2, NoNotice
<1>5. ASSUME NEW t \in Tasks, StoreAlarm(t) PROVE NoticesInv'
  <2>1. /\ tasks[t].at = "alarm" /\ tasks'[t] = Task("alarmStored", tasks[t].id, Nothing)
        /\ \A u \in Tasks : u # t => tasks'[u] = tasks[u]
        /\ UNCHANGED <<classes, inbox, broken, events>>
    BY <1>5, <1>a DEF StoreAlarm, Do
  <2>2. tasks'[t].at = "alarmStored"
    BY <2>1, TaskFields
  <2> QED BY <2>1, <2>2, NoNotice
<1>6. ASSUME NEW t \in Tasks, DeleteEvents(t) PROVE NoticesInv'
  <2>1. /\ tasks[t].at = "deleteEvents" /\ tasks' = [tasks EXCEPT ![t] = NoTask]
        /\ UNCHANGED <<classes, inbox, broken>>
    BY <1>6 DEF DeleteEvents, Do
  <2>2. \A e \in Events : events'[e] = "unborn" => events[e] = "unborn"
    BY <1>6, <1>a, DroppedType DEF DeleteEvents
  <2>3. tasks'[t].at = "idle" /\ \A u \in Tasks : u # t => tasks'[u] = tasks[u]
    BY <1>a, <2>1, TaskFields
  <2> QED BY <2>1, <2>2, <2>3, NoNotice
\* A new event, whose fan-out begins, fails before it begins, or is not needed.
<1>7. ASSUME NEW t \in Tasks, NEW e \in Events, CreateEvent(t, e) \/ CreateEventUnanswered(t, e)
      PROVE  NoticesInv'
  <2>1. tasks[t].at = "createEvent" /\ events[e] = "unborn" /\ UNCHANGED inbox
    BY <1>7 DEF CreateEvent, CreateEventUnanswered
  <2>2. tasks[t].what \in Classes /\ tasks[t].what # Nothing
    BY <2>1, TaskTypes, RecordsAssumption
  <2>3. classes[e] = Nothing /\ Made(e) = {}
    BY <1>b, <2>1 DEF NewEvents, Matched
  <2>4. \A d \in Events : Made(d)' = Made(d)
    BY <2>1 DEF Made
  <2>5. \A u \in Tasks : u # t => tasks'[u] = tasks[u]
    BY <1>7, <1>a DEF CreateEvent, CreateEventUnanswered, Do
  <2>6. CASE ~known
    <3>1. tasks'[t] = NoTask /\ UNCHANGED <<events, classes, broken>>
      BY <1>7, <1>a, <2>6 DEF CreateEvent, CreateEventUnanswered, Do
    <3>2. tasks'[t].at = "idle"
      BY <3>1, TaskFields
    <3> QED BY <2>1, <2>5, <3>1, <3>2, NoNotice
  <2>7. CASE known
    <3>1. /\ events' = [events EXCEPT ![e] = "row"]
          /\ classes' = [classes EXCEPT ![e] = tasks[t].what]
          /\ broken \subseteq broken'
          /\ tasks'[t] = FanOut(e, tasks[t].what) \/ (tasks'[t] = NoTask /\ e \in broken')
      BY <1>7, <1>a, <2>7 DEF CreateEvent, CreateEventUnanswered, Do
    <3>2. classes'[e] = tasks[t].what /\ \A d \in Events : d # e => classes'[d] = classes[d]
      BY <1>a, <3>1
    <3>3. NewEvents'
      BY <1>a, <1>b, <3>1, <3>2 DEF NewEvents
    <3>4. \/ tasks'[t] = NoTask /\ (e \in broken' \/ Called(tasks[t].what) = {})
          \/ tasks'[t] = Task("notifyAlert", e, tasks[t].what) /\ "alert" \in Called(tasks[t].what)
          \/ /\ tasks'[t] = Task("notifyLow", e, tasks[t].what) /\ "lowBattery" \in Called(tasks[t].what)
             /\ Called(tasks[t].what) \ {"lowBattery"} = {}
      BY <2>2, <3>1, CalledKinds DEF FanOut
    <3>5. FanOutOf(t)'
      <4>1. Called(tasks[t].what)' = Called(tasks'[t].what)
        BY DEF Called
      <4>2. CASE tasks'[t] = NoTask
        BY <4>2, TaskFields DEF FanOutOf
      <4>3. CASE tasks'[t] = Task("notifyAlert", e, tasks[t].what) /\ "alert" \in Called(tasks[t].what)
        <5>1. tasks'[t].at = "notifyAlert" /\ tasks'[t].id = e /\ tasks'[t].what = tasks[t].what
          BY <4>3, TaskFields
        <5>2. "alert" \in Called(tasks[t].what)'
          BY <4>1, <4>3, <5>1
        <5> QED BY <3>2, <5>1, <5>2 DEF FanOutOf
      <4>4. CASE /\ tasks'[t] = Task("notifyLow", e, tasks[t].what) /\ "lowBattery" \in Called(tasks[t].what)
                 /\ Called(tasks[t].what) \ {"lowBattery"} = {}
        <5>1. tasks'[t].at = "notifyLow" /\ tasks'[t].id = e /\ tasks'[t].what = tasks[t].what
          BY <4>4, TaskFields
        <5>2. "lowBattery" \in Called(tasks[t].what)' /\ Called(tasks[t].what)' \ {"lowBattery"} = {}
          BY <4>1, <4>4, <5>1
        <5> QED BY <3>2, <5>1, <5>2 DEF FanOutOf
      <4> QED BY <3>4, <4>2, <4>3, <4>4
    <3>6. FanOuts'
      BY <1>b, <2>3, <2>4, <2>5, <3>2, <3>5, OtherFanOuts
    <3>7. ASSUME NEW d \in Events PROVE Matched(d)'
      <4>1. CASE d # e
        <5>1. Matched(d) /\ ~Notifies(t, d)
          BY <1>b, <2>1 DEF Notifies
        <5> QED BY <2>4, <2>5, <3>1, <3>2, <4>1, <5>1, OtherNotices
      <4>2. CASE d = e
        <5>1. Made(e)' = {} /\ classes'[e] # Nothing
          BY <2>2, <2>3, <2>4, <3>2
        <5>2. Called(classes[e])' = {} \/ e \in broken' \/ Notifies(t, e)'
          <6>1. Called(classes[e])' = Called(tasks[t].what)
            BY <3>2 DEF Called
          <6> QED BY <3>4, <6>1, TaskFields DEF Notifies
        <5> QED BY <4>2, <5>1, <5>2 DEF Matched
      <4> QED BY <4>1, <4>2
    <3> QED BY <1>c, <3>3, <3>6, <3>7
  <2> QED BY <2>6, <2>7
<1>8. ASSUME NEW t \in Tasks, NotifyAlert(t) PROVE NoticesInv'
  <2>1. /\ tasks[t].at = "notifyAlert" /\ Notice(tasks[t].id, "alert") /\ UNCHANGED <<events, classes, broken>>
        /\ tasks'[t] = IF tasks[t].what.low THEN Task("notifyLow", tasks[t].id, tasks[t].what) ELSE NoTask
        /\ \A u \in Tasks : u # t => tasks'[u] = tasks[u]
    BY <1>8, <1>a DEF NotifyAlert, Do
  <2>a. PICK e, class : e = tasks[t].id /\ class = tasks[t].what
    OBVIOUS
  <2>2. e \in Events /\ class \in Classes /\ class # Nothing
    BY <2>a, <2>1, TaskTypes, RecordsAssumption
  <2>3. classes[e] = class /\ "alert" \in Called(class) /\ Matched(e)
    BY <1>b, <2>a, <2>1, <2>2 DEF FanOuts, FanOutOf
  <2>4. Made(e)' = Made(e) \cup {"alert"} /\ \A d \in Events : d # e => Made(d)' = Made(d)
    <3>1. "alert" \in Kinds
      BY DEF Kinds
    <3> QED BY <1>a, <2>a, <2>1, <2>2, <3>1, MadeOne
  <2>5. Called(class) \subseteq {"alert", "lowBattery"} /\ ("lowBattery" \in Called(class) <=> class.low)
    BY <2>2, CalledKinds
  <2>6. FanOutOf(t)'
    <3>1. CASE class.low
      <4>1. tasks'[t].at = "notifyLow" /\ tasks'[t].id = e /\ tasks'[t].what = class
        BY <2>a, <2>1, <3>1, TaskFields
      <4>2. Called(tasks[t].what)' = Called(class)
        BY <2>a, <4>1 DEF Called
      <4>3. Made(tasks[t].id)' = Made(e)'
        BY <2>a, <4>1 DEF Made
      <4> QED BY <2>a, <2>1, <2>3, <2>4, <2>5, <3>1, <4>1, <4>2, <4>3 DEF FanOutOf
    <3>2. CASE ~class.low
      <4>1. tasks'[t].at = "idle"
        BY <2>a, <2>1, <3>2, TaskFields
      <4> QED BY <4>1 DEF FanOutOf
    <3> QED BY <3>1, <3>2
  <2>7. FanOuts'
    BY <1>b, <2>a, <2>1, <2>4, <2>6, OtherFanOuts
  <2>8. ASSUME NEW d \in Events PROVE Matched(d)'
    <3>1. CASE d # e
      <4>1. Matched(d) /\ ~Notifies(t, d)
        BY <1>b, <2>a, <3>1 DEF Notifies
      <4> QED BY <2>a, <2>1, <2>4, <3>1, <4>1, OtherNotices
    <3>2. CASE d = e
      <4>1. Called(classes[e])' = Called(class) /\ classes'[e] = class
        <5>1. classes'[e] = class
          BY <2>1, <2>3
        <5> QED BY <5>1 DEF Called
      <4>2. class.low => Notifies(t, e)'
        BY <2>a, <2>1, TaskFields DEF Notifies
      <4>3. Made(e) \subseteq Called(class)
        BY <2>2, <2>3 DEF Matched
      <4> QED BY <2>2, <2>3, <2>4, <2>5, <3>2, <4>1, <4>2, <4>3 DEF Matched
    <3> QED BY <3>1, <3>2
  <2>9. NewEvents'
    BY <1>b, <2>a, <2>1 DEF NewEvents
  <2> QED BY <1>c, <2>7, <2>8, <2>9
<1>9. ASSUME NEW t \in Tasks, NotifyLow(t) PROVE NoticesInv'
  <2>1. /\ tasks[t].at = "notifyLow" /\ Notice(tasks[t].id, "lowBattery")
        /\ UNCHANGED <<events, classes, broken>> /\ tasks'[t] = NoTask
        /\ \A u \in Tasks : u # t => tasks'[u] = tasks[u]
    BY <1>9, <1>a DEF NotifyLow, Do
  <2>a. PICK e, class : e = tasks[t].id /\ class = tasks[t].what
    OBVIOUS
  <2>2. e \in Events /\ class \in Classes /\ class # Nothing
    BY <2>a, <2>1, TaskTypes, RecordsAssumption
  <2>3. /\ classes[e] = class /\ Matched(e) /\ "lowBattery" \in Called(class)
        /\ Called(class) \ {"lowBattery"} \subseteq Made(e)
    BY <1>b, <2>a, <2>1, <2>2 DEF FanOuts, FanOutOf
  <2>4. Made(e)' = Made(e) \cup {"lowBattery"} /\ \A d \in Events : d # e => Made(d)' = Made(d)
    <3>1. "lowBattery" \in Kinds
      BY DEF Kinds
    <3> QED BY <1>a, <2>a, <2>1, <2>2, <3>1, MadeOne
  <2>5. tasks'[t].at = "idle"
    BY <2>a, <2>1, TaskFields
  <2>6. FanOuts'
    <3>1. FanOutOf(t)'
      BY <2>5 DEF FanOutOf
    <3> QED BY <1>b, <2>a, <2>1, <2>4, <3>1, OtherFanOuts
  <2>7. ASSUME NEW d \in Events PROVE Matched(d)'
    <3>1. CASE d # e
      <4>1. Matched(d) /\ ~Notifies(t, d)
        BY <1>b, <2>a, <3>1 DEF Notifies
      <4> QED BY <2>a, <2>1, <2>4, <3>1, <4>1, OtherNotices
    <3>2. CASE d = e
      <4>1. Called(classes[e])' = Called(class) /\ classes'[e] = class
        <5>1. classes'[e] = class
          BY <2>1, <2>3
        <5> QED BY <5>1 DEF Called
      <4>2. Made(e) \subseteq Called(class)
        BY <2>2, <2>3 DEF Matched
      <4>3. Made(e)' = Called(class)
        BY <2>3, <2>4, <4>2
      <4> QED BY <2>2, <3>2, <4>1, <4>3 DEF Matched
    <3> QED BY <3>1, <3>2
  <2>8. NewEvents'
    BY <1>b, <2>a, <2>1 DEF NewEvents
  <2> QED BY <1>c, <2>6, <2>7, <2>8
<1>10. ASSUME NEW t \in Tasks, FailNotify(t) PROVE NoticesInv'
  <2>1. /\ UNCHANGED <<events, classes, inbox>> /\ tasks'[t] = NoTask
        /\ \A u \in Tasks : u # t => tasks'[u] = tasks[u]
        /\ broken' = broken \cup {tasks[t].id}
    BY <1>10, <1>a DEF FailNotify, Do
  <2>2. \A d \in Events : Made(d)' = Made(d)
    BY <2>1 DEF Made
  <2>3. FanOuts'
    <3>1. FanOutOf(t)'
      BY <2>1, TaskFields DEF FanOutOf
    <3> QED BY <1>b, <2>1, <2>2, <3>1, OtherFanOuts
  <2>4. ASSUME NEW d \in Events PROVE Matched(d)'
    <3>1. Matched(d) /\ (Notifies(t, d) => d \in broken')
      BY <1>b, <2>1 DEF Notifies
    <3> QED BY <2>1, <2>2, <3>1, OtherNotices
  <2>5. NewEvents'
    BY <1>b, <2>1 DEF NewEvents
  <2> QED BY <1>c, <2>3, <2>4, <2>5
<1>11. CASE CleanupOldEvents
  <2>1. \A e \in Events : events'[e] = "unborn" => events[e] = "unborn"
    BY <1>11, <1>a, DroppedType DEF CleanupOldEvents
  <2> QED BY <1>1, <1>11, <2>1 DEF CleanupOldEvents, Made
<1>12. CASE OneNotice \/ AllNotices
  <2>1. \A e \in Events : Made(e)' = Made(e)
    BY <1>12, <1>a, NoticesType, MadeSame
  <2> QED BY <1>1, <1>12, <2>1 DEF OneNotice, AllNotices
<1>13. CASE RecordsRemove
  <2>1. \A e \in Events : events'[e] = "unborn" => events[e] = "unborn"
    BY <1>13, <1>a, DroppedType DEF RecordsRemove
  <2> QED BY <1>1, <1>13, <2>1 DEF RecordsRemove, Made
<1>14. CASE RecordsCrash
  <2>1. \A t \in Tasks : tasks'[t] = NoTask /\ tasks'[t].at = "idle"
    BY <1>14, TaskFields DEF RecordsCrash
  <2>2. UNCHANGED <<events, classes, inbox>> /\ broken' = broken \cup Interrupted
    BY <1>14 DEF RecordsCrash
  <2>3. NewEvents'
    BY <1>b, <2>2 DEF NewEvents
  <2>4. FanOuts'
    BY <2>1 DEF FanOuts, FanOutOf
  <2>5. ASSUME NEW e \in Events PROVE Matched(e)'
    <3>1. (\E t \in Tasks : Notifies(t, e)) => e \in broken'
      BY <2>2 DEF Notifies, Interrupted
    <3>2. Matched(e) /\ Made(e)' = Made(e) /\ Called(classes[e])' = Called(classes[e])
      BY <1>b, <2>2 DEF Made, Called
    <3> QED BY <2>2, <3>1, <3>2 DEF Matched
  <2> QED BY <1>c, <2>3, <2>4, <2>5
<1>15. CASE CleanupAcknowledgedAlerts \/ \E a \in Alarms : AcknowledgeAlarm(a)
  BY <1>1, <1>15 DEF CleanupAcknowledgedAlerts, AcknowledgeAlarm, Made
<1> QED BY <1>2, <1>3, <1>4, <1>5, <1>6, <1>7, <1>8, <1>9, <1>10, <1>11, <1>12, <1>13, <1>14, <1>15
        DEF RecordsNext, RecordWork

-----------------------------------------------------------------------------

RecordsInv ==
  /\ RecordsTypeOK /\ PatrolsOfRobot /\ LogsOfOwnPatrols
  /\ StoredTasks /\ AlarmsShown /\ NoticesInv

(* The inductive invariant of the rows of one robot. *)
THEOREM RecordsInvariance == RecordsSpec => []RecordsInv
<1>1. RecordsInit => RecordsInv
  <2> SUFFICES ASSUME RecordsInit PROVE RecordsInv
    OBVIOUS
  <2> USE DEF RecordsInit
  <2>1. RecordsTypeOK
    BY RequestTypes, NoLog DEF RecordsTypeOK, Notices
  <2>2. PatrolsOfRobot /\ LogsOfOwnPatrols
    BY DEF PatrolsOfRobot, LogsOfOwnPatrols
  <2>3. \A t \in Tasks : tasks[t].at = "idle"
    BY TaskFields
  <2>4. StoredTasks /\ AlarmsShown
    BY <2>3 DEF StoredTasks, AlarmsShown, StoredOrSeen
  <2>5. NewEvents /\ FanOuts
    BY <2>3 DEF NewEvents, FanOuts, FanOutOf
  <2>6. NoticesMatchEvents
    BY DEF NoticesMatchEvents, Made
  <2> QED BY <2>1, <2>2, <2>4, <2>5, <2>6 DEF RecordsInv, NoticesInv
<1>2. RecordsInv /\ [RecordsNext]_recordVars => RecordsInv'
  BY RecordsTypeStep, LogsStep, AlarmsStep, NoticesStep DEF RecordsInv
<1> QED BY <1>1, <1>2, PTL DEF RecordsSpec

(* Rows, screens, inbox and handlers keep their types. *)
THEOREM RecordsTypeCorrect == RecordsSpec => []RecordsTypeOK
BY RecordsInvariance, PTL DEF RecordsInv

(* No line of a patrol log belongs to another robot or to a removed row. *)
THEOREM LogsStayOwn == RecordsSpec => []LogsOfOwnPatrols
BY RecordsInvariance, PTL DEF RecordsInv

(* Every alert taken reaches the screens, or its handler is at work, or the *)
(* process died; and what is shown as saved keeps its row until an operator *)
(* acknowledges it or the robot is removed.                                 *)
THEOREM AlarmsStayShown == RecordsSpec => []AlarmsShown
BY RecordsInvariance, PTL DEF RecordsInv

(* The inbox holds the notices that the rules call for, and no others. *)
THEOREM NoticesStayMatched == RecordsSpec => []NoticesMatchEvents
BY RecordsInvariance, PTL DEF RecordsInv, NoticesInv
=============================================================================
