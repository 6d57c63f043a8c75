--------------------------- MODULE RobotApiProofs ---------------------------
(***************************************************************************)
(* Proofs about the robot's retained messages: RobotTopics, AlarmRules,    *)
(* and that RobotApi implements both and RobotRecords.                     *)
(***************************************************************************)
EXTENDS RobotRecordsProofs, SequenceTheorems

-----------------------------------------------------------------------------
(* Projections: a step of the whole is a step of each part. *)

LEMMA RulesStepLocal == RulesStep => UNCHANGED <<known, link>>
BY DEF RulesStep, EditStep, Deliver, JobStep, FailRead, FailEdit, Find, Create,
   Update, Edit, Remove, Read, ReadNothing, Publish

LEMMA TopicsStepLocal == TopicsStep => UNCHANGED <<known, link>>
BY DEF TopicsStep, LampRequest, CommandRequest, TopicWork, FindRobot, WriteSchedule, FailWrite,
   PublishSchedule, Ask, Refuse, Send, KeepSchedule, Pass, PassAgain, lampVars

LEMMA RecordsStepLocal == RecordsStep => UNCHANGED <<known, link>>
<1> SUFFICES ASSUME RecordsStep PROVE UNCHANGED known
  BY DEF RecordsStep
<1>1. CASE PatrolRequest \/ AlarmFrame \/ EventRequest
  BY <1>1 DEF PatrolRequest, AlarmFrame, EventRequest, AskPatrol, AssertPatrol, CheckLog,
              ReceiveAlarm, ResolveRobot
<1>2. CASE RecordWork
  BY <1>2 DEF RecordWork, CreatePatrol, WritePatrol, AppendLog, StoreAlarm, ShowAlarm,
              ShowUnsaved, Broadcast, CreateEvent, CreateEventUnanswered, NotifyAlert,
              NotifyLow, FailNotify, DeleteEvents, FailTask, CleanupOldEvents, OneNotice,
              AllNotices, AcknowledgeAlarm, CleanupAcknowledgedAlerts
<1> QED BY <1>1, <1>2 DEF RecordsStep

(* The composed system's alarm rules are AlarmRules. *)
THEOREM ApiImplementsRules == ApiSpec => Spec
<1>1. ApiInit => Init
  BY DEF ApiInit
<1>2. ApiNext => [Next]_vars
  <2>1. RulesStep => Next
    BY DEF RulesStep, Next
  <2>2. TopicsStep \/ RecordsStep => UNCHANGED vars
    BY TopicsStepLocal, RecordsStepLocal DEF TopicsStep, RecordsStep, rulesOnly, vars
  <2> QED BY <2>1, <2>2 DEF ApiNext, ConnectStep, DisconnectStep, WipeStep, CrashStep,
             RenameStep, RemoveStep, Next
<1>3. UNCHANGED apiVars => UNCHANGED vars
  BY DEF apiVars, rulesOnly, vars
<1> QED BY <1>1, <1>2, <1>3, PTL DEF ApiSpec, Spec

(* The composed system's lamp schedule and commands are RobotTopics. *)
THEOREM ApiImplementsTopics == ApiSpec => TopicsSpec
<1>1. ApiInit => TopicsInit
  BY DEF ApiInit
<1>2. ApiNext => [TopicsNext]_topicVars
  <2>1. RulesStep \/ RecordsStep => UNCHANGED topicVars
    BY RulesStepLocal, RecordsStepLocal DEF RulesStep, RecordsStep, topicsOnly, topicVars, lampVars, commandVars
  <2>2. TopicsStep => TopicsNext
    BY DEF TopicsStep, TopicsNext
  <2> QED BY <2>1, <2>2 DEF ApiNext, ConnectStep, DisconnectStep, WipeStep, CrashStep,
             RenameStep, RemoveStep, TopicsNext
<1>3. UNCHANGED apiVars => UNCHANGED topicVars
  BY DEF apiVars, topicsOnly, topicVars, lampVars, commandVars
<1> QED BY <1>1, <1>2, <1>3, PTL DEF ApiSpec, TopicsSpec

(* The composed system's patrols, alerts, events and inbox are RobotRecords. *)
THEOREM ApiImplementsRecords == ApiSpec => RecordsSpec
<1>1. ApiInit => RecordsInit
  BY DEF ApiInit
<1>2. ApiNext => [RecordsNext]_recordVars
  <2>1. RulesStep \/ TopicsStep => UNCHANGED recordVars
    BY RulesStepLocal, TopicsStepLocal DEF RulesStep, TopicsStep, recordsOnly, recordVars
  <2>2. RecordsStep => RecordsNext
    BY DEF RecordsStep, RecordsNext
  <2>3. ConnectStep \/ DisconnectStep \/ WipeStep \/ RenameStep => UNCHANGED recordVars
    BY DEF ConnectStep, DisconnectStep, WipeStep, RenameStep, TopicsConnect, TopicsDisconnect,
           Wipe, Rename, recordsOnly, recordVars
  <2> QED BY <2>1, <2>2, <2>3 DEF ApiNext, CrashStep, RemoveStep, RecordsNext
<1>3. UNCHANGED apiVars => UNCHANGED recordVars
  BY DEF apiVars, recordsOnly, recordVars
<1> QED BY <1>1, <1>2, <1>3, PTL DEF ApiSpec, RecordsSpec

-----------------------------------------------------------------------------
(* The lamp schedule and the commands. *)

LEMMA PendingPut ==
  ASSUME TopicsTypeOK, NEW p \in Puts, puts[p].at \in {"write", "publish"}
  PROVE  puts[p] \in [at : {"write", "publish"}, value : Schedules]
BY DEF TopicsTypeOK, PutStates, IdlePut

LEMMA AppendLast ==
  ASSUME NEW S, NEW q \in Seq(S), NEW e \in S
  PROVE  /\ Append(q, e) \in Seq(S) /\ Len(Append(q, e)) = Len(q) + 1
         /\ Append(q, e) # <<>>
         /\ Append(q, e)[Len(Append(q, e))] = e
OBVIOUS

LEMMA TailLast ==
  ASSUME NEW S, NEW q \in Seq(S), q # <<>>
  PROVE  /\ Head(q) \in S /\ Tail(q) \in Seq(S) /\ Len(Tail(q)) = Len(q) - 1
         /\ IF Tail(q) # <<>> THEN Tail(q)[Len(Tail(q))] = q[Len(q)] ELSE Head(q) = q[Len(q)]
<1>1. /\ Head(q) \in S /\ Tail(q) \in Seq(S) /\ Len(Tail(q)) = Len(q) - 1
      /\ \A i \in 1..Len(Tail(q)) : Tail(q)[i] = q[i + 1]
  BY HeadTailProperties
<1>2. CASE Tail(q) # <<>>
  <2>1. Len(Tail(q)) \in 1..Len(Tail(q)) /\ Len(Tail(q)) + 1 = Len(q)
    BY <1>1, <1>2, EmptySeq
  <2> QED BY <1>1, <1>2, <2>1
<1>3. CASE Tail(q) = <<>>
  <2>1. Len(Tail(q)) = 0
    BY <1>3, EmptySeq
  <2>2. Len(q) = 1
    <3>1. Len(q) \in Nat
      BY LenProperties
    <3>2. Len(Tail(q)) = Len(q) - 1
      BY HeadTailProperties
    <3> QED BY <2>1, <3>1, <3>2
  <2>3. Head(q) = q[1]
    OBVIOUS
  <2> QED BY <1>1, <1>3, <2>2, <2>3
<1> QED BY <1>2, <1>3

LEMMA DroppedLine ==
  ASSUME TopicsTypeOK, DropLine
  PROVE  /\ line' = <<>> /\ line' \in Seq(Commands)
         /\ again' \in SUBSET Commands /\ again' \cap Frames \subseteq again
         /\ passed' \in SUBSET Commands
         /\ \A c \in again' \cup passed' :
              c \in again \/ c \in passed \/ \E i \in 1..Len(line) : line[i] = c
<1>1. \A i \in 1..Len(line) : line[i] \in Commands
  BY DEF TopicsTypeOK
<1>2. PICK n \in 0..Len(line), more \in SUBSET again :
        passed' = passed \cup {line[i] : i \in 1..n} \cup more
  BY DEF DropLine
<1>3. 1..n \subseteq 1..Len(line)
  <2>1. Len(line) \in Nat
    BY DEF TopicsTypeOK
  <2> QED BY <1>2, <2>1
<1> QED BY <1>1, <1>2, <1>3 DEF DropLine, TopicsTypeOK

LEMMA TopicsTypeStep == TopicsTypeOK /\ [TopicsNext]_topicVars => TopicsTypeOK'
<1> SUFFICES ASSUME TopicsTypeOK, [TopicsNext]_topicVars PROVE TopicsTypeOK'
  OBVIOUS
<1> USE TopicsAssumption DEF TopicsTypeOK, PutStates, CommandStates, IdlePut
<1>1. CASE LampRequest
  BY <1>1 DEF LampRequest, FindRobot, PutAt, commandVars
<1>2. CASE CommandRequest
  BY <1>2 DEF CommandRequest, Ask, Answer, lampVars
<1>3. ASSUME NEW p \in Puts, WriteSchedule(p) \/ FailWrite(p) PROVE TopicsTypeOK'
  <2>1. CASE WriteSchedule(p)
    <3>1. puts[p] \in [at : {"write", "publish"}, value : Schedules]
      BY <2>1, PendingPut DEF WriteSchedule
    <3>2. [puts[p] EXCEPT !.at = "publish"] \in PutStates
      BY <3>1
    <3> QED BY <2>1, <3>1, <3>2 DEF WriteSchedule, PutAt, commandVars
  <2>2. CASE FailWrite(p)
    BY <2>2 DEF FailWrite, PutAt, commandVars
  <2> QED BY <1>3, <2>1, <2>2
<1>4. ASSUME NEW p \in Puts, PublishSchedule(p) PROVE TopicsTypeOK'
  <2>1. puts[p].value \in Schedules
    BY <1>4, PendingPut DEF PublishSchedule
  <2>2. queue' \in Seq(Schedules) /\ Len(queue') <= MaxQueue
    <3>1. CASE link = "online"
      <4>1. Append(queue, puts[p].value) \in Seq(Schedules)
            /\ Len(Append(queue, puts[p].value)) = Len(queue) + 1
        BY <2>1, AppendLast
      <4>2. queue' = Append(queue, puts[p].value) /\ Len(queue) < MaxQueue /\ Len(queue) \in Nat
        BY <1>4, <3>1 DEF PublishSchedule
      <4> QED BY <4>1, <4>2
    <3>2. CASE link # "online"
      BY <1>4, <3>2 DEF PublishSchedule
    <3> QED BY <3>1, <3>2
  <2>3. missed' \in BOOLEAN
    BY <1>4 DEF PublishSchedule
  <2> QED BY <1>4, <2>2, <2>3 DEF PublishSchedule, PutAt, commandVars
<1>5. ASSUME NEW c \in Commands, Refuse(c) \/ Send(c) \/ PassAgain(c) PROVE TopicsTypeOK'
  <2>1. CASE Refuse(c) \/ PassAgain(c)
    BY <2>1 DEF Refuse, PassAgain, Answer, lampVars
  <2>2. CASE Send(c)
    <3>1. line' \in Seq(Commands)
      <4>1. line \in Seq(Commands) /\ Append(line, c) \in Seq(Commands)
        BY AppendLast
      <4> QED BY <2>2, <4>1 DEF Send
    <3> QED BY <2>2, <3>1 DEF Send, Answer, lampVars
  <2> QED BY <1>5, <2>1, <2>2
<1>6. CASE KeepSchedule
  BY <1>6 DEF KeepSchedule, commandVars
<1>7. CASE TopicsConnect \/ TopicsRemove
  BY <1>7 DEF TopicsConnect, TopicsRemove, commandVars
<1>12. CASE Pass
  <2>1. line' \in Seq(Commands) /\ Head(line) \in Commands
    BY <1>12, TailLast DEF Pass
  <2> QED BY <1>12, <2>1 DEF Pass, lampVars
<1>13. CASE TopicsWipe
  <2>1. line' \in Seq(Commands) /\ again' \in SUBSET Commands /\ passed' \in SUBSET Commands
    BY <1>13, DroppedLine DEF TopicsWipe
  <2> QED BY <1>13, <2>1 DEF TopicsWipe
<1>8. CASE TopicsDisconnect
  <2>1. queue' = queue \/ queue' = <<>>
    BY <1>8 DEF TopicsDisconnect
  <2>2. queue' \in Seq(Schedules) /\ Len(queue') <= MaxQueue
    <3>1. CASE queue' = queue
      BY <3>1
    <3>2. CASE queue' = <<>>
      BY <3>2, MaxQueue \in Nat
    <3> QED BY <2>1, <3>1, <3>2
  <2>3. kept' \in Schedules \cup {NoSchedule}
    BY <1>8 DEF TopicsDisconnect
  <2>4. line' \in Seq(Commands) /\ again' \in SUBSET Commands /\ passed' \in SUBSET Commands
    BY <1>8, DroppedLine DEF TopicsDisconnect
  <2> QED BY <1>8, <2>2, <2>3, <2>4 DEF TopicsDisconnect
<1>9. CASE TopicsCrash
  BY <1>9 DEF TopicsCrash
<1>10. CASE TopicsRename
  BY <1>10 DEF TopicsRename, commandVars
<1>11. CASE UNCHANGED topicVars
  BY <1>11 DEF topicVars, lampVars, commandVars
<1> QED BY <1>1, <1>2, <1>3, <1>4, <1>5, <1>6, <1>7, <1>8, <1>9, <1>10, <1>11, <1>12,
        <1>13 DEF TopicsNext, TopicWork

LEMMA LatestStep == TopicsTypeOK /\ LatestIsRow /\ [TopicsNext]_topicVars => LatestIsRow'
<1> SUFFICES ASSUME TopicsTypeOK, LatestIsRow, [TopicsNext]_topicVars PROVE LatestIsRow'
  OBVIOUS
<1> USE TopicsAssumption DEF TopicsTypeOK, PutStates, IdlePut, LatestIsRow, Latest
<1>1. CASE LampRequest
  BY <1>1 DEF LampRequest, FindRobot, PutAt
<1>2. CASE CommandRequest \/ Pass \/ \E c \in Commands : Refuse(c) \/ Send(c) \/ PassAgain(c)
  BY <1>2 DEF CommandRequest, Ask, Refuse, Send, Pass, PassAgain, lampVars
<1>3. ASSUME NEW p \in Puts, WriteSchedule(p) \/ FailWrite(p) PROVE LatestIsRow'
  BY <1>3 DEF WriteSchedule, FailWrite, PutAt
<1>4. ASSUME NEW p \in Puts, PublishSchedule(p) PROVE LatestIsRow'
  <2>1. puts[p].value \in Schedules /\ puts[p].at = "publish"
    BY <1>4, PendingPut DEF PublishSchedule
  <2>2. CASE writer = p
    <3>1. missed' \/ (puts[p].value = schedule /\ link = "online")
      BY <1>4, <2>2 DEF PublishSchedule
    <3>2. CASE link = "online"
      BY <1>4, <2>1, <2>2, <3>1, <3>2, AppendLast DEF PublishSchedule
    <3> QED BY <1>4, <2>2, <3>1, <3>2 DEF PublishSchedule
  <2>3. CASE writer # p /\ writer # Nobody
    <3>1. puts'[writer] = puts[writer]
      BY <1>4, <2>3 DEF PublishSchedule, PutAt
    <3> QED BY <1>4, <2>3, <3>1 DEF PublishSchedule
  <2>4. CASE writer = Nobody
    <3>1. missed' \/ UNCHANGED <<queue, kept, schedule, missed>>
      BY <1>4, <2>4 DEF PublishSchedule
    <3> QED BY <1>4, <2>4, <3>1 DEF PublishSchedule
  <2> QED BY <2>2, <2>3, <2>4
<1>5. CASE KeepSchedule
  BY <1>5, TailLast DEF KeepSchedule
<1>6. CASE TopicsConnect \/ TopicsWipe \/ TopicsRemove
  BY <1>6 DEF TopicsConnect, TopicsWipe, TopicsRemove
<1>7. CASE TopicsDisconnect
  <2>1. missed' \/ queue # <<>> \/ UNCHANGED <<queue, kept>>
    BY <1>7 DEF TopicsDisconnect
  <2>2. missed' \/ (queue' = queue /\ ~missed)
    BY <1>7 DEF TopicsDisconnect
  <2> QED BY <1>7, <2>1, <2>2 DEF TopicsDisconnect
<1>8. CASE TopicsCrash \/ TopicsRename
  BY <1>8 DEF TopicsCrash, TopicsRename
<1>9. CASE UNCHANGED topicVars
  BY <1>9 DEF topicVars, lampVars
<1> QED BY <1>1, <1>2, <1>3, <1>4, <1>5, <1>6, <1>7, <1>8, <1>9 DEF TopicsNext, TopicWork

(* TopicsTypeOK and LatestIsRow are inductive. *)
THEOREM TopicsInvariance == TopicsSpec => [](TopicsTypeOK /\ LatestIsRow)
<1>1. TopicsInit => TopicsTypeOK /\ LatestIsRow
  BY TopicsAssumption DEF TopicsInit, TopicsTypeOK, LatestIsRow, PutStates, IdlePut, CommandStates
<1> QED BY <1>1, TopicsTypeStep, LatestStep, PTL DEF TopicsSpec

(* Row, requests, queue and commands keep their types. *)
THEOREM TopicsTypeCorrect == TopicsSpec => []TopicsTypeOK
BY TopicsInvariance, PTL

(* Whatever PUTs, disconnections, crashes, renames and removals interleave, *)
(* the broker's retained schedule is the row's unless one was missed.       *)
THEOREM ScheduleStaysRetained == TopicsSpec => []ScheduleRetained
<1>1. TopicsTypeOK /\ LatestIsRow => ScheduleRetained
  BY DEF TopicsTypeOK, LatestIsRow, Latest, ScheduleRetained, NothingInFlight
<1> QED BY <1>1, TopicsInvariance, PTL

-----------------------------------------------------------------------------
(* The order of commands. *)

LEMMA LineShifted ==
  ASSUME NEW S, NEW q \in Seq(S), q # <<>>
  PROVE  /\ Head(q) = q[1] /\ 1 \in 1..Len(q)
         /\ \A i \in 1..Len(Tail(q)) : i + 1 \in 1..Len(q) /\ Tail(q)[i] = q[i + 1]
<1>1. Len(Tail(q)) = Len(q) - 1 /\ \A i \in 1..Len(Tail(q)) : Tail(q)[i] = q[i + 1]
  BY HeadTailProperties
<1>2. Len(q) \in Nat /\ Len(q) # 0
  BY EmptySeq, LenProperties
<1> QED BY <1>1, <1>2

LEMMA LineExtended ==
  ASSUME NEW S, NEW q \in Seq(S), NEW e \in S
  PROVE  /\ Len(q) \in Nat /\ Len(Append(q, e)) = Len(q) + 1
         /\ \A i \in 1..Len(q) : Append(q, e)[i] = q[i]
         /\ Append(q, e)[Len(q) + 1] = e
OBVIOUS

\* What LineInOrder says of one frame and one command that was asked later.
Ahead(c, d) ==
  \A i \in 1..Len(line) : line[i] = c =>
    d \notin passed /\ d \notin again /\ \A j \in 1..i : line[j] # d

Nowhere(c) ==
  /\ c \notin again /\ c \notin passed /\ \A i \in 1..Len(line) : line[i] # c
  /\ \A d \in Commands : <<c, d>> \notin before

LEMMA OrderParts ==
  LineInOrder <=>
    /\ again \cap Frames = {}
    /\ \A c \in Commands : commands[c] \in {"new", "asked"} => Nowhere(c)
    /\ \A c \in Frames, d \in Commands : <<c, d>> \in before => Ahead(c, d)
BY DEF LineInOrder, Nowhere, Ahead

LEMMA DropOrder ==
  ASSUME TopicsTypeOK, LineInOrder, DropLine, UNCHANGED before,
         \A c \in Commands : commands'[c] \in {"new", "asked"} => commands[c] \in {"new", "asked"}
  PROVE  LineInOrder'
<1>1. again' \cap Frames = {}
  BY DroppedLine DEF LineInOrder
<1>2. \A i \in 1..Len(line') : FALSE
  BY DroppedLine
<1>3. ASSUME NEW c \in Commands, commands'[c] \in {"new", "asked"}
      PROVE  c \notin again' /\ c \notin passed'
  BY <1>3, DroppedLine DEF LineInOrder
<1> QED BY <1>1, <1>2, <1>3 DEF LineInOrder

LEMMA OrderStep == TopicsTypeOK /\ LineInOrder /\ [TopicsNext]_topicVars => LineInOrder'
<1> SUFFICES ASSUME TopicsTypeOK, LineInOrder, [TopicsNext]_topicVars PROVE LineInOrder'
  OBVIOUS
<1> USE TopicsAssumption DEF TopicsTypeOK, CommandStates, LineInOrder
<1>1. CASE UNCHANGED commandVars
  BY <1>1 DEF commandVars
<1>2. ASSUME NEW c \in Commands, Ask(c) PROVE LineInOrder'
  BY <1>2 DEF Ask, Answer
<1>3. ASSUME NEW c \in Commands, Refuse(c) \/ PassAgain(c) PROVE LineInOrder'
  BY <1>3 DEF Refuse, PassAgain, Answer
<1>4. ASSUME NEW c \in Commands, Send(c) PROVE LineInOrder'
  <2>1. CASE link # "online"
    BY <1>4, <2>1 DEF Send, Answer
  <2>2. CASE link = "online"
    <3>1. line' = Append(line, c) /\ commands' = [commands EXCEPT ![c] = "ok"]
          /\ commands[c] = "asked" /\ UNCHANGED <<again, passed, before>>
      BY <1>4, <2>2 DEF Send, Answer
    <3>2. /\ Len(line) \in Nat /\ Len(line') = Len(line) + 1
          /\ \A i \in 1..Len(line) : line'[i] = line[i]
          /\ line'[Len(line) + 1] = c
      BY <3>1, LineExtended
    <3>3. Nowhere(c)
      BY <3>1, OrderParts
    <3>4. ASSUME NEW d \in Commands, commands'[d] \in {"new", "asked"} PROVE Nowhere(d)'
      <4>1. d # c /\ Nowhere(d)
        BY <3>1, <3>4, OrderParts
      <4> QED BY <3>1, <3>2, <4>1 DEF Nowhere
    <3>5. ASSUME NEW f \in Frames, NEW d \in Commands, <<f, d>> \in before PROVE Ahead(f, d)'
      <4>1. Ahead(f, d) /\ f # c
        BY <3>3, <3>5, OrderParts DEF Nowhere
      <4> QED BY <3>1, <3>2, <4>1 DEF Ahead
    <3>6. again' \cap Frames = {}
      BY <3>1
    <3> QED BY <3>1, <3>4, <3>5, <3>6 DEF LineInOrder, Nowhere, Ahead
  <2> QED BY <2>1, <2>2
<1>5. CASE Pass
  BY <1>5, LineShifted DEF Pass
<1>6. CASE TopicsDisconnect \/ TopicsWipe
  BY <1>1, <1>6, DropOrder DEF TopicsDisconnect, TopicsWipe, commandVars
<1>7. CASE TopicsCrash
  BY <1>7 DEF TopicsCrash
<1> QED BY <1>1, <1>2, <1>3, <1>4, <1>5, <1>6, <1>7
        DEF TopicsNext, TopicWork, LampRequest, CommandRequest, FindRobot, WriteSchedule, FailWrite,
            PublishSchedule, KeepSchedule, TopicsConnect, TopicsRename, TopicsRemove, topicVars

(* When a command has reached the broker, no QoS 0 frame that was answered  *)
(* before it was asked is still under way, for any number of commands.      *)
THEOREM FramesStayInOrder == TopicsSpec => []FramesNeverFollow
<1>1. TopicsInit => LineInOrder
  BY TopicsAssumption DEF TopicsInit, LineInOrder
<1>2. TopicsTypeOK /\ LineInOrder => FramesNeverFollow
  BY TopicsAssumption DEF TopicsTypeOK, CommandStates, LineInOrder, FramesNeverFollow, UnderWay
<1> QED BY <1>1, <1>2, OrderStep, TopicsTypeCorrect, PTL DEF TopicsSpec

-----------------------------------------------------------------------------
(* The alarm rules. *)

LEMMA EnabledIsPayload == rules \in [Rules -> Present \cup {Unborn, Deleted}] => Enabled \in Payloads
BY DEF Enabled, Payloads

LEMMA PublishingJob ==
  ASSUME TypeOK, NEW j \in Jobs
  PROVE  /\ jobs[j].at = "publish" => jobs[j].payload \in Payloads
         /\ jobs[j].at = "edit" => jobs[j].rule \in Rules
BY DEF TypeOK, JobStates, Idle

LEMMA RulesTypeStep == TypeOK /\ [Next]_vars => TypeOK'
<1> SUFFICES ASSUME TypeOK, [Next]_vars PROVE TypeOK'
  OBVIOUS
<1> USE BoundsAssumption DEF TypeOK, JobStates, Idle, Goto
<1>1. ASSUME NEW j \in Jobs, NEW rule \in Rules,
             Find(j, rule) \/ \E setting \in Present : Create(j, rule, setting)
      PROVE  TypeOK'
  BY <1>1 DEF Find, Create
<1>2. ASSUME NEW j \in Jobs, NEW value \in Present \cup {Deleted}, Edit(j, value)
      PROVE  TypeOK'
  BY <1>2, PublishingJob DEF Edit
<1>3. ASSUME NEW j \in Jobs, Read(j) PROVE TypeOK'
  BY <1>3, EnabledIsPayload DEF Read
<1>4. ASSUME NEW j \in Jobs, ReadNothing(j) \/ FailRead(j) \/ FailEdit(j) PROVE TypeOK'
  BY <1>4 DEF ReadNothing, FailRead, FailEdit
<1>5. ASSUME NEW j \in Jobs, Publish(j) PROVE TypeOK'
  <2>1. outbox' \in Seq(Payloads) /\ Len(outbox') <= MaxOutbox
    BY <1>5, PublishingJob, AppendLast DEF Publish
  <2> QED BY <1>5, <2>1 DEF Publish
<1>6. ASSUME NEW j \in Jobs, Connect(j) PROVE TypeOK'
  BY <1>6 DEF Connect, Hydrate
<1>7. CASE Deliver
  <2>1. outbox' \in Seq(Payloads) /\ Len(outbox') <= MaxOutbox /\ retained' \in Payloads
    BY <1>7, TailLast DEF Deliver
  <2> QED BY <1>7, <2>1 DEF Deliver
<1>8. CASE Disconnect
  <2>1. outbox' = outbox \/ outbox' = <<>>
    BY <1>8 DEF Disconnect
  <2>2. outbox' \in Seq(Payloads) /\ Len(outbox') <= MaxOutbox
    <3>1. CASE outbox' = outbox
      BY <3>1
    <3>2. CASE outbox' = <<>>
      BY <3>2, MaxOutbox \in Nat
    <3> QED BY <2>1, <3>1, <3>2
  <2>3. retained' \in Payloads \cup {None}
    BY <1>8 DEF Disconnect
  <2> QED BY <1>8, <2>2, <2>3 DEF Disconnect
<1>9. CASE ConnectUnhydrated \/ Wipe \/ Boot
  BY <1>9 DEF ConnectUnhydrated, Wipe, Boot
<1>10. CASE Crash \/ Rename
  <2>1. outbox' = <<>>
    BY <1>10 DEF Crash, Rename
  <2>2. outbox' \in Seq(Payloads) /\ Len(outbox') <= MaxOutbox
    BY <2>1, MaxOutbox \in Nat
  <2> QED BY <1>10, <2>2 DEF Crash, Rename
<1>11. CASE RemoveRobot
  BY <1>11 DEF RemoveRobot, Present
<1>12. CASE UNCHANGED vars
  BY <1>12 DEF vars
<1> QED BY <1>1, <1>2, <1>3, <1>4, <1>5, <1>6, <1>7, <1>8, <1>9, <1>10, <1>11, <1>12
        DEF Next, EditStep, JobStep, Update, Remove

LEMMA ListStep == TypeOK /\ ListIsCurrent /\ [Next]_vars => ListIsCurrent'
<1> SUFFICES ASSUME TypeOK, ListIsCurrent, [Next]_vars PROVE ListIsCurrent'
  OBVIOUS
<1> USE DistinctAssumption DEF TypeOK, ListIsCurrent, NewestList, Idle, Goto
\* An edit leaves a job that will read.
<1>1. ASSUME NEW j \in Jobs, NEW rule \in Rules, NEW setting \in Present, Create(j, rule, setting)
      PROVE  ListIsCurrent'
  BY <1>1 DEF Create
<1>2. ASSUME NEW j \in Jobs, NEW rule \in Rules, Find(j, rule) PROVE ListIsCurrent'
  BY <1>2 DEF Find, Enabled
<1>3. ASSUME NEW j \in Jobs, NEW value \in Present \cup {Deleted}, Edit(j, value)
      PROVE  ListIsCurrent'
  <2>1. CASE rules[jobs[j].rule] \in Present
    BY <1>3, <2>1 DEF Edit
  <2>2. CASE rules[jobs[j].rule] \notin Present
    BY <1>3, <2>2 DEF Edit, Enabled
  <2> QED BY <2>1, <2>2
<1>4. ASSUME NEW j \in Jobs, Read(j) PROVE ListIsCurrent'
  BY <1>4 DEF Read, Enabled
<1>5. ASSUME NEW j \in Jobs, ReadNothing(j) \/ FailRead(j) PROVE ListIsCurrent'
  BY <1>5 DEF ReadNothing, FailRead
<1>6. ASSUME NEW j \in Jobs, FailEdit(j) PROVE ListIsCurrent'
  BY <1>6 DEF FailEdit, Enabled
<1>7. ASSUME NEW j \in Jobs, Publish(j) PROVE ListIsCurrent'
  <2>1. jobs[j].payload \in Payloads /\ Enabled' = Enabled
    BY <1>7, PublishingJob DEF Publish, Enabled
  <2>2. (\E k \in Jobs : jobs[k].at = "read") => (\E k \in Jobs : jobs'[k].at = "read")
    BY <1>7 DEF Publish
  <2>3. reader' # None => reader' # j /\ reader' = reader /\ jobs'[reader'] = jobs[reader']
    BY <1>7 DEF Publish
  <2>4. CASE reader = j /\ link = "online"
    <3>1. outbox' # <<>> /\ outbox'[Len(outbox')] = jobs[j].payload
      BY <1>7, <2>1, <2>4, AppendLast DEF Publish
    <3> QED BY <1>7, <2>1, <2>2, <2>4, <3>1 DEF Publish
  <2>5. CASE reader # j \/ link # "online"
    BY <1>7, <2>1, <2>2, <2>3, <2>5 DEF Publish
  <2> QED BY <2>4, <2>5
<1>8. ASSUME NEW j \in Jobs, Connect(j) PROVE ListIsCurrent'
  BY <1>8 DEF Connect, Hydrate
<1>9. CASE Deliver
  BY <1>9, TailLast DEF Deliver, Enabled
<1>10. CASE ConnectUnhydrated \/ Disconnect \/ Wipe \/ Boot
  BY <1>10 DEF ConnectUnhydrated, Disconnect, Wipe, Boot
<1>11. CASE Crash \/ Rename \/ RemoveRobot
  BY <1>11 DEF Crash, Rename, RemoveRobot
<1>12. CASE UNCHANGED vars
  BY <1>12 DEF vars, Enabled
<1> QED BY <1>1, <1>2, <1>3, <1>4, <1>5, <1>6, <1>7, <1>8, <1>9, <1>10, <1>11, <1>12
        DEF Next, EditStep, JobStep, Update, Remove

(* TypeOK and ListIsCurrent are inductive. *)
THEOREM RulesInvariance == Spec => [](TypeOK /\ ListIsCurrent)
<1>1. Init => TypeOK /\ ListIsCurrent
  <2>1. <<>> \in Seq(Payloads) /\ Len(<<>>) <= MaxOutbox
    BY BoundsAssumption
  <2> QED BY <2>1 DEF Init, TypeOK, ListIsCurrent, JobStates, Idle
<1> QED BY <1>1, RulesTypeStep, ListStep, PTL DEF Spec

(* Whatever edits, hydrations, failures, disconnections and crashes         *)
(* interleave, the broker retains the enabled rules when nothing is in      *)
(* flight, unless a read failed or was overtaken since.                     *)
THEOREM RulesStayRetained == Spec => []RetainedCurrent
<1>1. TypeOK /\ ListIsCurrent => RetainedCurrent
  BY DEF TypeOK, ListIsCurrent, NewestList, RetainedCurrent, Quiet
<1> QED BY <1>1, RulesInvariance, PTL

-----------------------------------------------------------------------------
(* The whole has the properties of its parts. *)

LEMMA RulesTypeCorrect == Spec => []TypeOK
BY RulesInvariance, PTL

(* Rules, lamp, commands, patrols, alerts, events and inbox all keep their  *)
(* types when they run over one row and one connection.                     *)
THEOREM ApiTypesCorrect == ApiSpec => []TypesOK
<1>1. TypeOK /\ TopicsTypeOK /\ RecordsTypeOK => TypesOK
  BY DEF TypesOK
<1> QED BY <1>1, ApiImplementsRules, ApiImplementsTopics, ApiImplementsRecords,
           RulesTypeCorrect, TopicsTypeCorrect, RecordsTypeCorrect, PTL

(* What the broker retains for a robot and the order in which it gets the   *)
(* commands stay right when everything else interleaves with them.          *)
THEOREM ApiRetains == ApiSpec => []RetainedCurrent /\ []ScheduleRetained /\ []FramesNeverFollow
BY ApiImplementsRules, ApiImplementsTopics, RulesStayRetained, ScheduleStaysRetained, FramesStayInOrder

(* Patrol logs, alerts on the screens and the owner's inbox stay right when *)
(* everything else interleaves with them.                                   *)
THEOREM ApiKeepsRecords == ApiSpec => []LogsOfOwnPatrols /\ []AlarmsShown /\ []NoticesMatchEvents
BY ApiImplementsRecords, LogsStayOwn, AlarmsStayShown, NoticesStayMatched
=============================================================================
