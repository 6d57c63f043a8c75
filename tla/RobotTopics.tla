----------------------------- MODULE RobotTopics -----------------------------
(***************************************************************************)
(* What the operator sends to one robot through publishToRobot and         *)
(* publishPeripheralCommand of mqtt-ingest.service.ts: the daily lamp      *)
(* schedule, kept in the robot's row and as the retained message of        *)
(* kpatrol/{serial}/light_schedule, and one-shot commands, which are kept  *)
(* nowhere.                                                                *)
(*                                                                         *)
(* Nothing publishes a schedule again: not a connection to the broker, not *)
(* a rename.  `missed` says that the broker's copy has been given up.      *)
(***************************************************************************)
EXTENDS Naturals, Sequences

CONSTANTS
  Schedules,  \* what the lamp columns say
  Puts,       \* slots for the PUT requests in flight (bound)
  Commands,   \* commands ever asked for (bound)
  Frames,     \* those at QoS 0, which nobody sends again: joystick frames
  MaxQueue,   \* schedules the broker has not acknowledged (bound)
  DefaultSchedule,  \* the defaults of those columns
  NoSchedule, \* the broker retains none
  Nobody      \* no PUT

VARIABLES
  known,     \* whether robots has the row
  link,      \* the process is down, runs offline, or is connected to the broker
  schedule,  \* robots.mainLightSchedule*
  puts,      \* the statement each PUT executes next
  writer,    \* the PUT that wrote the row last, until it publishes: history
  queue,     \* schedules published, not yet acknowledged by the broker
  kept,      \* the broker's retained schedule
  missed,    \* since the row was last written, its schedule was skipped or
             \* lost, or one written earlier was published later: history
  commands,  \* what the sender of each command has heard
  line,      \* commands written to this connection, the broker's to take
  again,     \* commands that the client will resend when it is connected
  passed,    \* commands that have reached the broker
  before     \* <<c, d>>: the answer to c was there when d was asked: history

lampVars == <<known, link, schedule, puts, writer, queue, kept, missed>>
commandVars == <<commands, line, again, passed, before>>
topicVars == <<lampVars, commandVars>>

IdlePut == [at |-> "idle"]
PutStates == {IdlePut} \cup [at : {"write", "publish"}, value : Schedules]
CommandStates == {"new", "asked", "ok", "failed"}

TopicsInit ==
  /\ known = TRUE /\ link = "down"
  /\ schedule = DefaultSchedule
  /\ puts = [p \in Puts |-> IdlePut]
  /\ writer = Nobody /\ queue = <<>>
  /\ kept = NoSchedule /\ missed = TRUE
  /\ commands = [c \in Commands |-> "new"]
  /\ line = <<>> /\ again = {} /\ passed = {} /\ before = {}

PutAt(p, put) == puts' = [puts EXCEPT ![p] = put]

-----------------------------------------------------------------------------
(* PUT :id/light-schedule *)

\* findOne, the ownership check; a request whose times are not HH:MM ends here.
FindRobot(p, value) ==
  /\ link # "down" /\ known /\ puts[p] = IdlePut
  /\ PutAt(p, [at |-> "write", value |-> value])
  /\ UNCHANGED <<known, link, schedule, writer, queue, kept, missed, commandVars>>

WriteScheduleBlind(p) ==               \* mutant: a failed update is swallowed
  /\ puts[p].at = "write" /\ known
  /\ schedule' \in {schedule, puts[p].value}
  /\ PutAt(p, [puts[p] EXCEPT !.at = "publish"])
  /\ writer' = p /\ missed' = FALSE
  /\ UNCHANGED <<known, link, queue, kept, commandVars>>

\* robot.update, of a row that is still there.
WriteSchedule(p) ==
  /\ puts[p].at = "write" /\ known
  /\ schedule' = puts[p].value
  /\ PutAt(p, [puts[p] EXCEPT !.at = "publish"])
  /\ writer' = p /\ missed' = FALSE
  /\ UNCHANGED <<known, link, queue, kept, commandVars>>

\* The row is gone or the statement fails: 500.
FailWrite(p) ==
  /\ puts[p].at = "write"
  /\ PutAt(p, IdlePut)
  /\ UNCHANGED <<known, link, schedule, writer, queue, kept, missed, commandVars>>

\* publishToRobot drops the schedule when the client is not connected; the
\* request answers ok all the same.
PublishSchedule(p) ==
  /\ puts[p].at = "publish"
  /\ IF link = "online"
       THEN /\ Len(queue) < MaxQueue
            /\ queue' = Append(queue, puts[p].value)
            /\ missed' = (missed \/ writer = Nobody)
       ELSE missed' = (missed \/ writer = p) /\ UNCHANGED queue
  /\ PutAt(p, IdlePut)
  /\ writer' = IF writer = p THEN Nobody ELSE writer
  /\ UNCHANGED <<known, link, schedule, kept, commandVars>>

-----------------------------------------------------------------------------
(* forwardCommand and sendPeripheralCommand *)

Answer(c, what) == commands' = [commands EXCEPT ![c] = what]

\* The body is valid; the ownership lookup is awaited.
Ask(c) ==
  /\ link # "down" /\ commands[c] = "new"
  /\ Answer(c, "asked")
  /\ before' = before \cup {<<b, c>> : b \in {d \in Commands : commands[d] \in {"ok", "failed"}}}
  /\ UNCHANGED <<lampVars, line, again, passed>>

\* The lookup throws, or the suffix is not in the whitelist.
Refuse(c) ==
  /\ commands[c] = "asked"
  /\ Answer(c, "failed")
  /\ UNCHANGED <<lampVars, line, again, passed, before>>

SendUnawaited(c) ==                  \* mutant: answers before the lookup ends
  /\ \/ commands[c] = "asked" /\ Answer(c, "ok") /\ UNCHANGED line
     \/ /\ commands[c] = "ok" /\ link = "online" /\ c \notin passed /\ line = <<>>
        /\ line' = <<c>> /\ UNCHANGED commands
  /\ UNCHANGED <<lampVars, again, passed, before>>

\* Written to the connection before the sender is answered, or refused: the
\* client's own queue for the time it is offline is never used.
Send(c) ==
  /\ commands[c] = "asked"
  /\ IF link = "online" THEN line' = Append(line, c) /\ Answer(c, "ok")
                        ELSE UNCHANGED line /\ Answer(c, "failed")
  /\ UNCHANGED <<lampVars, again, passed, before>>

-----------------------------------------------------------------------------
(* The broker. *)

\* It acknowledges schedules in order...
KeepSchedule ==
  /\ link = "online" /\ queue # <<>>
  /\ kept' = Head(queue) /\ queue' = Tail(queue)
  /\ UNCHANGED <<known, link, schedule, puts, writer, missed, commandVars>>

\* ... and takes commands in the order of the connection...
Pass ==
  /\ link = "online" /\ line # <<>>
  /\ passed' = passed \cup {Head(line)} /\ line' = Tail(line)
  /\ UNCHANGED <<lampVars, commands, again, before>>

\* ... and those that are sent again besides.
PassAgain(c) ==
  /\ link = "online" /\ c \in again
  /\ passed' = passed \cup {c} /\ again' = again \ {c}
  /\ UNCHANGED <<lampVars, commands, line, before>>

LampRequest == \E p \in Puts, value \in Schedules : FindRobot(p, value)
CommandRequest == \E c \in Commands : Ask(c)

TopicWork ==
  \/ \E p \in Puts : WriteSchedule(p) \/ FailWrite(p) \/ PublishSchedule(p)
  \/ \E c \in Commands : Refuse(c) \/ Send(c) \/ PassAgain(c)
  \/ KeepSchedule \/ Pass

-----------------------------------------------------------------------------
(* The connection, the process, the broker and the robot's row. *)

\* The handler of `connect` hydrates the alarm rules, and no schedule.
TopicsConnect ==
  /\ \/ link = "down" /\ link' = "offline"
     \/ link = "offline" /\ link' = "online"
  /\ UNCHANGED <<known, schedule, puts, writer, queue, kept, missed, commandVars>>

\* What is not acknowledged may have arrived, commands in their order; the
\* client sends it again (QoS 1 and 2) or has forgotten it.
DropLine ==
  /\ line' = <<>>
  /\ again' \in {{}, again \cup ({line[i] : i \in 1..Len(line)} \ Frames)}
  /\ \E n \in 0..Len(line), more \in SUBSET again :
       passed' = passed \cup {line[i] : i \in 1..n} \cup more

TopicsDisconnect ==
  /\ link = "online" /\ link' = "offline"
  /\ queue' \in {queue, <<>>}
  /\ kept' \in {kept} \cup {queue[i] : i \in 1..Len(queue)}
  /\ missed' = (missed \/ queue' # queue)
  /\ DropLine
  /\ UNCHANGED <<known, schedule, puts, writer, commands, before>>

\* The broker has lost its retained messages.
TopicsWipe ==
  /\ IF link = "online" THEN link' = "offline" /\ DropLine
                        ELSE UNCHANGED <<link, line, again, passed>>
  /\ kept' = NoSchedule /\ missed' = TRUE
  /\ UNCHANGED <<known, schedule, puts, writer, queue, commands, before>>

\* The process dies, with its requests and with what the client would resend.
TopicsCrash ==
  /\ link # "down" /\ link' = "down"
  /\ puts' = [p \in Puts |-> IdlePut]
  /\ missed' = (missed \/ writer # Nobody \/ queue # <<>>)
  /\ writer' = Nobody /\ queue' = <<>>
  /\ commands' = [c \in Commands |-> IF commands[c] = "asked" THEN "failed" ELSE commands[c]]
  /\ line' = <<>> /\ again' = {}
  /\ UNCHANGED <<known, schedule, kept, passed, before>>

\* The robot gets a serial number nothing was published for; what is still to
\* be published goes to the old topic.
TopicsRename ==
  /\ known
  /\ kept' = NoSchedule /\ missed' = TRUE
  /\ puts' = [p \in Puts |-> IF puts[p].at = "publish" THEN IdlePut ELSE puts[p]]
  /\ writer' = Nobody /\ queue' = <<>>
  /\ UNCHANGED <<known, link, schedule, commandVars>>

\* The row goes, and what the broker retains stays.
TopicsRemove ==
  /\ known /\ known' = FALSE
  /\ UNCHANGED <<link, schedule, puts, writer, queue, kept, missed, commandVars>>

TopicsNext ==
  \/ LampRequest \/ CommandRequest \/ TopicWork
  \/ TopicsConnect \/ TopicsDisconnect \/ TopicsWipe \/ TopicsCrash
  \/ TopicsRename \/ TopicsRemove

TopicsSpec == TopicsInit /\ [][TopicsNext]_topicVars

-----------------------------------------------------------------------------

TopicsTypeOK ==
  /\ known \in BOOLEAN /\ link \in {"down", "offline", "online"}
  /\ schedule \in Schedules
  /\ puts \in [Puts -> PutStates]
  /\ writer \in Puts \cup {Nobody}
  /\ queue \in Seq(Schedules) /\ Len(queue) <= MaxQueue
  /\ kept \in Schedules \cup {NoSchedule}
  /\ missed \in BOOLEAN
  /\ commands \in [Commands -> CommandStates]
  /\ line \in Seq(Commands)
  /\ again \in SUBSET Commands /\ passed \in SUBSET Commands
  /\ before \in SUBSET (Commands \X Commands)

(* "Fans out via MQTT retained so the Pi receives the latest schedule": when *)
(* nothing is in flight the broker retains the schedule of the row, unless   *)
(* the last one written was skipped while offline, lost with the process or  *)
(* the broker, left behind by a rename, or overtaken by an older one; and    *)
(* the next PUT makes up for all of them, whatever other PUT it overlaps.    *)
NothingInFlight == queue = <<>> /\ \A p \in Puts : puts[p].at # "publish"

ScheduleRetained ==
  known /\ link = "online" /\ NothingInFlight /\ ~missed => kept = schedule

(* "The next packet renders the last one obsolete", unless the last one     *)
(* comes later: when a command has reached the broker, no QoS 0 frame that   *)
(* was answered before it was asked is still under way, whatever requests,   *)
(* resends, disconnections and crashes lie between.  An emergency stop is    *)
(* not followed by a joystick frame that its operator had sent before.       *)
UnderWay(c) == commands[c] = "asked" \/ c \in again \/ \E i \in 1..Len(line) : line[i] = c

FramesNeverFollow ==
  \A c \in Frames, d \in passed : <<c, d>> \in before => ~UnderWay(c)

-----------------------------------------------------------------------------
(* The inductive strengthening: the PUT that wrote last, or else the latest *)
(* publication or the retained message, holds the schedule of the row.      *)
Latest ==
  IF writer # Nobody THEN puts[writer].value
  ELSE IF queue # <<>> THEN queue[Len(queue)]
  ELSE kept

LatestIsRow ==
  /\ writer # Nobody => puts[writer].at = "publish"
  /\ ~missed => Latest = schedule
\* A frame is under way only in the line, ahead of what was asked later, and
\* a command that awaits its lookup has gone nowhere.
LineInOrder ==
  /\ again \cap Frames = {}
  /\ \A c \in Commands :
       commands[c] \in {"new", "asked"} =>
         /\ c \notin again /\ c \notin passed /\ \A i \in 1..Len(line) : line[i] # c
         /\ \A d \in Commands : <<c, d>> \notin before
  /\ \A c \in Frames, d \in Commands : <<c, d>> \in before =>
       \A i \in 1..Len(line) : line[i] = c =>
         d \notin passed /\ d \notin again /\ \A j \in 1..i : line[j] # d
=============================================================================
