----------------------------- MODULE AlarmRules -----------------------------
(***************************************************************************)
(* The alarm rules of one robot and their copy at the MQTT broker:         *)
(* AlarmRuleService, and publishAlarmRules / hydrateAlarmRules of          *)
(* mqtt-ingest.service.ts.                                                 *)
(*                                                                         *)
(* Every edit, and every connection to the broker, reads the enabled rules *)
(* back from the database and publishes the whole list as the retained     *)
(* message of kpatrol/{serial}/alarm/rules, which a robot gets when it     *)
(* subscribes.  The statements are awaited one by one, with no lock, so    *)
(* jobs interleave between any two of them.  Ownership checks change       *)
(* nothing here and are left out.  RobotApi composes this module with the  *)
(* rest of what hangs on the robot.                                        *)
(***************************************************************************)
EXTENDS Naturals, Sequences

CONSTANTS
  Rules,     \* rule ids ever drawn (bound)
  Settings,  \* what an enabled rule says
  Jobs,      \* slots for the requests and hydrations in flight (bound)
  MaxOutbox, \* publications the broker has not acknowledged (bound)
  Faults,    \* what may happen besides edits
  Off,       \* the rule exists with enabled = false
  Unborn, Deleted,  \* no row: not yet, not any more
  None

ASSUME DistinctAssumption ==
  /\ Off \notin Settings /\ Unborn \notin Settings \cup {Off}
  /\ Deleted \notin Settings \cup {Off, Unborn}
  /\ None \notin Settings \cup Jobs
ASSUME BoundsAssumption == MaxOutbox \in Nat \ {0}
ASSUME FaultsAssumption == Faults \subseteq {"dbFail", "offline", "wipe", "restart", "rename", "remove"}

Present == Settings \cup {Off}

VARIABLES
  known,     \* whether robots has the row
  rules,     \* alarm_rules: the row of every id
  jobs,      \* the statement each job executes next
  reader,    \* the job that read the rules last, until it publishes: history
  link,      \* the process is down, runs offline, or is connected to the broker
  outbox,    \* published, not yet acknowledged by the broker
  retained,  \* the broker's retained message, or None
  suspect    \* since the rules were last read, a read failed, the robot was
             \* renamed, or a list read earlier was published later: history

vars == <<known, rules, jobs, reader, link, outbox, retained, suspect>>

Idle == [at |-> "idle"]
Payloads == [Rules -> Settings \cup {None}]

EveryRule == [r \in Rules |-> rules[r]]         \* mutant: disabled ones too
\* The list that publishRulesForRobot composes: the enabled rules.
Enabled == [r \in Rules |-> IF rules[r] \in Settings THEN rules[r] ELSE None]

Init ==
  /\ known = TRUE
  /\ rules = [r \in Rules |-> Unborn]
  /\ jobs = [j \in Jobs |-> Idle]
  /\ reader = None
  /\ link = "down"
  /\ outbox = <<>>
  /\ retained = None
  /\ suspect = FALSE

Running == link # "down"
Goto(j, job) == jobs' = [jobs EXCEPT ![j] = job]

-----------------------------------------------------------------------------
(* The edits. *)

Create(j, rule, setting) ==
  /\ Running /\ known /\ jobs[j] = Idle
  /\ rules[rule] = Unborn
  /\ rules' = [rules EXCEPT ![rule] = setting]
  /\ Goto(j, [at |-> "read"])
  /\ UNCHANGED <<known, reader, link, outbox, retained, suspect>>

\* The findUnique of update and remove.
Find(j, rule) ==
  /\ Running /\ jobs[j] = Idle
  /\ rules[rule] \in Present
  /\ Goto(j, [at |-> "edit", rule |-> rule])
  /\ UNCHANGED <<known, rules, reader, link, outbox, retained, suspect>>

\* The update or delete of the row that was found; it throws when another
\* request has deleted it since.
Edit(j, value) ==
  /\ jobs[j].at = "edit"
  /\ IF rules[jobs[j].rule] \in Present
       THEN /\ rules' = [rules EXCEPT ![jobs[j].rule] = value]
            /\ Goto(j, [at |-> "read"])
       ELSE Goto(j, Idle) /\ UNCHANGED rules
  /\ UNCHANGED <<known, reader, link, outbox, retained, suspect>>

Update(j, setting) == setting \in Present /\ Edit(j, setting)

RemoveQuietly(j) ==                                 \* mutant: no republish
  /\ jobs[j].at = "edit" /\ rules[jobs[j].rule] \in Present
  /\ rules' = [rules EXCEPT ![jobs[j].rule] = Deleted]
  /\ Goto(j, Idle)
  /\ UNCHANGED <<known, reader, link, outbox, retained, suspect>>

Remove(j) == Edit(j, Deleted)

-----------------------------------------------------------------------------
(* publishRulesForRobot, of an edit or of a hydration. *)

\* The list, for a robot that robot.findUnique has found.
Read(j) ==
  /\ jobs[j].at = "read" /\ known
  /\ Goto(j, [at |-> "publish", payload |-> Enabled])
  /\ reader' = j /\ suspect' = FALSE
  /\ UNCHANGED <<known, rules, link, outbox, retained>>

\* No robot, no list.  (One removed between the two statements gets an empty
\* list at a topic nobody has any more.)
ReadNothing(j) ==
  /\ jobs[j].at = "read" /\ ~known
  /\ Goto(j, Idle)
  /\ UNCHANGED <<known, rules, reader, link, outbox, retained, suspect>>

\* republish and hydrateAlarmRules log the error and go on.
FailRead(j) ==
  /\ "dbFail" \in Faults
  /\ jobs[j].at = "read"
  /\ Goto(j, Idle)
  /\ suspect' = TRUE
  /\ UNCHANGED <<known, rules, reader, link, outbox, retained>>

\* A statement of the edit fails: the request answers 500.
FailEdit(j) ==
  /\ "dbFail" \in Faults
  /\ jobs[j].at = "edit"
  /\ Goto(j, Idle)
  /\ UNCHANGED <<known, rules, reader, link, outbox, retained, suspect>>

\* publishAlarmRules skips the list when the client is not connected.
Publish(j) ==
  /\ jobs[j].at = "publish"
  /\ IF link = "online"
       THEN /\ Len(outbox) < MaxOutbox
            /\ outbox' = Append(outbox, jobs[j].payload)
       ELSE UNCHANGED outbox
  /\ Goto(j, Idle)
  /\ reader' = IF reader = j THEN None ELSE reader
  /\ suspect' = (suspect \/ reader = None)
  /\ UNCHANGED <<known, rules, link, retained>>

-----------------------------------------------------------------------------
(* The connection and the broker. *)

\* The broker acknowledges, in order.
Deliver ==
  /\ link = "online" /\ outbox # <<>>
  /\ retained' = Head(outbox)
  /\ outbox' = Tail(outbox)
  /\ UNCHANGED <<known, rules, jobs, reader, link, suspect>>

ConnectQuietly(j) ==                                    \* mutant: no hydration
  /\ link = "offline" /\ jobs[j] = Idle
  /\ link' = "online"
  /\ UNCHANGED <<known, rules, jobs, reader, outbox, retained, suspect>>

\* hydrateAlarmRules, whose loop reaches this robot, if it is there, in a slot.
Hydrate(j) == jobs[j] = Idle /\ Goto(j, IF known THEN [at |-> "read"] ELSE Idle)

\* on('connect')
Connect(j) ==
  /\ link = "offline" /\ link' = "online"
  /\ Hydrate(j)
  /\ UNCHANGED <<known, rules, reader, outbox, retained, suspect>>

\* The first statement of hydrateAlarmRules fails, or that of a robot before
\* this one in its loop.
ConnectUnhydrated ==
  /\ "dbFail" \in Faults
  /\ link = "offline" /\ link' = "online"
  /\ suspect' = TRUE
  /\ UNCHANGED <<known, rules, jobs, reader, outbox, retained>>

\* An unacknowledged list may have arrived; the client sends it again or not.
Disconnect ==
  /\ "offline" \in Faults /\ link = "online"
  /\ link' = "offline"
  /\ outbox' \in {outbox, <<>>}
  /\ retained' \in {retained} \cup {outbox[i] : i \in 1..Len(outbox)}
  /\ UNCHANGED <<known, rules, jobs, reader, suspect>>

\* The broker restarts and has lost its retained messages.
Wipe ==
  /\ "wipe" \in Faults
  /\ link' = IF link = "online" THEN "offline" ELSE link
  /\ retained' = None
  /\ UNCHANGED <<known, rules, jobs, reader, outbox, suspect>>

Crash ==
  /\ "restart" \in Faults /\ Running
  /\ link' = "down"
  /\ jobs' = [j \in Jobs |-> Idle]
  /\ reader' = None
  /\ outbox' = <<>>
  /\ UNCHANGED <<known, rules, retained, suspect>>

Boot ==
  /\ link = "down"
  /\ link' = "offline"
  /\ UNCHANGED <<known, rules, jobs, reader, outbox, retained, suspect>>

\* RobotService.update gives the robot a serial number nothing was published
\* for.  Nobody publishes the rules to the new topic, and a list read or
\* published for the old one goes there.
Rename ==
  /\ "rename" \in Faults /\ Running /\ known
  /\ jobs' = [j \in Jobs |-> IF jobs[j].at = "publish" THEN Idle ELSE jobs[j]]
  /\ reader' = None /\ outbox' = <<>>
  /\ retained' = None
  /\ suspect' = TRUE
  /\ UNCHANGED <<known, rules, link>>

\* RobotService.remove: the rules go with the row, the retained list stays.
RemoveRobot ==
  /\ "remove" \in Faults /\ Running /\ known
  /\ known' = FALSE
  /\ rules' = [r \in Rules |-> IF rules[r] \in Present THEN Deleted ELSE rules[r]]
  /\ UNCHANGED <<jobs, reader, link, outbox, retained, suspect>>

EditStep ==
  \E j \in Jobs :
    \/ \E rule \in Rules : Find(j, rule) \/ \E setting \in Present : Create(j, rule, setting)
    \/ \E setting \in Present : Update(j, setting)
    \/ Remove(j)

JobStep(j) == Read(j) \/ ReadNothing(j) \/ Publish(j)

Next ==
  \/ EditStep
  \/ \E j \in Jobs : JobStep(j) \/ FailRead(j) \/ FailEdit(j) \/ Connect(j)
  \/ ConnectUnhydrated \/ Deliver \/ Disconnect \/ Wipe \/ Crash \/ Boot
  \/ Rename \/ RemoveRobot

Spec == Init /\ [][Next]_vars

\* Statements are answered, the client reconnects, the broker acknowledges.
Fairness ==
  /\ \A j \in Jobs : WF_vars(JobStep(j))
  /\ WF_vars(\E j \in Jobs : Connect(j))
  /\ WF_vars(Deliver) /\ WF_vars(Boot)

FairSpec == Spec /\ Fairness

-----------------------------------------------------------------------------

JobStates ==
  {Idle} \cup [at : {"edit"}, rule : Rules] \cup [at : {"read"}]
    \cup [at : {"publish"}, payload : Payloads]

TypeOK ==
  /\ known \in BOOLEAN
  /\ rules \in [Rules -> Present \cup {Unborn, Deleted}]
  /\ jobs \in [Jobs -> JobStates]
  /\ reader \in Jobs \cup {None}
  /\ link \in {"down", "offline", "online"}
  /\ outbox \in Seq(Payloads) /\ Len(outbox) <= MaxOutbox
  /\ retained \in Payloads \cup {None}
  /\ suspect \in BOOLEAN

Quiet == outbox = <<>> /\ \A j \in Jobs : jobs[j].at \in {"idle", "edit"}

(* "The full rule set is republished" and "the Pi replaces its rule set     *)
(* wholesale": when nothing is in flight, the retained list is the enabled  *)
(* rules, through crashes, disconnections, lists skipped while offline and  *)
(* brokers that forgot; and the next job that reads makes up for every      *)
(* failed read, every rename and every inverted pair of publications before *)
(* it, whatever other jobs it overlaps.                                     *)
RetainedCurrent ==
  known /\ link = "online" /\ Quiet /\ ~suspect => retained = Enabled

(* With no failure at all, overlapping jobs included (a connection's        *)
(* hydration and an edit, or two edits): what the comment on                *)
(* AlarmRuleService promises.                                               *)
EveryEditRepublished ==
  known /\ link = "online" /\ Quiet => retained = Enabled

(* Once the edits stop and the connection holds, the robot's retained list  *)
(* becomes the enabled rules and stays so, unless a read fails, lists are   *)
(* inverted or the robot gets another serial number.                        *)
EditsReachTheBroker ==
  (<>[][~EditStep]_vars /\ <>[](known /\ link = "online" /\ ~suspect)) => <>[](retained = Enabled)

-----------------------------------------------------------------------------
(* The inductive strengthening of RetainedCurrent: the list that was read   *)
(* last, or else the latest publication or the retained message, is the     *)
(* enabled rules, or a job is about to read them.                           *)
NewestList ==
  IF reader # None THEN jobs[reader].payload
  ELSE IF outbox # <<>> THEN outbox[Len(outbox)]
  ELSE retained

ListIsCurrent ==
  /\ reader # None => jobs[reader].at = "publish"
  /\ known /\ link = "online" /\ ~suspect =>
       (\E j \in Jobs : jobs[j].at = "read") \/ NewestList = Enabled
=============================================================================
