---------------------------- MODULE AlertIngest ----------------------------
(***************************************************************************)
(* Detection alerts and alarm triggers of one registered robot, from the   *)
(* robot's publication to the rows, the inbox records and the mails they   *)
(* cause: handleMessage, handleAlertMessage, handleAlarmTriggeredMessage   *)
(* of mqtt-ingest.service.ts, NotificationService.dispatch and fanOut,     *)
(* RobotService.acknowledgeAlert and cleanupAcknowledgedAlerts.            *)
(*                                                                         *)
(* The robot sends with QoS 1 and sends again until the broker's PUBACK    *)
(* arrives; the broker hands a frame to the backend only while its clean   *)
(* session lasts.  MQTT.js acknowledges a frame before its handler has     *)
(* persisted it, and handlers are not awaited, so they overlap.  Frames    *)
(* without a kind or a rule name change nothing and are left out.          *)
(***************************************************************************)
EXTENDS Naturals, FiniteSets

CONSTANTS
  Alerts,      \* detection alerts as the robot knows them
  Unnumbered,  \* those whose payload has no numeric id
  Zero,        \* the alert whose id is 0, or None
  Triggers,    \* fires of the robot's alarm rules
  Rules,       \* alarm rules a trigger may name
  Foreign,     \* those that belong to another robot
  Handlers,    \* slots for the handler invocations in flight (bound)
  MaxSends,    \* times the robot sends one frame (bound)
  Faults,      \* what may fail
  None

Notify == {"mail", "silent"}    \* the rule has recipients to mail, or none

ASSUME FramesAssumption ==
  /\ Alerts \cap Triggers = {} /\ Unnumbered \subseteq Alerts /\ MaxSends \in Nat
  /\ Zero \in (Alerts \ Unnumbered) \cup {None} /\ None \notin Alerts \cup Triggers
ASSUME RulesAssumption == Foreign \subseteq Rules /\ None \notin Rules \cup Notify
ASSUME HandlersAssumption == IsFiniteSet(Handlers)
ASSUME FaultsAssumption == Faults \subseteq {"dbFail", "offline", "restart"}

Frames == Alerts \cup Triggers
Stages == {"lookup", "find", "create", "rule", "insert", "inbox", "mail"}

VARIABLES
  held,    \* the frames the robot still has to get acknowledged
  sends,   \* how often the broker took each of them
  names,   \* the rule id in each trigger's payload, or None
  rules,   \* alarm_rules: the notify columns of every rule, or None: no row
  link,    \* the process is down, runs offline, or is subscribed at the broker
  jobs,    \* the statement each handler awaits
  alerts,  \* how many alerts rows each alert has
  acked,   \* how many of them are acknowledged
  fired,   \* how many alarm_triggers rows each trigger has
  inbox,   \* how many notifications rows each trigger has
  mails,   \* how many mails each trigger has caused
  lost     \* the frames something has kept from being stored, or removed, since
           \* they were last received: history

robot == <<held, sends, names>>
notices == <<inbox, mails>>
store == <<alerts, acked, fired, notices>>
vars == <<robot, rules, link, jobs, store, lost>>

Job(at, f, r, n) == [at |-> at, frame |-> f, rule |-> r, notify |-> n]
Idle == Job("idle", None, None, None)

Init ==
  /\ held = Frames
  /\ sends = [f \in Frames |-> 0]
  /\ names \in [Triggers -> Rules \cup {None}]
  /\ rules = [r \in Rules |-> "mail"]    \* notifyOwner defaults to true
  /\ link = "down"
  /\ jobs = [h \in Handlers |-> Idle]
  /\ alerts = [a \in Alerts |-> 0] /\ acked = [a \in Alerts |-> 0]
  /\ fired = [t \in Triggers |-> 0]
  /\ inbox = [t \in Triggers |-> 0] /\ mails = [t \in Triggers |-> 0]
  /\ lost = {}

Goto(h, job) == jobs' = [jobs EXCEPT ![h] = job]
Lose(fs) == lost' = lost \cup fs

-----------------------------------------------------------------------------
(* The robot, the broker and the connection. *)

\* The broker takes a frame; its PUBACK reaches the robot or not.
Sent(f) ==
  /\ f \in held /\ sends[f] < MaxSends
  /\ held' \in {held, held \ {f}}
  /\ sends' = [sends EXCEPT ![f] = @ + 1]
  /\ UNCHANGED <<names, rules, store>>

\* on('message'): handleMessage is called and not awaited.
Receive(f, h) ==
  /\ link = "online" /\ jobs[h] = Idle
  /\ Sent(f)
  /\ Goto(h, Job("lookup", f, None, None))
  /\ lost' = lost \ {f}
  /\ UNCHANGED link

\* clean: true, and a random clientId.  What is published without a session,
\* or into a connection that is dead already, is kept for nobody.
Miss(f) ==
  /\ Sent(f)
  /\ Lose({f})
  /\ \/ link # "online" /\ UNCHANGED link
     \/ "offline" \in Faults /\ link = "online" /\ link' = "offline"
  /\ UNCHANGED jobs

Connect ==
  /\ link = "offline" /\ link' = "online"
  /\ UNCHANGED <<robot, rules, jobs, store, lost>>

Disconnect ==
  /\ "offline" \in Faults
  /\ link = "online" /\ link' = "offline"
  /\ UNCHANGED <<robot, rules, jobs, store, lost>>

\* The frames whose handler has stored nothing yet.
Carried == {jobs[h].frame : h \in {i \in Handlers : jobs[i].at \notin {"idle", "inbox", "mail"}}}

\* Whatever was in flight is gone, and was acknowledged to the broker.
Died ==
  /\ link' = "down"
  /\ jobs' = [h \in Handlers |-> Idle]
  /\ Lose(Carried)
  /\ UNCHANGED <<robot, rules, store>>

Crash == "restart" \in Faults /\ link # "down" /\ Died

Boot ==
  /\ link = "down" /\ link' = "offline"
  /\ UNCHANGED <<robot, rules, jobs, store, lost>>

-----------------------------------------------------------------------------
(* handleMessage and handleAlertMessage *)

\* robot.findUnique, then the switch on the topic's suffix.
Lookup(h) ==
  /\ jobs[h].at = "lookup"
  /\ LET f == jobs[h].frame
         next == IF f \in Alerts THEN "find" ELSE IF names[f] # None THEN "rule" ELSE "insert"
     IN Goto(h, Job(next, f, None, None))
  /\ UNCHANGED <<robot, rules, link, store, lost>>

\* The lookups of the robot and of the rule are outside any try: nobody
\* handles their rejection, which ends the process.
FailLookup(h) ==
  /\ "dbFail" \in Faults /\ jobs[h].at \in {"lookup", "rule"}
  /\ Died

\* The row the upsert asks for: that of externalId 0 when there is no number.
Key(a) == IF a \in Unnumbered THEN Zero ELSE a
Found(a) == Key(a) # None /\ alerts[Key(a)] > 0

\* The upsert finds a row: `update: {}`.
AlertFoundReset(h) ==                      \* mutant: update: {acknowledged: false}
  /\ jobs[h].at = "find" /\ Found(jobs[h].frame)
  /\ acked' = [acked EXCEPT ![Key(jobs[h].frame)] = 0]
  /\ Lose({jobs[h].frame} \cap Unnumbered)
  /\ Goto(h, Idle)
  /\ UNCHANGED <<robot, rules, link, alerts, fired, notices>>

AlertFound(h) ==
  /\ jobs[h].at = "find" /\ Found(jobs[h].frame)
  /\ Lose({jobs[h].frame} \cap Unnumbered)
  /\ Goto(h, Idle)
  /\ UNCHANGED <<robot, rules, link, store>>

AlertNotFound(h) ==
  /\ jobs[h].at = "find" /\ ~Found(jobs[h].frame)
  /\ Goto(h, [jobs[h] EXCEPT !.at = "create"])
  /\ UNCHANGED <<robot, rules, link, store, lost>>

TakenNever(a) == FALSE                                  \* mutant: no unique index
\* @@unique([robotId, externalId]); null is equal to nothing.
Taken(a) == a \notin Unnumbered /\ alerts[a] > 0

\* ... and creates the row, unless another handler did so since: the violation
\* of the index is logged.
AlertCreate(h) ==
  /\ jobs[h].at = "create"
  /\ alerts' = IF Taken(jobs[h].frame) THEN alerts
               ELSE [alerts EXCEPT ![jobs[h].frame] = @ + 1]
  /\ Goto(h, Idle)
  /\ UNCHANGED <<robot, rules, link, acked, fired, notices, lost>>

\* acknowledgeAlert, of one row that is there.
Acknowledge(a) ==
  /\ acked[a] < alerts[a]
  /\ acked' = [acked EXCEPT ![a] = @ + 1]
  /\ UNCHANGED <<robot, rules, link, jobs, alerts, fired, notices, lost>>

\* cleanupAcknowledgedAlerts, for the acknowledged rows that are old enough.
CleanupAcknowledged ==
  \E old \in {as \in SUBSET Alerts : as # {} /\ \A a \in as : acked[a] > 0} :
    /\ alerts' = [a \in Alerts |-> IF a \in old THEN alerts[a] - acked[a] ELSE alerts[a]]
    /\ acked' = [a \in Alerts |-> IF a \in old THEN 0 ELSE acked[a]]
    /\ Lose(old)
    /\ UNCHANGED <<robot, rules, link, jobs, fired, notices>>

-----------------------------------------------------------------------------
(* handleAlarmTriggeredMessage and the notifications it dispatches. *)

BindableAny(r) == rules[r] # None                \* mutant: robotId not compared
BindableBlind(r) == r \notin Foreign              \* mutant: the rule not tested
\* `rule && rule.robotId === robot.id`
Bindable(r) == rules[r] # None /\ r \notin Foreign

\* alarmRule.findUnique: the rule and its notify columns, or a null ruleId.
TriggerRuleOrNothing(h) ==                 \* mutant: no rule, no trigger
  /\ jobs[h].at = "rule"
  /\ LET t == jobs[h].frame r == names[t]
     IN Goto(h, IF Bindable(r) THEN Job("insert", t, r, rules[r]) ELSE Idle)
  /\ UNCHANGED <<robot, rules, link, store, lost>>

TriggerRule(h) ==
  /\ jobs[h].at = "rule"
  /\ LET t == jobs[h].frame r == names[t]
     IN Goto(h, IF Bindable(r) THEN Job("insert", t, r, rules[r])
                               ELSE Job("insert", t, None, None))
  /\ UNCHANGED <<robot, rules, link, store, lost>>

\* The rule bound a moment ago is gone, which the foreign key does not take.
Dangling(job) == job.rule # None /\ rules[job.rule] = None

TriggerInsert(h) ==
  LET t == jobs[h].frame IN
  /\ jobs[h].at = "insert" /\ ~Dangling(jobs[h])
  /\ fired' = [fired EXCEPT ![t] = @ + 1]
  /\ Goto(h, IF jobs[h].notify = None THEN Idle ELSE [jobs[h] EXCEPT !.at = "inbox"])
  /\ UNCHANGED <<robot, rules, link, alerts, acked, notices, lost>>

TriggerRejected(h) ==
  /\ jobs[h].at = "insert" /\ Dangling(jobs[h])
  /\ Lose({jobs[h].frame})
  /\ Goto(h, Idle)
  /\ UNCHANGED <<robot, rules, link, store>>

\* A failed upsert or insert is logged and its frame forgotten.
FailWrite(h) ==
  /\ "dbFail" \in Faults /\ jobs[h].at \in {"find", "create", "insert"}
  /\ Lose({jobs[h].frame})
  /\ Goto(h, Idle)
  /\ UNCHANGED <<robot, rules, link, store>>

InboxSkipped(h) ==                         \* mutant: fanOut before the record
  /\ jobs[h].at = "inbox"
  /\ Goto(h, [jobs[h] EXCEPT !.at = "mail"])
  /\ UNCHANGED <<robot, rules, link, store, lost>>

\* dispatch: the inbox record first, then fanOut when there is a recipient.
Inbox(h) ==
  /\ jobs[h].at = "inbox"
  /\ inbox' = [inbox EXCEPT ![jobs[h].frame] = @ + 1]
  /\ Goto(h, IF jobs[h].notify = "mail" THEN [jobs[h] EXCEPT !.at = "mail"] ELSE Idle)
  /\ UNCHANGED <<robot, rules, link, alerts, acked, fired, mails, lost>>

FailInbox(h) ==
  /\ "dbFail" \in Faults /\ jobs[h].at = "inbox"
  /\ Goto(h, Idle)
  /\ UNCHANGED <<robot, rules, link, store, lost>>

\* The channels send, or are disabled, or fail, which is logged.
Mail(h) ==
  /\ jobs[h].at = "mail"
  /\ mails' \in {mails, [mails EXCEPT ![jobs[h].frame] = @ + 1]}
  /\ Goto(h, Idle)
  /\ UNCHANGED <<robot, rules, link, alerts, acked, fired, inbox, lost>>

\* AlarmRuleService.update and remove, of this robot's rules.
EditRule(r) ==
  /\ rules[r] # None
  /\ \E n \in Notify \ {rules[r]} : rules' = [rules EXCEPT ![r] = n]
  /\ UNCHANGED <<robot, link, jobs, store, lost>>

\* onDelete: SetNull; the rows that name the rule keep their copy of its name.
DeleteRule(r) ==
  /\ rules[r] # None
  /\ rules' = [rules EXCEPT ![r] = None]
  /\ UNCHANGED <<robot, link, jobs, store, lost>>

-----------------------------------------------------------------------------
Robot == \E f \in Frames : Miss(f) \/ \E h \in Handlers : Receive(f, h)
Connection == Connect \/ Disconnect \/ Crash \/ Boot
Alert(h) == AlertFound(h) \/ AlertNotFound(h) \/ AlertCreate(h)
Trigger(h) == TriggerRule(h) \/ TriggerInsert(h) \/ TriggerRejected(h) \/ Inbox(h) \/ Mail(h)
Handler(h) ==
  Lookup(h) \/ Alert(h) \/ Trigger(h) \/ FailLookup(h) \/ FailWrite(h) \/ FailInbox(h)
Operator == (\E a \in Alerts : Acknowledge(a)) \/ (\E r \in Rules \ Foreign : EditRule(r) \/ DeleteRule(r))

Next == Robot \/ Connection \/ (\E h \in Handlers : Handler(h)) \/ Operator \/ CleanupAcknowledged

Spec == Init /\ [][Next]_vars

-----------------------------------------------------------------------------
\* A handler has a rule to bind together with the columns that say whom to tell.
JobType ==
  {Idle} \cup
  {Job(at, f, None, None) : at \in Stages, f \in Frames} \cup
  {Job(at, t, r, n) : at \in Stages, t \in Triggers, r \in Rules, n \in Notify}

(* The types of the state; no row is acknowledged that is not there. *)
TypeOK ==
  /\ held \subseteq Frames /\ sends \in [Frames -> 0 .. MaxSends]
  /\ names \in [Triggers -> Rules \cup {None}]
  /\ rules \in [Rules -> Notify \cup {None}]
  /\ link \in {"down", "offline", "online"}
  /\ jobs \in [Handlers -> JobType]
  /\ alerts \in [Alerts -> Nat] /\ acked \in [Alerts -> Nat]
  /\ \A a \in Alerts : acked[a] <= alerts[a]
  /\ fired \in [Triggers -> Nat]
  /\ inbox \in [Triggers -> Nat] /\ mails \in [Triggers -> Nat]
  /\ lost \subseteq Frames

Stored(f) == IF f \in Alerts THEN alerts[f] > 0 ELSE fired[f] > 0

(* A frame the robot has stopped sending is in its table or on its way      *)
(* there, unless the connection, the process, a failed statement, a rule    *)
(* deleted between its lookup and the insert, or the clean-up took it: a    *)
(* trigger whose rule was deleted or is another robot's is kept "for        *)
(* forensics".                                                              *)
StoredOrLost ==
  \A f \in Frames \ held : Stored(f) \/ f \in Carried \/ f \in lost

(* However often the robot's drainer sends an alert again, and however      *)
(* many handlers of it overlap, a numbered alert has one row.               *)
OneRowPerAlert == \A a \in Alerts \ Unnumbered : alerts[a] <= 1

(* An acknowledged alert is never open again: a redelivery leaves the row   *)
(* as the operator left it, and only the clean-up takes it away.            *)
AcknowledgedStays ==
  [][\A a \in Alerts : acked'[a] < acked[a] => alerts[a] - alerts'[a] = acked[a] - acked'[a]]_vars

(* An alert that nobody has acknowledged is not removed.                    *)
OpenAlertsStay ==
  [][\A a \in Alerts : alerts'[a] - acked'[a] < alerts[a] - acked[a] => acked'[a] > acked[a]]_vars

(* The two together: an alert only moves forward, from open to acknowledged *)
(* to removed, whatever the robot sends again and in whichever order the    *)
(* operator, the clean-up and the handlers in flight take their steps.      *)
AlertsMoveForward == AcknowledgedStays /\ OpenAlertsStay

(* A trigger mails no more often than it is in the inbox, where it is no    *)
(* oftener than it has rows, of which it has no more than deliveries: the   *)
(* inbox and the audit trail never miss what a channel sent.                *)
NoticesAreRecorded ==
  \A t \in Triggers : mails[t] <= inbox[t] /\ inbox[t] <= fired[t] /\ fired[t] <= sends[t]

(* Only the robot's own rules notify: a trigger whose payload names no      *)
(* rule, or a rule of another robot, is stored and reaches no inbox.        *)
OnlyOwnRulesNotify ==
  \A t \in Triggers : inbox[t] > 0 => names[t] \in Rules \ Foreign

=============================================================================
