------------------------- MODULE AlertIngestProofs -------------------------
(***************************************************************************)
(* That no frame is forgotten in silence, and that only the robot's own    *)
(* rules notify, for any number of frames, rules and handlers.             *)
(***************************************************************************)
EXTENDS AlertIngest, FiniteSetTheorems, TLAPS

\* What a handler's locals are when it awaits the statement it stands at.
StageSound(j) ==
  /\ j.at \in {"find", "create"} => j.frame \in Alerts
  /\ j.at \in {"rule", "insert", "inbox", "mail"} => j.frame \in Triggers
  /\ j.at = "rule" => names[j.frame] # None
  /\ j.at \in {"inbox", "mail"} => j.rule # None
  /\ j.rule # None => j.rule = names[j.frame] /\ j.rule \notin Foreign

IInv ==
  /\ TypeOK
  /\ \A h \in Handlers : StageSound(jobs[h])
  /\ StoredOrLost
  /\ OneRowPerAlert
  /\ OnlyOwnRulesNotify

-----------------------------------------------------------------------------
\* A handler is idle, or carries a frame and perhaps a rule to bind.
LEMMA JobFacts ==
  ASSUME NEW j \in JobType
  PROVE  /\ j.at = "idle" <=> j = Idle
         /\ j.at # "idle" => j.at \in Stages /\ j.frame \in Frames
         /\ j.rule = None <=> j.notify = None
         /\ j.rule # None => j.rule \in Rules /\ j.notify \in Notify /\ j.frame \in Triggers
         /\ j = Job(j.at, j.frame, j.rule, j.notify)
<1>1. CASE j = Idle
  BY <1>1 DEF Job, Idle, Stages
<1>2. CASE \E at \in Stages, f \in Frames : j = Job(at, f, None, None)
  BY <1>2 DEF Job, Idle, Stages
<1>3. CASE \E at \in Stages, t \in Triggers, r \in Rules, n \in Notify : j = Job(at, t, r, n)
  <2>1. PICK at \in Stages, t \in Triggers, r \in Rules, n \in Notify : j = Job(at, t, r, n)
    BY <1>3
  <2>2. t \in Frames /\ r # None /\ n # None
    BY RulesAssumption DEF Frames
  <2> QED BY <2>1, <2>2 DEF Job, Idle, Stages
<1> QED BY <1>1, <1>2, <1>3 DEF JobType

\* What an action of a handler may leave behind.
LEMMA JobMade ==
  ASSUME NEW at \in Stages, NEW f \in Frames
  PROVE  /\ Job(at, f, None, None) \in JobType
         /\ \A r \in Rules, n \in Notify : f \in Triggers => Job(at, f, r, n) \in JobType
         /\ Idle \in JobType
BY DEF JobType

\* The next stage of a job is a job.
LEMMA JobMoved ==
  ASSUME NEW j \in JobType, j.at # "idle", NEW at \in Stages
  PROVE  /\ [j EXCEPT !.at = at] = Job(at, j.frame, j.rule, j.notify)
         /\ [j EXCEPT !.at = at] \in JobType
<1>1. [j EXCEPT !.at = at] = Job(at, j.frame, j.rule, j.notify)
  BY JobFacts DEF Job
<1>2. CASE j.rule = None
  BY <1>1, <1>2, JobFacts, JobMade
<1>3. CASE j.rule # None
  BY <1>1, <1>3, JobFacts, JobMade
<1> QED BY <1>1, <1>2, <1>3

-----------------------------------------------------------------------------
\* A handler that goes on leaves the other handlers' jobs as they are.
LEMMA JobsAfter ==
  ASSUME IInv, NEW h \in Handlers, NEW job \in JobType, StageSound(job),
         Goto(h, job), UNCHANGED names
  PROVE  jobs' \in [Handlers -> JobType] /\ \A g \in Handlers : StageSound(jobs[g])'
BY DEF IInv, TypeOK, Goto, StageSound

\* What is carried stays so, but for the frame of the handler that goes on.
LEMMA CarriedAfter ==
  ASSUME IInv, NEW h \in Handlers, NEW job \in JobType, Goto(h, job)
  PROVE  /\ \A f \in Carried : f = jobs[h].frame \/ f \in Carried'
         /\ job.at \notin {"idle", "inbox", "mail"} => job.frame \in Carried'
BY DEF IInv, TypeOK, Goto, Carried

\* Who carries no frame still carries none when the jobs do not change.
LEMMA CarriedSame == ASSUME UNCHANGED jobs PROVE Carried' = Carried
BY DEF Carried

LEMMA CarriedFrames == ASSUME IInv PROVE Carried \subseteq Frames
<1> SUFFICES ASSUME NEW h \in Handlers, jobs[h].at # "idle" PROVE jobs[h].frame \in Frames
  BY DEF Carried
<1> QED BY JobFacts DEF IInv, TypeOK

\* The job of a handler at some stage, with what its locals are.
LEMMA JobAt ==
  ASSUME IInv, NEW h \in Handlers, jobs[h].at # "idle"
  PROVE  /\ jobs[h] \in JobType /\ StageSound(jobs[h])
         /\ jobs[h].at \in Stages /\ jobs[h].frame \in Frames
BY JobFacts DEF IInv, TypeOK

LEMMA IdleSound == Idle \in JobType /\ StageSound(Idle)
BY DEF JobType, StageSound, Idle, Job

LEMMA InitInv == Init => IInv
<1> SUFFICES ASSUME Init PROVE IInv
  OBVIOUS
<1>1. TypeOK
  BY IdleSound, FramesAssumption DEF Init, TypeOK, Frames, Notify
<1>2. \A h \in Handlers : StageSound(jobs[h])
  BY IdleSound DEF Init
<1>3. StoredOrLost /\ OneRowPerAlert /\ OnlyOwnRulesNotify
  BY DEF Init, StoredOrLost, OneRowPerAlert, OnlyOwnRulesNotify
<1> QED BY <1>1, <1>2, <1>3 DEF IInv

LEMMA SentInv ==
  ASSUME IInv, NEW f \in Frames, Sent(f)
  PROVE  /\ held' \subseteq held /\ held \subseteq held' \cup {f}
         /\ sends' \in [Frames -> 0 .. MaxSends]
BY FramesAssumption DEF IInv, TypeOK, Sent

LEMMA ReceiveInv ==
  ASSUME IInv, NEW f \in Frames, NEW h \in Handlers, Receive(f, h)
  PROVE  IInv'
<1> DEFINE job == Job("lookup", f, None, None)
<1>1. job \in JobType /\ StageSound(job) /\ job.frame = f /\ job.at = "lookup"
  BY JobMade DEF Stages, StageSound, Job
<1>2. TypeOK' /\ \A g \in Handlers : StageSound(jobs[g])'
  BY <1>1, JobsAfter, SentInv DEF IInv, TypeOK, Receive, Sent, store, notices
<1>3. \A g \in Frames : Stored(g)' <=> Stored(g)
  BY DEF Receive, Sent, Stored, store, notices
<1>4. \A g \in Carried : g \in Carried'
  <2> SUFFICES ASSUME NEW i \in Handlers, jobs[i].at \notin {"idle", "inbox", "mail"}
               PROVE  jobs[i].frame \in Carried'
    BY DEF Carried
  <2>1. i # h
    BY DEF Receive, Idle, Job
  <2>2. jobs'[i] = jobs[i]
    BY <2>1 DEF Receive, Goto, IInv, TypeOK
  <2> QED BY <2>2 DEF Carried
<1>5. f \in Carried'
  BY <1>1, CarriedAfter DEF Receive
<1>6. StoredOrLost'
  BY <1>3, <1>4, <1>5, SentInv DEF IInv, StoredOrLost, Receive
<1>7. OneRowPerAlert' /\ OnlyOwnRulesNotify'
  BY DEF IInv, Receive, Sent, OneRowPerAlert, OnlyOwnRulesNotify, store, notices
<1> QED BY <1>2, <1>6, <1>7 DEF IInv

LEMMA MissInv ==
  ASSUME IInv, NEW f \in Frames, Miss(f)
  PROVE  IInv'
<1>1. TypeOK' /\ \A g \in Handlers : StageSound(jobs[g])'
  BY SentInv DEF IInv, TypeOK, Miss, Sent, StageSound, Lose, store, notices
<1>2. StoredOrLost'
  BY SentInv, CarriedSame DEF IInv, StoredOrLost, Stored, Miss, Sent, Lose, store, notices
<1>3. OneRowPerAlert' /\ OnlyOwnRulesNotify'
  BY DEF IInv, Miss, Sent, OneRowPerAlert, OnlyOwnRulesNotify, store, notices
<1> QED BY <1>1, <1>2, <1>3 DEF IInv

\* Death loses what is carried, and says so.
LEMMA DiedInv ==
  ASSUME IInv, Died
  PROVE  IInv'
<1>1. TypeOK' /\ \A g \in Handlers : StageSound(jobs[g])'
  BY IdleSound, CarriedFrames
     DEF IInv, TypeOK, Died, StageSound, Lose, robot, store, notices
<1>2. StoredOrLost'
  BY DEF IInv, StoredOrLost, Stored, Died, Lose, robot, store, notices
<1>3. OneRowPerAlert' /\ OnlyOwnRulesNotify'
  BY DEF IInv, Died, OneRowPerAlert, OnlyOwnRulesNotify, robot, store, notices
<1> QED BY <1>1, <1>2, <1>3 DEF IInv

LEMMA LinkInv ==
  ASSUME IInv, UNCHANGED <<robot, rules, jobs, store, lost>>, link' \in {"down", "offline", "online"}
  PROVE  IInv'
<1>1. TypeOK' /\ \A g \in Handlers : StageSound(jobs[g])'
  BY DEF IInv, TypeOK, StageSound, robot, store, notices
<1>2. StoredOrLost' /\ OneRowPerAlert' /\ OnlyOwnRulesNotify'
  BY CarriedSame DEF IInv, StoredOrLost, Stored, OneRowPerAlert, OnlyOwnRulesNotify,
                     robot, store, notices
<1> QED BY <1>1, <1>2 DEF IInv

-----------------------------------------------------------------------------
\* The types of the tables.
Tables ==
  /\ alerts \in [Alerts -> Nat] /\ acked \in [Alerts -> Nat]
  /\ \A a \in Alerts : acked[a] <= alerts[a]
  /\ fired \in [Triggers -> Nat] /\ inbox \in [Triggers -> Nat] /\ mails \in [Triggers -> Nat]

\* A handler may go on to any sound job, if it drops no frame in silence.
LEMMA HandlerInv ==
  ASSUME IInv, NEW h \in Handlers, NEW job \in JobType, StageSound(job), Goto(h, job),
         UNCHANGED <<robot, rules, link>>, Tables',
         \A f \in Frames : Stored(f) => Stored(f)',
         lost \subseteq lost', lost' \subseteq Frames,
         NEW g, g = jobs[h].frame,
         jobs[h].at \in {"inbox", "mail"} \/ g \in Carried' \/ Stored(g)' \/ g \in lost',
         OneRowPerAlert', OnlyOwnRulesNotify'
  PROVE  IInv'
<1>1. TypeOK' /\ \A i \in Handlers : StageSound(jobs[i])'
  BY JobsAfter DEF IInv, TypeOK, Tables, robot
<1>2. StoredOrLost'
  <2> SUFFICES ASSUME NEW f \in Frames \ held, f \in Carried, ~Stored(f)', f \notin lost'
               PROVE  f \in Carried'
    BY DEF IInv, StoredOrLost, robot
  <2>1. CASE f # jobs[h].frame
    BY <2>1, CarriedAfter
  <2>2. CASE f = jobs[h].frame /\ jobs[h].at \notin {"inbox", "mail"}
    BY <2>2
  <2>3. CASE f = jobs[h].frame /\ jobs[h].at \in {"inbox", "mail"}
    <3>1. PICK i \in Handlers : jobs[i].frame = f /\ jobs[i].at \notin {"idle", "inbox", "mail"}
      BY DEF Carried
    <3>2. jobs'[i] = jobs[i]
      BY <2>3, <3>1 DEF Goto, IInv, TypeOK
    <3> QED BY <3>1, <3>2 DEF Carried
  <2> QED BY <2>1, <2>2, <2>3
<1> QED BY <1>1, <1>2 DEF IInv

\* With the tables as they are, only the frame of the handler is in question.
LEMMA QuietInv ==
  ASSUME IInv, NEW h \in Handlers, NEW job \in JobType, StageSound(job), Goto(h, job),
         UNCHANGED <<robot, rules, link, store>>,
         lost \subseteq lost', lost' \subseteq Frames,
         jobs[h].at \in {"inbox", "mail"} \/ jobs[h].frame \in Carried'
           \/ Stored(jobs[h].frame) \/ jobs[h].frame \in lost'
  PROVE  IInv'
<1>1. Tables' /\ OneRowPerAlert' /\ OnlyOwnRulesNotify'
  BY DEF IInv, TypeOK, Tables, OneRowPerAlert, OnlyOwnRulesNotify, robot, store, notices
<1>2. PICK g : g = jobs[h].frame
  OBVIOUS
<1>3. \A f : Stored(f)' <=> Stored(f)
  BY DEF Stored, store
<1>4. \/ jobs[h].at \in {"inbox", "mail"} \/ g \in Carried'
      \/ Stored(g)' \/ g \in lost'
  BY <1>2, <1>3
<1> QED BY <1>1, <1>2, <1>3, <1>4, HandlerInv

LEMMA LookupInv ==
  ASSUME IInv, NEW h \in Handlers, Lookup(h)
  PROVE  IInv'
<1> DEFINE f == jobs[h].frame
<1> DEFINE next == IF f \in Alerts THEN "find" ELSE IF names[f] # None THEN "rule" ELSE "insert"
<1> DEFINE job == Job(next, f, None, None)
<1>1. f \in Frames /\ next \in Stages
  BY JobAt DEF Lookup, Stages
<1>2. job \in JobType /\ StageSound(job)
  BY <1>1, JobMade DEF StageSound, Job, Frames
<1>3. Goto(h, job) /\ lost' = lost /\ UNCHANGED <<robot, rules, link, store>>
  BY DEF Lookup
<1>4. job.frame = f /\ job.at \notin {"idle", "inbox", "mail"}
  BY DEF Job
<1>5. f \in Carried'
  BY <1>2, <1>3, <1>4, CarriedAfter
<1> HIDE DEF job, next
<1> QED BY <1>2, <1>3, <1>5, QuietInv DEF IInv, TypeOK

\* A handler that gives its frame up, and says so.
LEMMA GivenUp ==
  ASSUME IInv, NEW h \in Handlers, jobs[h].at # "idle", Lose({jobs[h].frame}), Goto(h, Idle),
         UNCHANGED <<robot, rules, link, store>>
  PROVE  IInv'
<1>1. lost' \subseteq Frames /\ jobs[h].frame \in lost'
  BY JobAt DEF Lose, IInv, TypeOK
<1> QED BY <1>1, IdleSound, QuietInv DEF Lose

LEMMA AlertFoundInv ==
  ASSUME IInv, NEW h \in Handlers, AlertFound(h)
  PROVE  IInv'
<1> DEFINE a == jobs[h].frame
<1>1. a \in Alerts /\ a \in Frames
  BY JobAt DEF AlertFound, StageSound
<1>2. a \in Unnumbered => a \in lost'
  BY DEF AlertFound, Lose
<1>3. a \notin Unnumbered => Stored(a)
  BY <1>1 DEF AlertFound, Found, Key, Stored
<1>4. lost \subseteq lost' /\ lost' \subseteq Frames
  BY <1>1 DEF AlertFound, Lose, IInv, TypeOK
<1> QED BY <1>2, <1>3, <1>4, IdleSound, QuietInv DEF AlertFound

LEMMA AlertNotFoundInv ==
  ASSUME IInv, NEW h \in Handlers, AlertNotFound(h)
  PROVE  IInv'
<1> DEFINE job == [jobs[h] EXCEPT !.at = "create"]
<1>1. /\ jobs[h] \in JobType /\ jobs[h].at = "find" /\ jobs[h].frame \in Alerts
      /\ StageSound(jobs[h])
  BY JobAt DEF AlertNotFound, StageSound
<1>2. job \in JobType /\ job = Job("create", jobs[h].frame, jobs[h].rule, jobs[h].notify)
  BY <1>1, JobMoved DEF Stages
<1>3. StageSound(job) /\ job.frame = jobs[h].frame /\ job.at = "create"
  BY <1>1, <1>2 DEF StageSound, Job
<1> HIDE DEF job
<1>4. Goto(h, job) /\ lost' = lost /\ UNCHANGED <<robot, rules, link, store>>
  BY DEF AlertNotFound, job
<1>5. jobs[h].frame \in Carried'
  BY <1>2, <1>3, <1>4, CarriedAfter
<1> QED BY <1>2, <1>3, <1>4, <1>5, QuietInv DEF IInv, TypeOK

LEMMA AlertCreateInv ==
  ASSUME IInv, NEW h \in Handlers, AlertCreate(h)
  PROVE  IInv'
<1>1. PICK a \in Alerts : a = jobs[h].frame
  BY JobAt DEF AlertCreate, StageSound
<1>2. /\ alerts' \in [Alerts -> Nat] /\ \A b \in Alerts : alerts[b] <= alerts'[b]
      /\ alerts'[a] > 0 /\ \A b \in Alerts : b # a => alerts'[b] = alerts[b]
      /\ a \notin Unnumbered => alerts'[a] <= 1
  BY <1>1 DEF AlertCreate, Taken, IInv, TypeOK, OneRowPerAlert
<1>3. UNCHANGED <<acked, fired, inbox, mails, names>> /\ lost' = lost
  BY DEF AlertCreate, notices, robot
<1>4. Tables'
  <2>1. ASSUME NEW b \in Alerts PROVE acked'[b] <= alerts'[b]
    BY <1>2, <1>3 DEF IInv, TypeOK
  <2> QED BY <2>1, <1>2, <1>3 DEF IInv, TypeOK, Tables
<1>5. OneRowPerAlert' /\ OnlyOwnRulesNotify'
  BY <1>2, <1>3 DEF IInv, OneRowPerAlert, OnlyOwnRulesNotify
<1>6. Stored(a)' /\ \A f \in Frames : Stored(f) => Stored(f)'
  BY <1>2, <1>3 DEF Stored, IInv, TypeOK
<1> QED BY <1>1, <1>3, <1>4, <1>5, <1>6, IdleSound, HandlerInv DEF AlertCreate, IInv, TypeOK

LEMMA TriggerRuleInv ==
  ASSUME IInv, NEW h \in Handlers, TriggerRule(h)
  PROVE  IInv'
<1> DEFINE t == jobs[h].frame
<1> DEFINE r == names[t]
<1> DEFINE job == IF Bindable(r) THEN Job("insert", t, r, rules[r]) ELSE Job("insert", t, None, None)
<1>1. t \in Triggers /\ t \in Frames /\ r \in Rules
  BY JobAt DEF TriggerRule, StageSound, IInv, TypeOK
<1>2. Bindable(r) => rules[r] \in Notify /\ r \notin Foreign
  BY <1>1 DEF Bindable, IInv, TypeOK
<1>3. job \in JobType /\ job.frame = t /\ job.at = "insert"
  BY <1>1, <1>2, JobMade DEF Stages, Job
<1>4. StageSound(job)
  BY <1>1, <1>2 DEF StageSound, Job
<1>5. Goto(h, job) /\ lost' = lost /\ UNCHANGED <<robot, rules, link, store>>
  BY DEF TriggerRule
<1> HIDE DEF job
<1>6. t \in Carried'
  BY <1>3, <1>5, CarriedAfter
<1> QED BY <1>3, <1>4, <1>5, <1>6, QuietInv DEF IInv, TypeOK

\* A job that goes on with the same locals, to the inbox record or the mail.
LEMMA Notifies ==
  ASSUME IInv, NEW h \in Handlers, jobs[h].at \in {"insert", "inbox"}, jobs[h].rule # None,
         NEW at \in {"inbox", "mail"}
  PROVE  [jobs[h] EXCEPT !.at = at] \in JobType /\ StageSound([jobs[h] EXCEPT !.at = at])
<1>1. jobs[h] \in JobType /\ StageSound(jobs[h]) /\ at \in Stages
  BY JobAt DEF Stages
<1>2. /\ [jobs[h] EXCEPT !.at = at] \in JobType
      /\ [jobs[h] EXCEPT !.at = at] = Job(at, jobs[h].frame, jobs[h].rule, jobs[h].notify)
  BY <1>1, JobMoved
<1> QED BY <1>1, <1>2 DEF StageSound, Job

LEMMA TriggerInsertInv ==
  ASSUME IInv, NEW h \in Handlers, TriggerInsert(h)
  PROVE  IInv'
<1>1. PICK t \in Triggers : t = jobs[h].frame
  BY JobAt DEF TriggerInsert, StageSound
<1>2. PICK job : job = IF jobs[h].notify = None THEN Idle ELSE [jobs[h] EXCEPT !.at = "inbox"]
  OBVIOUS
<1>3. job \in JobType /\ StageSound(job)
  <2>1. CASE jobs[h].notify = None
    BY <1>2, <2>1, IdleSound
  <2>2. CASE jobs[h].notify # None
    <3>1. jobs[h].rule # None
      BY <2>2, JobAt, JobFacts DEF TriggerInsert
    <3> QED BY <1>2, <2>2, <3>1, Notifies DEF TriggerInsert
  <2> QED BY <2>1, <2>2
<1>4. Goto(h, job) /\ UNCHANGED <<robot, rules, link, alerts, acked, inbox, mails, lost>>
  BY <1>2 DEF TriggerInsert, notices
<1>5. fired' = [fired EXCEPT ![t] = @ + 1]
  BY <1>1 DEF TriggerInsert
<1>6. Tables'
  BY <1>4, <1>5 DEF Tables, IInv, TypeOK
<1>7. t \notin Alerts
  BY FramesAssumption
<1>8. Stored(t)' /\ \A f \in Frames : Stored(f) => Stored(f)'
  BY <1>4, <1>5, <1>7 DEF Stored, IInv, TypeOK, Frames
<1>9. OneRowPerAlert' /\ OnlyOwnRulesNotify'
  BY <1>4 DEF IInv, OneRowPerAlert, OnlyOwnRulesNotify, robot
<1> QED BY <1>1, <1>3, <1>4, <1>6, <1>8, <1>9, HandlerInv DEF IInv, TypeOK

LEMMA InboxInv ==
  ASSUME IInv, NEW h \in Handlers, Inbox(h)
  PROVE  IInv'
<1>1. jobs[h].at = "inbox" /\ jobs[h].rule # None /\ StageSound(jobs[h]) /\ jobs[h] \in JobType
  BY JobAt DEF Inbox, StageSound
<1>2. PICK t \in Triggers : t = jobs[h].frame
  BY <1>1 DEF StageSound
<1>3. names[t] \in Rules \ Foreign
  BY <1>1, <1>2, JobFacts DEF StageSound
<1>4. PICK job : job = IF jobs[h].notify = "mail" THEN [jobs[h] EXCEPT !.at = "mail"] ELSE Idle
  OBVIOUS
<1>5. job \in JobType /\ StageSound(job)
  BY <1>1, <1>4, Notifies, IdleSound
<1>6. Goto(h, job) /\ UNCHANGED <<robot, rules, link, alerts, acked, fired, mails, lost>>
  BY <1>4 DEF Inbox
<1>7. inbox' = [inbox EXCEPT ![t] = @ + 1]
  BY <1>2 DEF Inbox
<1>8. Tables' /\ OneRowPerAlert'
  BY <1>6, <1>7 DEF Tables, IInv, TypeOK, OneRowPerAlert
<1>9. OnlyOwnRulesNotify'
  BY <1>3, <1>6, <1>7 DEF OnlyOwnRulesNotify, IInv, TypeOK, robot
<1>10. \A f : Stored(f)' <=> Stored(f)
  BY <1>6 DEF Stored
<1> QED BY <1>1, <1>2, <1>5, <1>6, <1>8, <1>9, <1>10, HandlerInv DEF IInv, TypeOK

LEMMA MailInv ==
  ASSUME IInv, NEW h \in Handlers, Mail(h)
  PROVE  IInv'
<1>1. PICK t \in Triggers : t = jobs[h].frame
  BY JobAt DEF Mail, StageSound
<1>2. mails' \in [Triggers -> Nat]
  BY <1>1 DEF Mail, IInv, TypeOK
<1>3. Tables' /\ OneRowPerAlert' /\ OnlyOwnRulesNotify'
  BY <1>2 DEF Mail, Tables, IInv, TypeOK, OneRowPerAlert, OnlyOwnRulesNotify, robot
<1>4. \A f : Stored(f)' <=> Stored(f)
  BY DEF Mail, Stored
<1> QED BY <1>1, <1>3, <1>4, IdleSound, HandlerInv DEF Mail, IInv, TypeOK

LEMMA HandlerStep ==
  ASSUME IInv, NEW h \in Handlers, Handler(h)
  PROVE  IInv'
<1>1. CASE Lookup(h)
  BY <1>1, LookupInv
<1>2. CASE Alert(h)
  BY <1>2, AlertFoundInv, AlertNotFoundInv, AlertCreateInv DEF Alert
<1>3. CASE TriggerRejected(h)
  BY <1>3, GivenUp DEF TriggerRejected
<1>4. CASE Trigger(h) /\ ~TriggerRejected(h)
  BY <1>4, TriggerRuleInv, TriggerInsertInv, InboxInv, MailInv DEF Trigger
<1>5. CASE FailLookup(h)
  BY <1>5, DiedInv DEF FailLookup
<1>6. CASE FailWrite(h)
  BY <1>6, GivenUp DEF FailWrite
<1>7. CASE FailInbox(h)
  BY <1>7, IdleSound, QuietInv DEF FailInbox, IInv, TypeOK
<1> QED BY <1>1, <1>2, <1>3, <1>4, <1>5, <1>6, <1>7 DEF Handler

-----------------------------------------------------------------------------
LEMMA AcknowledgeInv ==
  ASSUME IInv, NEW a \in Alerts, Acknowledge(a)
  PROVE  IInv'
<1>1. acked' \in [Alerts -> Nat] /\ \A b \in Alerts : acked'[b] <= alerts'[b]
  BY DEF Acknowledge, IInv, TypeOK
<1>2. TypeOK' /\ \A g \in Handlers : StageSound(jobs[g])'
  BY <1>1 DEF Acknowledge, IInv, TypeOK, StageSound, robot, notices
<1>3. StoredOrLost' /\ OneRowPerAlert' /\ OnlyOwnRulesNotify'
  BY CarriedSame DEF Acknowledge, IInv, StoredOrLost, Stored, OneRowPerAlert,
                     OnlyOwnRulesNotify, robot, notices
<1> QED BY <1>2, <1>3 DEF IInv

LEMMA RulesInv ==
  ASSUME IInv, rules' \in [Rules -> Notify \cup {None}], UNCHANGED <<robot, link, jobs, store, lost>>
  PROVE  IInv'
<1>1. TypeOK' /\ \A g \in Handlers : StageSound(jobs[g])'
  BY DEF IInv, TypeOK, StageSound, robot, store, notices
<1>2. StoredOrLost' /\ OneRowPerAlert' /\ OnlyOwnRulesNotify'
  BY CarriedSame DEF IInv, StoredOrLost, Stored, OneRowPerAlert, OnlyOwnRulesNotify,
                     robot, store, notices
<1> QED BY <1>1, <1>2 DEF IInv

LEMMA CleanupInv ==
  ASSUME IInv, CleanupAcknowledged
  PROVE  IInv'
<1>1. PICK old \in SUBSET Alerts :
        /\ alerts' = [a \in Alerts |-> IF a \in old THEN alerts[a] - acked[a] ELSE alerts[a]]
        /\ acked' = [a \in Alerts |-> IF a \in old THEN 0 ELSE acked[a]]
        /\ lost' = lost \cup old
        /\ UNCHANGED <<robot, rules, link, jobs, fired, notices>>
  BY DEF CleanupAcknowledged, Lose
<1>2. /\ alerts' \in [Alerts -> Nat] /\ acked' \in [Alerts -> Nat]
      /\ \A b \in Alerts : acked'[b] <= alerts'[b] /\ alerts'[b] <= alerts[b]
  BY <1>1 DEF IInv, TypeOK
<1>3. TypeOK' /\ \A g \in Handlers : StageSound(jobs[g])'
  BY <1>1, <1>2 DEF IInv, TypeOK, StageSound, Frames, robot, notices
<1>4. StoredOrLost'
  BY <1>1, CarriedSame DEF IInv, StoredOrLost, Stored, robot
<1>5. OneRowPerAlert' /\ OnlyOwnRulesNotify'
  BY <1>1, <1>2 DEF IInv, TypeOK, OneRowPerAlert, OnlyOwnRulesNotify, robot, notices
<1> QED BY <1>3, <1>4, <1>5 DEF IInv

LEMMA NextInv ==
  ASSUME IInv, [Next]_vars
  PROVE  IInv'
<1>1. CASE Robot
  BY <1>1, ReceiveInv, MissInv DEF Robot
<1>2. CASE Connection
  BY <1>2, LinkInv, DiedInv DEF Connection, Connect, Disconnect, Crash, Boot
<1>3. CASE \E h \in Handlers : Handler(h)
  BY <1>3, HandlerStep
<1>4. CASE Operator
  <2>1. CASE \E a \in Alerts : Acknowledge(a)
    BY <2>1, AcknowledgeInv
  <2>2. CASE \E r \in Rules \ Foreign : EditRule(r) \/ DeleteRule(r)
    <3>1. rules' \in [Rules -> Notify \cup {None}]
      BY <2>2 DEF EditRule, DeleteRule, IInv, TypeOK
    <3> QED BY <2>2, <3>1, RulesInv DEF EditRule, DeleteRule
  <2> QED BY <1>4, <2>1, <2>2 DEF Operator
<1>5. CASE CleanupAcknowledged
  BY <1>5, CleanupInv
<1>6. CASE UNCHANGED vars
  BY <1>6, LinkInv DEF vars, IInv, TypeOK
<1> QED BY <1>1, <1>2, <1>3, <1>4, <1>5, <1>6 DEF Next

LEMMA Invariance == Spec => []IInv
<1> QED BY InitInv, NextInv, PTL DEF Spec

(* The state of the ingest has its types, for any number of frames, rules   *)
(* and handlers.                                                            *)
THEOREM TypeCorrect == Spec => []TypeOK
<1>1. IInv => TypeOK
  BY DEF IInv
<1> QED BY <1>1, Invariance, PTL

(* A frame the robot stopped sending is stored, on its way, or among those  *)
(* that a named cause took: handleAlertMessage and                          *)
(* handleAlarmTriggeredMessage have no path that forgets one.               *)
THEOREM NoFrameForgotten == Spec => []StoredOrLost
<1>1. IInv => StoredOrLost
  BY DEF IInv
<1> QED BY <1>1, Invariance, PTL

(* An alert the drainer sends again keeps its one row.                      *)
THEOREM AlertKeepsOneRow == Spec => []OneRowPerAlert
<1>1. IInv => OneRowPerAlert
  BY DEF IInv
<1> QED BY <1>1, Invariance, PTL

(* A rule id in a payload notifies nobody unless the rule is this robot's.  *)
THEOREM OwnRulesNotify == Spec => []OnlyOwnRulesNotify
<1>1. IInv => OnlyOwnRulesNotify
  BY DEF IInv
<1> QED BY <1>1, Invariance, PTL

-----------------------------------------------------------------------------
(* The rows of alerts and their acknowledgements. *)

\* Only an operator acknowledges, and only the clean-up removes.
LEMMA RowsStep ==
  ASSUME IInv, [Next]_vars
  PROVE  \/ acked' = acked /\ \A a \in Alerts : alerts[a] <= alerts'[a]
         \/ \E a \in Alerts : Acknowledge(a)
         \/ CleanupAcknowledged
<1>1. CASE UNCHANGED <<alerts, acked>>
  BY <1>1 DEF IInv, TypeOK
<1>2. CASE Robot \/ Connection \/ UNCHANGED vars
  <2>1. UNCHANGED <<alerts, acked>>
    BY <1>2 DEF Robot, Receive, Miss, Sent, Connection, Connect, Disconnect, Crash, Died, Boot,
                vars, store
  <2> QED BY <1>1, <2>1
<1>3. ASSUME NEW h \in Handlers, AlertCreate(h)
      PROVE  acked' = acked /\ \A a \in Alerts : alerts[a] <= alerts'[a]
  BY <1>3 DEF AlertCreate, IInv, TypeOK
<1>4. ASSUME NEW h \in Handlers, Handler(h), ~AlertCreate(h)
      PROVE  UNCHANGED <<alerts, acked>>
  BY <1>4 DEF Handler, Lookup, Alert, AlertFound, AlertNotFound, Trigger, TriggerRule,
              TriggerInsert, TriggerRejected, Inbox, Mail, FailLookup, FailWrite, FailInbox,
              Died, store
<1>5. CASE \E r \in Rules \ Foreign : EditRule(r) \/ DeleteRule(r)
  <2>1. UNCHANGED <<alerts, acked>>
    BY <1>5 DEF EditRule, DeleteRule, store
  <2> QED BY <1>1, <2>1
<1> QED BY <1>1, <1>2, <1>3, <1>4, <1>5 DEF Next, Operator

\* What the clean-up takes from an alert are its acknowledged rows.
LEMMA CleanupRows ==
  ASSUME IInv, CleanupAcknowledged, NEW a \in Alerts
  PROVE  \/ alerts'[a] = alerts[a] - acked[a] /\ acked'[a] = 0
         \/ alerts'[a] = alerts[a] /\ acked'[a] = acked[a]
BY DEF CleanupAcknowledged

(* acknowledgeAlert is never undone: an acknowledgement goes only with the  *)
(* row that carries it, whatever the drainer sends again.                   *)
THEOREM AcknowledgementsStay == Spec => AcknowledgedStays
<1> DEFINE Kept == \A a \in Alerts :
             acked'[a] < acked[a] => alerts[a] - alerts'[a] = acked[a] - acked'[a]
<1>1. ASSUME IInv, [Next]_vars PROVE Kept
  <2> SUFFICES ASSUME NEW a \in Alerts, acked'[a] < acked[a]
               PROVE  alerts[a] - alerts'[a] = acked[a] - acked'[a]
    OBVIOUS
  <2>1. acked[a] \in Nat /\ alerts[a] \in Nat
    BY <1>1 DEF IInv, TypeOK
  <2>2. ~ \E b \in Alerts : Acknowledge(b)
    BY <1>1, <2>1 DEF Acknowledge, IInv, TypeOK
  <2>3. CleanupAcknowledged
    BY <1>1, <2>1, <2>2, RowsStep
  <2> QED BY <1>1, <2>1, <2>3, CleanupRows
<1> QED BY <1>1, Invariance, PTL DEF Spec, AcknowledgedStays

(* An alert nobody has acknowledged is not removed: an open row goes only   *)
(* by becoming an acknowledged one.                                         *)
THEOREM OpenAlertsAreKept == Spec => OpenAlertsStay
<1> DEFINE Kept == \A a \in Alerts :
             alerts'[a] - acked'[a] < alerts[a] - acked[a] => acked'[a] > acked[a]
<1>1. ASSUME IInv, [Next]_vars PROVE Kept
  <2> SUFFICES ASSUME NEW a \in Alerts, alerts'[a] - acked'[a] < alerts[a] - acked[a]
               PROVE  acked'[a] > acked[a]
    OBVIOUS
  <2>1. acked[a] \in Nat /\ alerts[a] \in Nat /\ acked'[a] \in Nat /\ alerts'[a] \in Nat
    BY <1>1, NextInv DEF IInv, TypeOK
  <2>2. ~CleanupAcknowledged
    BY <1>1, <2>1, CleanupRows
  <2>3. \E b \in Alerts : Acknowledge(b)
    BY <1>1, <2>1, <2>2, RowsStep
  <2> QED BY <1>1, <2>1, <2>3 DEF Acknowledge, IInv, TypeOK
<1> QED BY <1>1, Invariance, PTL DEF Spec, OpenAlertsStay

\* An alert only moves from open to acknowledged to removed: no frame reopens
\* it, and nothing removes it open.
THEOREM AlertsOnlyMoveForward == Spec => AlertsMoveForward
BY AcknowledgementsStay, OpenAlertsAreKept DEF AlertsMoveForward

-----------------------------------------------------------------------------
(* The ledger of a trigger: what its handlers in flight are about to record *)
(* is covered by what was recorded, or received, before.                    *)

Early == {"lookup", "rule", "insert"}

At(stages, t) == {h \in Handlers : jobs[h].at \in stages /\ jobs[h].frame = t}
Count(stages, t) == Cardinality(At(stages, t))
One(job, stages, t) == IF job.at \in stages /\ job.frame = t THEN 1 ELSE 0

Ledger(t) ==
  /\ fired[t] + Count(Early, t) <= sends[t]
  /\ inbox[t] + Count({"inbox"}, t) <= fired[t]
  /\ mails[t] + Count({"mail"}, t) <= inbox[t]

LEMMA CountFinite ==
  ASSUME NEW stages, NEW t
  PROVE  IsFiniteSet(At(stages, t)) /\ Count(stages, t) \in Nat
<1>1. At(stages, t) \subseteq Handlers
  BY DEF At
<1>2. IsFiniteSet(At(stages, t))
  BY <1>1, HandlersAssumption, FS_Subset
<1> QED BY <1>2, FS_CardinalityType DEF Count

LEMMA CountFiniteNext ==
  ASSUME NEW stages, NEW t
  PROVE  IsFiniteSet(At(stages, t))' /\ Count(stages, t)' \in Nat
<1>1. At(stages, t)' \subseteq Handlers
  BY DEF At
<1>2. IsFiniteSet(At(stages, t)')
  BY <1>1, HandlersAssumption, FS_Subset
<1> QED BY <1>2, FS_CardinalityType DEF Count

\* A handler that goes on leaves the count it was in and enters its next one.
LEMMA CountAfter ==
  ASSUME TypeOK, NEW h \in Handlers, NEW job, Goto(h, job), NEW stages, NEW t
  PROVE  Count(stages, t)' = (Count(stages, t) - One(jobs[h], stages, t)) + One(job, stages, t)
<1> DEFINE others == At(stages, t) \ {h}
<1>1. jobs'[h] = job /\ \A i \in Handlers \ {h} : jobs'[i] = jobs[i]
  BY DEF TypeOK, Goto
<1>2. IsFiniteSet(others) /\ h \notin others
      /\ Cardinality(others) = Count(stages, t) - One(jobs[h], stages, t)
  <2>1. h \in At(stages, t) <=> One(jobs[h], stages, t) = 1
    BY DEF At, One
  <2>2. One(jobs[h], stages, t) \in {0, 1}
    BY DEF One
  <2>3. IsFiniteSet(At(stages, t)) /\ Count(stages, t) \in Nat
    BY CountFinite
  <2>4. /\ IsFiniteSet(others)
        /\ Cardinality(others) = IF h \in At(stages, t) THEN Count(stages, t) - 1 ELSE Count(stages, t)
    BY <2>3, FS_RemoveElement DEF Count
  <2> QED BY <2>1, <2>2, <2>3, <2>4
<1>3. Cardinality(others) \in Nat
  BY <1>2, FS_CardinalityType
<1>4. CASE job.at \in stages /\ job.frame = t
  <2>1. At(stages, t)' = others \cup {h}
    BY <1>1, <1>4 DEF At
  <2>2. Cardinality(others \cup {h}) = Cardinality(others) + 1
    BY <1>2, FS_AddElement
  <2> QED BY <1>2, <1>4, <2>1, <2>2 DEF Count, One
<1>5. CASE ~(job.at \in stages /\ job.frame = t)
  <2>1. At(stages, t)' = others
    BY <1>1, <1>5 DEF At
  <2> QED BY <1>2, <1>3, <1>5, <2>1 DEF Count, One
<1> QED BY <1>4, <1>5

\* What a handler's step must balance.
LEMMA LedgerAfter ==
  ASSUME TypeOK, TypeOK', NEW h \in Handlers, NEW job, Goto(h, job), NEW t \in Triggers, Ledger(t),
         fired'[t] - fired[t] + One(job, Early, t) <= sends'[t] - sends[t] + One(jobs[h], Early, t),
         inbox'[t] - inbox[t] + One(job, {"inbox"}, t)
           <= fired'[t] - fired[t] + One(jobs[h], {"inbox"}, t),
         mails'[t] - mails[t] + One(job, {"mail"}, t)
           <= inbox'[t] - inbox[t] + One(jobs[h], {"mail"}, t)
  PROVE  Ledger(t)'
<1>1. \A stages : /\ Count(stages, t) \in Nat /\ Count(stages, t)' \in Nat
                   /\ Count(stages, t)' = (Count(stages, t) - One(jobs[h], stages, t)) + One(job, stages, t)
  BY CountFinite, CountFiniteNext, CountAfter
<1>2. \A stages : One(jobs[h], stages, t) \in {0, 1} /\ One(job, stages, t) \in {0, 1}
  BY DEF One
<1>3. /\ fired[t] \in Nat /\ inbox[t] \in Nat /\ mails[t] \in Nat /\ sends[t] \in Nat
      /\ fired'[t] \in Nat /\ inbox'[t] \in Nat /\ mails'[t] \in Nat /\ sends'[t] \in Nat
  BY FramesAssumption DEF TypeOK, Frames
<1> HIDE DEF One
<1>4. (fired[t] + Count(Early, t))' <= sends'[t]
  BY <1>1, <1>2, <1>3 DEF Ledger
<1>5. (inbox[t] + Count({"inbox"}, t))' <= fired'[t]
  BY <1>1, <1>2, <1>3 DEF Ledger
<1>6. (mails[t] + Count({"mail"}, t))' <= inbox'[t]
  BY <1>1, <1>2, <1>3 DEF Ledger
<1> QED BY <1>4, <1>5, <1>6 DEF Ledger
\* While no handler goes on, the ledger stays.
LEMMA LedgerSame ==
  ASSUME UNCHANGED <<jobs, fired, notices>>, IInv, IInv', NEW t \in Triggers, Ledger(t),
         sends[t] <= sends'[t]
  PROVE  Ledger(t)'
<1>1. \A stages : Count(stages, t)' = Count(stages, t) /\ Count(stages, t) \in Nat
  BY CountFinite DEF Count, At
<1>2. fired[t] \in Nat /\ sends[t] \in Nat /\ sends'[t] \in Nat
  BY FramesAssumption DEF IInv, TypeOK, Frames
<1>3. fired'[t] + Count(Early, t)' <= sends'[t]
  BY <1>1, <1>2 DEF Ledger
<1> QED BY <1>1, <1>3 DEF Ledger, notices

\* The process dies with nothing but what was about to be recorded.
LEMMA LedgerDied ==
  ASSUME Died, IInv, NEW t \in Triggers, Ledger(t)
  PROVE  Ledger(t)'
<1>1. ASSUME NEW stages, "idle" \notin stages
      PROVE  Count(stages, t) \in Nat /\ Count(stages, t)' = 0
  <2>1. At(stages, t)' = {}
    BY <1>1 DEF Died, At, Idle, Job
  <2> QED BY <2>1, CountFinite, FS_EmptySet DEF Count
<1>2. /\ fired[t] \in Nat /\ inbox[t] \in Nat /\ mails[t] \in Nat /\ sends[t] \in Nat
      /\ UNCHANGED <<fired, inbox, mails, sends>>
  BY FramesAssumption DEF IInv, TypeOK, Frames, Died, robot, store, notices
<1>3. "idle" \notin Early
  BY DEF Early
<1> QED BY <1>1, <1>2, <1>3 DEF Ledger

LEMMA LedgerReceive ==
  ASSUME NEW f \in Frames, NEW h \in Handlers, Receive(f, h), IInv, IInv',
         NEW t \in Triggers, Ledger(t)
  PROVE  Ledger(t)'
<1> DEFINE job == Job("lookup", f, None, None)
<1>1. Goto(h, job) /\ jobs[h] = Idle /\ UNCHANGED <<fired, inbox, mails>>
  BY DEF Receive, Sent, store, notices
<1>2. One(job, Early, t) = (IF f = t THEN 1 ELSE 0) /\ One(jobs[h], Early, t) = 0
  BY <1>1 DEF One, Early, Job, Idle
<1>3. \A s \in {"inbox", "mail"} : One(job, {s}, t) = 0 /\ One(jobs[h], {s}, t) = 0
  BY <1>1 DEF One, Job, Idle
<1>4. sends'[t] - sends[t] = IF f = t THEN 1 ELSE 0
  BY FramesAssumption DEF Receive, Sent, IInv, TypeOK, Frames
<1>5. fired[t] \in Nat /\ inbox[t] \in Nat /\ mails[t] \in Nat /\ sends[t] \in Nat /\ sends'[t] \in Nat
  BY FramesAssumption DEF IInv, TypeOK, Frames
<1> HIDE DEF job
<1> QED BY <1>1, <1>2, <1>3, <1>4, <1>5, LedgerAfter DEF IInv

\* A handler that records nothing and does not start to.
LEMMA LedgerQuiet ==
  ASSUME IInv, IInv', NEW h \in Handlers, NEW job, Goto(h, job), job.at \notin {"inbox", "mail"},
         UNCHANGED <<robot, fired, notices>>, NEW t \in Triggers, Ledger(t),
         One(job, Early, t) <= One(jobs[h], Early, t)
  PROVE  Ledger(t)'
<1>1. \A s \in {"inbox", "mail"} : One(job, {s}, t) = 0 /\ One(jobs[h], {s}, t) \in {0, 1}
  BY DEF One
<1>2. One(job, Early, t) \in {0, 1} /\ One(jobs[h], Early, t) \in {0, 1}
  BY DEF One
<1>3. fired[t] \in Nat /\ inbox[t] \in Nat /\ mails[t] \in Nat /\ sends[t] \in Nat
  BY FramesAssumption DEF IInv, TypeOK, Frames
<1>4. UNCHANGED <<sends, fired, inbox, mails>>
  BY DEF robot, notices
<1> QED BY <1>1, <1>2, <1>3, <1>4, LedgerAfter DEF IInv

\* The three steps that record something.
LEMMA LedgerRecord ==
  ASSUME IInv, IInv', NEW h \in Handlers, TriggerInsert(h) \/ Inbox(h) \/ Mail(h),
         NEW t \in Triggers, Ledger(t)
  PROVE  Ledger(t)'
<1> DEFINE j == jobs[h]
<1> DEFINE This == IF j.frame = t THEN 1 ELSE 0
<1> DEFINE Follows(job) ==
             \/ job = Idle
             \/ TriggerInsert(h) /\ job = [j EXCEPT !.at = "inbox"]
             \/ Inbox(h) /\ job = [j EXCEPT !.at = "mail"]
<1>1. PICK job : Goto(h, job) /\ Follows(job)
  <2>1. CASE TriggerInsert(h)
    <3>1. Goto(h, IF j.notify = None THEN Idle ELSE [j EXCEPT !.at = "inbox"])
      BY <2>1 DEF TriggerInsert
    <3> QED BY <2>1, <3>1
  <2>2. CASE Inbox(h)
    <3>1. Goto(h, IF j.notify = "mail" THEN [j EXCEPT !.at = "mail"] ELSE Idle)
      BY <2>2 DEF Inbox
    <3> QED BY <2>2, <3>1
  <2>3. CASE Mail(h)
    <3>1. Goto(h, Idle)
      BY <2>3 DEF Mail
    <3> QED BY <3>1
  <2> QED BY <2>1, <2>2, <2>3
<1>2. j = Job(j.at, j.frame, j.rule, j.notify) /\ j.frame \in Triggers
  BY JobAt, JobFacts DEF TriggerInsert, Inbox, Mail, StageSound
<1>3. /\ job.at \in {"idle", "inbox", "mail"} /\ (job.at # "idle" => job.frame = j.frame)
      /\ job.at = "inbox" => TriggerInsert(h)
      /\ job.at = "mail" => Inbox(h)
  BY <1>1, <1>2 DEF Job, Idle
<1>4. fired[t] \in Nat /\ inbox[t] \in Nat /\ mails[t] \in Nat /\ sends[t] \in Nat
  BY FramesAssumption DEF IInv, TypeOK, Frames
<1>5. One(job, Early, t) = 0
  BY <1>3 DEF One, Early
<1>6. CASE TriggerInsert(h)
  <2>1. j.at = "insert" /\ UNCHANGED <<sends, inbox, mails>> /\ fired'[t] = fired[t] + This
    BY <1>4, <1>6 DEF TriggerInsert, robot, notices, IInv, TypeOK
  <2>2. One(j, Early, t) = This /\ One(j, {"inbox"}, t) = 0 /\ One(j, {"mail"}, t) = 0
    BY <2>1 DEF One, Early
  <2>3. One(job, {"inbox"}, t) <= This /\ One(job, {"mail"}, t) = 0
    BY <1>3, <2>1 DEF One, Inbox
  <2>4. One(job, {"inbox"}, t) \in {0, 1}
    BY DEF One
  <2> QED BY <1>1, <1>4, <1>5, <2>1, <2>2, <2>3, <2>4, LedgerAfter DEF IInv
<1>7. CASE Inbox(h)
  <2>1. j.at = "inbox" /\ UNCHANGED <<sends, fired, mails>> /\ inbox'[t] = inbox[t] + This
    BY <1>4, <1>7 DEF Inbox, robot, IInv, TypeOK
  <2>2. One(j, Early, t) = 0 /\ One(j, {"inbox"}, t) = This /\ One(j, {"mail"}, t) = 0
    BY <2>1 DEF One, Early
  <2>3. One(job, {"inbox"}, t) = 0 /\ One(job, {"mail"}, t) <= This
    BY <1>3, <2>1 DEF One, TriggerInsert
  <2>4. One(job, {"mail"}, t) \in {0, 1}
    BY DEF One
  <2> QED BY <1>1, <1>4, <1>5, <2>1, <2>2, <2>3, <2>4, LedgerAfter DEF IInv
<1>8. CASE Mail(h)
  <2>1. j.at = "mail" /\ UNCHANGED <<sends, fired, inbox>> /\ mails'[t] \in {mails[t], mails[t] + This}
    BY <1>4, <1>8 DEF Mail, robot, IInv, TypeOK
  <2>2. One(j, Early, t) = 0 /\ One(j, {"inbox"}, t) = 0 /\ One(j, {"mail"}, t) = This
    BY <2>1 DEF One, Early
  <2>3. One(job, {"inbox"}, t) = 0 /\ One(job, {"mail"}, t) = 0
    BY <1>3, <2>1 DEF One, TriggerInsert, Inbox
  <2> QED BY <1>1, <1>4, <1>5, <2>1, <2>2, <2>3, LedgerAfter DEF IInv
<1> QED BY <1>6, <1>7, <1>8
LEMMA LedgerHandler ==
  ASSUME IInv, IInv', NEW h \in Handlers, Handler(h), NEW t \in Triggers, Ledger(t)
  PROVE  Ledger(t)'
<1>1. One(Idle, Early, t) = 0 /\ Idle.at = "idle"
  BY DEF One, Early, Idle, Job
<1>2. One(jobs[h], Early, t) \in {0, 1}
  BY DEF One
<1>3. CASE Lookup(h) \/ TriggerRule(h)
  <2>1. PICK job : /\ Goto(h, job) /\ job.frame = jobs[h].frame
                   /\ job.at \in {"find", "rule", "insert"}
    BY <1>3 DEF Lookup, TriggerRule, Job
  <2>2. UNCHANGED <<robot, fired, notices>> /\ jobs[h].at \in Early
    BY <1>3 DEF Lookup, TriggerRule, store, Early
  <2>3. One(job, Early, t) <= One(jobs[h], Early, t)
    BY <2>1, <2>2 DEF One
  <2> QED BY <2>1, <2>2, <2>3, LedgerQuiet
<1>4. CASE AlertNotFound(h)
  <2>1. jobs[h] = Job(jobs[h].at, jobs[h].frame, jobs[h].rule, jobs[h].notify)
    BY <1>4, JobAt, JobFacts DEF AlertNotFound
  <2>2. PICK job : Goto(h, job) /\ job.at = "create"
    BY <1>4, <2>1 DEF AlertNotFound, Job
  <2>3. One(job, Early, t) = 0 /\ UNCHANGED <<robot, fired, notices>>
    BY <1>4, <2>2 DEF One, Early, AlertNotFound, store
  <2> QED BY <1>2, <2>2, <2>3, LedgerQuiet
<1>5. CASE AlertFound(h) \/ AlertCreate(h) \/ TriggerRejected(h) \/ FailWrite(h) \/ FailInbox(h)
  <2>1. Goto(h, Idle) /\ UNCHANGED <<robot, fired, notices>>
    BY <1>5 DEF AlertFound, AlertCreate, TriggerRejected, FailWrite, FailInbox, store
  <2> QED BY <1>1, <1>2, <2>1, LedgerQuiet
<1>6. CASE TriggerInsert(h) \/ Inbox(h) \/ Mail(h)
  BY <1>6, LedgerRecord
<1>7. CASE FailLookup(h)
  BY <1>7, LedgerDied DEF FailLookup
<1> QED BY <1>3, <1>4, <1>5, <1>6, <1>7 DEF Handler, Alert, Trigger

LEMMA LedgerStep ==
  ASSUME IInv, IInv', [Next]_vars, NEW t \in Triggers, Ledger(t)
  PROVE  Ledger(t)'
<1>1. CASE \E f \in Frames, h \in Handlers : Receive(f, h)
  BY <1>1, LedgerReceive
<1>2. CASE \E f \in Frames : Miss(f)
  <2>1. PICK f \in Frames : Miss(f)
    BY <1>2
  <2>2. sends[t] <= sends'[t]
    BY <2>1, FramesAssumption DEF Miss, Sent, IInv, TypeOK, Frames
  <2>3. UNCHANGED <<jobs, fired, notices>>
    BY <2>1 DEF Miss, Sent, store
  <2> QED BY <2>2, <2>3, LedgerSame
<1>3. CASE Crash
  BY <1>3, LedgerDied DEF Crash
<1>4. CASE \E h \in Handlers : Handler(h)
  BY <1>4, LedgerHandler
<1>5. CASE Connect \/ Disconnect \/ Boot \/ Operator \/ CleanupAcknowledged \/ UNCHANGED vars
  <2>1. UNCHANGED <<jobs, fired, notices, sends>>
    BY <1>5 DEF Connect, Disconnect, Boot, Operator, Acknowledge, EditRule, DeleteRule,
                CleanupAcknowledged, vars, robot, store
  <2>2. sends[t] \in Nat
    BY FramesAssumption DEF IInv, TypeOK, Frames
  <2> QED BY <2>1, <2>2, LedgerSame
<1> QED BY <1>1, <1>2, <1>3, <1>4, <1>5 DEF Next, Robot, Connection

(* No mail without an inbox record, no inbox record without a row in the    *)
(* audit trail, no row without a delivery: dispatch and fanOut run in this  *)
(* order for any number of overlapping handlers.                            *)
THEOREM NoticesStayRecorded == Spec => []NoticesAreRecorded
<1> DEFINE Ledgers == \A t \in Triggers : Ledger(t)
<1>1. Init => Ledgers
  <2> SUFFICES ASSUME Init, NEW t \in Triggers PROVE Ledger(t)
    OBVIOUS
  <2>1. ASSUME NEW stages, "idle" \notin stages PROVE Count(stages, t) = 0
    <3>1. At(stages, t) = {}
      BY <2>1 DEF Init, At, Idle, Job
    <3> QED BY <3>1, FS_EmptySet DEF Count
  <2>2. "idle" \notin Early
    BY DEF Early
  <2> QED BY <2>1, <2>2 DEF Init, Ledger, Frames
<1>2. IInv /\ IInv' /\ [Next]_vars /\ Ledgers => Ledgers'
  BY LedgerStep
<1>3. IInv /\ Ledgers => NoticesAreRecorded
  <2> SUFFICES ASSUME IInv, NEW t \in Triggers, Ledger(t)
               PROVE  mails[t] <= inbox[t] /\ inbox[t] <= fired[t] /\ fired[t] <= sends[t]
    BY DEF NoticesAreRecorded
  <2>1. fired[t] \in Nat /\ inbox[t] \in Nat /\ mails[t] \in Nat /\ sends[t] \in Nat
    BY FramesAssumption DEF IInv, TypeOK, Frames
  <2>2. \A stages : Count(stages, t) \in Nat
    BY CountFinite
  <2> QED BY <2>1, <2>2 DEF Ledger
<1> HIDE DEF Ledgers
<1> QED BY <1>1, <1>2, <1>3, Invariance, PTL DEF Spec
=============================================================================
