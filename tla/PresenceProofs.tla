--------------------------- MODULE PresenceProofs ---------------------------
(* Type correctness of Presence, and the agreement of the cached entry    *)
(* and of the dashboard with the row, for every number of handlers and    *)
(* scans in flight and every choice of the timing constants.              *)
EXTENDS Presence, TLAPS

LEMMA AgesType == 0 \in Ages /\ Cap \in Ages /\ \A a \in Ages : Older(a) \in Ages
BY TimesAssumption DEF Ages, Cap, Older

LEMMA AtFinishNoAge == AtFinish \notin Ages
BY ValuesAssumption DEF Ages

\* What a handler in flight holds.
LEMMA FrameType ==
  ASSUME TypeOK, NEW h \in Handlers, frames[h].phase # "idle"
  PROVE  frames[h] \in FrameCalls
BY DEF TypeOK, Idle

LEMMA ScanType ==
  ASSUME TypeOK, NEW s \in Scans, scans[s].phase # "idle"
  PROVE  scans[s] \in ScanCalls
BY DEF TypeOK, Idle

LEMMA EntryType ==
  ASSUME TypeOK, entry # NoEntry
  PROVE  entry \in Entries
BY DEF TypeOK

LEMMA EntriesNotNoEntry == NoEntry \notin Entries
BY DEF NoEntry, Entries, Status

LEMMA CachedLevelType == ASSUME TypeOK PROVE CachedLevel \in Levels \cup {NoLevel}
BY EntryType DEF CachedLevel, Entries

LEMMA TypeInit == Init => TypeOK
BY AgesType DEF Init, TypeOK, Rows, Authors, Idle, Status, Entries

\* A handler that begins stores a call of the right shape.
LEMMA IssueType ==
  ASSUME TypeOK, NEW h \in Handlers, NEW kind \in {"heartbeat", "status", "battery"},
         NEW update \in Updates,
         NEW next \in [lastStatus : Status, age : Ages \cup {AtFinish},
                       battery : Levels \cup {NoLevel}],
         NEW announce \in Status \cup {Keep},
         Issue(h, kind, update, next, announce)
  PROVE  /\ frames' \in [Handlers -> FrameCalls \cup {Idle}]
         /\ taint' \in SUBSET TaintKinds
<1>1. [kind |-> kind, phase |-> "pending", age |-> 0, update |-> update,
       entry |-> next, announce |-> announce] \in FrameCalls
  BY AgesType DEF FrameCalls
<1>2. frames' \in [Handlers -> FrameCalls \cup {Idle}]
  BY <1>1 DEF Issue, TypeOK
<1>3. taint' \in SUBSET TaintKinds
  BY DEF Issue, TypeOK, OverlapTaint, TaintKinds
<1> QED BY <1>2, <1>3

LEMMA HeartbeatType ==
  ASSUME TypeOK, NEW h \in Handlers, NEW status \in Status, Heartbeat(h, status)
  PROVE  TypeOK'
<1>1. HeartbeatUpdate(status) \in Updates
  BY DEF HeartbeatUpdate, Updates
<1>2. [lastStatus |-> status, age |-> 0, battery |-> CachedLevel]
        \in [lastStatus : Status, age : Ages \cup {AtFinish}, battery : Levels \cup {NoLevel}]
  BY AgesType, CachedLevelType
<1>3. Announcement(status) \in Status \cup {Keep}
  BY DEF Announcement
<1>4. /\ frames' \in [Handlers -> FrameCalls \cup {Idle}] /\ taint' \in SUBSET TaintKinds
  <2>1. CASE Differs(status) \/ HeartbeatStale
    BY <1>1, <1>2, <1>3, <2>1, IssueType DEF Heartbeat
  <2>2. CASE ~(Differs(status) \/ HeartbeatStale)
    BY <2>2 DEF Heartbeat, TypeOK
  <2> QED BY <2>1, <2>2
<1>5. heard' \in Ages
  BY AgesType DEF Heartbeat, TypeOK
<1> QED BY <1>4, <1>5 DEF Heartbeat, TypeOK
LEMMA StatusFrameType ==
  ASSUME TypeOK, NEW h \in Handlers, NEW level \in Levels \cup {NoLevel},
         StatusFrame(h, level)
  PROVE  TypeOK'
<1> DEFINE changed == Differs("ONLINE")
           refresh == changed \/ HeartbeatStale
           battery == level # NoLevel /\ level # CachedLevel
           update == [status |-> IF changed THEN "ONLINE" ELSE Keep, lastSeen |-> refresh,
                      battery |-> IF battery THEN level ELSE Keep]
           next == [lastStatus |-> "ONLINE", age |-> IF refresh THEN 0 ELSE entry.age,
                    battery |-> IF battery THEN level ELSE CachedLevel]
<1>1. update \in Updates
  <2>1. refresh \in BOOLEAN
    BY DEF Differs, HeartbeatStale
  <2> HIDE DEF refresh
  <2> QED BY <2>1 DEF Updates, Status
<1>2. next \in [lastStatus : Status, age : Ages \cup {AtFinish}, battery : Levels \cup {NoLevel}]
  <2>1. ~refresh => entry.age \in Ages
    BY EntryType DEF Differs, HeartbeatStale, Entries
  <2> QED BY <2>1, AgesType, CachedLevelType DEF Status
<1>3. Announcement("ONLINE") \in Status \cup {Keep}
  BY DEF Announcement, Status
<1>4. /\ frames' \in [Handlers -> FrameCalls \cup {Idle}] /\ taint' \in SUBSET TaintKinds
  <2>1. CASE refresh \/ battery
    <3>1. Issue(h, "status", update, next, Announcement("ONLINE"))
      BY <2>1 DEF StatusFrame
    <3> HIDE DEF update, next
    <3> QED BY <1>1, <1>2, <1>3, <3>1, IssueType
  <2>2. CASE ~(refresh \/ battery)
    BY <2>2 DEF StatusFrame, TypeOK
  <2> QED BY <2>1, <2>2
<1>5. heard' \in Ages
  BY AgesType DEF StatusFrame
<1> QED BY <1>4, <1>5 DEF StatusFrame, TypeOK

LEMMA BatteryFrameType ==
  ASSUME TypeOK, NEW h \in Handlers, NEW level \in Levels, BatteryFrame(h, level)
  PROVE  TypeOK'
<1> DEFINE update == [status |-> Keep, lastSeen |-> FALSE, battery |-> level]
           next == [lastStatus |-> IF entry = NoEntry THEN "OFFLINE" ELSE entry.lastStatus,
                    age |-> IF entry = NoEntry THEN AtFinish ELSE entry.age,
                    battery |-> level]
<1>1. update \in Updates
  BY DEF Updates
<1>2. next \in [lastStatus : Status, age : Ages \cup {AtFinish}, battery : Levels \cup {NoLevel}]
  BY EntryType DEF Entries, Status
<1>3. /\ frames' \in [Handlers -> FrameCalls \cup {Idle}] /\ taint' \in SUBSET TaintKinds
  <2>1. Issue(h, "battery", update, next, Keep)
    BY DEF BatteryFrame
  <2> HIDE DEF update, next
  <2> QED BY <1>1, <1>2, <2>1, IssueType
<1> QED BY <1>3 DEF BatteryFrame, TypeOK

LEMMA FrameReturnsType ==
  ASSUME TypeOK, NEW h \in Handlers, HandlerReturns(h) \/ FailFrame(h)
  PROVE  TypeOK'
<1>1. CASE CommitFrame(h)
  <2>1. frames[h] \in FrameCalls
    BY <1>1, FrameType DEF CommitFrame
  <2>2. row' \in Rows
    BY <1>1, <2>1 DEF CommitFrame, TypeOK, FrameCalls, Updates, Rows, Overwrite
  <2>3. [frames[h] EXCEPT !.phase = "committed"] \in FrameCalls
    BY <2>1 DEF FrameCalls
  <2> QED BY <1>1, <2>2, <2>3 DEF CommitFrame, TypeOK, Authors
<1>2. CASE FailFrame(h)
  <2>1. frames[h] \in FrameCalls
    BY <1>2, FrameType DEF FailFrame
  <2>2. [frames[h] EXCEPT !.phase = "failed"] \in FrameCalls
    BY <2>1 DEF FrameCalls
  <2> QED BY <1>2, <2>2 DEF FailFrame, TypeOK, TaintKinds
<1>3. CASE FinishFrame(h)
  <2>1. frames[h] \in FrameCalls
    BY <1>3, FrameType DEF FinishFrame
  <2>2. entry' \in Entries
    BY <1>3, <2>1, AgesType DEF FinishFrame, FrameCalls, Entries
  <2>3. view' \in Status
    BY <1>3, <2>1 DEF FinishFrame, FrameCalls, Overwrite, TypeOK
  <2>4. \A s \in Scans : scans[s].phase \in Awaiting =>
          [scans[s] EXCEPT !.current = FALSE] \in ScanCalls
    BY ScanType DEF ScanCalls, Awaiting
  <2>5. scans' \in [Scans -> ScanCalls \cup {Idle}]
    BY <1>3, <2>4 DEF FinishFrame, TypeOK
  <2> QED BY <1>3, <2>2, <2>3, <2>5 DEF FinishFrame, TypeOK
<1>4. CASE AbandonFrame(h)
  BY <1>4 DEF AbandonFrame, TypeOK
<1> QED BY <1>1, <1>2, <1>3, <1>4 DEF HandlerReturns

LEMMA ScanStepType ==
  ASSUME TypeOK, ScanHoldsEntry, NEW s \in Scans, ScanStart(s) \/ ScanReturns(s) \/ FailScan(s)
  PROVE  TypeOK'
<1>1. CASE ScanStart(s)
  BY <1>1, AgesType DEF ScanStart, TypeOK, ScanCalls
<1>2. CASE ScanPass(s)
  BY <1>2 DEF ScanPass, TypeOK
<1>3. CASE ScanDemote(s)
  <2>1. [scans[s] EXCEPT !.phase = "pending"] \in ScanCalls
    BY <1>3, ScanType DEF ScanDemote, ScanCalls
  <2> QED BY <1>3, <2>1 DEF ScanDemote, TypeOK, OverlapTaint, TaintKinds
<1>4. CASE CommitScan(s)
  <2>1. [scans[s] EXCEPT !.phase = "committed"] \in ScanCalls
    BY <1>4, ScanType DEF CommitScan, ScanCalls
  <2>2. row' \in Rows
    BY <1>4 DEF CommitScan, TypeOK, Rows, Status
  <2> QED BY <1>4, <2>1, <2>2 DEF CommitScan, TypeOK, Authors
<1>5. CASE FailScan(s)
  <2>1. [scans[s] EXCEPT !.phase = "failed"] \in ScanCalls
    BY <1>5, ScanType DEF FailScan, ScanCalls
  <2> QED BY <1>5, <2>1 DEF FailScan, TypeOK, TaintKinds
<1>6. CASE FinishScan(s)
  <2>1. entry' \in Entries \cup {NoEntry}
    <3>1. CASE entry = NoEntry
      BY <1>6, <3>1 DEF FinishScan, ScanHoldsEntry, Awaiting
    <3>2. CASE entry # NoEntry
      BY <1>6, <3>2, EntryType DEF FinishScan, DemotedEntry, Entries, Status
    <3> QED BY <3>1, <3>2
  <2> QED BY <1>6, <2>1 DEF FinishScan, TypeOK, Status
<1> QED BY <1>1, <1>2, <1>3, <1>4, <1>5, <1>6 DEF ScanReturns

LEMMA TickType == TypeOK /\ Tick => TypeOK'
<1> SUFFICES ASSUME TypeOK, Tick PROVE TypeOK'
  OBVIOUS
<1>1. row' \in Rows
  BY AgesType DEF Tick, TypeOK, Rows
<1>2. entry' \in Entries \cup {NoEntry}
  BY AgesType, EntryType DEF Tick, TypeOK, Entries
<1>3. \A h \in Handlers : AgedFrame(frames[h]) \in FrameCalls \cup {Idle}
  <2> SUFFICES ASSUME NEW h \in Handlers, frames[h].phase # "idle"
               PROVE  AgedFrame(frames[h]) \in FrameCalls
    BY DEF AgedFrame, TypeOK
  <2>1. frames[h] \in FrameCalls
    BY FrameType
  <2> DEFINE held == frames[h].entry
             aged == [held EXCEPT !.age = IF @ = AtFinish THEN @ ELSE Older(@)]
  <2>2. aged \in [lastStatus : Status, age : Ages \cup {AtFinish}, battery : Levels \cup {NoLevel}]
    BY <2>1, AgesType DEF FrameCalls
  <2>3. AgedFrame(frames[h]) = [[frames[h] EXCEPT !.age = Older(@)] EXCEPT !.entry = aged]
    BY <2>1 DEF AgedFrame, FrameCalls
  <2> HIDE DEF aged
  <2> QED BY <2>1, <2>2, <2>3, AgesType DEF FrameCalls
<1>4. \A s \in Scans : AgedScan(scans[s]) \in ScanCalls \cup {Idle}
  BY AgesType, ScanType DEF AgedScan, ScanCalls, TypeOK
<1>5. heard' \in Ages
  BY AgesType DEF Tick, TypeOK
<1> QED BY <1>1, <1>2, <1>3, <1>4, <1>5 DEF Tick, TypeOK

LEMMA TypeStep == TypeOK /\ ScanHoldsEntry /\ [Next]_vars => TypeOK'
<1> SUFFICES ASSUME TypeOK, ScanHoldsEntry, [Next]_vars PROVE TypeOK'
  OBVIOUS
<1>1. ASSUME NEW h \in Handlers, FrameArrives(h) PROVE TypeOK'
  BY <1>1, HeartbeatType, StatusFrameType, BatteryFrameType
  DEF FrameArrives, OnlineHeartbeat, OfflineHeartbeat, Status
<1>2. ASSUME NEW h \in Handlers, HandlerReturns(h) \/ FailFrame(h) PROVE TypeOK'
  BY <1>2, FrameReturnsType
<1>3. ASSUME NEW s \in Scans, ScanStart(s) \/ ScanReturns(s) \/ FailScan(s) PROVE TypeOK'
  BY <1>3, ScanStepType
<1>4. ASSUME NEW status \in Status, GatewayWrite(status) PROVE TypeOK'
  <2>1. row' \in Rows
    BY <1>4, AgesType DEF GatewayWrite, TypeOK, Rows, Status
  <2> QED BY <1>4, <2>1 DEF GatewayWrite, TypeOK, TaintKinds, Authors
<1>9. ASSUME NEW level \in Levels, GatewayBattery(level) PROVE TypeOK'
  <2>1. row' \in Rows
    BY <1>9 DEF GatewayBattery, TypeOK, Rows
  <2> QED BY <1>9, <2>1 DEF GatewayBattery, TypeOK, TaintKinds
<1>5. CASE Crash
  BY <1>5, AgesType DEF Crash, TypeOK, TaintKinds
<1>6. CASE Boot
  <2>1. HydratedEntry \in Entries
    BY DEF HydratedEntry, TypeOK, Rows, Entries
  <2> QED BY <1>6, <2>1 DEF Boot, TypeOK, TaintKinds
<1>7. CASE Tick
  BY <1>7, TickType
<1>8. CASE UNCHANGED vars
  BY <1>8 DEF vars, TypeOK
<1> QED BY <1>1, <1>2, <1>3, <1>4, <1>5, <1>6, <1>7, <1>8, <1>9 DEF Next

\* An entry is never taken out of the map, and a crash takes the scans too.
LEMMA ScanHoldsEntryStep ==
  TypeOK /\ ScanHoldsEntry /\ [Next]_vars => ScanHoldsEntry'
<1> SUFFICES ASSUME TypeOK, ScanHoldsEntry, [Next]_vars PROVE ScanHoldsEntry'
  OBVIOUS
<1> USE DEF ScanHoldsEntry, Awaiting
<1>1. ASSUME NEW h \in Handlers, FrameArrives(h) \/ CommitFrame(h) \/ AbandonFrame(h) \/ FailFrame(h)
      PROVE  ScanHoldsEntry'
  BY <1>1 DEF FrameArrives, OnlineHeartbeat, OfflineHeartbeat, Heartbeat, StatusFrame,
     BatteryFrame, CommitFrame, AbandonFrame, FailFrame
<1>2. ASSUME NEW h \in Handlers, FinishFrame(h) PROVE ScanHoldsEntry'
  <2>1. frames[h] \in FrameCalls
    BY <1>2, FrameType DEF FinishFrame
  <2>2. entry' \in Entries
    BY <1>2, <2>1, AgesType DEF FinishFrame, FrameCalls, Entries
  <2> QED BY <2>2, EntriesNotNoEntry
<1>3. ASSUME NEW s \in Scans, ScanStart(s) \/ ScanPass(s) \/ ScanDemote(s) \/ CommitScan(s) \/ FailScan(s)
      PROVE  ScanHoldsEntry'
  BY <1>3 DEF ScanStart, ScanPass, ScanDemote, CommitScan, FailScan, IsStale, TypeOK, Idle
<1>4. ASSUME NEW s \in Scans, FinishScan(s) PROVE ScanHoldsEntry'
  <2>1. entry # NoEntry
    BY <1>4 DEF FinishScan
  <2>2. entry' # NoEntry
    BY <1>4, <2>1, EntryType, EntriesNotNoEntry DEF FinishScan, DemotedEntry, Entries, Status
  <2> QED BY <2>2
<1>5. ASSUME NEW status \in Status, GatewayWrite(status) PROVE ScanHoldsEntry'
  BY <1>5 DEF GatewayWrite
<1>10. ASSUME NEW level \in Levels, GatewayBattery(level) PROVE ScanHoldsEntry'
  BY <1>10 DEF GatewayBattery
<1>6. CASE Crash
  BY <1>6 DEF Crash, Idle
<1>7. CASE Boot
  BY <1>7, EntriesNotNoEntry DEF Boot, HydratedEntry, TypeOK, Rows, Entries
<1>8. CASE Tick
  <2>1. entry # NoEntry => entry' # NoEntry
    BY <1>8, AgesType, EntryType, EntriesNotNoEntry DEF Tick, Entries
  <2>2. \A s \in Scans : scans'[s].phase = scans[s].phase
    BY <1>8, ScanType DEF Tick, AgedScan, ScanCalls
  <2> QED BY <2>1, <2>2
<1>9. CASE UNCHANGED vars
  BY <1>9 DEF vars
<1> QED BY <1>1, <1>2, <1>3, <1>4, <1>5, <1>6, <1>7, <1>8, <1>9, <1>10
        DEF Next, HandlerReturns, ScanReturns

\* Only a restart leaves the row behind.
BehindRestarted == "behind" \in taint => "restart" \in taint

LEMMA BehindRestartedStep == BehindRestarted /\ [Next]_vars => BehindRestarted'
<1> SUFFICES ASSUME BehindRestarted, [Next]_vars PROVE BehindRestarted'
  OBVIOUS
<1> USE DEF BehindRestarted
<1>1. ASSUME NEW h \in Handlers, FrameArrives(h) PROVE BehindRestarted'
  BY <1>1 DEF FrameArrives, OnlineHeartbeat, OfflineHeartbeat, Heartbeat, StatusFrame,
     BatteryFrame, Issue, OverlapTaint
<1>2. ASSUME NEW h \in Handlers, HandlerReturns(h) \/ FailFrame(h) PROVE BehindRestarted'
  BY <1>2 DEF HandlerReturns, CommitFrame, FinishFrame, AbandonFrame, FailFrame
<1>3. ASSUME NEW s \in Scans, ScanStart(s) \/ ScanReturns(s) \/ FailScan(s) PROVE BehindRestarted'
  BY <1>3 DEF ScanStart, ScanReturns, ScanPass, ScanDemote, CommitScan, FinishScan, FailScan,
     OverlapTaint
<1>4. ASSUME NEW status \in Status, GatewayWrite(status) PROVE BehindRestarted'
  BY <1>4 DEF GatewayWrite
<1>5. ASSUME NEW level \in Levels, GatewayBattery(level) PROVE BehindRestarted'
  BY <1>5 DEF GatewayBattery
<1>6. CASE Crash
  BY <1>6 DEF Crash
<1>7. CASE Boot
  BY <1>7 DEF Boot
<1>8. CASE Tick \/ UNCHANGED vars
  BY <1>8 DEF Tick, vars
<1> QED BY <1>1, <1>2, <1>3, <1>4, <1>5, <1>6, <1>7, <1>8 DEF Next

TypeInv == TypeOK /\ ScanHoldsEntry /\ BehindRestarted

THEOREM TypeInvariance == Spec => []TypeInv
<1>1. Init => TypeInv
  BY TypeInit DEF Init, TypeInv, ScanHoldsEntry, BehindRestarted, Awaiting, Idle
<1>2. TypeInv /\ [Next]_vars => TypeInv'
  BY TypeStep, ScanHoldsEntryStep, BehindRestartedStep DEF TypeInv
<1> QED BY <1>1, <1>2, PTL DEF Spec

\* Every variable keeps its type.
THEOREM TypeCorrect == Spec => []TypeOK
<1>1. TypeInv => TypeOK
  BY DEF TypeInv
<1> QED BY TypeInvariance, <1>1, PTL
-----------------------------------------------------------------------------
(* The agreement of the entry and of the view with the row. *)

IInv == TypeInv /\ DownIdle /\ CleanInv /\ ViewSound

LEMMA OverwriteFacts ==
  /\ \A new \in Status : \A old : Overwrite(new, old) = new
  /\ \A new \in Levels : \A old : Overwrite(new, old) = new
  /\ \A old : Overwrite(Keep, old) = old
BY ValuesAssumption DEF Overwrite

\* Between the calls the entry and the row agree.
LEMMA QuietAgrees ==
  ASSUME IInv, Undisturbed, up, ~Busy
  PROVE  ~Committed /\ CachedStatus = row.status /\ CachedLevel = row.battery
BY DEF IInv, CleanInv, Settled, Busy, Committed, Awaiting

\* A handler that begins alone, and will store what the row will hold.
LEMMA IssueClean ==
  ASSUME IInv, TypeOK', NEW h \in Handlers, frames[h] = Idle, up, UNCHANGED <<row, entry, scans, up, view>>,
         NEW kind, NEW update, NEW next, NEW announce,
         Issue(h, kind, update, next, announce),
         Undisturbed' => /\ next.lastStatus = Overwrite(update.status, row.status)
                         /\ next.battery = Overwrite(update.battery, row.battery),
         taint' = {} => Overwrite(announce, view) = next.lastStatus
  PROVE  IInv'
<1> DEFINE call == [kind |-> kind, phase |-> "pending", age |-> 0, update |-> update,
                    entry |-> next, announce |-> announce]
<1>1. frames' = [frames EXCEPT ![h] = call] /\ frames'[h] = call
      /\ \A g \in Handlers : g # h => frames'[g] = frames[g]
  BY DEF Issue, IInv, TypeInv, TypeOK
<1>2. TypeInv'
  BY DEF IInv, TypeInv, ScanHoldsEntry, BehindRestarted, Issue, OverlapTaint
<1>3. DownIdle'
  BY DEF DownIdle
<1>4. Undisturbed' => Undisturbed /\ taint' = taint /\ ~Busy
  BY DEF Issue, OverlapTaint, Undisturbed
<1>5. CleanInv'
  <2> SUFFICES ASSUME Undisturbed'
               PROVE  /\ Alone' /\ Settled' /\ (\A g \in Handlers : FrameSound(g)')
                      /\ (\A s \in Scans : ScanSound(s)')
    BY DEF CleanInv
  <2>1. /\ Undisturbed /\ ~Busy /\ ~Committed
        /\ CachedStatus = row.status /\ CachedLevel = row.battery
    BY <1>4, QuietAgrees
  <2>2. /\ \A g \in Handlers : frames[g].phase \notin Awaiting
        /\ \A s \in Scans : scans[s].phase \notin Awaiting
    BY <2>1 DEF Busy
  <2>3. Alone'
    BY <1>1, <2>2 DEF Alone
  <2>4. Settled'
    BY <2>1 DEF Settled, CachedStatus, CachedLevel
  <2>5. \A g \in Handlers : FrameSound(g)'
    BY <1>1, <2>2 DEF FrameSound, Awaiting
  <2>6. \A s \in Scans : ScanSound(s)'
    BY <2>1, <2>2 DEF IInv, CleanInv, ScanSound, Awaiting
  <2> QED BY <2>3, <2>4, <2>5, <2>6
<1>6. ViewSound'
  <2> SUFFICES ASSUME taint' = {} PROVE ViewSound'
    BY DEF ViewSound
  <2>1. Undisturbed /\ taint = {} /\ ~Busy
    BY <1>4 DEF Undisturbed
  <2>2. ~Committed
    BY <2>1 DEF Busy, Committed, Awaiting
  <2>3. view = row.status
    BY <2>1, <2>2 DEF IInv, ViewSound
  <2>4. \A g \in Handlers : frames[g].phase \notin {"pending", "committed"}
    BY <2>1 DEF Busy, Awaiting
  <2> QED BY <1>1, <2>3, <2>4 DEF ViewSound
<1> QED BY <1>2, <1>3, <1>5, <1>6 DEF IInv
\* A handler that returns without an UPDATE leaves everything but `heard`.
LEMMA NothingIssued ==
  ASSUME IInv, TypeOK', UNCHANGED <<row, entry, frames, scans, up, view, taint>>
  PROVE  IInv'
BY DEF IInv, TypeInv, ScanHoldsEntry, BehindRestarted, DownIdle, CleanInv, ViewSound, Undisturbed, Alone,
   Settled, Committed, FrameSound, ScanSound, CachedStatus, CachedLevel

\* What a handler reads while undisturbed and alone.
LEMMA ReadsRow ==
  ASSUME IInv, NEW h \in Handlers, up, NEW kind, NEW update, NEW next, NEW announce,
         Issue(h, kind, update, next, announce), Undisturbed'
  PROVE  /\ CachedStatus = row.status /\ CachedLevel = row.battery
         /\ taint' = {} => view = row.status
<1>1. Undisturbed /\ ~Busy /\ taint' = taint
  BY DEF Issue, OverlapTaint, Undisturbed
<1>2. ~Committed /\ CachedStatus = row.status /\ CachedLevel = row.battery
  BY <1>1, QuietAgrees
<1> QED BY <1>1, <1>2 DEF IInv, ViewSound

LEMMA HeartbeatClean ==
  ASSUME IInv, TypeOK', NEW h \in Handlers, NEW status \in Status, Heartbeat(h, status)
  PROVE  IInv'
<1> DEFINE update == HeartbeatUpdate(status)
           next == [lastStatus |-> status, age |-> 0, battery |-> CachedLevel]
<1>1. CASE Differs(status) \/ HeartbeatStale
  <2>1. Issue(h, "heartbeat", update, next, Announcement(status))
    BY <1>1 DEF Heartbeat
  <2>2. /\ next.lastStatus = status /\ next.battery = CachedLevel
        /\ update.status = status /\ update.battery = Keep
    BY DEF HeartbeatUpdate
  <2>3. up /\ frames[h] = Idle /\ UNCHANGED <<row, entry, scans, up, view>>
    BY DEF Heartbeat
  <2> HIDE DEF update, next
  <2>4. Undisturbed' => /\ next.lastStatus = Overwrite(update.status, row.status)
                        /\ next.battery = Overwrite(update.battery, row.battery)
    BY <2>1, <2>2, <2>3, ReadsRow, OverwriteFacts
  <2>5. taint' = {} => Overwrite(Announcement(status), view) = next.lastStatus
    <3> SUFFICES ASSUME taint' = {} PROVE Overwrite(Announcement(status), view) = status
      BY <2>2
    <3>1. view = row.status /\ CachedStatus = row.status
      BY <2>1, <2>3, ReadsRow DEF Undisturbed
    <3> QED BY <3>1, OverwriteFacts DEF Announcement, Differs, CachedStatus
  <2> QED BY <2>1, <2>3, <2>4, <2>5, IssueClean
<1>2. CASE ~(Differs(status) \/ HeartbeatStale)
  BY <1>2, NothingIssued DEF Heartbeat
<1> QED BY <1>1, <1>2

LEMMA StatusFrameClean ==
  ASSUME IInv, TypeOK', NEW h \in Handlers, NEW level \in Levels \cup {NoLevel},
         StatusFrame(h, level)
  PROVE  IInv'
<1> DEFINE changed == Differs("ONLINE")
           refresh == changed \/ HeartbeatStale
           battery == level # NoLevel /\ level # CachedLevel
           update == [status |-> IF changed THEN "ONLINE" ELSE Keep, lastSeen |-> refresh,
                      battery |-> IF battery THEN level ELSE Keep]
           next == [lastStatus |-> "ONLINE", age |-> IF refresh THEN 0 ELSE entry.age,
                    battery |-> IF battery THEN level ELSE CachedLevel]
<1>1. CASE refresh \/ battery
  <2>1. Issue(h, "status", update, next, Announcement("ONLINE"))
    BY <1>1 DEF StatusFrame
  <2>2. /\ next.lastStatus = "ONLINE" /\ next.battery = IF battery THEN level ELSE CachedLevel
        /\ update.status = IF changed THEN "ONLINE" ELSE Keep
        /\ update.battery = IF battery THEN level ELSE Keep
    OBVIOUS
  <2>3. up /\ frames[h] = Idle /\ UNCHANGED <<row, entry, scans, up, view>>
    BY DEF StatusFrame
  <2> HIDE DEF update, next
  <2>4. Undisturbed' => /\ next.lastStatus = Overwrite(update.status, row.status)
                        /\ next.battery = Overwrite(update.battery, row.battery)
    <3> SUFFICES ASSUME Undisturbed'
                 PROVE  /\ next.lastStatus = Overwrite(update.status, row.status)
                        /\ next.battery = Overwrite(update.battery, row.battery)
      OBVIOUS
    <3>1. CachedStatus = row.status /\ CachedLevel = row.battery
      BY <2>1, <2>3, ReadsRow
    <3>2. Overwrite(update.status, row.status) = "ONLINE"
      BY <2>2, <3>1, OverwriteFacts DEF Differs, CachedStatus, Status
    <3>3. Overwrite(update.battery, row.battery) = next.battery
      BY <2>2, <3>1, OverwriteFacts
    <3> QED BY <2>2, <3>2, <3>3
  <2>5. taint' = {} => Overwrite(Announcement("ONLINE"), view) = next.lastStatus
    <3> SUFFICES ASSUME taint' = {} PROVE Overwrite(Announcement("ONLINE"), view) = "ONLINE"
      BY <2>2
    <3>1. view = row.status /\ CachedStatus = row.status
      BY <2>1, <2>3, ReadsRow DEF Undisturbed
    <3> QED BY <3>1, OverwriteFacts DEF Announcement, Differs, CachedStatus, Status
  <2> QED BY <2>1, <2>3, <2>4, <2>5, IssueClean
<1>2. CASE ~(refresh \/ battery)
  BY <1>2, NothingIssued DEF StatusFrame
<1> QED BY <1>1, <1>2

LEMMA BatteryFrameClean ==
  ASSUME IInv, TypeOK', NEW h \in Handlers, NEW level \in Levels, BatteryFrame(h, level)
  PROVE  IInv'
<1> DEFINE update == [status |-> Keep, lastSeen |-> FALSE, battery |-> level]
           next == [lastStatus |-> IF entry = NoEntry THEN "OFFLINE" ELSE entry.lastStatus,
                    age |-> IF entry = NoEntry THEN AtFinish ELSE entry.age,
                    battery |-> level]
<1>1. Issue(h, "battery", update, next, Keep)
  BY DEF BatteryFrame
<1>2. /\ next.lastStatus = CachedStatus /\ next.battery = level
      /\ update.status = Keep /\ update.battery = level
  BY DEF CachedStatus
<1>3. up /\ frames[h] = Idle /\ UNCHANGED <<row, entry, scans, up, view>>
  BY DEF BatteryFrame
<1> HIDE DEF update, next
<1>4. Undisturbed' => /\ next.lastStatus = Overwrite(update.status, row.status)
                      /\ next.battery = Overwrite(update.battery, row.battery)
  BY <1>1, <1>2, <1>3, ReadsRow, OverwriteFacts
<1>5. taint' = {} => Overwrite(Keep, view) = next.lastStatus
  BY <1>1, <1>2, <1>3, ReadsRow, OverwriteFacts DEF Undisturbed
<1> QED BY <1>1, <1>3, <1>4, <1>5, IssueClean
\* A call in flight means that the process runs.
LEMMA InFlightUp ==
  ASSUME IInv
  PROVE  /\ \A h \in Handlers : frames[h].phase # "idle" => up
         /\ \A s \in Scans : scans[s].phase # "idle" => up
BY DEF IInv, DownIdle, Idle

LEMMA CommitFrameClean ==
  ASSUME IInv, TypeInv', NEW h \in Handlers, CommitFrame(h)
  PROVE  IInv'
<1> DEFINE call == frames[h]
<1>1. call \in FrameCalls /\ call.phase = "pending" /\ up
  BY FrameType, InFlightUp DEF CommitFrame, IInv, TypeInv
<1>2. /\ frames'[h] = [call EXCEPT !.phase = "committed"]
      /\ \A g \in Handlers : g # h => frames'[g] = frames[g]
      /\ row'.status = Overwrite(call.update.status, row.status)
      /\ row'.battery = Overwrite(call.update.battery, row.battery)
      /\ UNCHANGED <<entry, scans, up, view, heard, taint>>
  BY DEF CommitFrame, IInv, TypeInv, TypeOK
<1>3. /\ frames'[h].phase = "committed" /\ frames'[h].entry = call.entry
      /\ frames'[h].announce = call.announce
  BY <1>1, <1>2 DEF FrameCalls
<1>4. DownIdle'
  BY <1>1, <1>2 DEF DownIdle
<1>5. Committed'
  BY <1>3 DEF Committed
<1>6. CleanInv'
  <2> SUFFICES ASSUME Undisturbed
               PROVE  /\ Alone' /\ Settled' /\ (\A g \in Handlers : FrameSound(g)')
                      /\ (\A s \in Scans : ScanSound(s)')
    BY <1>2 DEF CleanInv, Undisturbed
  <2>1. Alone /\ FrameSound(h) /\ (\A s \in Scans : ScanSound(s))
    BY DEF IInv, CleanInv
  <2>2. /\ \A g \in Handlers : g # h => frames[g].phase \notin Awaiting
        /\ \A s \in Scans : scans[s].phase \notin Awaiting
    BY <1>1, <2>1 DEF Alone, Awaiting
  <2>3. Alone'
    BY <1>2, <2>2 DEF Alone
  <2>4. Settled'
    BY <1>5 DEF Settled
  <2>5. \A g \in Handlers : FrameSound(g)'
    BY <1>1, <1>2, <1>3, <2>1, <2>2 DEF FrameSound, Awaiting
  <2>6. \A s \in Scans : ScanSound(s)'
    BY <1>2, <2>1, <2>2 DEF ScanSound, Awaiting
  <2> QED BY <2>3, <2>4, <2>5, <2>6
<1>7. ViewSound'
  <2> SUFFICES ASSUME taint = {}, NEW g \in Handlers, frames'[g].phase \in {"pending", "committed"}
               PROVE  Overwrite(frames'[g].announce, view) = frames'[g].entry.lastStatus
    BY <1>2, <1>5 DEF ViewSound
  <2>1. \A f \in Handlers : frames[f].phase \in {"pending", "committed"} =>
          Overwrite(frames[f].announce, view) = frames[f].entry.lastStatus
    BY DEF IInv, ViewSound
  <2>2. CASE g = h
    BY <1>1, <1>3, <2>1, <2>2
  <2>3. CASE g # h
    BY <1>2, <2>1, <2>3
  <2> QED BY <2>2, <2>3
<1> QED BY <1>4, <1>6, <1>7 DEF IInv

LEMMA FinishFrameClean ==
  ASSUME IInv, TypeInv', NEW h \in Handlers, FinishFrame(h)
  PROVE  IInv'
<1> DEFINE call == frames[h]
<1>1. call \in FrameCalls /\ call.phase \in {"committed", "failed"} /\ up
  BY FrameType, InFlightUp DEF FinishFrame, IInv, TypeInv
<1>2. /\ frames'[h] = Idle /\ \A g \in Handlers : g # h => frames'[g] = frames[g]
      /\ view' = Overwrite(call.announce, view)
      /\ UNCHANGED <<row, up, author, heard>> /\ taint' \in {taint, taint \ {"behind"}}
  BY DEF FinishFrame, IInv, TypeInv, TypeOK
<1>8. (Undisturbed' => Undisturbed) /\ (taint' = {} => taint = {})
  BY <1>2 DEF Undisturbed, IInv, TypeInv, BehindRestarted
<1>3. /\ entry' \in Entries /\ entry' # NoEntry
      /\ entry'.lastStatus = call.entry.lastStatus /\ entry'.battery = call.entry.battery
  BY <1>1, AgesType, EntriesNotNoEntry DEF FinishFrame, FrameCalls, Entries
<1>4. DownIdle'
  BY <1>1, <1>2 DEF DownIdle
<1>5. ASSUME Undisturbed
      PROVE  /\ call.phase = "committed" /\ FrameSound(h)
             /\ \A g \in Handlers : g # h => frames[g].phase \notin Awaiting
             /\ \A s \in Scans : scans[s].phase \notin Awaiting /\ scans'[s] = scans[s]
  <2>1. Alone /\ FrameSound(h)
    BY <1>5 DEF IInv, CleanInv
  <2>2. call.phase = "committed"
    BY <1>1, <2>1 DEF FrameSound
  <2>3. /\ \A g \in Handlers : g # h => frames[g].phase \notin Awaiting
        /\ \A s \in Scans : scans[s].phase \notin Awaiting
    BY <2>1, <2>2 DEF Alone, Awaiting
  <2> QED BY <2>1, <2>2, <2>3 DEF FinishFrame
<1>6. CleanInv'
  <2> SUFFICES ASSUME Undisturbed
               PROVE  /\ Alone' /\ Settled' /\ (\A g \in Handlers : FrameSound(g)')
                      /\ (\A s \in Scans : ScanSound(s)')
    BY <1>8 DEF CleanInv
  <2>1. \A g \in Handlers : frames'[g].phase \notin Awaiting
    BY <1>2, <1>5 DEF Idle, Awaiting
  <2>2. \A s \in Scans : scans'[s].phase \notin Awaiting
    BY <1>5
  <2>3. Alone'
    BY <2>1, <2>2 DEF Alone
  <2>4. Settled'
    BY <1>2, <1>3, <1>5 DEF Settled, FrameSound, CachedStatus, CachedLevel
  <2>5. \A g \in Handlers : FrameSound(g)'
    BY <2>1 DEF FrameSound, Awaiting
  <2>6. \A s \in Scans : ScanSound(s)'
    BY <1>5, <2>2 DEF ScanSound, Awaiting, IInv, CleanInv
  <2> QED BY <2>3, <2>4, <2>5, <2>6
<1>7. ViewSound'
  <2> SUFFICES ASSUME taint = {} PROVE ViewSound'
    BY <1>8 DEF ViewSound
  <2>1. Undisturbed
    BY DEF Undisturbed
  <2>2. Overwrite(call.announce, view) = call.entry.lastStatus
    BY <1>5, <2>1 DEF IInv, ViewSound
  <2>3. view' = row.status
    BY <1>2, <1>5, <2>1, <2>2 DEF FrameSound
  <2>4. \A g \in Handlers : frames'[g].phase \notin Awaiting
    BY <1>2, <1>5, <2>1 DEF Idle, Awaiting
  <2> QED BY <1>2, <2>3, <2>4 DEF ViewSound, Awaiting
<1> QED BY <1>4, <1>6, <1>7 DEF IInv

\* A failure disturbs, so nothing is claimed of what follows it.
LEMMA FailureClean ==
  ASSUME IInv, TypeInv', up, UNCHANGED up, "calls" \in taint'
  PROVE  IInv'
BY DEF IInv, DownIdle, CleanInv, ViewSound, Undisturbed

LEMMA FailFrameClean ==
  ASSUME IInv, TypeInv', NEW h \in Handlers, FailFrame(h)
  PROVE  IInv'
<1>1. up
  BY InFlightUp DEF FailFrame
<1> QED BY <1>1, FailureClean DEF FailFrame

LEMMA FailScanClean ==
  ASSUME IInv, TypeInv', NEW s \in Scans, FailScan(s)
  PROVE  IInv'
<1>1. up
  BY InFlightUp DEF FailScan
<1> QED BY <1>1, FailureClean DEF FailScan

LEMMA AbandonFrameClean ==
  ASSUME IInv, TypeInv', NEW h \in Handlers, AbandonFrame(h)
  PROVE  IInv'
<1>1. up /\ UNCHANGED <<up, taint>>
  BY InFlightUp DEF AbandonFrame
<1>2. ~Undisturbed
  BY DEF AbandonFrame, IInv, CleanInv, FrameSound
<1> QED BY <1>1, <1>2 DEF IInv, DownIdle, CleanInv, ViewSound, Undisturbed

-----------------------------------------------------------------------------

LEMMA ScanStartClean ==
  ASSUME IInv, TypeInv', NEW s \in Scans, ScanStart(s) \/ ScanPass(s)
  PROVE  IInv'
<1>1. /\ up /\ UNCHANGED <<row, entry, frames, up, view, taint>>
      /\ scans[s].phase \notin Awaiting /\ scans'[s].phase \notin Awaiting
      /\ scans'[s].phase # "idle" => scans'[s].current
      /\ \A r \in Scans : r # s => scans'[r] = scans[r]
  BY InFlightUp DEF ScanStart, ScanPass, IInv, TypeInv, TypeOK, Idle, Awaiting
<1>2. /\ Committed' <=> Committed
      /\ CachedStatus' = CachedStatus /\ CachedLevel' = CachedLevel
  BY <1>1 DEF Committed, CachedStatus, CachedLevel, Awaiting
<1>3. CleanInv'
  <2> SUFFICES ASSUME Undisturbed
               PROVE  /\ Alone' /\ Settled' /\ (\A g \in Handlers : FrameSound(g)')
                      /\ (\A r \in Scans : ScanSound(r)')
    BY <1>1 DEF CleanInv, Undisturbed
  <2>1. /\ Alone /\ Settled /\ (\A g \in Handlers : FrameSound(g))
        /\ (\A r \in Scans : ScanSound(r))
    BY DEF IInv, CleanInv
  <2>2. Alone'
    BY <1>1, <2>1 DEF Alone
  <2>3. Settled'
    BY <1>1, <1>2, <2>1 DEF Settled
  <2>4. \A g \in Handlers : FrameSound(g)'
    BY <1>1, <2>1 DEF FrameSound
  <2>5. \A r \in Scans : ScanSound(r)'
    BY <1>1, <1>2, <2>1 DEF ScanSound, Awaiting
  <2> QED BY <2>2, <2>3, <2>4, <2>5
<1> QED BY <1>1, <1>2, <1>3 DEF IInv, DownIdle, ViewSound

LEMMA ScanDemoteClean ==
  ASSUME IInv, TypeInv', NEW s \in Scans, ScanDemote(s)
  PROVE  IInv'
<1>1. /\ up /\ UNCHANGED <<row, entry, frames, up, view>>
      /\ scans[s].phase = "looking" /\ scans'[s].phase = "pending"
      /\ scans'[s].current = scans[s].current
      /\ \A r \in Scans : r # s => scans'[r] = scans[r]
  BY InFlightUp, ScanType DEF ScanDemote, IInv, TypeInv, TypeOK, ScanCalls
<1>2. Undisturbed' => Undisturbed /\ taint' = taint /\ ~Busy
  BY DEF ScanDemote, OverlapTaint, Undisturbed
<1>3. CleanInv'
  <2> SUFFICES ASSUME Undisturbed'
               PROVE  /\ Alone' /\ Settled' /\ (\A g \in Handlers : FrameSound(g)')
                      /\ (\A r \in Scans : ScanSound(r)')
    BY DEF CleanInv
  <2>1. /\ Settled /\ (\A r \in Scans : ScanSound(r)) /\ (\A g \in Handlers : FrameSound(g))
        /\ ~Committed /\ CachedStatus = row.status /\ CachedLevel = row.battery
    BY <1>1, <1>2, QuietAgrees DEF IInv, CleanInv
  <2>2. /\ \A g \in Handlers : frames[g].phase \notin Awaiting
        /\ \A r \in Scans : scans[r].phase \notin Awaiting
    BY <1>2 DEF Busy
  <2>3. Alone'
    BY <1>1, <2>2 DEF Alone
  <2>4. Settled'
    BY <1>1, <2>1 DEF Settled, CachedStatus, CachedLevel
  <2>5. \A g \in Handlers : FrameSound(g)'
    BY <1>1, <2>1 DEF FrameSound
  <2>6. \A r \in Scans : ScanSound(r)'
    BY <1>1, <2>1, <2>2 DEF ScanSound, Awaiting
  <2> QED BY <2>3, <2>4, <2>5, <2>6
<1>4. ViewSound'
  <2> SUFFICES ASSUME taint' = {} PROVE ViewSound'
    BY DEF ViewSound
  <2>1. Undisturbed /\ taint = {} /\ ~Busy
    BY <1>2 DEF Undisturbed
  <2>2. ~Committed
    BY <2>1 DEF Busy, Committed, Awaiting
  <2> QED BY <1>1, <2>1, <2>2 DEF IInv, ViewSound
<1> QED BY <1>1, <1>3, <1>4 DEF IInv, DownIdle

LEMMA CommitScanClean ==
  ASSUME IInv, TypeInv', NEW s \in Scans, CommitScan(s)
  PROVE  IInv'
<1>1. /\ up /\ UNCHANGED <<entry, frames, up, view, taint>>
      /\ scans[s].phase = "pending" /\ scans'[s].phase = "committed"
      /\ scans'[s].current = scans[s].current
      /\ \A r \in Scans : r # s => scans'[r] = scans[r]
      /\ row'.status = "OFFLINE" /\ row'.battery = row.battery
  BY InFlightUp, ScanType DEF CommitScan, IInv, TypeInv, TypeOK, ScanCalls, Rows
<1>2. Committed'
  BY <1>1 DEF Committed
<1>3. ASSUME Undisturbed
      PROVE  /\ \A g \in Handlers : frames[g].phase \notin Awaiting
             /\ \A r \in Scans : r # s => scans[r].phase \notin Awaiting
  BY <1>1, <1>3 DEF IInv, CleanInv, Alone, Awaiting
<1>4. CleanInv'
  <2> SUFFICES ASSUME Undisturbed
               PROVE  /\ Alone' /\ Settled' /\ (\A g \in Handlers : FrameSound(g)')
                      /\ (\A r \in Scans : ScanSound(r)')
    BY <1>1 DEF CleanInv, Undisturbed
  <2>1. Settled /\ (\A r \in Scans : ScanSound(r)) /\ (\A g \in Handlers : FrameSound(g))
    BY DEF IInv, CleanInv
  <2>2. ~Committed
    BY <1>1, <1>3 DEF Committed, Awaiting
  <2>3. CachedLevel = row.battery
    BY <1>1, <2>1, <2>2 DEF Settled
  <2>4. Alone'
    BY <1>1, <1>3 DEF Alone
  <2>5. Settled'
    BY <1>2 DEF Settled
  <2>6. \A g \in Handlers : FrameSound(g)'
    BY <1>1, <1>3, <2>1 DEF FrameSound, Awaiting
  <2>7. \A r \in Scans : ScanSound(r)'
    BY <1>1, <1>3, <2>1, <2>3 DEF ScanSound, Awaiting, CachedLevel
  <2> QED BY <2>4, <2>5, <2>6, <2>7
<1>5. ViewSound'
  <2> SUFFICES ASSUME taint = {} PROVE ViewSound'
    BY <1>1 DEF ViewSound
  <2> QED BY <1>1, <1>2, <1>3 DEF ViewSound, Undisturbed, Awaiting
<1> QED BY <1>1, <1>4, <1>5 DEF IInv, DownIdle

LEMMA FinishScanClean ==
  ASSUME IInv, TypeInv', NEW s \in Scans, FinishScan(s)
  PROVE  IInv'
<1>1. /\ up /\ UNCHANGED <<row, frames, up, taint>>
      /\ scans[s].phase \in {"committed", "failed"} /\ scans'[s] = Idle
      /\ \A r \in Scans : r # s => scans'[r] = scans[r]
  BY InFlightUp DEF FinishScan, IInv, TypeInv, TypeOK
<1>2. ASSUME Undisturbed
      PROVE  /\ scans[s].phase = "committed" /\ row.status = "OFFLINE"
             /\ view' = "OFFLINE" /\ CachedStatus' = "OFFLINE" /\ CachedLevel' = row.battery
             /\ \A g \in Handlers : frames[g].phase \notin Awaiting
             /\ \A r \in Scans : scans'[r].phase \notin Awaiting
  <2>1. ScanSound(s) /\ Alone
    BY <1>2 DEF IInv, CleanInv
  <2>2. /\ scans[s].phase = "committed" /\ row.status = "OFFLINE"
        /\ CachedLevel = row.battery /\ scans[s].current
    BY <1>1, <2>1 DEF ScanSound
  <2>3. entry \in Entries /\ entry # NoEntry
    BY <2>2, EntryType DEF IInv, TypeInv, ScanHoldsEntry, Awaiting
  <2>4. entry' = [entry EXCEPT !.lastStatus = "OFFLINE"] /\ view' = "OFFLINE"
    BY <2>2 DEF FinishScan, DemotedEntry
  <2>5. entry' \in Entries /\ entry'.lastStatus = "OFFLINE" /\ entry'.battery = entry.battery
    BY <2>3, <2>4 DEF Entries, Status
  <2>6. CachedStatus' = "OFFLINE" /\ CachedLevel' = row.battery
    BY <2>2, <2>3, <2>5, EntriesNotNoEntry DEF CachedStatus, CachedLevel
  <2>7. /\ \A g \in Handlers : frames[g].phase \notin Awaiting
        /\ \A r \in Scans : r # s => scans[r].phase \notin Awaiting
    BY <2>1, <2>2 DEF Alone, Awaiting
  <2> QED BY <1>1, <2>2, <2>4, <2>6, <2>7 DEF Idle, Awaiting
<1>3. CleanInv'
  <2> SUFFICES ASSUME Undisturbed
               PROVE  /\ Alone' /\ Settled' /\ (\A g \in Handlers : FrameSound(g)')
                      /\ (\A r \in Scans : ScanSound(r)')
    BY <1>1 DEF CleanInv, Undisturbed
  <2>1. Alone'
    BY <1>1, <1>2 DEF Alone
  <2>2. Settled'
    BY <1>1, <1>2 DEF Settled
  <2>3. \A g \in Handlers : FrameSound(g)'
    BY <1>1, <1>2 DEF FrameSound, Awaiting
  <2>4. \A r \in Scans : ScanSound(r)'
    BY <1>1, <1>2 DEF ScanSound, Awaiting, Idle, IInv, CleanInv
  <2> QED BY <2>1, <2>2, <2>3, <2>4
<1>4. ViewSound'
  <2> SUFFICES ASSUME taint = {} PROVE ViewSound'
    BY <1>1 DEF ViewSound
  <2> QED BY <1>1, <1>2 DEF ViewSound, Undisturbed, Awaiting
<1> QED BY <1>1, <1>3, <1>4 DEF IInv, DownIdle

-----------------------------------------------------------------------------

LEMMA GatewayWriteClean ==
  ASSUME IInv, TypeInv', NEW status \in Status, GatewayWrite(status)
  PROVE  IInv'
BY DEF GatewayWrite, IInv, DownIdle, CleanInv, ViewSound, Undisturbed

LEMMA GatewayBatteryClean ==
  ASSUME IInv, TypeInv', NEW level \in Levels, GatewayBattery(level)
  PROVE  IInv'
BY DEF GatewayBattery, IInv, DownIdle, CleanInv, ViewSound, Undisturbed

LEMMA CrashClean == ASSUME IInv, TypeInv', Crash PROVE IInv'
<1>1. /\ ~up' /\ entry' = NoEntry /\ taint' # {}
      /\ frames' = [h \in Handlers |-> Idle] /\ scans' = [s \in Scans |-> Idle]
  BY DEF Crash
<1>2. /\ \A h \in Handlers : frames'[h].phase = "idle"
      /\ \A s \in Scans : scans'[s].phase = "idle"
  BY <1>1 DEF Idle
<1>3. CleanInv'
  BY <1>1, <1>2 DEF CleanInv, Alone, Settled, FrameSound, ScanSound, Awaiting
<1> QED BY <1>1, <1>3 DEF IInv, DownIdle, ViewSound

LEMMA BootClean == ASSUME IInv, TypeInv', Boot PROVE IInv'
<1>1. /\ up' /\ ~up /\ entry = NoEntry /\ UNCHANGED <<row, frames, scans, view>>
      /\ frames = [h \in Handlers |-> Idle] /\ scans = [s \in Scans |-> Idle]
  BY DEF Boot, IInv, DownIdle
<1>2. /\ \A h \in Handlers : frames[h].phase = "idle"
      /\ \A s \in Scans : scans[s].phase = "idle"
  BY <1>1 DEF Idle
<1>3. CASE entry' = HydratedEntry /\ UNCHANGED taint
  <2>1. HydratedEntry # NoEntry /\ HydratedEntry.lastStatus = row.status
        /\ HydratedEntry.battery = row.battery
    BY EntriesNotNoEntry DEF HydratedEntry, IInv, TypeInv, TypeOK, Rows, Entries
  <2>2. CachedStatus' = row.status /\ CachedLevel' = row.battery
    BY <1>3, <2>1 DEF CachedStatus, CachedLevel
  <2>3. CleanInv'
    BY <1>1, <1>2, <2>2 DEF CleanInv, Alone, Settled, FrameSound, ScanSound, Awaiting
  <2>4. ViewSound'
    BY <1>1, <1>2, <1>3 DEF IInv, ViewSound, Committed
  <2> QED BY <1>1, <2>3, <2>4 DEF IInv, DownIdle
<1>4. CASE "bypass" \in taint'
  BY <1>1, <1>4 DEF IInv, DownIdle, CleanInv, ViewSound, Undisturbed
<1> QED BY <1>3, <1>4 DEF Boot

LEMMA TickClean == ASSUME IInv, TypeInv', Tick PROVE IInv'
<1>1. /\ UNCHANGED <<up, view, taint>>
      /\ row'.status = row.status /\ row'.battery = row.battery
  BY DEF Tick, IInv, TypeInv, TypeOK, Rows
<1>2. CachedStatus' = CachedStatus /\ CachedLevel' = CachedLevel
  <2>1. CASE entry = NoEntry
    BY <2>1 DEF Tick, CachedStatus, CachedLevel
  <2>2. CASE entry # NoEntry
    <3>1. entry \in Entries
      BY <2>2, EntryType DEF IInv, TypeInv
    <3>2. /\ entry' \in Entries /\ entry'.lastStatus = entry.lastStatus
          /\ entry'.battery = entry.battery
      BY <2>2, <3>1, AgesType DEF Tick, Entries
    <3> QED BY <2>2, <3>2, EntriesNotNoEntry DEF CachedStatus, CachedLevel
  <2> QED BY <2>1, <2>2
<1>3. ASSUME NEW h \in Handlers
      PROVE  /\ frames'[h].phase = frames[h].phase
             /\ frames[h].phase # "idle" =>
                  /\ frames'[h].update = frames[h].update
                  /\ frames'[h].announce = frames[h].announce
                  /\ frames'[h].entry.lastStatus = frames[h].entry.lastStatus
                  /\ frames'[h].entry.battery = frames[h].entry.battery
  <2>1. frames'[h] = AgedFrame(frames[h])
    BY DEF Tick
  <2>2. CASE frames[h].phase = "idle"
    BY <2>1, <2>2 DEF AgedFrame
  <2>3. CASE frames[h].phase # "idle"
    <3>1. frames[h] \in FrameCalls
      BY <2>3, FrameType DEF IInv, TypeInv
    <3> DEFINE held == frames[h].entry
               aged == [held EXCEPT !.age = IF @ = AtFinish THEN @ ELSE Older(@)]
    <3>2. aged.lastStatus = held.lastStatus /\ aged.battery = held.battery
      BY <3>1 DEF FrameCalls
    <3>3. frames'[h] = [[frames[h] EXCEPT !.age = Older(@)] EXCEPT !.entry = aged]
      BY <2>1, <2>3, <3>1 DEF AgedFrame, FrameCalls
    <3> HIDE DEF aged
    <3> QED BY <3>1, <3>2, <3>3 DEF FrameCalls
  <2> QED BY <2>2, <2>3
<1>4. ASSUME NEW s \in Scans
      PROVE  /\ scans'[s].phase = scans[s].phase
             /\ scans[s].phase # "idle" => scans'[s].current = scans[s].current
  BY ScanType DEF Tick, AgedScan, ScanCalls, IInv, TypeInv
<1>5. Committed' <=> Committed
  BY <1>3, <1>4 DEF Committed
<1>6. CleanInv'
  <2> SUFFICES ASSUME Undisturbed
               PROVE  /\ Alone' /\ Settled' /\ (\A g \in Handlers : FrameSound(g)')
                      /\ (\A s \in Scans : ScanSound(s)')
    BY <1>1 DEF CleanInv, Undisturbed
  <2>1. /\ Alone /\ Settled /\ (\A g \in Handlers : FrameSound(g))
        /\ (\A s \in Scans : ScanSound(s))
    BY DEF IInv, CleanInv
  <2>2. Alone'
    BY <1>3, <1>4, <2>1 DEF Alone
  <2>3. Settled'
    BY <1>1, <1>2, <1>5, <2>1 DEF Settled
  <2>4. \A g \in Handlers : FrameSound(g)'
    BY <1>1, <1>3, <2>1 DEF FrameSound, Overwrite
  <2>5. \A s \in Scans : ScanSound(s)'
    BY <1>1, <1>2, <1>4, <2>1 DEF ScanSound
  <2> QED BY <2>2, <2>3, <2>4, <2>5
<1>7. ViewSound'
  BY <1>1, <1>3, <1>5 DEF IInv, ViewSound
<1>8. DownIdle'
  <2> SUFFICES ASSUME ~up
               PROVE  /\ entry' = NoEntry /\ frames' = [h \in Handlers |-> Idle]
                      /\ scans' = [s \in Scans |-> Idle]
    BY <1>1 DEF DownIdle
  <2>1. /\ entry = NoEntry /\ frames = [h \in Handlers |-> Idle]
        /\ scans = [s \in Scans |-> Idle]
    BY DEF IInv, DownIdle
  <2> QED BY <2>1 DEF Tick, AgedFrame, AgedScan, Idle
<1> QED BY <1>6, <1>7, <1>8 DEF IInv

-----------------------------------------------------------------------------

LEMMA CleanInit == Init => IInv
<1> SUFFICES ASSUME Init PROVE IInv
  OBVIOUS
<1>1. /\ \A h \in Handlers : frames[h].phase = "idle"
      /\ \A s \in Scans : scans[s].phase = "idle"
  BY DEF Init, Idle
<1>2. TypeInv
  BY <1>1, TypeInit DEF Init, TypeInv, ScanHoldsEntry, BehindRestarted, Awaiting
<1>3. CleanInv
  BY <1>1 DEF CleanInv, Alone, Settled, FrameSound, ScanSound, Awaiting, CachedStatus,
     CachedLevel, Init
<1>4. ViewSound
  BY <1>1 DEF ViewSound, Init
<1> QED BY <1>2, <1>3, <1>4 DEF IInv, DownIdle, Init

LEMMA CleanStep == IInv /\ [Next]_vars => IInv'
<1> SUFFICES ASSUME IInv, [Next]_vars PROVE IInv'
  OBVIOUS
<1>1. TypeInv' /\ TypeOK'
  BY TypeStep, ScanHoldsEntryStep, BehindRestartedStep DEF IInv, TypeInv
<1>2. ASSUME NEW h \in Handlers, FrameArrives(h) PROVE IInv'
  BY <1>1, <1>2, HeartbeatClean, StatusFrameClean, BatteryFrameClean
  DEF FrameArrives, OnlineHeartbeat, OfflineHeartbeat, Status
<1>3. ASSUME NEW h \in Handlers, HandlerReturns(h) \/ FailFrame(h) PROVE IInv'
  BY <1>1, <1>3, CommitFrameClean, FinishFrameClean, AbandonFrameClean, FailFrameClean
  DEF HandlerReturns
<1>4. ASSUME NEW s \in Scans, ScanStart(s) \/ ScanReturns(s) \/ FailScan(s) PROVE IInv'
  BY <1>1, <1>4, ScanStartClean, ScanDemoteClean, CommitScanClean, FinishScanClean,
     FailScanClean
  DEF ScanReturns
<1>5. ASSUME NEW status \in Status, GatewayWrite(status) PROVE IInv'
  BY <1>1, <1>5, GatewayWriteClean
<1>10. ASSUME NEW level \in Levels, GatewayBattery(level) PROVE IInv'
  BY <1>1, <1>10, GatewayBatteryClean
<1>6. CASE Crash
  BY <1>1, <1>6, CrashClean
<1>7. CASE Boot
  BY <1>1, <1>7, BootClean
<1>8. CASE Tick
  BY <1>1, <1>8, TickClean
<1>9. CASE UNCHANGED vars
  BY <1>1, <1>9, NothingIssued DEF vars
<1> QED BY <1>2, <1>3, <1>4, <1>5, <1>6, <1>7, <1>8, <1>9, <1>10 DEF Next

THEOREM Invariance == Spec => []IInv
BY CleanInit, CleanStep, PTL DEF Spec

\* Between the calls the cached entry holds the row's status and battery
\* level, whatever crashes and boots came before: mqtt-ingest never skips a
\* write because of a status that the row does not have.
THEOREM CacheAgrees == Spec => []CacheAgreesWithRow
<1>1. IInv => CacheAgreesWithRow
  BY QuietAgrees DEF CacheAgreesWithRow, CachedStatus, CachedLevel
<1> QED BY <1>1, Invariance, PTL

\* A dashboard that follows the status events never drifts from the row.
THEOREM ViewFollows == Spec => []ViewFollowsRow
<1>1. IInv => ViewFollowsRow
  BY DEF IInv, ViewSound, ViewFollowsRow, Busy, Committed, Awaiting
<1> QED BY <1>1, Invariance, PTL

-----------------------------------------------------------------------------
(* The scan demotes nobody early: lastDbHeartbeat lags less than the write  *)
(* throttle behind the last frame, in the entry, in what a handler in       *)
(* flight will store and in the row that the next process hydrates from.    *)

Timely == "calls" \notin taint
InFlight(h) == frames[h].phase \in Awaiting
QuietFrames == \A h \in Handlers : ~InFlight(h)
Stamping(h) == frames[h].phase = "pending" /\ frames[h].update.lastSeen

OneFrame == \A g, h \in Handlers : InFlight(g) /\ InFlight(h) => g = h

\* An age that may be stored: not older than the entry's.
Storable(age, e) ==
  \/ e = NoEntry /\ age = AtFinish
  \/ age \in Nat /\ (e # NoEntry => age <= e.age)

\* An UPDATE that sets lastSeen records its frame, which is recent.
StampInTime(h) ==
  frames[h].update.lastSeen =>
    frames[h].entry.age = frames[h].age /\ frames[h].age < heard + Write

\* The row is as recent as what the handler will store, if that is ONLINE or
\* recorded by it.
RowCaughtUp(h) ==
  (IF frames[h].update.lastSeen THEN frames[h].phase = "committed"
                                ELSE frames[h].entry.lastStatus = "ONLINE")
    => frames[h].entry.age \in Nat /\ row.seen <= frames[h].entry.age

CallSeen(h) ==
  InFlight(h) =>
    /\ frames[h].phase # "failed" /\ Storable(frames[h].entry.age, entry)
    /\ StampInTime(h) /\ RowCaughtUp(h)

\* The row is as recent as an ONLINE entry.
EntrySeen == entry # NoEntry /\ entry.lastStatus = "ONLINE" => row.seen <= entry.age

\* Without overlapping and failed UPDATEs since the boot ...
Seen == Timely => OneFrame /\ EntrySeen /\ \A h \in Handlers : CallSeen(h)

\* ... and with the row's last frame recorded by the process before, or a
\* frame by this one.
EntryFresh == entry # NoEntry /\ QuietFrames => entry.age < heard + Write
RowFresh == (\A h \in Handlers : ~Stamping(h)) => row.seen < heard + Write
CallFresh(h) ==
  InFlight(h) /\ frames[h].entry.age # AtFinish => frames[h].entry.age < heard + Write

Caught == OnTime => EntryFresh /\ RowFresh /\ \A h \in Handlers : CallFresh(h)

Fresh == Seen /\ Caught

LEMMA AgesAreNat == Ages \subseteq Nat /\ Write \in Nat /\ 0 < Write /\ AtFinish \notin Nat
BY TimesAssumption, ValuesAssumption DEF Ages, Cap

LEMMA EntryAgeType == TypeOK /\ entry # NoEntry => entry.age \in Nat
<1>1. TypeOK /\ entry # NoEntry => entry.age \in Ages
  BY EntryType DEF Entries
<1> QED BY <1>1, AgesAreNat

LEMMA SeenType == TypeOK => row.seen \in Nat
<1>1. TypeOK => row.seen \in Ages
  BY DEF TypeOK, Rows
<1> QED BY <1>1, AgesAreNat

LEMMA ThrottlePositive == \A a \in Nat : 0 < a + Write
BY AgesAreNat

LEMMA OlderOrder ==
  ASSUME NEW a \in Ages, NEW b \in Ages
  PROVE  /\ a < b + Write => Older(a) < Older(b) + Write
         /\ a <= b => Older(a) <= Older(b)
         /\ Older(a) \in Nat /\ Older(Cap) = Cap
BY TimesAssumption DEF Ages, Cap, Older

\* Nothing is excused to a process that kept its UPDATEs in order.
LEMMA OnTimeTimely == OnTime => Timely
BY DEF OnTime, Timely

\* A handler in flight has an age.
LEMMA CallAges ==
  ASSUME TypeOK, NEW h \in Handlers, InFlight(h)
  PROVE  /\ frames[h] \in FrameCalls /\ frames[h].age \in Nat
         /\ frames[h].entry.age \in Nat \cup {AtFinish} /\ frames[h].update.lastSeen \in BOOLEAN
<1>1. frames[h] \in FrameCalls
  BY FrameType DEF InFlight, Awaiting
<1> QED BY <1>1, AgesAreNat DEF FrameCalls, Updates

\* A step that begins no call, makes no entry ONLINE and forgets no
\* disturbance; the gateway may have set lastSeen.
LEMMA FreshSame ==
  ASSUME Fresh, TypeOK, Timely' => Timely, OnTime' => OnTime, UNCHANGED <<heard, frames>>,
         row'.seen = row.seen \/ row'.seen = 0,
         entry' = NoEntry <=> entry = NoEntry,
         entry # NoEntry => /\ entry'.age = entry.age
                            /\ entry'.lastStatus = "ONLINE" => entry.lastStatus = "ONLINE"
  PROVE  Fresh'
<1>1. heard \in Nat /\ (entry # NoEntry => entry.age \in Nat)
  BY EntryAgeType, AgesAreNat DEF TypeOK
<1>2. \A a \in Nat : row.seen <= a => row'.seen <= a
  OBVIOUS
<1>3. Seen'
  <2> SUFFICES ASSUME Timely
               PROVE  OneFrame' /\ EntrySeen' /\ \A h \in Handlers : CallSeen(h)'
    BY DEF Seen
  <2>1. OneFrame /\ EntrySeen /\ \A h \in Handlers : CallSeen(h)
    BY DEF Fresh, Seen
  <2>2. OneFrame'
    BY <2>1 DEF OneFrame, InFlight
  <2>3. EntrySeen'
    BY <1>1, <1>2, <2>1 DEF EntrySeen
  <2>4. ASSUME NEW h \in Handlers PROVE CallSeen(h)'
    BY <1>2, <2>1 DEF CallSeen, InFlight, Storable, StampInTime, RowCaughtUp
  <2> QED BY <2>2, <2>3, <2>4
<1>4. Caught'
  <2>1. row.seen < heard + Write => row'.seen < heard + Write
    BY <1>1, ThrottlePositive
  <2> QED BY <2>1 DEF Fresh, Caught, EntryFresh, RowFresh, CallFresh, QuietFrames, InFlight, Stamping
<1> QED BY <1>3, <1>4 DEF Fresh

\* A frame that needs no UPDATE proves life, and finds an ONLINE entry not yet
\* stale.
LEMMA FreshHeard ==
  ASSUME Fresh, TypeOK, UNCHANGED <<row, entry, frames, taint>>,
         heard' = heard \/ (heard' = 0 /\ ~HeartbeatStale /\ entry.lastStatus = "ONLINE")
  PROVE  Fresh'
<1>1. CASE heard' = heard
  BY <1>1, FreshSame DEF Timely, OnTime
<1>2. CASE heard' = 0 /\ ~HeartbeatStale /\ entry.lastStatus = "ONLINE"
  <2>1. entry # NoEntry /\ entry.age \in Nat /\ entry.age < Write /\ Write \in Nat
    BY <1>2, EntryAgeType, AgesAreNat DEF HeartbeatStale
  <2>2. row.seen \in Nat
    BY AgesAreNat DEF TypeOK, Rows
  <2>3. ASSUME Timely, NEW h \in Handlers, InFlight(h)
        PROVE  /\ CallSeen(h)'
               /\ frames[h].entry.age \in Nat /\ frames[h].entry.age < Write
    <3>1. CallSeen(h)
      BY <2>3 DEF Fresh, Seen
    <3>2. frames[h].entry.age \in Nat /\ frames[h].entry.age <= entry.age
      BY <2>1, <2>3, <3>1 DEF CallSeen, Storable
    <3>3. StampInTime(h)'
      BY <1>2, <2>1, <2>3, <3>1, <3>2 DEF CallSeen, StampInTime
    <3> QED BY <2>1, <2>3, <3>1, <3>2, <3>3 DEF CallSeen, Storable, RowCaughtUp, InFlight
  <2>4. Seen'
    <3> SUFFICES ASSUME Timely
                 PROVE  OneFrame' /\ EntrySeen' /\ \A h \in Handlers : CallSeen(h)'
      BY DEF Seen, Timely
    <3>1. OneFrame' /\ EntrySeen'
      BY DEF Fresh, Seen, OneFrame, EntrySeen, InFlight
    <3>2. \A h \in Handlers : CallSeen(h)'
      BY <2>3 DEF CallSeen, InFlight
    <3> QED BY <3>1, <3>2
  <2>5. Caught'
    <3> SUFFICES ASSUME OnTime
                 PROVE  EntryFresh' /\ RowFresh' /\ \A h \in Handlers : CallFresh(h)'
      BY DEF Caught, OnTime
    <3>1. Timely
      BY OnTimeTimely
    <3>2. row.seen <= entry.age
      BY <1>2, <2>1, <3>1 DEF Fresh, Seen, EntrySeen
    <3>3. EntryFresh' /\ RowFresh'
      BY <1>2, <2>1, <2>2, <3>2 DEF EntryFresh, RowFresh
    <3>4. \A h \in Handlers : CallFresh(h)'
      BY <1>2, <2>1, <2>3, <3>1 DEF CallFresh, InFlight
    <3> QED BY <3>3, <3>4
  <2> QED BY <2>4, <2>5 DEF Fresh
<1> QED BY <1>1, <1>2

\* A handler that begins, alone, with an age that may be stored.
LEMMA FreshIssue ==
  ASSUME Fresh, TypeOK, NEW h \in Handlers, NEW kind, NEW update, NEW next, NEW announce,
         frames[h] = Idle, Issue(h, kind, update, next, announce), UNCHANGED <<row, entry>>,
         heard' \in Nat, update.lastSeen \in BOOLEAN,
         update.lastSeen => next.age = 0,
         Timely /\ ~Busy => Storable(next.age, entry),
         Timely /\ ~Busy /\ ~update.lastSeen /\ next.lastStatus = "ONLINE" =>
           next.age \in Nat /\ row.seen <= next.age,
         OnTime /\ ~Busy => (next.age # AtFinish => next.age < heard' + Write),
         OnTime /\ ~Busy /\ ~update.lastSeen => row.seen < heard' + Write
  PROVE  Fresh'
<1> DEFINE call == [kind |-> kind, phase |-> "pending", age |-> 0, update |-> update,
                    entry |-> next, announce |-> announce]
<1>1. Timely' => Timely /\ ~Busy
  BY DEF Timely, Issue, OverlapTaint
<1>2. OnTime' => OnTime /\ ~Busy
  BY DEF OnTime, Issue, OverlapTaint
<1>3. frames'[h] = call /\ \A g \in Handlers \ {h} : frames'[g] = frames[g]
  BY DEF Issue, TypeOK
<1>4. /\ frames'[h].phase = "pending" /\ frames'[h].age = 0 /\ frames'[h].entry = next
      /\ frames'[h].update = update /\ InFlight(h)'
  BY <1>3 DEF InFlight, Awaiting
<1>5. ~Busy => \A g \in Handlers \ {h} : ~InFlight(g)'
  BY <1>3 DEF Busy, InFlight
<1>6. 0 < heard' + Write
  BY ThrottlePositive
<1>7. Seen'
  <2> SUFFICES ASSUME Timely' PROVE OneFrame' /\ EntrySeen' /\ \A g \in Handlers : CallSeen(g)'
    BY DEF Seen
  <2>1. OneFrame'
    BY <1>1, <1>5 DEF OneFrame
  <2>2. EntrySeen'
    BY <1>1 DEF Fresh, Seen, EntrySeen
  <2>3. CallSeen(h)'
    BY <1>1, <1>4, <1>6 DEF CallSeen, Storable, StampInTime, RowCaughtUp
  <2> QED BY <1>1, <1>5, <2>1, <2>2, <2>3 DEF CallSeen
<1>8. Caught'
  <2> SUFFICES ASSUME OnTime' PROVE EntryFresh' /\ RowFresh' /\ \A g \in Handlers : CallFresh(g)'
    BY DEF Caught
  <2>1. EntryFresh'
    BY <1>4 DEF EntryFresh, QuietFrames
  <2>2. RowFresh'
    BY <1>2, <1>4 DEF RowFresh, Stamping
  <2>3. CallFresh(h)'
    BY <1>2, <1>4 DEF CallFresh
  <2> QED BY <1>2, <1>5, <2>1, <2>2, <2>3 DEF CallFresh
<1> QED BY <1>7, <1>8 DEF Fresh

\* Between the calls the entry's age may be stored again.
LEMMA EntryStorable ==
  ASSUME Fresh, TypeOK, OnTime, ~Busy
  PROVE  /\ entry # NoEntry => entry.age < heard + Write /\ entry.age \in Nat
         /\ row.seen < heard + Write
<1>1. EntryFresh /\ RowFresh /\ QuietFrames
  BY DEF Fresh, Caught, Busy, QuietFrames, InFlight
<1>2. \A h \in Handlers : ~Stamping(h)
  BY <1>1 DEF QuietFrames, InFlight, Stamping, Awaiting
<1> QED BY <1>1, <1>2, EntryAgeType DEF EntryFresh, RowFresh

LEMMA FreshFrame ==
  ASSUME Fresh, TypeOK, NEW h \in Handlers, FrameArrives(h)
  PROVE  Fresh'
<1>1. heard \in Nat /\ heard' \in {0, heard} /\ (entry # NoEntry => entry.age \in Nat)
  BY EntryAgeType, AgesAreNat
  DEF TypeOK, FrameArrives, OnlineHeartbeat, OfflineHeartbeat, Heartbeat, StatusFrame, BatteryFrame
<1>2. heard' \in Nat /\ 0 < heard' + Write /\ 0 \in Nat
  BY <1>1, ThrottlePositive
<1>3. ASSUME NEW status \in Status, Heartbeat(h, status)
      PROVE  Fresh'
  <2>1. CASE Differs(status) \/ HeartbeatStale
    <3> DEFINE next == [lastStatus |-> status, age |-> 0, battery |-> CachedLevel]
               update == HeartbeatUpdate(status)
    <3>1. Issue(h, "heartbeat", update, next, Announcement(status))
      BY <1>3, <2>1 DEF Heartbeat
    <3>2. next.age = 0 /\ update.lastSeen = TRUE
      BY DEF HeartbeatUpdate
    <3>3. Storable(next.age, entry)
      BY <1>1, <3>2 DEF Storable
    <3>4. frames[h] = Idle /\ UNCHANGED <<row, entry>>
      BY <1>3 DEF Heartbeat
    <3> HIDE DEF next, update
    <3> QED BY <1>2, <3>1, <3>2, <3>3, <3>4, FreshIssue
  <2>2. CASE ~(Differs(status) \/ HeartbeatStale)
    <3>1. UNCHANGED <<row, entry, frames, taint>>
          /\ (heard' = heard \/ (heard' = 0 /\ status = "ONLINE"))
      BY <1>3, <2>2 DEF Heartbeat
    <3> QED BY <2>2, <3>1, FreshHeard DEF Differs
  <2> QED BY <2>1, <2>2
<1>4. ASSUME NEW level \in Levels \cup {NoLevel}, StatusFrame(h, level)
      PROVE  Fresh'
  <2> DEFINE changed == Differs("ONLINE")
             refresh == changed \/ HeartbeatStale
             battery == level # NoLevel /\ level # CachedLevel
             update == [status |-> IF changed THEN "ONLINE" ELSE Keep, lastSeen |-> refresh,
                        battery |-> IF battery THEN level ELSE Keep]
             next == [lastStatus |-> "ONLINE", age |-> IF refresh THEN 0 ELSE entry.age,
                      battery |-> IF battery THEN level ELSE CachedLevel]
  <2>1. frames[h] = Idle /\ heard' = 0 /\ UNCHANGED <<row, entry>>
    BY <1>4 DEF StatusFrame
  <2>2. ASSUME ~refresh
        PROVE  /\ entry # NoEntry /\ entry.lastStatus = "ONLINE" /\ entry.age < Write
               /\ entry.age \in Nat
    BY <1>1, <2>2, AgesAreNat DEF Differs, HeartbeatStale
  <2>3. CASE refresh \/ battery
    <3>1. Issue(h, "status", update, next, Announcement("ONLINE"))
      BY <1>4, <2>3 DEF StatusFrame
    <3>2. /\ update.lastSeen = refresh /\ refresh \in BOOLEAN
          /\ next.age = IF refresh THEN 0 ELSE entry.age
      BY DEF Differs, HeartbeatStale
    <3>3. Storable(next.age, entry)
      BY <1>1, <2>2, <3>2 DEF Storable
    <3>4. Timely /\ ~refresh => next.age \in Nat /\ row.seen <= next.age
      BY <2>2, <3>2 DEF Fresh, Seen, EntrySeen
    <3>5. next.age < heard' + Write
      BY <1>2, <2>1, <2>2, <3>2, AgesAreNat
    <3>6. OnTime /\ ~refresh => row.seen < heard' + Write
      <4> SUFFICES ASSUME OnTime, ~refresh PROVE row.seen < heard' + Write
        OBVIOUS
      <4>1. Timely
        BY OnTimeTimely
      <4>2. row.seen <= entry.age
        BY <2>2, <4>1 DEF Fresh, Seen, EntrySeen
      <4> HIDE DEF refresh
      <4> QED BY <2>1, <2>2, <4>2, SeenType, AgesAreNat
    <3> HIDE DEF next, update, refresh
    <3> QED BY <1>2, <2>1, <3>1, <3>2, <3>3, <3>4, <3>5, <3>6, FreshIssue
  <2>4. CASE ~(refresh \/ battery)
    BY <1>4, <2>1, <2>2, <2>4, FreshHeard DEF StatusFrame
  <2> QED BY <2>3, <2>4
<1>5. ASSUME NEW level \in Levels, BatteryFrame(h, level)
      PROVE  Fresh'
  <2> DEFINE update == [status |-> Keep, lastSeen |-> FALSE, battery |-> level]
             next == [lastStatus |-> IF entry = NoEntry THEN "OFFLINE" ELSE entry.lastStatus,
                      age |-> IF entry = NoEntry THEN AtFinish ELSE entry.age,
                      battery |-> level]
  <2>1. frames[h] = Idle /\ UNCHANGED <<row, entry, heard>>
    BY <1>5 DEF BatteryFrame
  <2>2. Issue(h, "battery", update, next, Keep)
    BY <1>5 DEF BatteryFrame
  <2>3. /\ update.lastSeen = FALSE
        /\ next.age = IF entry = NoEntry THEN AtFinish ELSE entry.age
        /\ next.lastStatus = IF entry = NoEntry THEN "OFFLINE" ELSE entry.lastStatus
    OBVIOUS
  <2> HIDE DEF next, update
  <2>4. Storable(next.age, entry)
    BY <1>1, <2>3 DEF Storable
  <2>5. Timely /\ next.lastStatus = "ONLINE" => next.age \in Nat /\ row.seen <= next.age
    BY <1>1, <2>3 DEF Fresh, Seen, EntrySeen
  <2>6. OnTime /\ ~Busy => (next.age # AtFinish => next.age < heard' + Write)
                           /\ row.seen < heard' + Write
    BY <2>1, <2>3, EntryStorable
  <2> QED BY <1>2, <2>1, <2>2, <2>3, <2>4, <2>5, <2>6, FreshIssue
<1> QED BY <1>3, <1>4, <1>5 DEF FrameArrives, OnlineHeartbeat, OfflineHeartbeat, Status

\* The database records what the handler was about to store.
LEMMA FreshCommit ==
  ASSUME Fresh, TypeOK, NEW h \in Handlers, CommitFrame(h)
  PROVE  Fresh'
<1> DEFINE call == frames[h]
<1>1. /\ UNCHANGED <<heard, entry, taint>> /\ call.phase = "pending" /\ InFlight(h)
      /\ row'.seen = IF call.update.lastSeen THEN call.age ELSE row.seen
      /\ frames' = [frames EXCEPT ![h].phase = "committed"]
  BY DEF CommitFrame, InFlight, Awaiting
<1>2. /\ frames'[h].phase = "committed" /\ frames'[h].entry = call.entry
      /\ frames'[h].age = call.age /\ frames'[h].update = call.update
      /\ \A g \in Handlers \ {h} : frames'[g] = frames[g]
  BY <1>1, CallAges DEF TypeOK, FrameCalls
<1>3. call.age \in Nat /\ call.update.lastSeen \in BOOLEAN
  BY <1>1, CallAges
<1>4. ASSUME Timely
      PROVE  /\ CallSeen(h) /\ Storable(call.entry.age, entry) /\ EntrySeen /\ StampInTime(h)
             /\ \A g \in Handlers \ {h} : ~InFlight(g)
  BY <1>1, <1>4 DEF Fresh, Seen, CallSeen, OneFrame
<1>5. \A g \in Handlers : InFlight(g)' <=> InFlight(g)
  BY <1>1, <1>2 DEF InFlight, Awaiting
<1>6. Seen'
  <2> SUFFICES ASSUME Timely
               PROVE  OneFrame' /\ EntrySeen' /\ \A g \in Handlers : CallSeen(g)'
    BY <1>1 DEF Seen, Timely
  <2>1. OneFrame'
    BY <1>4, <1>5 DEF OneFrame
  <2>2. EntrySeen'
    <3>1. CASE call.update.lastSeen
      BY <1>1, <1>3, <1>4, <3>1, AgesAreNat DEF EntrySeen, StampInTime, Storable
    <3>2. CASE ~call.update.lastSeen
      BY <1>1, <1>4, <3>2 DEF EntrySeen
    <3> QED BY <3>1, <3>2
  <2>3. RowCaughtUp(h)'
    <3>1. CASE call.update.lastSeen
      BY <1>1, <1>2, <1>3, <1>4, <3>1 DEF RowCaughtUp, StampInTime
    <3>2. CASE ~call.update.lastSeen
      BY <1>1, <1>2, <1>4, <3>2 DEF RowCaughtUp, CallSeen
    <3> QED BY <3>1, <3>2
  <2>4. CallSeen(h)'
    BY <1>1, <1>2, <1>4, <2>3 DEF CallSeen, StampInTime, Storable
  <2> QED BY <1>4, <1>5, <2>1, <2>2, <2>4 DEF CallSeen
<1>7. Caught'
  <2> SUFFICES ASSUME OnTime
               PROVE  EntryFresh' /\ RowFresh' /\ \A g \in Handlers : CallFresh(g)'
    BY <1>1 DEF Caught, OnTime
  <2>1. Timely
    BY OnTimeTimely
  <2>2. EntryFresh'
    BY <1>1, <1>5 DEF EntryFresh, QuietFrames
  <2>3. row'.seen < heard + Write
    <3>1. CASE call.update.lastSeen
      BY <1>1, <1>4, <2>1, <3>1 DEF StampInTime
    <3>2. CASE ~call.update.lastSeen
      BY <1>1, <1>4, <2>1, <3>2 DEF Fresh, Caught, RowFresh, Stamping, InFlight, Awaiting
    <3> QED BY <3>1, <3>2
  <2>4. \A g \in Handlers : CallFresh(g)'
    BY <1>1, <1>2, <1>5 DEF Fresh, Caught, CallFresh
  <2> QED BY <1>1, <2>2, <2>3, <2>4 DEF RowFresh
<1> QED BY <1>6, <1>7 DEF Fresh

\* The entry takes what the handler held, and with a lastSeen recorded it is
\* recent whatever the process before had left.
LEMMA FreshFinish ==
  ASSUME Fresh, TypeOK, NEW h \in Handlers, FinishFrame(h)
  PROVE  Fresh'
<1> DEFINE call == frames[h]
           age == call.entry.age
<1>1. /\ UNCHANGED <<heard, row>> /\ InFlight(h) /\ frames' = [frames EXCEPT ![h] = Idle]
      /\ taint' = IF call.phase = "committed" /\ call.update.lastSeen
                  THEN taint \ {"behind"} ELSE taint
  BY DEF FinishFrame, InFlight, Awaiting
<1>2. /\ call.update.lastSeen \in BOOLEAN /\ age \in Nat \cup {AtFinish}
      /\ call.age \in Nat /\ heard \in Nat
  BY <1>1, CallAges, AgesAreNat DEF TypeOK
<1>3. /\ entry'.age = IF age = AtFinish THEN 0 ELSE age
      /\ entry'.lastStatus = call.entry.lastStatus
  <2>1. call \in FrameCalls
    BY <1>1, CallAges
  <2> QED BY <2>1 DEF FinishFrame, FrameCalls
<1>4. Timely' => Timely
  BY <1>1 DEF Timely
<1>5. ASSUME Timely
      PROVE  /\ call.phase = "committed" /\ StampInTime(h) /\ RowCaughtUp(h)
             /\ \A g \in Handlers : ~InFlight(g)' /\ (g # h => ~InFlight(g))
  <2>1. CallSeen(h) /\ OneFrame
    BY <1>5 DEF Fresh, Seen
  <2>2. call.phase = "committed" /\ StampInTime(h) /\ RowCaughtUp(h)
    BY <1>1, <2>1 DEF CallSeen, FinishFrame
  <2>3. \A g \in Handlers : ~InFlight(g)' /\ (g # h => ~InFlight(g))
    BY <1>1, <2>1 DEF OneFrame, InFlight, Awaiting, Idle, TypeOK
  <2> QED BY <2>2, <2>3
<1>6. Seen'
  <2> SUFFICES ASSUME Timely
               PROVE  OneFrame' /\ EntrySeen' /\ \A g \in Handlers : CallSeen(g)'
    BY <1>4 DEF Seen
  <2>1. EntrySeen'
    BY <1>1, <1>3, <1>5, AgesAreNat DEF EntrySeen, RowCaughtUp
  <2> QED BY <1>5, <2>1 DEF OneFrame, CallSeen
<1>7. Caught'
  <2> SUFFICES ASSUME OnTime'
               PROVE  EntryFresh' /\ RowFresh' /\ \A g \in Handlers : CallFresh(g)'
    BY DEF Caught
  <2>1. Timely
    BY <1>4, OnTimeTimely DEF OnTime, Timely
  <2>2. \A g \in Handlers : CallFresh(g)'
    BY <1>5, <2>1 DEF CallFresh
  <2>3. CASE call.update.lastSeen
    <3>1. age = call.age /\ age < heard + Write /\ row.seen <= age
      BY <1>5, <2>1, <2>3 DEF StampInTime, RowCaughtUp
    <3>2. row.seen < heard + Write
      BY <1>2, <3>1, SeenType, AgesAreNat
    <3> QED BY <1>1, <1>2, <1>3, <2>2, <3>1, <3>2, AgesAreNat DEF EntryFresh, RowFresh
  <2>4. CASE ~call.update.lastSeen
    <3>1. OnTime
      BY <1>1, <2>4 DEF OnTime
    <3>2. \A g \in Handlers : ~Stamping(g)
      BY <1>5, <2>1, <2>4 DEF Stamping, InFlight, Awaiting
    <3>3. row.seen < heard + Write
      BY <3>1, <3>2 DEF Fresh, Caught, RowFresh
    <3>4. entry'.age < heard + Write
      BY <1>1, <1>2, <1>3, <3>1, ThrottlePositive DEF Fresh, Caught, CallFresh
    <3> QED BY <1>1, <2>2, <3>3, <3>4 DEF EntryFresh, RowFresh
  <2> QED BY <1>2, <2>3, <2>4
<1> QED BY <1>6, <1>7 DEF Fresh

LEMMA FreshReturns ==
  ASSUME Fresh, TypeOK, NEW h \in Handlers, HandlerReturns(h) \/ FailFrame(h)
  PROVE  Fresh'
<1>1. CASE AbandonFrame(h)
  <2>1. UNCHANGED taint /\ InFlight(h) /\ frames[h].phase = "failed"
    BY <1>1 DEF AbandonFrame, InFlight, Awaiting
  <2>2. ~Timely
    BY <2>1 DEF Fresh, Seen, CallSeen
  <2> QED BY <2>1, <2>2 DEF Fresh, Seen, Caught, Timely, OnTime
<1>2. CASE FailFrame(h)
  BY <1>2 DEF FailFrame, Fresh, Seen, Caught, Timely, OnTime
<1> QED BY <1>1, <1>2, FreshCommit, FreshFinish DEF HandlerReturns

\* The scan changes no entry's age.
LEMMA ScanKeepsAge ==
  ASSUME TypeInv, NEW s \in Scans, ScanStart(s) \/ ScanReturns(s) \/ FailScan(s)
  PROVE  /\ entry' = NoEntry <=> entry = NoEntry
         /\ entry # NoEntry =>
              /\ entry'.age = entry.age
              /\ entry'.lastStatus = "ONLINE" => entry.lastStatus = "ONLINE"
<1>1. CASE UNCHANGED entry
  BY <1>1
<1>2. CASE entry' = DemotedEntry(s) /\ scans[s].phase = "committed"
  <2>1. entry \in Entries /\ entry # NoEntry
    BY <1>2, EntryType DEF TypeInv, ScanHoldsEntry, Awaiting
  <2>2. /\ entry' \in Entries /\ entry'.age = entry.age
        /\ entry'.lastStatus \in {entry.lastStatus, "OFFLINE"}
    BY <1>2, <2>1 DEF DemotedEntry, Entries, Status
  <2> QED BY <2>1, <2>2, EntriesNotNoEntry
<1> QED BY <1>1, <1>2 DEF ScanStart, ScanReturns, ScanPass, ScanDemote, CommitScan,
                          FinishScan, FailScan

LEMMA FreshScan ==
  ASSUME Fresh, TypeInv, NEW s \in Scans, ScanStart(s) \/ ScanReturns(s) \/ FailScan(s)
  PROVE  Fresh'
<1>1. UNCHANGED <<frames, heard>> /\ taint \subseteq taint'
  BY DEF ScanStart, ScanReturns, ScanPass, ScanDemote, OverlapTaint, CommitScan, FinishScan,
         FailScan
<1>2. row'.seen = row.seen
  BY DEF TypeInv, TypeOK, Rows, ScanStart, ScanReturns, ScanPass, ScanDemote, CommitScan,
         FinishScan, FailScan
<1>3. (Timely' => Timely) /\ (OnTime' => OnTime)
  BY <1>1 DEF Timely, OnTime
<1> QED BY <1>1, <1>2, <1>3, ScanKeepsAge, FreshSame DEF TypeInv

\* A crash takes the entry and the calls; what it leaves in the row is recent,
\* or the next process is behind.
LEMMA FreshCrash ==
  ASSUME Fresh, Crash
  PROVE  Fresh'
<1>1. /\ entry' = NoEntry /\ UNCHANGED <<row, heard>>
      /\ \A h \in Handlers : ~InFlight(h)'
  BY DEF Crash, InFlight, Awaiting, Idle
<1>2. OnTime' => row.seen < heard + Write
  BY DEF Crash, Lagging, OnTime, Fresh, Caught, RowFresh, Stamping
<1> QED BY <1>1, <1>2 DEF Fresh, Seen, Caught, OneFrame, EntrySeen, CallSeen, EntryFresh,
                          RowFresh, CallFresh

\* The hydration reads the row's lastSeen.
LEMMA FreshBoot ==
  ASSUME Fresh, TypeOK, DownIdle, Boot
  PROVE  Fresh'
<1>1. /\ UNCHANGED <<row, heard, frames>> /\ \A h \in Handlers : ~InFlight(h)' /\ ~Stamping(h)
      /\ taint \subseteq taint'
  BY DEF Boot, DownIdle, InFlight, Stamping, Awaiting, Idle
<1>2. entry' = NoEntry \/ entry'.age = row.seen
  BY DEF Boot, DownIdle, HydratedEntry
<1>3. OnTime' => row.seen < heard + Write
  BY <1>1 DEF OnTime, Fresh, Caught, RowFresh
<1>4. Seen'
  BY <1>1, <1>2, SeenType DEF Seen, OneFrame, EntrySeen, CallSeen
<1>5. Caught'
  BY <1>1, <1>2, <1>3 DEF Caught, EntryFresh, RowFresh, CallFresh
<1> QED BY <1>4, <1>5 DEF Fresh

\* What a tick changes of a handler in flight.
LEMMA FrameAged ==
  ASSUME TypeOK, NEW h \in Handlers, frames[h].phase # "idle"
  PROVE  LET aged == AgedFrame(frames[h]) IN
         /\ aged.phase = frames[h].phase /\ aged.update = frames[h].update
         /\ frames[h].age \in Ages /\ aged.age = Older(frames[h].age)
         /\ frames[h].entry.age \in Ages \cup {AtFinish}
         /\ aged.entry.lastStatus = frames[h].entry.lastStatus
         /\ aged.entry.age = IF frames[h].entry.age = AtFinish THEN AtFinish
                             ELSE Older(frames[h].entry.age)
<1>1. frames[h] \in FrameCalls
  BY FrameType
<1> DEFINE held == frames[h].entry
           aged == [held EXCEPT !.age = IF @ = AtFinish THEN @ ELSE Older(@)]
<1>2. /\ held.age \in Ages \cup {AtFinish}
      /\ aged.age = IF held.age = AtFinish THEN AtFinish ELSE Older(held.age)
      /\ aged.lastStatus = held.lastStatus
  BY <1>1 DEF FrameCalls
<1>3. AgedFrame(frames[h]) = [[frames[h] EXCEPT !.age = Older(@)] EXCEPT !.entry = aged]
  BY <1>1 DEF AgedFrame, FrameCalls
<1> HIDE DEF aged
<1> QED BY <1>1, <1>2, <1>3 DEF FrameCalls

LEMMA EntryAged ==
  ASSUME TypeOK, Tick, entry # NoEntry
  PROVE  /\ entry' # NoEntry /\ entry.age \in Ages /\ entry'.age = Older(entry.age)
         /\ entry'.lastStatus = entry.lastStatus
<1>1. entry \in Entries
  BY EntryType
<1>2. /\ entry' \in Entries /\ entry'.age = Older(entry.age)
      /\ entry'.lastStatus = entry.lastStatus
  BY <1>1, AgesType DEF Tick, Entries
<1> QED BY <1>1, <1>2, EntriesNotNoEntry DEF Entries

LEMMA FreshTick == ASSUME Fresh, TypeOK, Tick PROVE Fresh'
<1>1. /\ heard \in Ages /\ heard' = Older(heard) /\ UNCHANGED taint
      /\ row.seen \in Ages /\ row'.seen = Older(row.seen)
  BY DEF Tick, TypeOK, Rows
<1>2. entry # NoEntry =>
        /\ entry' # NoEntry /\ entry.age \in Ages /\ entry'.age = Older(entry.age)
        /\ entry'.lastStatus = entry.lastStatus
  BY EntryAged
<1>3. entry = NoEntry => entry' = NoEntry
  BY DEF Tick
<1>4. ASSUME NEW h \in Handlers
      PROVE  /\ frames'[h].phase = frames[h].phase
             /\ frames[h].phase # "idle" =>
                  /\ frames'[h].update = frames[h].update
                  /\ frames[h].age \in Ages /\ frames'[h].age = Older(frames[h].age)
                  /\ frames'[h].entry.lastStatus = frames[h].entry.lastStatus
                  /\ frames[h].entry.age \in Ages \cup {AtFinish}
                  /\ frames'[h].entry.age =
                       IF frames[h].entry.age = AtFinish THEN AtFinish
                       ELSE Older(frames[h].entry.age)
  <2>1. frames'[h] = AgedFrame(frames[h])
    BY DEF Tick
  <2>2. CASE frames[h].phase = "idle"
    BY <2>1, <2>2 DEF AgedFrame
  <2>3. CASE frames[h].phase # "idle"
    BY <2>1, <2>3, FrameAged
  <2> QED BY <2>2, <2>3
<1>5. \A h \in Handlers : (InFlight(h)' <=> InFlight(h)) /\ (InFlight(h) => frames[h].phase # "idle")
  BY <1>4 DEF InFlight, Awaiting
<1>6. \A h \in Handlers : Stamping(h)' <=> Stamping(h)
  BY <1>4 DEF Stamping
<1>7. ASSUME Timely, NEW h \in Handlers
      PROVE  CallSeen(h)'
  <2> DEFINE age == frames[h].entry.age
  <2> SUFFICES ASSUME InFlight(h)
               PROVE  /\ frames'[h].phase # "failed" /\ Storable(age', entry')
                      /\ StampInTime(h)' /\ RowCaughtUp(h)'
    BY <1>5 DEF CallSeen
  <2>1. /\ frames[h].phase # "failed" /\ Storable(age, entry)
        /\ StampInTime(h) /\ RowCaughtUp(h)
    BY <1>7 DEF Fresh, Seen, CallSeen
  <2>2. Storable(age', entry')
    <3>1. CASE age = AtFinish
      BY <1>3, <1>4, <1>5, <2>1, <3>1, AgesAreNat DEF Storable
    <3>2. CASE age # AtFinish
      <4>1. /\ age \in Ages /\ (entry # NoEntry => age <= entry.age) /\ age' = Older(age)
        BY <1>4, <1>5, <2>1, <3>2 DEF Storable
      <4> HIDE DEF age
      <4> QED BY <1>2, <1>3, <4>1, OlderOrder DEF Storable
    <3> QED BY <3>1, <3>2
  <2>3. StampInTime(h)'
    <3> SUFFICES ASSUME frames[h].update.lastSeen
                 PROVE  age' = frames'[h].age /\ frames'[h].age < heard' + Write
      BY <1>4, <1>5 DEF StampInTime
    <3>1. age = frames[h].age /\ frames[h].age < heard + Write
      BY <2>1 DEF StampInTime
    <3>2. /\ frames[h].age \in Ages /\ frames'[h].age = Older(frames[h].age)
          /\ age' = IF age = AtFinish THEN AtFinish ELSE Older(age)
      BY <1>4, <1>5
    <3>3. age # AtFinish
      BY <3>1, <3>2, AtFinishNoAge
    <3> HIDE DEF age
    <3> QED BY <1>1, <3>1, <3>2, <3>3, OlderOrder
  <2>4. RowCaughtUp(h)'
    <3> SUFFICES ASSUME age \in Nat, row.seen <= age
                 PROVE  age' \in Nat /\ row'.seen <= age'
      BY <1>4, <1>5, <2>1 DEF RowCaughtUp
    <3>1. age \in Ages /\ age' = Older(age)
      BY <1>4, <1>5, AgesAreNat
    <3> HIDE DEF age
    <3> QED BY <1>1, <3>1, OlderOrder
  <2> QED BY <1>4, <2>1, <2>2, <2>3, <2>4
<1>8. Timely => EntrySeen'
  BY <1>1, <1>2, <1>3, OlderOrder DEF Fresh, Seen, EntrySeen
<1>9. Seen'
  BY <1>1, <1>5, <1>7, <1>8 DEF Fresh, Seen, Timely, OneFrame
<1>10. ASSUME OnTime, NEW h \in Handlers
       PROVE  CallFresh(h)'
  <2> DEFINE age == frames[h].entry.age
  <2> SUFFICES ASSUME InFlight(h), age' # AtFinish
               PROVE  age' < heard' + Write
    BY <1>5 DEF CallFresh
  <2>1. age \in Ages /\ age' = Older(age) /\ age < heard + Write
    BY <1>4, <1>5, <1>10 DEF Fresh, Caught, CallFresh
  <2> HIDE DEF age
  <2> QED BY <1>1, <2>1, OlderOrder
<1>11. OnTime => EntryFresh' /\ RowFresh'
  BY <1>1, <1>2, <1>3, <1>5, <1>6, OlderOrder DEF Fresh, Caught, EntryFresh, RowFresh, QuietFrames
<1>12. Caught'
  BY <1>1, <1>10, <1>11 DEF Caught, OnTime
<1> QED BY <1>9, <1>12 DEF Fresh

LEMMA FreshStep == ASSUME Fresh, IInv, [Next]_vars PROVE Fresh'
<1> USE DEF IInv, TypeInv
<1>1. CASE UNCHANGED vars
  BY <1>1, FreshSame DEF vars, Timely, OnTime
<1>2. ASSUME NEW status \in Status, GatewayWrite(status)
      PROVE  Fresh'
  <2>1. row'.seen = 0 /\ UNCHANGED <<entry, frames, heard>> /\ taint \subseteq taint'
    BY <1>2 DEF GatewayWrite, TypeOK, Rows
  <2> QED BY <2>1, FreshSame DEF Timely, OnTime
<1>3. ASSUME NEW level \in Levels, GatewayBattery(level)
      PROVE  Fresh'
  <2>1. row'.seen = row.seen /\ UNCHANGED <<entry, frames, heard>> /\ taint \subseteq taint'
    BY <1>3 DEF GatewayBattery, TypeOK, Rows
  <2> QED BY <2>1, FreshSame DEF Timely, OnTime
<1> QED BY <1>1, <1>2, <1>3, FreshFrame, FreshReturns, FreshScan, FreshCrash, FreshBoot,
           FreshTick DEF Next

LEMMA FreshInit == Init => Fresh
<1> SUFFICES ASSUME Init PROVE Fresh
  OBVIOUS
<1>1. /\ entry = NoEntry /\ row.seen = Cap /\ heard = Cap
      /\ \A h \in Handlers : ~InFlight(h)
  BY DEF Init, InFlight, Awaiting, Idle
<1>2. Cap < Cap + Write
  BY TimesAssumption DEF Cap
<1> QED BY <1>1, <1>2 DEF Fresh, Seen, Caught, OneFrame, EntrySeen, CallSeen, EntryFresh,
                          RowFresh, CallFresh

\* An alone scan that finds a stale entry: nobody was heard of late.
LEMMA DemotesTheSilent ==
  ASSUME Fresh, TypeOK, NEW s \in Scans, ScanDemote(s), OnTime'
  PROVE  heard > Stale - Write
<1>1. OnTime /\ ~Busy /\ IsStale(s) /\ entry # NoEntry
  BY DEF ScanDemote, OverlapTaint, OnTime, IsStale
<1>2. entry.age < heard + Write /\ entry.age \in Nat
  BY <1>1, EntryStorable
<1>3. scans[s].age \in Nat /\ heard \in Nat
  BY ScanType, AgesAreNat DEF ScanDemote, ScanCalls, TypeOK
<1> QED BY <1>1, <1>2, <1>3, TimesAssumption DEF IsStale

\* NoEarlyDemotion: the scan demotes only a robot that no process had heard for
\* longer than the stale window less the write throttle.  A process whose
\* UPDATEs overlapped or failed is excused, and one that starts behind, because
\* the last frame before the restart was not recorded, until it has recorded a
\* frame of its own.
THEOREM NobodyDemotedEarly == Spec => NoEarlyDemotion
<1>1. Fresh /\ IInv /\ [Next]_vars =>
        [\A s \in Scans : ScanDemote(s) /\ OnTime' => heard > Stale - Write]_vars
  BY DemotesTheSilent DEF IInv, TypeInv
<1>2. Fresh /\ IInv /\ [Next]_vars => Fresh'
  BY FreshStep
<1> QED BY <1>1, <1>2, FreshInit, Invariance, PTL DEF Spec, NoEarlyDemotion

-----------------------------------------------------------------------------
(* The refinement of PresencePromise.  What a writer of the row saw when it *)
(* issued its UPDATE still holds when the database executes it.             *)

\* An UPDATE that sets ONLINE follows its frame within Latency.
LifeRecorded ==
  \A h \in Handlers : frames[h].phase = "pending" =>
    /\ frames[h].age <= Latency
    /\ frames[h].update.status = "ONLINE" => heard <= frames[h].age

\* An UPDATE of the scan is in flight alone, and the silence goes on.
DemotionDue ==
  \A s \in Scans : scans[s].phase = "pending" =>
    /\ Timely => entry # NoEntry /\ entry.age >= Stale /\ QuietFrames
    /\ OnTime => heard > Stale - Write

PromiseInv == LifeRecorded /\ DemotionDue

\* A handler that begins: its UPDATE sets ONLINE only for a proof of life.
LEMMA LifeIssued ==
  ASSUME LifeRecorded, TypeOK, NEW h \in Handlers, NEW kind, NEW update, NEW next, NEW announce,
         Issue(h, kind, update, next, announce),
         heard' \in {0, heard}, update.status = "ONLINE" => heard' = 0
  PROVE  LifeRecorded'
<1>1. /\ frames'[h].age = 0 /\ frames'[h].update = update
      /\ \A g \in Handlers \ {h} : frames'[g] = frames[g]
  BY DEF Issue, TypeOK
<1>2. heard \in Nat /\ \A g \in Handlers : frames[g].phase = "pending" => frames[g].age \in Nat
  BY FrameType, AgesAreNat DEF TypeOK, FrameCalls
<1>3. Latency \in Nat
  BY TimesAssumption
<1> SUFFICES ASSUME NEW g \in Handlers, frames'[g].phase = "pending"
             PROVE  /\ frames'[g].age <= Latency
                    /\ frames'[g].update.status = "ONLINE" => heard' <= frames'[g].age
  BY DEF LifeRecorded
<1>4. CASE g = h
  BY <1>1, <1>3, <1>4
<1>5. CASE g # h
  BY <1>1, <1>2, <1>5 DEF LifeRecorded
<1> QED BY <1>4, <1>5

\* No handler begins beside the scan's UPDATE unless it disturbs it.
LEMMA DemotionAlone ==
  ASSUME DemotionDue, UNCHANGED <<entry, scans>>,
         NEW h \in Handlers, NEW kind, NEW update, NEW next, NEW announce,
         Issue(h, kind, update, next, announce)
  PROVE  DemotionDue'
<1>1. Timely' => Timely /\ ~Busy
  BY DEF Timely, Issue, OverlapTaint
<1>2. Timely' => \A s \in Scans : scans'[s].phase # "pending"
  BY <1>1 DEF Busy, Awaiting
<1>3. OnTime' => Timely'
  BY DEF OnTime, Timely
<1> QED BY <1>2, <1>3 DEF DemotionDue

\* A frame that needs no UPDATE finds the entry fresh, so no scan's is in flight.
LEMMA HeardInTime ==
  ASSUME PromiseInv, TypeOK, UNCHANGED <<frames, scans, taint, entry>>,
         heard' = heard \/ (heard' = 0 /\ ~HeartbeatStale)
  PROVE  PromiseInv'
<1>1. LifeRecorded'
  <2>1. \A h \in Handlers : frames[h].phase = "pending" => frames[h].age \in Nat
    BY FrameType, AgesAreNat DEF FrameCalls
  <2> QED BY <2>1 DEF PromiseInv, LifeRecorded
<1>2. DemotionDue'
  <2>1. CASE heard' = heard
    BY <2>1 DEF PromiseInv, DemotionDue, Timely, OnTime, QuietFrames, InFlight
  <2>2. CASE heard' = 0 /\ ~HeartbeatStale
    <3>1. entry # NoEntry => entry.age \in Nat
      BY EntryAgeType
    <3>2. entry # NoEntry /\ ~(entry.age >= Stale)
      BY <2>2, <3>1, TimesAssumption DEF HeartbeatStale
    <3> QED BY <3>2, OnTimeTimely DEF PromiseInv, DemotionDue, Timely, OnTime, QuietFrames, InFlight
  <2> QED BY <2>1, <2>2
<1> QED BY <1>1, <1>2 DEF PromiseInv

LEMMA FrameKeepsPromise ==
  ASSUME PromiseInv, TypeOK, NEW h \in Handlers, FrameArrives(h)
  PROVE  PromiseInv'
<1> USE DEF PromiseInv
<1>1. ASSUME NEW status \in Status, Heartbeat(h, status)
      PROVE  PromiseInv'
  <2>1. heard' \in {0, heard} /\ UNCHANGED <<entry, scans>>
    BY <1>1 DEF Heartbeat
  <2>2. CASE Differs(status) \/ HeartbeatStale
    <3> DEFINE next == [lastStatus |-> status, age |-> 0, battery |-> CachedLevel]
    <3>1. Issue(h, "heartbeat", HeartbeatUpdate(status), next, Announcement(status))
      BY <1>1, <2>2 DEF Heartbeat
    <3>2. HeartbeatUpdate(status).status = "ONLINE" => heard' = 0
      BY <1>1 DEF HeartbeatUpdate, Heartbeat
    <3> HIDE DEF next
    <3>3. LifeRecorded'
      BY <2>1, <3>1, <3>2, LifeIssued
    <3>4. DemotionDue'
      BY <2>1, <3>1, DemotionAlone
    <3> QED BY <3>3, <3>4
  <2>3. CASE ~(Differs(status) \/ HeartbeatStale)
    BY <1>1, <2>3, HeardInTime DEF Heartbeat
  <2> QED BY <2>2, <2>3
<1>2. ASSUME NEW level \in Levels \cup {NoLevel}, StatusFrame(h, level)
      PROVE  PromiseInv'
  <2> DEFINE changed == Differs("ONLINE")
             refresh == changed \/ HeartbeatStale
             battery == level # NoLevel /\ level # CachedLevel
             update == [status |-> IF changed THEN "ONLINE" ELSE Keep, lastSeen |-> refresh,
                        battery |-> IF battery THEN level ELSE Keep]
             next == [lastStatus |-> "ONLINE", age |-> IF refresh THEN 0 ELSE entry.age,
                      battery |-> IF battery THEN level ELSE CachedLevel]
  <2>1. heard' = 0 /\ UNCHANGED <<entry, scans>>
    BY <1>2 DEF StatusFrame
  <2>2. CASE refresh \/ battery
    <3>1. Issue(h, "status", update, next, Announcement("ONLINE"))
      BY <1>2, <2>2 DEF StatusFrame
    <3> HIDE DEF next, update
    <3>2. LifeRecorded'
      BY <2>1, <3>1, LifeIssued
    <3>3. DemotionDue'
      BY <2>1, <3>1, DemotionAlone
    <3> QED BY <3>2, <3>3
  <2>3. CASE ~(refresh \/ battery)
    BY <1>2, <2>1, <2>3, HeardInTime DEF StatusFrame
  <2> QED BY <2>2, <2>3
<1>3. ASSUME NEW level \in Levels, BatteryFrame(h, level)
      PROVE  PromiseInv'
  <2> DEFINE update == [status |-> Keep, lastSeen |-> FALSE, battery |-> level]
             next == [lastStatus |-> IF entry = NoEntry THEN "OFFLINE" ELSE entry.lastStatus,
                      age |-> IF entry = NoEntry THEN AtFinish ELSE entry.age,
                      battery |-> level]
  <2>1. UNCHANGED <<entry, scans, heard>> /\ Issue(h, "battery", update, next, Keep)
    BY <1>3 DEF BatteryFrame
  <2>2. update.status # "ONLINE"
    BY ValuesAssumption DEF Status
  <2> HIDE DEF next, update
  <2>3. LifeRecorded'
    BY <2>1, <2>2, LifeIssued
  <2>4. DemotionDue'
    BY <2>1, DemotionAlone
  <2> QED BY <2>3, <2>4
<1> QED BY <1>1, <1>2, <1>3 DEF FrameArrives, OnlineHeartbeat, OfflineHeartbeat, Status

LEMMA ReturnsKeepPromise ==
  ASSUME PromiseInv, TypeOK, NEW h \in Handlers, HandlerReturns(h) \/ FailFrame(h)
  PROVE  PromiseInv'
<1>1. /\ UNCHANGED heard /\ (Timely' => Timely) /\ InFlight(h)
      /\ frames' = [frames EXCEPT ![h] = Idle]
         \/ \E phase \in {"committed", "failed"} : frames' = [frames EXCEPT ![h].phase = phase]
  BY DEF HandlerReturns, CommitFrame, FinishFrame, AbandonFrame, FailFrame, InFlight, Awaiting,
         Timely
<1>2. \A g \in Handlers : frames'[g].phase = "pending" => frames'[g] = frames[g]
  BY <1>1, FrameType DEF TypeOK, Idle, InFlight, Awaiting, FrameCalls
<1>3. LifeRecorded'
  BY <1>1, <1>2 DEF PromiseInv, LifeRecorded
<1>4. UNCHANGED scans \/ FinishFrame(h)
  BY DEF HandlerReturns, CommitFrame, AbandonFrame, FailFrame
<1>5. \A s \in Scans : scans'[s].phase = "pending" => scans[s].phase = "pending"
  BY <1>4, ScanType DEF FinishFrame, TypeOK, ScanCalls, Awaiting
<1>6. Timely' => \A s \in Scans : scans'[s].phase # "pending"
  BY <1>1, <1>5 DEF PromiseInv, DemotionDue, QuietFrames
<1>7. DemotionDue'
  BY <1>6 DEF DemotionDue, OnTime, Timely
<1> QED BY <1>3, <1>7 DEF PromiseInv

LEMMA ScanKeepsPromise ==
  ASSUME PromiseInv, Fresh, TypeInv, NEW s \in Scans,
         ScanStart(s) \/ ScanReturns(s) \/ FailScan(s)
  PROVE  PromiseInv'
<1>1. UNCHANGED <<frames, heard>> /\ taint \subseteq taint'
  BY DEF ScanStart, ScanReturns, ScanPass, ScanDemote, OverlapTaint, CommitScan, FinishScan,
         FailScan
<1>2. LifeRecorded'
  BY <1>1 DEF PromiseInv, LifeRecorded
<1>3. entry # NoEntry => entry' # NoEntry /\ entry'.age = entry.age
  BY ScanKeepsAge
<1>4. CASE ScanDemote(s)
  <2>1. Timely' => ~Busy /\ IsStale(s)
    BY <1>4 DEF ScanDemote, OverlapTaint, Timely
  <2>2. OnTime' => heard' > Stale - Write
    BY <1>1, <1>4, DemotesTheSilent DEF TypeInv
  <2>3. IsStale(s) => entry # NoEntry /\ entry.age >= Stale
    <3>1. scans[s].age \in Nat /\ (entry # NoEntry => entry.age \in Nat)
      BY <1>4, ScanType, EntryAgeType, AgesAreNat DEF ScanDemote, ScanCalls, TypeInv
    <3> QED BY <3>1, TimesAssumption DEF IsStale
  <2>4. Timely' => entry' # NoEntry /\ entry'.age >= Stale /\ QuietFrames'
    BY <1>1, <1>3, <2>1, <2>3 DEF Busy, QuietFrames, InFlight
  <2> QED BY <1>2, <2>2, <2>4 DEF PromiseInv, DemotionDue
<1>5. CASE ~ScanDemote(s)
  <2>1. \A r \in Scans : scans'[r].phase = "pending" => scans[r].phase = "pending"
    BY <1>5 DEF ScanStart, ScanReturns, ScanPass, CommitScan, FinishScan, FailScan, TypeInv,
                TypeOK, Idle
  <2> QED BY <1>1, <1>2, <1>3, <2>1
      DEF PromiseInv, DemotionDue, Timely, OnTime, QuietFrames, InFlight
<1> QED BY <1>4, <1>5

LEMMA TickKeepsPromise ==
  ASSUME PromiseInv, TypeOK, Tick
  PROVE  PromiseInv'
<1>1. heard \in Ages /\ heard' = Older(heard) /\ UNCHANGED taint
  BY DEF Tick, TypeOK
<1>2. ASSUME NEW h \in Handlers
      PROVE  /\ frames'[h].phase = frames[h].phase
             /\ frames[h].phase = "pending" =>
                  /\ frames'[h].update = frames[h].update
                  /\ frames[h].age \in Ages /\ frames'[h].age = Older(frames[h].age)
                  /\ frames[h].age < Latency
  <2>1. frames'[h] = AgedFrame(frames[h])
    BY DEF Tick
  <2>2. CASE frames[h].phase = "idle"
    BY <2>1, <2>2 DEF AgedFrame
  <2>3. CASE frames[h].phase # "idle"
    BY <2>1, <2>3, FrameAged DEF Tick
  <2> QED BY <2>2, <2>3
<1>3. \A a \in Ages : a < Latency => Older(a) <= Latency
  BY TimesAssumption DEF Ages, Cap, Older
<1>4. LifeRecorded'
  BY <1>1, <1>2, <1>3, OlderOrder DEF PromiseInv, LifeRecorded
<1>5. \A a \in Ages : Older(a) >= a /\ Older(a) \in Nat /\ a \in Nat
  BY TimesAssumption DEF Ages, Cap, Older
<1>6. \A s \in Scans : scans'[s].phase = scans[s].phase
  BY ScanType DEF Tick, AgedScan, ScanCalls
<1>7. entry # NoEntry =>
        entry' # NoEntry /\ entry.age \in Ages /\ entry'.age = Older(entry.age)
  BY EntryAged
<1>8. DemotionDue'
  <2> SUFFICES ASSUME NEW s \in Scans, scans[s].phase = "pending"
               PROVE  /\ Timely => entry' # NoEntry /\ entry'.age >= Stale /\ QuietFrames'
                      /\ OnTime => heard' > Stale - Write
    BY <1>1, <1>6 DEF DemotionDue, Timely, OnTime
  <2>1. /\ Timely => entry # NoEntry /\ entry.age >= Stale /\ QuietFrames
        /\ OnTime => heard > Stale - Write
    BY DEF PromiseInv, DemotionDue
  <2>2. Timely => entry' # NoEntry /\ entry'.age >= Stale
    BY <1>5, <1>7, <2>1, TimesAssumption
  <2>3. Timely => QuietFrames'
    BY <1>2, <2>1 DEF QuietFrames, InFlight
  <2>4. OnTime => heard' > Stale - Write
    BY <1>1, <1>5, <2>1, TimesAssumption
  <2> QED BY <2>2, <2>3, <2>4
<1> QED BY <1>4, <1>8 DEF PromiseInv

LEMMA PromiseStep ==
  ASSUME PromiseInv, Fresh, IInv, [Next]_vars
  PROVE  PromiseInv'
<1> USE DEF IInv, TypeInv
<1>1. ASSUME UNCHANGED <<entry, frames, scans, heard>>, Timely' => Timely, OnTime' => OnTime
      PROVE  PromiseInv'
  BY <1>1 DEF PromiseInv, LifeRecorded, DemotionDue, QuietFrames, InFlight
<1>2. ASSUME \/ \E status \in Status : GatewayWrite(status)
             \/ \E level \in Levels : GatewayBattery(level)
             \/ UNCHANGED vars
      PROVE  PromiseInv'
  <2>1. UNCHANGED <<entry, frames, scans, heard>> /\ taint \subseteq taint'
    BY <1>2 DEF GatewayWrite, GatewayBattery, vars
  <2> QED BY <1>1, <2>1 DEF Timely, OnTime
<1>3. CASE Crash \/ Boot
  <2>1. /\ \A h \in Handlers : frames'[h].phase # "pending"
        /\ \A s \in Scans : scans'[s].phase # "pending"
    BY <1>3 DEF Crash, Boot, DownIdle, Idle
  <2> QED BY <2>1 DEF PromiseInv, LifeRecorded, DemotionDue
<1> QED BY <1>2, <1>3, FrameKeepsPromise, ReturnsKeepPromise, ScanKeepsPromise,
           TickKeepsPromise DEF Next

LEMMA PromiseInit == Init => PromiseInv
BY DEF Init, PromiseInv, LifeRecorded, DemotionDue, Idle

-----------------------------------------------------------------------------
\* The flags of the promise are truth values.
LEMMA Flags ==
  /\ Parting \in BOOLEAN /\ Parting' \in BOOLEAN
  /\ Excused \in BOOLEAN /\ Excused' \in BOOLEAN
BY DEF Parting, Excused

\* The promise sees the UPDATEs in flight that set OFFLINE, and the excuses.
LEMMA MorePending ==
  ASSUME \A h \in Handlers : frames[h].phase = "pending" => frames'[h] = frames[h]
  PROVE  Parting' \in {Parting, TRUE}
<1>1. Parting => Parting'
  BY DEF Parting
<1> QED BY <1>1, Flags

LEMMA FewerPending ==
  ASSUME \A h \in Handlers : frames'[h].phase = "pending" => frames'[h] = frames[h]
  PROVE  Parting' \in {Parting, FALSE}
<1>1. Parting' => Parting
  BY DEF Parting
<1> QED BY <1>1, Flags

LEMMA MoreExcused == ASSUME taint \subseteq taint' PROVE Excused' \in {Excused, TRUE}
<1>1. Excused => Excused'
  BY DEF Excused, OnTime
<1> QED BY <1>1, Flags

\* A frame is the robot speaking.
LEMMA FrameSpeaks ==
  ASSUME TypeOK, NEW h \in Handlers, FrameArrives(h)
  PROVE  Promise!Speak
<1>1. /\ heard' \in {0, heard} /\ UNCHANGED <<row, author>> /\ frames[h] = Idle
      /\ UNCHANGED <<frames, taint>>
         \/ /\ \E call : frames' = [frames EXCEPT ![h] = call]
            /\ taint' = OverlapTaint
  BY DEF FrameArrives, OnlineHeartbeat, OfflineHeartbeat, Heartbeat, StatusFrame, BatteryFrame,
         Issue
<1>2. taint \subseteq taint'
  BY <1>1 DEF OverlapTaint
<1>3. \A g \in Handlers : frames[g].phase = "pending" => frames'[g] = frames[g]
  BY <1>1 DEF TypeOK, Idle
<1> QED BY <1>1, <1>2, <1>3, MorePending, MoreExcused DEF Promise!Speak

\* An UPDATE of a handler turns the row's status to what the robot said of late.
LEMMA CommitTurns ==
  ASSUME PromiseInv, TypeOK, NEW h \in Handlers, CommitFrame(h)
  PROVE  [Promise!Next]_(Promise!vars)
<1> DEFINE status == frames[h].update.status
<1>1. /\ frames[h] \in FrameCalls /\ frames[h].phase = "pending"
      /\ frames' = [frames EXCEPT ![h].phase = "committed"]
      /\ row'.status = Overwrite(status, row.status)
      /\ author' = IF status = Keep THEN author ELSE "ingest"
      /\ UNCHANGED <<heard, taint>>
  BY FrameType DEF CommitFrame
<1>2. status \in Status \cup {Keep} /\ frames[h].age \in Nat
  BY <1>1, AgesAreNat DEF FrameCalls, Updates
<1>3. /\ frames'[h].phase = "committed"
      /\ \A g \in Handlers \ {h} : frames'[g] = frames[g]
  BY <1>1 DEF TypeOK, FrameCalls
<1>4. UNCHANGED Excused
  BY <1>1 DEF Excused, OnTime
<1>5. CASE status = "OFFLINE"
  <2>1. Parting
    BY <1>1, <1>5 DEF Parting
  <2>2. row'.status = "OFFLINE" /\ author' = "ingest"
    BY <1>1, <1>5, OverwriteFacts, ValuesAssumption DEF Status
  <2>3. Parting' \in {Parting, FALSE}
    BY <1>3, FewerPending
  <2> QED BY <1>1, <1>4, <2>1, <2>2, <2>3 DEF Promise!Next, Promise!TurnOffline
<1>6. CASE status # "OFFLINE"
  <2>1. Parting' <=> Parting
    BY <1>1, <1>3, <1>6 DEF Parting
  <2>2. UNCHANGED Parting
    BY <2>1, Flags
  <2>3. CASE status = "ONLINE"
    <3>1. heard <= Latency
      BY <1>1, <1>2, <2>3, AgesAreNat, TimesAssumption DEF PromiseInv, LifeRecorded, TypeOK
    <3>2. row'.status = "ONLINE" /\ author' = "ingest"
      BY <1>1, <2>3, OverwriteFacts, ValuesAssumption DEF Status
    <3> QED BY <1>1, <1>4, <2>2, <3>1, <3>2 DEF Promise!Next, Promise!TurnOnline
  <2>4. CASE status = Keep
    <3>1. row'.status = row.status /\ UNCHANGED author
      BY <1>1, <2>4, OverwriteFacts
    <3> QED BY <1>1, <1>4, <2>2, <3>1 DEF Promise!vars
  <2> QED BY <1>2, <1>6, <2>3, <2>4 DEF Status
<1> QED BY <1>5, <1>6

\* An UPDATE that fails takes its OFFLINE with it, and excuses the rest.
LEMMA FailureExcuses ==
  ASSUME TypeOK,
         (\E h \in Handlers : FailFrame(h)) \/ (\E s \in Scans : FailScan(s))
  PROVE  Promise!Excuse
<1>1. UNCHANGED <<row, heard, author>> /\ taint' = taint \cup {"calls"}
  BY DEF FailFrame, FailScan
<1>2. Excused' = TRUE
  <2>1. Excused'
    BY <1>1 DEF Excused, OnTime
  <2> QED BY <2>1, Flags
<1>3. \A g \in Handlers : frames'[g].phase = "pending" => frames'[g] = frames[g]
  <2>1. CASE UNCHANGED frames
    BY <2>1
  <2>2. ASSUME NEW h \in Handlers, frames[h].phase = "pending",
               frames' = [frames EXCEPT ![h].phase = "failed"]
        PROVE  frames'[h].phase # "pending" /\ \A g \in Handlers \ {h} : frames'[g] = frames[g]
    BY <2>2, FrameType DEF TypeOK, FrameCalls
  <2> QED BY <2>1, <2>2 DEF FailFrame, FailScan
<1> QED BY <1>1, <1>2, <1>3, FewerPending DEF Promise!Excuse

\* The code after an await touches neither the row nor an UPDATE in flight; a
\* lastSeen recorded after a restart ends the excuse.
LEMMA ReturnRecovers ==
  ASSUME TypeOK, NEW h \in Handlers, FinishFrame(h) \/ AbandonFrame(h)
  PROVE  [Promise!Recover]_(Promise!vars)
<1>1. /\ UNCHANGED <<row, heard, author>> /\ frames[h].phase # "pending"
      /\ frames' = [frames EXCEPT ![h] = Idle] /\ taint' \subseteq taint
  BY DEF FinishFrame, AbandonFrame
<1>2. Parting' <=> Parting
  BY <1>1 DEF Parting, TypeOK, Idle
<1>3. UNCHANGED Parting
  BY <1>2, Flags
<1>4. Excused' => Excused
  BY <1>1 DEF Excused, OnTime
<1>5. Excused' = FALSE \/ UNCHANGED Excused
  BY <1>4, Flags
<1> QED BY <1>1, <1>3, <1>5 DEF Promise!vars, Promise!Recover

\* The scan's UPDATE finds the robot still silent, or has an excuse.
LEMMA ScanTurns ==
  ASSUME PromiseInv, TypeOK, NEW s \in Scans, ScanStart(s) \/ ScanReturns(s)
  PROVE  [Promise!Next]_(Promise!vars)
<1>1. UNCHANGED <<heard, frames>> /\ taint \subseteq taint'
  BY DEF ScanStart, ScanReturns, ScanPass, ScanDemote, CommitScan, FinishScan, OverlapTaint
<1>2. UNCHANGED Parting
  BY <1>1 DEF Parting
<1>3. CASE ScanDemote(s)
  <2>1. UNCHANGED <<row, author>>
    BY <1>3 DEF ScanDemote
  <2> QED BY <1>1, <1>2, <2>1, MoreExcused DEF Promise!Next, Promise!Speak
<1>4. CASE CommitScan(s)
  <2>1. /\ row'.status = "OFFLINE" /\ author' = "ingest"
        /\ UNCHANGED taint /\ scans[s].phase = "pending"
    BY <1>4 DEF CommitScan, TypeOK, Rows
  <2>2. UNCHANGED Excused
    BY <2>1 DEF Excused, OnTime
  <2>3. heard > Stale - Write \/ Excused
    BY <2>1 DEF PromiseInv, DemotionDue, Excused
  <2> QED BY <1>1, <1>2, <2>1, <2>2, <2>3 DEF Promise!Next, Promise!TurnOffline
<1>5. CASE ScanStart(s) \/ ScanPass(s) \/ FinishScan(s)
  <2>1. UNCHANGED <<row, author, taint>>
    BY <1>5 DEF ScanStart, ScanPass, FinishScan
  <2> QED BY <1>1, <1>2, <2>1 DEF Promise!vars, Excused, OnTime
<1> QED BY <1>3, <1>4, <1>5 DEF ScanReturns

\* The gateway, a crash, a boot and the time.
LEMMA WorldSteps ==
  ASSUME PromiseInv, Fresh, IInv, TypeOK',
         \/ \E status \in Status : GatewayWrite(status)
         \/ \E level \in Levels : GatewayBattery(level)
         \/ Crash \/ Boot \/ Tick
  PROVE  [Promise!Next]_(Promise!vars)
<1>1. ASSUME NEW status \in Status, GatewayWrite(status)
      PROVE  Promise!GatewayWrites
  <2>1. /\ row' = [row EXCEPT !.status = status, !.seen = 0] /\ author' = "gateway"
        /\ UNCHANGED <<heard, frames>> /\ taint' = taint \cup {"bypass"}
    BY <1>1 DEF GatewayWrite
  <2>2. row'.status \in {"ONLINE", "OFFLINE"}
    BY <2>1 DEF IInv, TypeInv, TypeOK, Rows, Status
  <2>3. Excused' <=> Excused
    BY <2>1 DEF Excused, OnTime
  <2>4. UNCHANGED <<Parting, Excused>>
    BY <2>1, <2>3, Flags DEF Parting
  <2> QED BY <2>1, <2>2, <2>4 DEF Promise!GatewayWrites
<1>2. CASE Crash
  <2>1. ~Parting' /\ (Excused => Excused')
    BY <1>2 DEF Crash, Parting, Excused, OnTime, Lagging, Idle
  <2>2. Parting' = FALSE /\ Excused' \in {Excused, TRUE}
    BY <2>1, Flags
  <2> QED BY <1>2, <2>2 DEF Crash, Promise!Next, Promise!Restart
<1>3. CASE Boot
  <2>1. Excused' <=> Excused
    BY <1>3 DEF Boot, Excused, OnTime
  <2>2. UNCHANGED <<Parting, Excused>>
    BY <1>3, <2>1, Flags DEF Boot, Parting
  <2> QED BY <1>3, <2>2 DEF Boot, Promise!vars
<1>4. CASE Tick
  <2>1. \A h \in Handlers : /\ frames'[h].phase = frames[h].phase
                            /\ frames[h].phase = "pending" =>
                                 frames'[h].update = frames[h].update
    <3> SUFFICES ASSUME NEW h \in Handlers
                 PROVE  /\ frames'[h].phase = frames[h].phase
                        /\ frames[h].phase = "pending" => frames'[h].update = frames[h].update
      OBVIOUS
    <3>1. frames'[h] = AgedFrame(frames[h])
      BY <1>4 DEF Tick
    <3>2. CASE frames[h].phase = "idle"
      BY <3>1, <3>2 DEF AgedFrame
    <3>3. CASE frames[h].phase # "idle"
      BY <3>1, <3>3, FrameAged DEF IInv, TypeInv
    <3> QED BY <3>2, <3>3
  <2>2. Parting' <=> Parting
    BY <2>1 DEF Parting
  <2>3. UNCHANGED <<Parting, Excused>>
    BY <1>4, <2>2, Flags DEF Tick, Excused, OnTime
  <2>4. heard' = Older(heard) /\ row'.status = row.status /\ UNCHANGED author
    BY <1>4 DEF Tick, IInv, TypeInv, TypeOK, Rows
  <2> QED BY <2>3, <2>4 DEF Older, Promise!Next, Promise!TimePasses
<1>5. ASSUME NEW level \in Levels, GatewayBattery(level)
      PROVE  UNCHANGED Promise!vars
  <2>1. row'.status = row.status /\ UNCHANGED <<heard, frames, author>>
    BY <1>5 DEF GatewayBattery, IInv, TypeInv, TypeOK, Rows
  <2>2. Excused' <=> Excused
    BY <1>5 DEF GatewayBattery, Excused, OnTime
  <2>3. UNCHANGED <<Parting, Excused>>
    BY <2>1, <2>2, Flags DEF Parting
  <2> QED BY <2>1, <2>3 DEF Promise!vars
<1> QED BY <1>1, <1>2, <1>3, <1>4, <1>5 DEF Promise!Next

\* The handlers, the scan and the gateway together keep the promise: whatever
\* is in flight, the row turns ONLINE only just after a proof of life, and
\* OFFLINE only for a last will or a silence, unless UPDATEs overlap or fail,
\* or were lost in a restart that no recorded frame has followed yet.
THEOREM PromiseKept == Spec => ImplementsPromise
<1>1. Init => Promise!Init
  <2> SUFFICES ASSUME Init PROVE Promise!Init
    OBVIOUS
  <2>1. ~Parting /\ ~Excused
    BY DEF Init, Parting, Excused, OnTime, Idle
  <2>2. Parting = FALSE /\ Excused = FALSE
    BY <2>1, Flags
  <2> QED BY <2>2 DEF Init, Promise!Init, Rows, Status
<1>2. PromiseInv /\ Fresh /\ IInv /\ TypeOK' /\ [Next]_vars => [Promise!Next]_(Promise!vars)
  <2> SUFFICES ASSUME PromiseInv, Fresh, IInv, TypeOK', [Next]_vars
               PROVE  [Promise!Next]_(Promise!vars)
    OBVIOUS
  <2>1. CASE UNCHANGED vars
    BY <2>1 DEF vars, Promise!vars, Parting, Excused, OnTime
  <2>2. CASE Next
    <3>1. ASSUME NEW h \in Handlers, FrameArrives(h) \/ HandlerReturns(h)
          PROVE  [Promise!Next]_(Promise!vars)
      BY <3>1, FrameSpeaks, CommitTurns, ReturnRecovers
      DEF IInv, TypeInv, HandlerReturns, Promise!Next
    <3>2. ASSUME NEW h \in Handlers, FailFrame(h) PROVE Promise!Next
      BY <3>2, FailureExcuses DEF IInv, TypeInv, Promise!Next
    <3>3. ASSUME NEW s \in Scans, FailScan(s) PROVE Promise!Next
      BY <3>3, FailureExcuses DEF IInv, TypeInv, Promise!Next
    <3>4. ASSUME NEW s \in Scans, ScanStart(s) \/ ScanReturns(s)
          PROVE  [Promise!Next]_(Promise!vars)
      BY <3>4, ScanTurns DEF IInv, TypeInv
    <3> QED BY <2>2, <3>1, <3>2, <3>3, <3>4, WorldSteps DEF Next
  <2> QED BY <2>1, <2>2
<1>3. PromiseInv /\ Fresh /\ IInv /\ [Next]_vars => PromiseInv'
  BY PromiseStep
<1>4. Fresh /\ IInv /\ [Next]_vars => Fresh'
  BY FreshStep
<1>5. IInv => TypeOK
  BY DEF IInv, TypeInv
<1> QED BY <1>1, <1>2, <1>3, <1>4, <1>5, FreshInit, PromiseInit, Invariance, PTL
        DEF Spec, ImplementsPromise, Promise!Spec
=============================================================================
