------------------------------ MODULE Presence ------------------------------
(***************************************************************************)
(* Online/offline tracking of one robot in mqtt-ingest.service.ts.         *)
(*                                                                         *)
(* The row robots.{status, lastSeen, batteryLevel} is written by the MQTT  *)
(* frame handlers, by the stale-robot scan and by the Socket.IO gateway.   *)
(* The first two decide what to write from an in-memory entry              *)
(* (robotState.get(id)), await the UPDATE, and only then change the entry, *)
(* so several of them are in flight at a time.  `await` splits each one in *)
(* three: begin (read the entry, issue the UPDATE), commit or fail (in the *)
(* database), finish (the code after the await).                           *)
(*                                                                         *)
(* Robots share nothing but the scan's loop, so the module follows one of  *)
(* them; the awaits on the others are the gap between ScanStart (the       *)
(* Date.now() of the scan) and the step that reaches this robot.           *)
(*                                                                         *)
(* Times are kept as ages in ticks, saturating at Cap, so that the clock   *)
(* never has to stop: an age in this module is now - t for a stored t.     *)
(***************************************************************************)
EXTENDS Integers, FiniteSets

CONSTANTS
  Handlers,   \* slots for the handler invocations in flight (bound)
  Scans,      \* slots for the scans in flight (bound)
  Levels,     \* battery readings; two different ones differ by >= 1 percent
  Write,      \* HEARTBEAT_DB_WRITE_MS, in ticks
  Stale,      \* STALE_OFFLINE_MS, in ticks
  Latency,    \* longest time an UPDATE is in flight, in ticks (bound)
  Frames,     \* kinds of frame the robot sends
  Faults,     \* disturbances that may happen
  NoLevel,    \* batteryLevel: null
  Keep,       \* a column the UPDATE leaves alone
  AtFinish    \* a Date.now() evaluated after the await

FrameKinds == {"online", "offline", "status", "battery"}
FaultKinds == {"overlap", "dbFail", "gateway", "hydrate", "restart"}
Status == {"ONLINE", "OFFLINE"}
Authors == {"ingest", "gateway"}

\* What a fault may upset: UPDATEs of this process overlapped or failed; the
\* row does not hold the last frame of the process before; the entry was not
\* told what the row holds; the process died.
TaintKinds == {"calls", "behind", "bypass", "restart"}

ASSUME TimesAssumption ==
  /\ Write \in Nat /\ Stale \in Nat /\ Latency \in Nat
  /\ 0 < Write /\ Write < Stale
ASSUME KindsAssumption == Frames \subseteq FrameKinds /\ Faults \subseteq FaultKinds
ASSUME ValuesAssumption ==
  /\ NoLevel \notin Levels
  /\ Keep \notin Levels \cup {NoLevel} \cup Status
  /\ AtFinish \notin Int

Cap == Stale + Latency
Ages == 0..Cap
Older(a) == IF a < Cap THEN a + 1 ELSE Cap

\* RobotIngestState; its userId only names the audience and is left out.
Entries == [lastStatus : Status, age : Ages, battery : Levels \cup {NoLevel}]
NoEntry == [lastStatus |-> "none"]

Rows == [status : Status, seen : Ages, battery : Levels \cup {NoLevel}]

\* A robot.update({data}): the columns it sets.
Updates == [status : Status \cup {Keep}, lastSeen : BOOLEAN, battery : Levels \cup {Keep}]

\* A handler waiting on its UPDATE: the age of its `now`, the entry it will
\* store and the status-changed event it will send.
FrameCalls ==
  [kind     : {"heartbeat", "status", "battery"},
   phase    : {"pending", "committed", "failed"},
   age      : Ages,
   update   : Updates,
   entry    : [lastStatus : Status, age : Ages \cup {AtFinish}, battery : Levels \cup {NoLevel}],
   announce : Status \cup {Keep}]

\* A scan: `current` while the `state` object it holds is still the map's.
ScanCalls ==
  [phase : {"looking", "pending", "committed", "failed"}, age : Ages, current : BOOLEAN]

Idle == [phase |-> "idle"]

VARIABLES
  row,     \* the robots row
  entry,   \* robotState.get(id), or NoEntry
  frames,  \* the handler invocations in flight
  scans,   \* the scans in flight
  up,      \* the process runs
  author,  \* who wrote the row's status last: history variable
  view,    \* what a dashboard that follows robot:status:changed shows
  heard,   \* age of the last proof of life, whichever process heard it: history variable
  taint    \* kinds of disturbance that may still tell: history variable

vars == <<row, entry, frames, scans, up, author, view, heard, taint>>

-----------------------------------------------------------------------------

Awaiting == {"pending", "committed", "failed"}
Busy == \/ \E h \in Handlers : frames[h].phase \in Awaiting
        \/ \E s \in Scans : scans[s].phase \in Awaiting

\* A second UPDATE is issued while one is in flight.
MayOverlap == Busy => "overlap" \in Faults
OverlapTaint == IF Busy THEN taint \cup {"calls"} ELSE taint

\* The robot is registered while the process runs (RobotService.create); what
\* a process finds at its boot is what an earlier one left.
Init ==
  /\ row = [status |-> "OFFLINE", seen |-> Cap, battery |-> NoLevel]
  /\ up = TRUE
  /\ entry = NoEntry
  /\ frames = [h \in Handlers |-> Idle]
  /\ scans = [s \in Scans |-> Idle]
  /\ author = "ingest"
  /\ view = row.status
  /\ heard = Cap
  /\ taint = {}

-----------------------------------------------------------------------------
(* The frame handlers, up to their await. *)

\* statusChanged and heartbeatStale of a handler, at its Date.now().
Differs(status) == entry = NoEntry \/ entry.lastStatus # status

HeartbeatStaleLate == entry = NoEntry \/ entry.age > Write      \* mutant
HeartbeatStale == entry = NoEntry \/ entry.age >= Write

CachedLevel == IF entry = NoEntry THEN NoLevel ELSE entry.battery

AnnouncementLost(status) == Keep                                \* mutant
Announcement(status) == IF Differs(status) THEN status ELSE Keep

\* The handler awaits its UPDATE.
Issue(h, kind, update, next, announce) ==
  /\ MayOverlap
  /\ frames' = [frames EXCEPT ![h] =
       [kind |-> kind, phase |-> "pending", age |-> 0, update |-> update,
        entry |-> next, announce |-> announce]]
  /\ taint' = OverlapTaint

HeartbeatUpdateOnChange(status) ==                              \* mutant
  [status |-> IF Differs(status) THEN status ELSE Keep, lastSeen |-> TRUE, battery |-> Keep]
HeartbeatUpdateAlive(status) ==                                 \* mutant
  [status |-> "ONLINE", lastSeen |-> TRUE, battery |-> Keep]
HeartbeatUpdate(status) == [status |-> status, lastSeen |-> TRUE, battery |-> Keep]

Heartbeat(h, status) ==
  /\ up /\ frames[h] = Idle
  /\ heard' = IF status = "ONLINE" THEN 0 ELSE heard
  /\ IF Differs(status) \/ HeartbeatStale
       THEN Issue(h, "heartbeat", HeartbeatUpdate(status),
              [lastStatus |-> status, age |-> 0, battery |-> CachedLevel],
              Announcement(status))
       ELSE UNCHANGED <<frames, taint>>
  /\ UNCHANGED <<row, entry, scans, up, author, view>>

OnlineHeartbeat(h) == "online" \in Frames /\ Heartbeat(h, "ONLINE")
OfflineHeartbeat(h) == "offline" \in Frames /\ Heartbeat(h, "OFFLINE")

\* handleStatusMessage; `level` is body.battery, or NoLevel when it has none.
StatusFrame(h, level) ==
  LET changed == Differs("ONLINE")
      refresh == changed \/ HeartbeatStale
      battery == level # NoLevel /\ level # CachedLevel
  IN
  /\ "status" \in Frames /\ up /\ frames[h] = Idle
  /\ heard' = 0
  /\ IF refresh \/ battery
       THEN Issue(h, "status",
              [status |-> IF changed THEN "ONLINE" ELSE Keep, lastSeen |-> refresh,
               battery |-> IF battery THEN level ELSE Keep],
              [lastStatus |-> "ONLINE", age |-> IF refresh THEN 0 ELSE entry.age,
               battery |-> IF battery THEN level ELSE CachedLevel],
              Announcement("ONLINE"))
       ELSE UNCHANGED <<frames, taint>>
  /\ UNCHANGED <<row, entry, scans, up, author, view>>

\* handleBatteryMessage: stores again the entry it read before the await.
BatteryFrame(h, level) ==
  /\ "battery" \in Frames /\ up /\ frames[h] = Idle
  /\ level # CachedLevel
  /\ Issue(h, "battery",
       [status |-> Keep, lastSeen |-> FALSE, battery |-> level],
       [lastStatus |-> IF entry = NoEntry THEN "OFFLINE" ELSE entry.lastStatus,
        age |-> IF entry = NoEntry THEN AtFinish ELSE entry.age,
        battery |-> level],
       Keep)
  /\ UNCHANGED <<row, entry, scans, up, author, view, heard>>

-----------------------------------------------------------------------------
(* scanStaleRobots, one pass of its loop for this robot. *)

ScanStart(s) ==
  /\ up /\ scans[s] = Idle
  /\ scans' = [scans EXCEPT ![s] = [phase |-> "looking", age |-> 0, current |-> TRUE]]
  /\ UNCHANGED <<row, entry, frames, up, author, view, heard, taint>>

\* now - state.lastDbHeartbeat >= STALE_OFFLINE_MS, with the scan's `now`.
IsStale(s) ==
  /\ entry # NoEntry
  /\ entry.lastStatus = "ONLINE"
  /\ entry.age - scans[s].age >= Stale

ScanPass(s) ==
  /\ scans[s].phase = "looking" /\ ~IsStale(s)
  /\ scans' = [scans EXCEPT ![s] = Idle]
  /\ UNCHANGED <<row, entry, frames, up, author, view, heard, taint>>

ScanDemote(s) ==
  /\ scans[s].phase = "looking" /\ IsStale(s)
  /\ MayOverlap
  /\ scans' = [scans EXCEPT ![s].phase = "pending"]
  /\ taint' = OverlapTaint
  /\ UNCHANGED <<row, entry, frames, up, author, view, heard>>

-----------------------------------------------------------------------------
(* The database answers. *)

OverwriteAll(new, old) == new                                   \* mutant
Overwrite(new, old) == IF new = Keep THEN old ELSE new

CommitFrame(h) ==
  LET call == frames[h] IN
  /\ call.phase = "pending"
  /\ row' = [status  |-> Overwrite(call.update.status, row.status),
             seen    |-> IF call.update.lastSeen THEN call.age ELSE row.seen,
             battery |-> Overwrite(call.update.battery, row.battery)]
  /\ author' = IF call.update.status = Keep THEN author ELSE "ingest"
  /\ frames' = [frames EXCEPT ![h].phase = "committed"]
  /\ UNCHANGED <<entry, scans, up, view, heard, taint>>

CommitScan(s) ==
  /\ scans[s].phase = "pending"
  /\ row' = [row EXCEPT !.status = "OFFLINE"]
  /\ author' = "ingest"
  /\ scans' = [scans EXCEPT ![s].phase = "committed"]
  /\ UNCHANGED <<entry, frames, up, view, heard, taint>>

FailFrame(h) ==
  /\ "dbFail" \in Faults /\ frames[h].phase = "pending"
  /\ frames' = [frames EXCEPT ![h].phase = "failed"]
  /\ taint' = taint \cup {"calls"}
  /\ UNCHANGED <<row, entry, scans, up, author, view, heard>>

FailScan(s) ==
  /\ "dbFail" \in Faults /\ scans[s].phase = "pending"
  /\ scans' = [scans EXCEPT ![s].phase = "failed"]
  /\ taint' = taint \cup {"calls"}
  /\ UNCHANGED <<row, entry, frames, up, author, view, heard>>

-----------------------------------------------------------------------------
(* The code after the await. *)

\* robotState.set(...): a scan that holds the old object no longer holds the
\* map's.  Only the heartbeat handler goes on after a failed UPDATE.  Entry and
\* row are up to date again when a lastSeen has been recorded.
FinishFrame(h) ==
  LET call == frames[h] IN
  /\ call.phase = "committed" \/ (call.phase = "failed" /\ call.kind = "heartbeat")
  /\ entry' = [call.entry EXCEPT !.age = IF @ = AtFinish THEN 0 ELSE @]
  /\ view' = Overwrite(call.announce, view)
  /\ frames' = [frames EXCEPT ![h] = Idle]
  /\ scans' = [s \in Scans |->
       IF scans[s].phase \in Awaiting THEN [scans[s] EXCEPT !.current = FALSE] ELSE scans[s]]
  /\ taint' = IF call.phase = "committed" /\ call.update.lastSeen THEN taint \ {"behind"} ELSE taint
  /\ UNCHANGED <<row, up, author, heard>>

AbandonFrame(h) ==
  /\ frames[h].phase = "failed" /\ frames[h].kind \in {"status", "battery"}
  /\ frames' = [frames EXCEPT ![h] = Idle]
  /\ UNCHANGED <<row, entry, scans, up, author, view, heard, taint>>

\* state.lastStatus = OFFLINE reaches the map's entry only if `state` is it.
DemotedEntryForgotten(s) == entry                               \* mutant
DemotedEntry(s) ==
  IF scans[s].current THEN [entry EXCEPT !.lastStatus = "OFFLINE"] ELSE entry

FinishScan(s) ==
  /\ \/ /\ scans[s].phase = "committed"
        /\ entry' = DemotedEntry(s)
        /\ view' = "OFFLINE"
     \/ /\ scans[s].phase = "failed"
        /\ UNCHANGED <<entry, view>>
  /\ scans' = [scans EXCEPT ![s] = Idle]
  /\ UNCHANGED <<row, frames, up, author, heard, taint>>

-----------------------------------------------------------------------------
(* The gateway's writes, which bypass the entry; crash and boot; time. *)

\* SocketGateway.handleConnection / handleDisconnect: RobotService.updateStatus.
\* The handlers of a robot's sockets overlap (module SocketGateway), so the
\* two statuses need not alternate.
GatewayWrite(status) ==
  /\ "gateway" \in Faults /\ up
  /\ row' = [row EXCEPT !.status = status, !.seen = 0]
  /\ author' = "gateway"
  /\ taint' = taint \cup {"bypass"}
  /\ UNCHANGED <<entry, frames, scans, up, view, heard>>

\* SocketGateway.handleRobotState: RobotService.updateBatteryLevel.
GatewayBattery(level) ==
  /\ "gateway" \in Faults /\ up
  /\ row' = [row EXCEPT !.battery = level]
  /\ taint' = taint \cup {"bypass"}
  /\ UNCHANGED <<entry, frames, scans, up, author, view, heard>>

\* The row's lastSeen may lag behind the last frame by more than the throttle.
Lagging == \/ taint \cap {"calls", "behind"} # {}
           \/ \E h \in Handlers : frames[h].phase = "pending" /\ frames[h].update.lastSeen

\* The process dies; an UPDATE not yet committed dies with its connection.
Crash ==
  /\ "restart" \in Faults /\ up
  /\ up' = FALSE
  /\ entry' = NoEntry
  /\ frames' = [h \in Handlers |-> Idle]
  /\ scans' = [s \in Scans |-> Idle]
  /\ taint' = {"restart"} \cup (IF Lagging THEN {"behind"} ELSE {})
  /\ UNCHANGED <<row, author, view, heard>>

\* onModuleInit awaits hydrateRobotState before it connects to the broker.
HydratedNothing == NoEntry                                      \* mutant
HydratedEntry == [lastStatus |-> row.status, age |-> row.seen, battery |-> row.battery]

Boot ==
  /\ ~up /\ up' = TRUE
  /\ \/ /\ entry' = HydratedEntry
        /\ UNCHANGED taint
     \/ /\ "hydrate" \in Faults
        /\ taint' = taint \cup {"bypass"}
        /\ UNCHANGED entry
  /\ UNCHANGED <<row, frames, scans, author, view, heard>>

AgedFrame(call) ==
  IF call.phase = "idle" THEN call
  ELSE [call EXCEPT !.age = Older(@), !.entry.age = IF @ = AtFinish THEN @ ELSE Older(@)]

AgedScan(call) == IF call.phase = "idle" THEN call ELSE [call EXCEPT !.age = Older(@)]

Tick ==
  /\ \A h \in Handlers : frames[h].phase # "idle" => frames[h].age < Latency
  /\ \A s \in Scans : scans[s].phase # "idle" => scans[s].age < Latency
  /\ row' = [row EXCEPT !.seen = Older(@)]
  /\ entry' = IF entry = NoEntry THEN entry ELSE [entry EXCEPT !.age = Older(@)]
  /\ frames' = [h \in Handlers |-> AgedFrame(frames[h])]
  /\ scans' = [s \in Scans |-> AgedScan(scans[s])]
  /\ heard' = Older(heard)
  /\ UNCHANGED <<up, author, view, taint>>

-----------------------------------------------------------------------------

FrameArrives(h) ==
  \/ OnlineHeartbeat(h)
  \/ OfflineHeartbeat(h)
  \/ \E level \in Levels \cup {NoLevel} : StatusFrame(h, level)
  \/ \E level \in Levels : BatteryFrame(h, level)

HandlerReturns(h) == CommitFrame(h) \/ FinishFrame(h) \/ AbandonFrame(h)
ScanReturns(s) == ScanPass(s) \/ ScanDemote(s) \/ CommitScan(s) \/ FinishScan(s)

Next ==
  \/ \E h \in Handlers : FrameArrives(h) \/ HandlerReturns(h) \/ FailFrame(h)
  \/ \E s \in Scans : ScanStart(s) \/ ScanReturns(s) \/ FailScan(s)
  \/ \E status \in Status : GatewayWrite(status)
  \/ \E level \in Levels : GatewayBattery(level)
  \/ Crash \/ Boot \/ Tick

Spec == Init /\ [][Next]_vars

\* The event loop runs what is ready, PostgreSQL answers, the interval fires,
\* the process manager restarts the backend and time passes.  Nothing is
\* assumed of the robot, of the gateway's clients or of the faults.
Fairness ==
  /\ \A h \in Handlers : WF_vars(HandlerReturns(h))
  /\ \A s \in Scans : WF_vars(ScanStart(s)) /\ WF_vars(ScanReturns(s))
  /\ WF_vars(Boot) /\ WF_vars(Tick)

FairSpec == Spec /\ Fairness

-----------------------------------------------------------------------------

TypeOK ==
  /\ row \in Rows
  /\ entry \in Entries \cup {NoEntry}
  /\ frames \in [Handlers -> FrameCalls \cup {Idle}]
  /\ scans \in [Scans -> ScanCalls \cup {Idle}]
  /\ up \in BOOLEAN /\ author \in Authors
  /\ view \in Status /\ heard \in Ages
  /\ taint \in SUBSET TaintKinds

\* A scan that awaits its UPDATE holds an entry, and entries are never removed.
ScanHoldsEntry == \A s \in Scans : scans[s].phase \in Awaiting => entry # NoEntry

\* Since the last boot no two UPDATEs overlapped, none failed, the gateway
\* wrote nothing and the hydration succeeded.
Undisturbed == taint \subseteq {"restart", "behind"}

(* When no UPDATE is in flight, the entry holds the status and the battery  *)
(* level of the row (RobotIngestState: "last status we persisted", "last    *)
(* battery we persisted"): the handlers' different rules for what they      *)
(* write and what they store agree, across scans, crashes and boots.        *)
CacheAgreesWithRow ==
  up /\ ~Busy /\ entry # NoEntry /\ Undisturbed =>
    entry.lastStatus = row.status /\ entry.battery = row.battery

(* A dashboard that loaded the row once and then followed the               *)
(* robot:status:changed events shows the row's status.                      *)
ViewFollowsRow == up /\ ~Busy /\ taint = {} => view = row.status

(* The inductive strengthening of the two: while undisturbed, one call at   *)
(* most is in flight, and its three steps keep what the entry and the view  *)
(* will be equal to what the row will be.                                   *)
CachedStatus == IF entry = NoEntry THEN "OFFLINE" ELSE entry.lastStatus

Alone ==
  /\ \A g, h \in Handlers :
       frames[g].phase \in Awaiting /\ frames[h].phase \in Awaiting => g = h
  /\ \A r, s \in Scans :
       scans[r].phase \in Awaiting /\ scans[s].phase \in Awaiting => r = s
  /\ \A h \in Handlers, s \in Scans :
       ~(frames[h].phase \in Awaiting /\ scans[s].phase \in Awaiting)

Committed == \/ \E h \in Handlers : frames[h].phase = "committed"
             \/ \E s \in Scans : scans[s].phase = "committed"

Settled == up /\ ~Committed => CachedStatus = row.status /\ CachedLevel = row.battery

FrameSound(h) ==
  LET call == frames[h] IN
  /\ call.phase # "failed"
  /\ call.phase = "pending" =>
       /\ call.entry.lastStatus = Overwrite(call.update.status, row.status)
       /\ call.entry.battery = Overwrite(call.update.battery, row.battery)
  /\ call.phase = "committed" =>
       call.entry.lastStatus = row.status /\ call.entry.battery = row.battery

ScanSound(s) ==
  /\ scans[s].phase # "failed"
  /\ scans[s].phase # "idle" => scans[s].current
  /\ scans[s].phase = "committed" => row.status = "OFFLINE" /\ CachedLevel = row.battery

CleanInv ==
  Undisturbed =>
    Alone /\ Settled /\ (\A h \in Handlers : FrameSound(h)) /\ (\A s \in Scans : ScanSound(s))

DownIdle ==
  ~up => /\ entry = NoEntry
         /\ frames = [h \in Handlers |-> Idle] /\ scans = [s \in Scans |-> Idle]

ViewSound ==
  taint = {} =>
    /\ ~Committed => view = row.status
    /\ \A h \in Handlers : frames[h].phase \in {"pending", "committed"} =>
         Overwrite(frames[h].announce, view) = frames[h].entry.lastStatus

(* lastDbHeartbeat lags behind the last frame by less than                  *)
(* HEARTBEAT_DB_WRITE_MS, in the entry and in the row that the next process *)
(* hydrates it from, so the scan never demotes a robot that was heard       *)
(* within STALE_OFFLINE_MS - HEARTBEAT_DB_WRITE_MS, by this process or by   *)
(* one before it, whatever the gateway does.  Excused are a process whose   *)
(* UPDATEs overlapped or failed, and one that succeeds it, or a process     *)
(* that died before the UPDATE of a frame was committed, until it has       *)
(* recorded a lastSeen of its own.                                          *)
OnTime == taint \cap {"calls", "behind"} = {}

NoEarlyDemotion ==
  [][\A s \in Scans : ScanDemote(s) /\ OnTime' => heard > Stale - Write]_vars

-----------------------------------------------------------------------------
(* The refinement: the last will is being recorded while an UPDATE that     *)
(* sets OFFLINE is in flight.                                               *)
Parting == \E h \in Handlers : frames[h].phase = "pending" /\ frames[h].update.status = "OFFLINE"
Excused == ~OnTime

Promise == INSTANCE PresencePromise
  WITH shown <- row.status, silence <- heard, parting <- Parting, excused <- Excused,
       Delay <- Latency, Grace <- Stale - Write, Limit <- Cap

(* A reader of the row's status sees no more than the promise: ONLINE only  *)
(* just after a proof of life, OFFLINE only after a last will or a silence, *)
(* although both are written from a cache that lags, by four pieces of code *)
(* that await.                                                              *)
ImplementsPromise == Promise!Spec

-----------------------------------------------------------------------------
(* The scan's purpose: a robot that fell silent without its last will being *)
(* delivered, also across a restart, is shown OFFLINE in the end.           *)
SilentGoesOffline ==
  (up /\ Undisturbed /\ heard = Cap) ~>
    (row.status = "OFFLINE" \/ heard < Cap \/ ~up \/ ~Undisturbed)

(* What may stop: the last will, battery and status frames, failed UPDATEs, *)
(* the gateway's writes and crashes.                                        *)
OtherDisturbance ==
  \/ \E h \in Handlers :
       \/ OfflineHeartbeat(h) \/ FailFrame(h) \/ \E level \in Levels : BatteryFrame(h, level)
  \/ \E s \in Scans : FailScan(s)
  \/ \E status \in Status : GatewayWrite(status)
  \/ Crash

Disturbance ==
  \/ OtherDisturbance
  \/ \E h \in Handlers, level \in Levels \cup {NoLevel} : StatusFrame(h, level)

(* Whatever the overlapping calls, failures and gateway writes left behind, *)
(* a robot whose online heartbeats then keep arriving is ONLINE for good:   *)
(* handleHeartbeatMessage writes the status with every refresh of lastSeen. *)
HeartbeatsHeal ==
  (<>[][~Disturbance]_vars /\ <>[](heard <= 1)) => <>[](row.status = "ONLINE")

(* The same when status frames stream too.  The comment on                  *)
(* handleStatusMessage promises it for status frames alone.                 *)
StatusFramesHeal ==
  (<>[][~OtherDisturbance]_vars /\ <>[](heard <= 1)) => <>[](row.status = "ONLINE")

(* "If we haven't seen a Pi heartbeat in this many ms we flip the robot to  *)
(* OFFLINE ourselves": with no condition on what else happened.             *)
SilentAlwaysGoesOffline ==
  (up /\ heard = Cap) ~> (row.status = "OFFLINE" \/ heard < Cap \/ ~up)
=============================================================================
