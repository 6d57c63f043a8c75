SPECIFICATION ApiFairSpec
CONSTANTS
  Rules = {r1}
  Settings = {s1}
  Jobs = {j1, j2, j3}
  MaxOutbox = 2
  Faults = {"dbFail", "offline", "wipe", "restart", "rename", "remove"}
  Off = Off
  Unborn = Unborn
  Deleted = Deleted
  None = None
  Schedules = {h1, h2}
  Puts = {p1, p2}
  Commands = {c1, c2, c3}
  Frames = {c1}
  MaxQueue = 2
  DefaultSchedule = h1
  NoSchedule = NoSchedule
  Nobody = Nobody
  Patrols = {q1}
  Foreign = {q2}
  MaxLogs = 1
  Alarms = {a1}
  Events = {e1}
  Tasks = {t1, t2}
  Nothing = Nothing
  Workloads = {{"rules"}, {"lamp"}, {"commands"}, {"patrols", "alarms"}, {"events"}}
INVARIANTS TypesOK RetainedCurrent ScheduleRetained FramesNeverFollow LogsOfOwnPatrols AlarmsShown NoticesMatchEvents
PROPERTY EditsReachTheBroker
