SPECIFICATION FairSpec
CONSTANTS
  Handlers = {h1}
  Scans = {s1}
  Levels = {b1}
  Write = 1
  Stale = 3
  Latency = 1
  Frames = {"online", "status", "battery"}
  Faults = {"overlap", "dbFail", "gateway", "restart"}
  NoLevel = NoLevel
  Keep = Keep
  AtFinish = AtFinish
PROPERTIES SilentGoesOffline HeartbeatsHeal
