SPECIFICATION FairSpec
CONSTANTS
  Handlers = {h1, h2}
  Scans = {s1}
  Levels = {b1}
  Write = 1
  Stale = 3
  Latency = 1
  Frames = {"online", "battery"}
  Faults = {"overlap"}
  NoLevel = NoLevel
  Keep = Keep
  AtFinish = AtFinish
PROPERTIES SilentAlwaysGoesOffline
