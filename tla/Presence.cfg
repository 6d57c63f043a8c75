SPECIFICATION Spec
CONSTANTS
  Handlers = {h1}
  Scans = {s1}
  Levels = {b1, b2}
  Write = 1
  Stale = 3
  Latency = 1
  Frames = {"online", "offline", "status", "battery"}
  Faults = {"overlap", "dbFail", "gateway", "hydrate", "restart"}
  NoLevel = NoLevel
  Keep = Keep
  AtFinish = AtFinish
SYMMETRY Symmetry
INVARIANTS TypeOK CacheAgreesWithRow ViewFollowsRow
PROPERTIES NoEarlyDemotion ImplementsPromise
