SPECIFICATION Spec
CONSTANTS
  Alerts = {a0, a1}
  Unnumbered = {a1}
  Zero = a0
  Triggers = {t1}
  Rules = {r1, r2}
  Foreign = {r2}
  Handlers = {h1, h2}
  MaxSends = 2
  Faults = {"dbFail", "offline", "restart"}
  None = None
SYMMETRY Symmetry
INVARIANTS TypeOK StoredOrLost OneRowPerAlert NoticesAreRecorded OnlyOwnRulesNotify
PROPERTIES AlertsMoveForward
