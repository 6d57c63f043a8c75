SPECIFICATION Spec
CONSTANTS
  Rules = {r1}
  Settings = {s1}
  Jobs = {j1, j2}
  MaxOutbox = 2
  Faults = {}
  Off = Off
  Unborn = Unborn
  Deleted = Deleted
  None = None
INVARIANT EveryEditRepublished
