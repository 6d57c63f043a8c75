SPECIFICATION GateSpec
CONSTANTS
  Keys = {k1}
  Capacity = 6
  Rate = 2
  Cost = 3
  Horizon = 8
  LogGap = 1
  Never = Never
INVARIANTS GateTypeOK RateBound LogBound
PROPERTIES PacedNeverDenied
