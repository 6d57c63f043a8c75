SPECIFICATION Spec
CONSTANTS
  Users = {u1, u2}
  Robots = {b1, b2}
  Serials = {s1, s2}
  Calls = {c1, c2}
  MaxEntries = 2
  TTL = 2
  Transfers = TRUE
  Gone = Gone
SYMMETRY Symmetry
INVARIANTS TypeOK BoundedMap StaleLessThanTTL InvalidationHolds
