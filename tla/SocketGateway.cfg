SPECIFICATION Spec
CONSTANTS
  RobotSockets = {s1, s2, s3}
  ClientSockets = {c1, c2}
  Nobody = Nobody
SYMMETRY Symmetry
INVARIANTS TypeOK OnlyLiveRobots RowAgreesWithMap OneOpenSession BucketsOfLiveSockets DeadClientsLeftEarly
