------------------------- MODULE SocketGatewayProofs ------------------------
(***************************************************************************)
(* What the gateway's maps and rows say holds for any number of sockets of *)
(* the robot and of operators.                                             *)
(***************************************************************************)
EXTENDS SocketGateway, FiniteSetTheorems, TLAPS

InHandshake == {"online", "endSessions", "createSession"}

LEMMA TypeStep == TypeOK /\ [Next]_vars => TypeOK'
<1> SUFFICES ASSUME TypeOK, [Next]_vars PROVE TypeOK'
  OBVIOUS
<1> USE DistinctAssumption DEF TypeOK, Sockets, Opening, Closing, Doubts
<1>1. ASSUME NEW s \in RobotSockets, ConnectRobot(s) \/ WriteOnline(s) \/ EndSessions(s) \/ CreateSession(s)
      PROVE  TypeOK'
  BY <1>1 DEF ConnectRobot, WriteOnline, EndSessions, CreateSession, StartsWriting, BeginsBeside, maps, rows, Status
<1>2. ASSUME NEW s \in RobotSockets, FailConnection(s) PROVE TypeOK'
  BY <1>2 DEF FailConnection, DropRobot, StartsWriting, BeginsBeside, maps, rows
<1>3. ASSUME NEW s \in RobotSockets, DisconnectRobot(s) \/ WriteOffline(s) \/ FailDisconnect(s)
      PROVE  TypeOK'
  BY <1>3 DEF DisconnectRobot, DropRobot, BeginsBeside, WriteOffline, FailDisconnect, Release, maps, rows, Status
<1>4. ASSUME NEW c \in ClientSockets, ConnectClient(c) \/ AdmitClient(c) \/ Control(c) PROVE TypeOK'
  BY <1>4 DEF ConnectClient, AdmitClient, Control, maps, rows
<1>5. ASSUME NEW c \in ClientSockets, RejectClient(c) \/ DisconnectClient(c) PROVE TypeOK'
  BY <1>5 DEF RejectClient, DisconnectClient, DropClient, Release, rows
<1>6. ASSUME NEW s \in Sockets, RobotState(s) PROVE TypeOK'
  BY <1>6 DEF RobotState, rows
<1>7. CASE Crash
  BY <1>7 DEF Crash, rows
<1>8. ASSUME NEW status \in Status, IngestWrite(status) PROVE TypeOK'
  BY <1>8 DEF IngestWrite, maps
<1>9. CASE UNCHANGED vars
  BY <1>9 DEF vars, maps, rows
<1> QED BY <1>1, <1>2, <1>3, <1>4, <1>5, <1>6, <1>7, <1>8, <1>9 DEF Next

-----------------------------------------------------------------------------
(* The handlers of an operator's socket write nothing to the robot's rows,  *)
(* and an unopened socket has none.                                         *)
Lifecycle ==
  /\ \A s \in Sockets : wire[s] = "new" => opening[s] = "no" /\ closing[s] = "no"
  /\ \A c \in ClientSockets :
       /\ opening[c] \notin InHandshake /\ closing[c] # "offline"
       /\ c \in connectedClients => opening[c] = "done"
       /\ opening[c] = "checking" /\ wire[c] = "down" => closing[c] = "early"

LEMMA MapsStep ==
  TypeOK /\ Lifecycle /\ OnlyLiveRobots /\ BucketsOfLiveSockets /\ DeadClientsLeftEarly /\ [Next]_vars
    => (Lifecycle /\ OnlyLiveRobots /\ BucketsOfLiveSockets /\ DeadClientsLeftEarly)'
<1> DEFINE I == Lifecycle /\ OnlyLiveRobots /\ BucketsOfLiveSockets /\ DeadClientsLeftEarly
<1> SUFFICES ASSUME TypeOK, I, [Next]_vars PROVE I'
  OBVIOUS
<1> USE DistinctAssumption DEF TypeOK, Sockets, Opening, Closing, InHandshake, Lifecycle, OnlyLiveRobots,
          BucketsOfLiveSockets, DeadClientsLeftEarly
<1>1. ASSUME NEW s \in RobotSockets, ConnectRobot(s) \/ WriteOnline(s) \/ EndSessions(s) \/ CreateSession(s)
      PROVE  I'
  <2>1. CASE ConnectRobot(s)
    BY <2>1 DEF ConnectRobot, maps, rows
  <2>2. CASE WriteOnline(s)
    BY <2>2 DEF WriteOnline, maps, rows
  <2>3. CASE EndSessions(s)
    BY <2>3 DEF EndSessions, maps, rows
  <2>4. CASE CreateSession(s)
    BY <2>4 DEF CreateSession, maps, rows
  <2> QED BY <1>1, <2>1, <2>2, <2>3, <2>4
<1>2. ASSUME NEW s \in RobotSockets, FailConnection(s) PROVE I'
  BY <1>2 DEF FailConnection, DropRobot, maps, rows
<1>3. ASSUME NEW s \in RobotSockets, DisconnectRobot(s) \/ WriteOffline(s) \/ FailDisconnect(s)
      PROVE  I'
  BY <1>3 DEF DisconnectRobot, DropRobot, WriteOffline, FailDisconnect, Release, maps, rows
<1>4. ASSUME NEW c \in ClientSockets, ConnectClient(c) \/ AdmitClient(c) \/ Control(c) PROVE I'
  BY <1>4 DEF ConnectClient, AdmitClient, Control, Identified, maps, rows
<1>5. ASSUME NEW c \in ClientSockets, RejectClient(c) \/ DisconnectClient(c) PROVE I'
  BY <1>5 DEF RejectClient, DisconnectClient, DropClient, Release, Identified, rows
<1>6. ASSUME NEW s \in Sockets, RobotState(s) PROVE I'
  BY <1>6 DEF RobotState, rows
<1>7. CASE Crash
  BY <1>7 DEF Crash, rows
<1>8. ASSUME NEW status \in Status, IngestWrite(status) PROVE I'
  BY <1>8 DEF IngestWrite, maps
<1>9. CASE UNCHANGED vars
  BY <1>9 DEF vars, maps, rows
<1> QED BY <1>1, <1>2, <1>3, <1>4, <1>5, <1>6, <1>7, <1>8, <1>9 DEF Next

-----------------------------------------------------------------------------
(* Sessions: unless two startSessions overlapped, one handler at most is    *)
(* about to create one, and then there is none.                             *)
Sessions ==
  ~raced =>
    /\ \A s, t \in Sockets : opening[s] = "createSession" /\ opening[t] = "createSession" => s = t
    /\ (\E s \in Sockets : opening[s] = "createSession") => sessions = {}
    /\ \A s, t \in sessions : s = t

LEMMA SessionsStep == TypeOK /\ Sessions /\ [Next]_vars => Sessions'
<1> SUFFICES ASSUME TypeOK, Sessions, [Next]_vars PROVE Sessions'
  OBVIOUS
<1> USE DistinctAssumption DEF TypeOK, Sockets, Opening, Closing, Sessions
<1>1. ASSUME NEW s \in RobotSockets, ConnectRobot(s) \/ WriteOnline(s) PROVE Sessions'
  BY <1>1 DEF ConnectRobot, WriteOnline, maps, rows
<1>2. ASSUME NEW s \in RobotSockets, EndSessions(s) PROVE Sessions'
  BY <1>2 DEF EndSessions
<1>3. ASSUME NEW s \in RobotSockets, CreateSession(s) PROVE Sessions'
  BY <1>3 DEF CreateSession
<1>4. ASSUME NEW s \in RobotSockets, FailConnection(s) PROVE Sessions'
  BY <1>4 DEF FailConnection, rows
<1>5. ASSUME NEW s \in RobotSockets, DisconnectRobot(s) \/ WriteOffline(s) \/ FailDisconnect(s)
      PROVE  Sessions'
  BY <1>5 DEF DisconnectRobot, WriteOffline, FailDisconnect, rows
<1>6. ASSUME NEW c \in ClientSockets,
             ConnectClient(c) \/ AdmitClient(c) \/ Control(c) \/ RejectClient(c) \/ DisconnectClient(c)
      PROVE  Sessions'
  BY <1>6 DEF ConnectClient, AdmitClient, Control, RejectClient, DisconnectClient, rows
<1>7. ASSUME NEW s \in Sockets, RobotState(s) PROVE Sessions'
  BY <1>7 DEF RobotState, rows
<1>8. CASE Crash
  BY <1>8 DEF Crash, rows
<1>9. ASSUME NEW status \in Status, IngestWrite(status) PROVE Sessions'
  BY <1>9 DEF IngestWrite, maps
<1>10. CASE UNCHANGED vars
  BY <1>10 DEF vars, rows
<1> QED BY <1>1, <1>2, <1>3, <1>4, <1>5, <1>6, <1>7, <1>8, <1>9, <1>10 DEF Next

LEMMA SessionsImplyOne == TypeOK /\ Sessions => OneOpenSession
<1> SUFFICES ASSUME TypeOK, Sessions, ~raced PROVE Cardinality(sessions) <= 1
  BY DEF OneOpenSession
<1>1. CASE sessions = {}
  BY <1>1, FS_EmptySet
<1>2. ASSUME NEW s \in sessions PROVE Cardinality(sessions) <= 1
  <2>1. sessions = {s}
    BY <1>2 DEF Sessions
  <2>2. Cardinality(sessions) = 1
    BY <2>1, FS_Singleton
  <2> QED BY <2>2
<1> QED BY <1>1, <1>2

-----------------------------------------------------------------------------
(* The row: while no doubt but the ingest's is left, one handler at most    *)
(* writes, and the map already says what the row will say when it is done;  *)
(* without the ingest's too, the row says it once the status is written.    *)
OneWriter ==
  /\ doubt \subseteq {"ingest"} =>
       /\ \A s, t \in Sockets : Writing(s) /\ Writing(t) => s = t
       /\ \A s \in Sockets :
            /\ opening[s] \in InHandshake => connectedRobots # Nobody /\ wire[s] = "up" /\ closing[s] # "offline"
            /\ closing[s] = "offline" => connectedRobots = Nobody
  /\ doubt = {} => \A s \in Sockets : opening[s] \in {"endSessions", "createSession"} => row = "ONLINE"
  /\ RowAgreesWithMap

LEMMA RowStep == TypeOK /\ Lifecycle /\ OneWriter /\ [Next]_vars => OneWriter'
<1> SUFFICES ASSUME TypeOK, Lifecycle, OneWriter, [Next]_vars PROVE OneWriter'
  OBVIOUS
<1> USE DistinctAssumption DEF TypeOK, Sockets, Opening, Closing, InHandshake, Lifecycle, OneWriter,
          RowAgreesWithMap, Writing, Status, Doubts
<1>1. ASSUME NEW s \in RobotSockets, ConnectRobot(s) PROVE OneWriter'
  BY <1>1 DEF ConnectRobot, StartsWriting, BeginsBeside, rows
<1>2. ASSUME NEW s \in RobotSockets, WriteOnline(s) \/ EndSessions(s) \/ CreateSession(s) PROVE OneWriter'
  <2>1. CASE WriteOnline(s)
    BY <2>1 DEF WriteOnline, maps
  <2>2. CASE EndSessions(s)
    BY <2>2 DEF EndSessions, maps
  <2>3. CASE CreateSession(s)
    BY <2>3 DEF CreateSession, maps
  <2> QED BY <1>2, <2>1, <2>2, <2>3
<1>3. ASSUME NEW s \in RobotSockets, FailConnection(s) PROVE OneWriter'
  BY <1>3 DEF FailConnection, DropRobot, StartsWriting, BeginsBeside, rows
<1>4. ASSUME NEW s \in RobotSockets, DisconnectRobot(s) PROVE OneWriter'
  BY <1>4 DEF DisconnectRobot, DropRobot, BeginsBeside, rows
<1>5. ASSUME NEW s \in RobotSockets, WriteOffline(s) \/ FailDisconnect(s) PROVE OneWriter'
  BY <1>5 DEF WriteOffline, FailDisconnect
<1>6. ASSUME NEW c \in ClientSockets, ConnectClient(c) \/ AdmitClient(c) \/ Control(c) PROVE OneWriter'
  BY <1>6 DEF ConnectClient, AdmitClient, Control, maps, rows
<1>7. ASSUME NEW c \in ClientSockets, RejectClient(c) \/ DisconnectClient(c) PROVE OneWriter'
  BY <1>7 DEF RejectClient, DisconnectClient, DropClient, rows
<1>8. ASSUME NEW s \in Sockets, RobotState(s) PROVE OneWriter'
  BY <1>8 DEF RobotState, rows
<1>9. CASE Crash
  BY <1>9 DEF Crash
<1>10. ASSUME NEW status \in Status, IngestWrite(status) PROVE OneWriter'
  BY <1>10 DEF IngestWrite, maps
<1>11. CASE UNCHANGED vars
  BY <1>11 DEF vars, maps, rows
<1> QED BY <1>1, <1>2, <1>3, <1>4, <1>5, <1>6, <1>7, <1>8, <1>9, <1>10, <1>11 DEF Next

-----------------------------------------------------------------------------

GatewayInv ==
  /\ TypeOK /\ Lifecycle /\ OnlyLiveRobots /\ BucketsOfLiveSockets /\ DeadClientsLeftEarly
  /\ Sessions /\ OneWriter

(* The inductive invariant of the gateway. *)
THEOREM GatewayInvariance == Spec => []GatewayInv
<1>1. Init => GatewayInv
  <2>1. Init => TypeOK /\ OneWriter
    BY DistinctAssumption DEF Init, TypeOK, OneWriter, RowAgreesWithMap, Writing, InHandshake,
       Status, Doubts, Sockets
  <2>2. Init => Lifecycle /\ OnlyLiveRobots /\ BucketsOfLiveSockets /\ DeadClientsLeftEarly /\ Sessions
    BY DistinctAssumption DEF Init, Lifecycle, OnlyLiveRobots, BucketsOfLiveSockets,
       DeadClientsLeftEarly, Sessions, InHandshake, Sockets
  <2> QED BY <2>1, <2>2 DEF GatewayInv
<1>2. GatewayInv /\ [Next]_vars => GatewayInv'
  BY TypeStep, MapsStep, SessionsStep, RowStep DEF GatewayInv
<1> QED BY <1>1, <1>2, PTL DEF Spec

(* The maps, rows and handler positions keep their types. *)
THEOREM GatewayTypeCorrect == Spec => []TypeOK
BY GatewayInvariance, PTL DEF GatewayInv

(* Commands and shown states are those of sockets that are still there. *)
THEOREM MapsHoldLiveRobots == Spec => []OnlyLiveRobots
BY GatewayInvariance, PTL DEF GatewayInv

(* The limiter's map does not outgrow the connected sockets. *)
THEOREM BucketsStayBounded == Spec => []BucketsOfLiveSockets
BY GatewayInvariance, PTL DEF GatewayInv

(* A dead operator socket is kept only if it left during the ownership check. *)
THEOREM DeadClientsExplained == Spec => []DeadClientsLeftEarly
BY GatewayInvariance, PTL DEF GatewayInv

(* A robot has one open session at most until two startSessions overlap. *)
THEOREM SessionsStayOne == Spec => []OneOpenSession
<1>1. GatewayInv => OneOpenSession
  BY SessionsImplyOne DEF GatewayInv
<1> QED BY <1>1, GatewayInvariance, PTL

(* When no handler is writing, the row and the map agree, unless since a    *)
(* handler last began its writes alone two of them overlapped, an OFFLINE   *)
(* write failed, the process died or the MQTT ingest wrote the status.      *)
THEOREM RowStaysMapped == Spec => []RowAgreesWithMap
<1>1. GatewayInv => RowAgreesWithMap
  BY DEF GatewayInv, OneWriter
<1> QED BY <1>1, GatewayInvariance, PTL

-----------------------------------------------------------------------------
(* gateControl finds a robot unless two of its sockets were up at once: the *)
(* late disconnect of an old socket (ConnectedRobotIsFound) is the one way  *)
(* in which the map loses a connected robot.                                *)
OneSocketUp == \A s, t \in RobotSockets : wire[s] = "up" /\ wire[t] = "up" => s = t
RobotIsFound == \A s \in RobotSockets : wire[s] = "up" => connectedRobots = s

LEMMA FoundStep ==
  ASSUME TypeOK, RobotIsFound, OneSocketUp', [Next]_vars
  PROVE  RobotIsFound'
<1> USE DistinctAssumption DEF TypeOK, Sockets, RobotIsFound, OneSocketUp
<1>1. ASSUME NEW s \in RobotSockets, ConnectRobot(s) PROVE RobotIsFound'
  BY <1>1 DEF ConnectRobot
<1>2. ASSUME NEW s \in RobotSockets, WriteOnline(s) \/ EndSessions(s) \/ CreateSession(s)
      PROVE  RobotIsFound'
  BY <1>2 DEF WriteOnline, EndSessions, CreateSession, maps
<1>3. ASSUME NEW s \in RobotSockets, FailConnection(s) \/ DisconnectRobot(s)
      PROVE  RobotIsFound'
  BY <1>3 DEF FailConnection, DisconnectRobot, DropRobot
<1>4. ASSUME NEW s \in RobotSockets, WriteOffline(s) \/ FailDisconnect(s)
      PROVE  RobotIsFound'
  BY <1>4 DEF WriteOffline, FailDisconnect, maps
<1>5. ASSUME NEW c \in ClientSockets, ConnectClient(c) \/ AdmitClient(c) \/ Control(c)
      PROVE  RobotIsFound'
  BY <1>5 DEF ConnectClient, AdmitClient, Control, maps
<1>6. ASSUME NEW c \in ClientSockets, RejectClient(c) \/ DisconnectClient(c)
      PROVE  RobotIsFound'
  BY <1>6 DEF RejectClient, DisconnectClient, DropClient
<1>7. ASSUME NEW s \in Sockets, RobotState(s) PROVE RobotIsFound'
  BY <1>7 DEF RobotState
<1>8. CASE Crash
  BY <1>8 DEF Crash
<1>9. ASSUME NEW status \in Status, IngestWrite(status) PROVE RobotIsFound'
  BY <1>9 DEF IngestWrite, maps
<1>10. CASE UNCHANGED vars
  BY <1>10 DEF vars, maps
<1> QED BY <1>1, <1>2, <1>3, <1>4, <1>5, <1>6, <1>7, <1>8, <1>9, <1>10 DEF Next

(* A robot whose sockets never overlap is found from the moment it connects *)
(* until it disconnects, also while its handshake awaits the database and   *)
(* whatever fails: commands and the emergency stop reach it.                *)
THEOREM LoneSocketIsFound == Spec /\ []OneSocketUp => []RobotIsFound
<1>1. Init => RobotIsFound
  BY DEF Init, RobotIsFound, Sockets
<1>2. TypeOK /\ RobotIsFound /\ OneSocketUp' /\ [Next]_vars => RobotIsFound'
  BY FoundStep
<1> QED BY <1>1, <1>2, GatewayTypeCorrect, PTL DEF Spec
=============================================================================
