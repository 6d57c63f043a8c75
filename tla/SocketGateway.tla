--------------------------- MODULE SocketGateway ---------------------------
(***************************************************************************)
(* The Socket.IO gateway (socket.gateway.ts) as seen by one robot id: the  *)
(* robot's own sockets, the operators' sockets that follow it, and what    *)
(* handleConnection and handleDisconnect leave in the gateway's maps, in   *)
(* the robots row and in robot_sessions.                                   *)
(*                                                                         *)
(* A robot that comes back opens a new socket, often before the server has *)
(* noticed that the old one is dead, and both handlers of a socket await   *)
(* the database, so any of them interleave.  What a socket carries besides *)
(* (telemetry, camera frames, move commands) is forwarded unchanged; the   *)
(* token bucket is module TokenBucket.                                     *)
(***************************************************************************)
EXTENDS Naturals, FiniteSets

CONSTANTS
  RobotSockets,   \* connections with type=robot, each used once (bound)
  ClientSockets,  \* connections with type=client, each used once (bound)
  Nobody          \* Map.get(...) of an absent key

ASSUME DistinctAssumption ==
  RobotSockets \cap ClientSockets = {} /\ Nobody \notin RobotSockets \cup ClientSockets

Sockets == RobotSockets \cup ClientSockets
Status == {"ONLINE", "OFFLINE"}

\* Another handler was writing; an OFFLINE write failed; the process died;
\* the MQTT ingest wrote the status.
Doubts == {"overlap", "failed", "died", "ingest"}

VARIABLES
  wire,       \* of every socket: not opened yet, connected, or disconnected
  opening,    \* where handleConnection stands
  closing,    \* where handleDisconnect stands
  connectedRobots,   \* connectedRobots.get(robotId)
  connectedClients,  \* connectedClients.get(robotId)
  robotStates,       \* who sent robotStates.get(robotId)
  buckets,    \* the sockets with a bucket in controlLimiter
  row,        \* robots.status, which the gateway and the MQTT ingest write
  sessions,   \* the sockets whose robot_sessions row has endedAt null
  doubt,      \* what may have parted the row from the map since a handler last
              \* began its writes with no other handler writing: history
  raced       \* two startSessions overlapped since the last updateMany: history

maps == <<connectedRobots, connectedClients, robotStates, buckets>>
rows == <<row, sessions>>
vars == <<wire, opening, closing, maps, rows, doubt, raced>>

Init ==
  /\ wire = [s \in Sockets |-> "new"]
  /\ opening = [s \in Sockets |-> "no"]
  /\ closing = [s \in Sockets |-> "no"]
  /\ connectedRobots = Nobody /\ connectedClients = {} /\ robotStates = Nobody
  /\ buckets = {}
  /\ row = "OFFLINE" /\ sessions = {}
  /\ doubt = {} /\ raced = FALSE

Opening(s, at) == opening' = [opening EXCEPT ![s] = at]
Closing(s, at) == closing' = [closing EXCEPT ![s] = at]

\* The handler of s that awaits a write to the robot's rows.
Writing(s) == \/ opening[s] \in {"online", "endSessions", "createSession"}
              \/ closing[s] = "offline"
BeginsBeside(others) ==
  doubt' = IF \E t \in others : Writing(t) THEN doubt \cup {"overlap"} ELSE {}
StartsWriting(s) == BeginsBeside(Sockets \ {s})

\* The gateway has filled client.data.
Identified(s) == opening[s] \in {"online", "endSessions", "createSession", "done"}

-----------------------------------------------------------------------------
(* handleDisconnect, up to its await; socket.io calls it at once when the   *)
(* server disconnects the socket itself.                                    *)

ReleaseSkipped(s) == UNCHANGED buckets          \* mutant: no release
Release(s) == buckets' = buckets \ {s}

DropRobotKept(s) ==                             \* mutant: entries not deleted
  /\ wire' = [wire EXCEPT ![s] = "down"]
  /\ Closing(s, "offline")
  /\ UNCHANGED <<connectedRobots, robotStates>>

DropRobot(s) ==
  /\ wire' = [wire EXCEPT ![s] = "down"]
  /\ connectedRobots' = Nobody
  /\ robotStates' = Nobody
  /\ Closing(s, "offline")

DisconnectRobot(s) ==
  /\ s \in RobotSockets /\ wire[s] = "up"
  /\ DropRobot(s)
  /\ BeginsBeside(Sockets)
  /\ UNCHANGED <<opening, connectedClients, buckets, rows, raced>>

\* updateStatus(OFFLINE) commits.
WriteOffline(s) ==
  /\ closing[s] = "offline"
  /\ row' = "OFFLINE"
  /\ doubt' = doubt \ {"ingest"}
  /\ Release(s)
  /\ Closing(s, "done")
  /\ UNCHANGED <<wire, opening, connectedRobots, connectedClients, robotStates,
                 sessions, raced>>

\* It fails: the catch skips the release of the limiter too.
FailDisconnect(s) ==
  /\ closing[s] = "offline"
  /\ Closing(s, "done")
  /\ doubt' = doubt \cup {"failed"}
  /\ UNCHANGED <<wire, opening, maps, rows, raced>>

\* An operator's socket, which has no client.data before it is admitted.
DropClientKept(c) ==                            \* mutant: stays in the set
  /\ wire' = [wire EXCEPT ![c] = "down"]
  /\ Release(c)
  /\ Closing(c, IF opening[c] = "checking" THEN "early" ELSE "done")
  /\ UNCHANGED connectedClients

DropClient(c) ==
  /\ wire' = [wire EXCEPT ![c] = "down"]
  /\ connectedClients' = IF Identified(c) THEN connectedClients \ {c} ELSE connectedClients
  /\ Release(c)
  /\ Closing(c, IF opening[c] = "checking" THEN "early" ELSE "done")

DisconnectClient(c) ==
  /\ c \in ClientSockets /\ wire[c] = "up"
  /\ DropClient(c)
  /\ UNCHANGED <<opening, connectedRobots, robotStates, rows, doubt, raced>>

-----------------------------------------------------------------------------
(* handleConnection of a robot that presents the API key. *)

ConnectRobot(s) ==
  /\ s \in RobotSockets /\ wire[s] = "new"
  /\ wire' = [wire EXCEPT ![s] = "up"]
  /\ connectedRobots' = s
  /\ Opening(s, "online")
  /\ StartsWriting(s)
  /\ UNCHANGED <<closing, connectedClients, robotStates, buckets, rows, raced>>

\* updateStatus(ONLINE) commits.
WriteOnline(s) ==
  /\ opening[s] = "online"
  /\ row' = "ONLINE"
  /\ doubt' = doubt \ {"ingest"}
  /\ Opening(s, "endSessions")
  /\ UNCHANGED <<wire, closing, maps, sessions, raced>>

EndOwnSession(s) ==                             \* mutant: where: {robotId} dropped
  /\ opening[s] = "endSessions"
  /\ sessions' = sessions \ {s}
  /\ raced' = \E t \in Sockets : opening[t] = "createSession"
  /\ Opening(s, "createSession")
  /\ UNCHANGED <<wire, closing, maps, row, doubt>>

\* The updateMany of startSession commits.
EndSessions(s) ==
  /\ opening[s] = "endSessions"
  /\ sessions' = {}
  /\ raced' = \E t \in Sockets : opening[t] = "createSession"
  /\ Opening(s, "createSession")
  /\ UNCHANGED <<wire, closing, maps, row, doubt>>

CreateSessionLate(s) ==                         \* mutant: map filled after the awaits
  /\ opening[s] = "createSession"
  /\ sessions' = sessions \cup {s}
  /\ connectedRobots' = s
  /\ Opening(s, "done")
  /\ UNCHANGED <<wire, closing, connectedClients, robotStates, buckets, row, doubt, raced>>

CreateSession(s) ==
  /\ opening[s] = "createSession"
  /\ sessions' = sessions \cup {s}
  /\ Opening(s, "done")
  /\ UNCHANGED <<wire, closing, maps, row, doubt, raced>>

\* One of the three fails: client.disconnect(true), if it is still there.
FailConnection(s) ==
  /\ opening[s] \in {"online", "endSessions", "createSession"}
  /\ Opening(s, "failed")
  /\ IF wire[s] = "up"
       THEN DropRobot(s) /\ StartsWriting(s)
       ELSE UNCHANGED <<wire, closing, connectedRobots, robotStates, doubt>>
  /\ UNCHANGED <<connectedClients, buckets, rows, raced>>

(* handleConnection of an operator: the token is valid and assertOwnership  *)
(* is awaited.  A handshake that fails sooner leaves nothing behind.        *)

ConnectClient(c) ==
  /\ c \in ClientSockets /\ wire[c] = "new"
  /\ wire' = [wire EXCEPT ![c] = "up"]
  /\ Opening(c, "checking")
  /\ UNCHANGED <<closing, maps, rows, doubt, raced>>

AdmitClientAsRobot(c) ==                        \* mutant: wrong map
  /\ opening[c] = "checking"
  /\ connectedRobots' = c
  /\ Opening(c, "done")
  /\ UNCHANGED <<wire, closing, connectedClients, robotStates, buckets, rows, doubt, raced>>

\* assertOwnership returns: nothing asks whether the client is still there.
AdmitClient(c) ==
  /\ opening[c] = "checking"
  /\ connectedClients' = connectedClients \cup {c}
  /\ Opening(c, "done")
  /\ UNCHANGED <<wire, closing, connectedRobots, robotStates, buckets, rows, doubt, raced>>

\* assertOwnership throws: client.disconnect(true), before client.data is set.
RejectClient(c) ==
  /\ opening[c] = "checking"
  /\ Opening(c, "rejected")
  /\ IF wire[c] = "up" THEN DropClient(c)
                       ELSE UNCHANGED <<wire, closing, connectedClients, buckets>>
  /\ UNCHANGED <<connectedRobots, robotStates, rows, doubt, raced>>

-----------------------------------------------------------------------------
(* The messages that touch the gateway's state, and the end of the process. *)

\* handleRobotState asks for client.data.robotId only; the battery level it
\* writes is another column.
RobotState(s) ==
  /\ wire[s] = "up" /\ Identified(s)
  /\ robotStates' = s
  /\ UNCHANGED <<wire, opening, closing, connectedRobots, connectedClients, buckets,
                 rows, doubt, raced>>

\* gateControl of the control and patrol messages: it draws on the bucket of
\* the socket before it looks the robot up in connectedRobots.
Control(c) ==
  /\ c \in ClientSockets /\ wire[c] = "up" /\ Identified(c)
  /\ buckets' = buckets \cup {c}
  /\ UNCHANGED <<wire, opening, closing, connectedRobots, connectedClients, robotStates,
                 rows, doubt, raced>>

Crash ==
  /\ wire' = [s \in Sockets |-> IF wire[s] = "up" THEN "down" ELSE wire[s]]
  /\ opening' = [s \in Sockets |-> IF wire[s] = "new" THEN "no" ELSE "done"]
  /\ closing' = [s \in Sockets |-> IF wire[s] = "new" THEN "no" ELSE "done"]
  /\ connectedRobots' = Nobody /\ connectedClients' = {} /\ robotStates' = Nobody
  /\ buckets' = {}
  /\ doubt' = doubt \cup {"died"}
  /\ UNCHANGED <<rows, raced>>

\* mqtt-ingest.service.ts writes robots.status from what it hears over MQTT,
\* whatever the gateway's map says.
IngestWrite(status) ==
  /\ row' = status
  /\ doubt' = doubt \cup {"ingest"}
  /\ UNCHANGED <<wire, opening, closing, maps, sessions, raced>>

Next ==
  \/ \E s \in RobotSockets :
       \/ ConnectRobot(s) \/ WriteOnline(s) \/ EndSessions(s) \/ CreateSession(s)
       \/ FailConnection(s) \/ DisconnectRobot(s) \/ WriteOffline(s) \/ FailDisconnect(s)
  \/ \E c \in ClientSockets :
       \/ ConnectClient(c) \/ AdmitClient(c) \/ RejectClient(c) \/ DisconnectClient(c)
       \/ Control(c)
  \/ \E s \in Sockets : RobotState(s)
  \/ \E status \in Status : IngestWrite(status)
  \/ Crash

Spec == Init /\ [][Next]_vars

-----------------------------------------------------------------------------

TypeOK ==
  /\ wire \in [Sockets -> {"new", "up", "down"}]
  /\ opening \in [Sockets -> {"no", "checking", "online", "endSessions", "createSession",
                              "done", "rejected", "failed"}]
  /\ closing \in [Sockets -> {"no", "early", "offline", "done"}]
  /\ connectedRobots \in RobotSockets \cup {Nobody}
  /\ connectedClients \in SUBSET ClientSockets
  /\ robotStates \in Sockets \cup {Nobody}
  /\ buckets \in SUBSET ClientSockets
  /\ row \in Status /\ sessions \in SUBSET RobotSockets
  /\ doubt \in SUBSET Doubts /\ raced \in BOOLEAN

(* Commands go to, and a new dashboard is shown the state of, a robot's     *)
(* socket that is still there: the map is filled before handleConnection    *)
(* awaits, so that a disconnect during the awaits finds the entry to delete.*)
OnlyLiveRobots ==
  \A s \in {connectedRobots, robotStates} \cap RobotSockets : wire[s] = "up"

(* When the handlers have returned, the row says what the map says, also    *)
(* when a connection fails half-way or a robot reconnects before its old    *)
(* socket is noticed dead.  Four things excuse it: handlers whose writes    *)
(* overlapped, an OFFLINE write that failed, the end of the process (the    *)
(* row keeps ONLINE, the map is lost), and a write of the status by the     *)
(* MQTT ingest since the gateway's last one.  None of them lasts: the next  *)
(* handler that begins its writes alone sets the row right.                 *)
RowAgreesWithMap ==
  doubt = {} /\ (\A s \in Sockets : ~Writing(s)) =>
    (row = "ONLINE" <=> connectedRobots # Nobody)

(* startSession ends "any existing active session": a robot has one open    *)
(* session at most, whatever failed before, until two startSessions         *)
(* overlap; and the next one repairs that.                                  *)
OneOpenSession == ~raced => Cardinality(sessions) <= 1

(* The limiter is released on every disconnect, so its map does not outgrow *)
(* the sockets that are there.                                              *)
BucketsOfLiveSockets == \A s \in buckets : wire[s] = "up"

(* A dead socket stays in connectedClients only when it went away while its *)
(* ownership was being checked.                                             *)
DeadClientsLeftEarly ==
  \A c \in connectedClients : wire[c] = "up" \/ closing[c] = "early"

=============================================================================
