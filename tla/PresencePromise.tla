--------------------------- MODULE PresencePromise --------------------------
(***************************************************************************)
(* What the tracking of a robot promises whoever reads its status, without *)
(* frames in flight, cached entries, scans or boots: the status turns      *)
(* ONLINE only just after a proof of life, and OFFLINE only if the robot   *)
(* said so or has been silent for the grace time.  The gateway may write   *)
(* it at any time, as sockets come and go.  The promise about OFFLINE is   *)
(* excused by overlapping or failed UPDATEs, and by those that a restart   *)
(* lost, until a frame is recorded after the restart; the one about ONLINE *)
(* never is.                                                               *)
(***************************************************************************)
EXTENDS Naturals

CONSTANTS
  Delay,  \* longest time from a frame to the status it causes
  Grace,  \* a robot silent for longer may be taken for dead
  Limit   \* ages saturate here (bound)

VARIABLES
  shown,    \* the status the readers see
  silence,  \* age of the last proof of life
  parting,  \* the robot said OFFLINE and that is not recorded yet
  excused,  \* UPDATEs overlapped, failed or were lost
  author    \* who wrote the status last

vars == <<shown, silence, parting, excused, author>>

Init ==
  /\ shown = "OFFLINE"
  /\ silence = Limit /\ parting = FALSE /\ excused = FALSE /\ author = "ingest"

\* The robot proves life, or says OFFLINE.
Speak ==
  /\ silence' \in {0, silence}
  /\ parting' \in {parting, TRUE}
  /\ excused' \in {excused, TRUE}
  /\ UNCHANGED <<shown, author>>

TurnOnline ==
  /\ silence <= Delay
  /\ shown' = "ONLINE" /\ author' = "ingest"
  /\ UNCHANGED <<silence, parting, excused>>

TurnOffline ==
  /\ parting \/ silence > Grace \/ excused
  /\ shown' = "OFFLINE" /\ author' = "ingest"
  /\ parting' \in {parting, FALSE}
  /\ UNCHANGED <<silence, excused>>

\* An UPDATE is lost, or begins beside another.
Excuse ==
  /\ excused' = TRUE
  /\ parting' \in {parting, FALSE}
  /\ UNCHANGED <<shown, silence, author>>

GatewayWrites ==
  /\ shown' \in {"ONLINE", "OFFLINE"} /\ author' = "gateway"
  /\ UNCHANGED <<silence, parting, excused>>

\* What was being recorded may be lost; nothing else is forgotten.
Restart ==
  /\ parting' = FALSE /\ excused' \in {excused, TRUE}
  /\ UNCHANGED <<shown, silence, author>>

\* A frame has been recorded after a restart.
Recover ==
  /\ excused' = FALSE
  /\ UNCHANGED <<shown, silence, parting, author>>

TimePasses ==
  /\ silence' = IF silence < Limit THEN silence + 1 ELSE Limit
  /\ UNCHANGED <<shown, parting, excused, author>>

Next ==
  \/ Speak \/ TurnOnline \/ TurnOffline \/ Excuse
  \/ GatewayWrites \/ Restart \/ Recover \/ TimePasses

Spec == Init /\ [][Next]_vars
=============================================================================
