-------------------------- MODULE MCSocketGateway --------------------------
(* SocketGateway on small instances. *)
EXTENDS SocketGateway, TLC

Symmetry == Permutations(RobotSockets) \cup Permutations(ClientSockets)
=============================================================================
