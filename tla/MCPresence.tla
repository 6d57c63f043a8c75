----------------------------- MODULE MCPresence -----------------------------
(* Presence on small instances.  A tick is HEARTBEAT_DB_WRITE_MS (10 s). *)
EXTENDS Presence, TLC

\* Handler slots and battery levels are interchangeable.
Symmetry == Permutations(Levels) \cup Permutations(Handlers)
=============================================================================
