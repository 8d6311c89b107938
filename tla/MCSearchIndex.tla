---------------------------- MODULE MCSearchIndex ----------------------------
(***************************************************************************)
(* Instances of OutboxRelay and its consumer for TLC.                      *)
(***************************************************************************)
EXTENDS SearchIndex, TLC

CONSTANTS p1, p2, relayA, relayB

\* Patents and relays are interchangeable; used without liveness properties only.
ActorSymmetry == Permutations(Patents) \cup Permutations(Relays)

=============================================================================
