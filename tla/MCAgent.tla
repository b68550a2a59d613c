------------------------------ MODULE MCAgent ------------------------------
(* Instances of Agent for TLC. *)
EXTENDS Agent, TLC

Symmetry == Permutations(Commands) \cup Permutations(Jobs)

(* An agent that is paired by both ways. *)
RetryOps == {"pairing_code", "pair", "complete", "enroll", "shutdown"}
=============================================================================
