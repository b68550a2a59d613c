---------------------------- MODULE MCEnrollment ----------------------------
(* Instances of Enrollment for TLC. *)
EXTENDS Enrollment, TLC

Symmetry ==
    Permutations(Clients) \cup Permutations(Agents) \cup Permutations(Codes)
        \cup Permutations(Handlers)
=============================================================================
