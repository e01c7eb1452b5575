---------------------------- MODULE MCEnrollment ----------------------------
(* Small instances of Enrollment for TLC. *)
EXTENDS Enrollment, TLC

Symmetry == Permutations(Host) \cup Permutations(Token) \cup Permutations(Id)

=============================================================================
