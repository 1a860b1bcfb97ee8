-------------------------- MODULE MCDeletionJournal --------------------------
(* One profile with samples and one generation's audio. *)
EXTENDS DeletionJournal, TLC

CONSTANTS p, a, s1, s2, d1, d2

Symmetry == Permutations({s1, s2}) \cup Permutations({d1, d2})
=============================================================================
