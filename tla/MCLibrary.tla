------------------------------ MODULE MCLibrary ------------------------------
(* Rows and the files they own: one profile with two samples and the audio  *)
(* of one generation in the deletion journal; and the library of takes,     *)
(* versions and clips over two generations and two clips, which are alike.  *)
(* They share no state: a behaviour takes one of them.                      *)
EXTENDS DeletionJournal, Library, TLC

CONSTANTS p, a, s1, s2, d1, d2

VARIABLE part

MCInit ==
  /\ part \in {"journal", "library"} /\ Init /\ LibraryInit
  /\ part = "journal" => files = {}

MCNext ==
  /\ UNCHANGED part
  /\ \/ part = "journal" /\ Next /\ UNCHANGED libraryVars
     \/ part = "library" /\ LibraryNext /\ UNCHANGED vars

MCSpec == MCInit /\ [][MCNext]_<<part, vars, libraryVars>>

Alike == UNION {Permutations(S) : S \in {Gens, Clips, Samples, Dirs}}
=============================================================================
