---------------------------- MODULE ManagedLibrary ----------------------------
(***************************************************************************)
(* What the managed storage promises its users, whatever crashes when: the *)
(* files that the library keeps change only by whole operations.  A        *)
(* publication adds one file; a deletion removes every file that it names  *)
(* at once.                                                                *)
(***************************************************************************)
CONSTANTS Files

VARIABLE kept     \* the files that users have, now or after a restart

Init == kept = {}

Publish(f) == f \notin kept /\ kept' = kept \cup {f}

Delete(doomed) == doomed \subseteq kept /\ kept' = kept \ doomed

(* One file by name, or everything: the profile with all it has. *)
Next ==
  \/ \E f \in Files : Publish(f) \/ Delete({f})
  \/ Delete(kept)

Spec == Init /\ [][Next]_kept
=============================================================================
