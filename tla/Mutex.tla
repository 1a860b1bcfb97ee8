-------------------------------- MODULE Mutex --------------------------------
(* A lock with one holder at a time, which only its holder gives back. *)
CONSTANTS Actors, Nobody

VARIABLE holder

Init == holder = Nobody

Acquire(a) == holder = Nobody /\ holder' = a

Release(a) == holder = a /\ holder' = Nobody

Next == \E a \in Actors : Acquire(a) \/ Release(a)

Spec == Init /\ [][Next]_holder
=============================================================================
