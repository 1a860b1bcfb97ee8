------------------------------ MODULE MCLocks ------------------------------
(* The two locks a request meets: at the door, for large bodies, and around *)
(* the backends.  They share no state: a behaviour takes one of them.       *)
EXTENDS LifecycleGuard, UploadAdmission, TLC

CONSTANTS t1, t2, t3, u1, u2, u3, m1, m2

VARIABLE part

partVars == <<part, guardVars, admissionVars>>

(* Bodies of all kinds: short, of unknown length and too long. *)
MCDeclared == (u1 :> 1) @@ (u2 :> Undeclared) @@ (u3 :> 3) @@ (m1 :> 2) @@ (m2 :> Undeclared)
MCSlots == ("upload" :> 2) @@ ("mcp" :> 1)

MCInit == part \in {"guard", "admission"} /\ GuardInit /\ UploadAdmissionInit

MCNext ==
  /\ UNCHANGED part
  /\ \/ part = "guard" /\ GuardNext /\ UNCHANGED admissionVars
     \/ part = "admission" /\ UploadAdmissionNext /\ UNCHANGED guardVars

MCSpec == MCInit /\ [][MCNext]_partVars /\ GuardFairness /\ UploadAdmissionFairness
=============================================================================
