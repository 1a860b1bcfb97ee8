-------------------------- MODULE MCBackendInstall --------------------------
(* BackendInstall with two operations and two failing filesystem calls.     *)
EXTENDS BackendInstall
=============================================================================
