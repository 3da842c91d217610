-------------------------- MODULE MCServiceClient --------------------------
(* Finite instances of ServiceClient for TLC.                              *)
EXTENDS ServiceClient

MCMethods == {"GET", "POST", "PATCH", "DELETE"}

=============================================================================
