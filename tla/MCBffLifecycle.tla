--------------------------- MODULE MCBffLifecycle ---------------------------
(* A finite instance of BffLifecycle for TLC: the deployed values, in      *)
(* ticks of ten seconds, rounded up.                                       *)
EXTENDS BffLifecycle

(* flow_timeout is 30 seconds, uc_timeout 10.                              *)
MCTimeouts == [flow |-> 3, uc |-> 1]

=============================================================================
