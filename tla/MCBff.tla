-------------------------------- MODULE MCBff --------------------------------
(* Finite instances of Bff for TLC.                                        *)
EXTENDS Bff, TLC

MCSymmetry == Permutations(Requests)

=============================================================================
