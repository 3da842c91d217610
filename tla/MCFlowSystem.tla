---------------------------- MODULE MCFlowSystem ----------------------------
(* A finite instance of FlowSystem for TLC.                                *)
EXTENDS FlowSystem, TLC

MCPayloads == {("name" :> None) @@ ("status" :> "running")}

MCStatuses == {"created", "running"}

MCSymmetry == Permutations(Calls) \cup Permutations(FlowIds)

=============================================================================
