--------------------------- MODULE MCFlowService ---------------------------
(* Finite instances of FlowService for TLC.                                *)
EXTENDS FlowService, TLC

(* A new name with the description cleared, a new description with a null  *)
(* name that is dropped, and a status alone.                               *)
MCPayloads ==
       {("name" :> n) @@ ("description" :> None) : n \in Names}
  \cup {("description" :> d) @@ ("name" :> None) : d \in Descriptions}
  \cup {"status" :> "running"}

MCStatuses == {"created", "running"}

MCSymmetry == Permutations(Threads) \cup Permutations(FlowIds)
                                    \cup Permutations(Names)

=============================================================================
