--------------------------- MODULE PartialUpdate ---------------------------
(***************************************************************************)
(* partial_update_dict of packages/core (model_utils.py): what a PATCH     *)
(* payload changes in a stored row.                                        *)
(*                                                                         *)
(* A payload, an update and a row are functions from field names: the      *)
(* domain of a payload is the set of fields the client set explicitly, the *)
(* ones model_dump(exclude_unset=True) returns.  A model is a function     *)
(* from its field names to their annotations, and an annotation is the set *)
(* of the members of its union: {"str"}, or {"str", "None"} for str|None.  *)
(***************************************************************************)
EXTENDS Functions

CONSTANT None      \* Python's None

(* A union with None among its members; None alone is not a union.         *)
IsOptional(annotation) == "None" \in annotation /\ annotation # {"None"}

TargetNullable(model) == {f \in DOMAIN model : IsOptional(model[f])}

(* The explicitly set fields, without the nulls of fields that the target  *)
(* model does not let be null.                                             *)
PartialUpdateDict(payload, model) ==
  Restrict(payload, {f \in DOMAIN payload :
                       payload[f] # None \/ f \in TargetNullable(model)})

(* pydantic's row.model_copy(update=...): a new row, with the update laid  *)
(* over the old one and no re-validation.                                  *)
ModelCopy(row, update) ==
  [f \in DOMAIN row |-> IF f \in DOMAIN update THEN update[f] ELSE row[f]]

=============================================================================
