--------------------------- MODULE MCTypedClients ---------------------------
(* A finite instance of TypedClients for TLC.                              *)
EXTENDS TypedClients

MCTexts == {<<"a">>, <<>>, <<"/">>, <<"a", "/", "a">>, <<"a", "?">>, <<"%2F">>,
            <<".">>, <<".", ".">>, <<"a", ".">>, <<"by-username">>,
            <<"by-username", "/", "a">>, <<"a", "/", "with-owner">>,
            <<".", ".", "/", "users", "/", "a">>}

FieldsOf(method) ==
  CASE method = "create_flow" -> {"name", "description"}
    [] method = "update_flow" -> {"name", "description", "status"}
    [] method = "create_user" -> {"username", "email", "password"}
    [] method = "update_user" -> {"username", "email", "status"}

(* The fields of a create that have no default are always set.             *)
Required(method) ==
  CASE method = "create_flow" -> {"name"}
    [] method = "create_user" -> FieldsOf(method)
    [] OTHER -> {}

(* The declarations of both clients pass their decoration.                 *)
ASSUME ImportAssumption == \A m \in DOMAIN Endpoints : Declarable(Endpoints[m])

MCPayloads(method) ==
  {[fields |-> FieldsOf(method), set |-> [f \in fields |-> "v"]] :
     fields \in {s \in SUBSET FieldsOf(method) : Required(method) \subseteq s}}

=============================================================================
