------------------------------ MODULE MCFeign ------------------------------
(* Finite instances of Feign for TLC: the endpoints of test_feign.py, and  *)
(* the same shapes with what decoration must refuse.                       *)
EXTENDS Feign, TLC

Endpoint(method, path, params, returns) ==
  [method |-> method, path |-> path, params |-> params, returns |-> returns]

NoParams == [n \in {} |-> None]

Items == <<Segment("items")>>
Item == <<Segment("items"), Placeholder("id")>>

(* The shapes that the packages declare, and the ones that decoration must *)
(* refuse; a second model that may be absent, and a placeholder named      *)
(* twice, which it accepts.                                                *)
MCDeclarations ==
  {Endpoint("GET", Items, NoParams, "list"),
   Endpoint("GET", Items, [q |-> "str", r |-> "str"], "optional"),
   Endpoint("GET", Items, NoParams, "missing"),
   Endpoint("GET", Items, [q |-> "model"], "model"),
   Endpoint("GET", Item, [id |-> "str"], "model"),
   Endpoint("GET", Item, [uuid |-> "str"], "model"),
   Endpoint("GET", Item, [id |-> "unresolvable"], "model"),
   Endpoint("GET", Item \o <<Placeholder("q")>>,
            [id |-> "str", q |-> "str"], "optional"),
   Endpoint("POST", Items, [item |-> "model"], "model"),
   Endpoint("POST", Items, [item |-> "str"], "model"),
   Endpoint("POST", Items, [item |-> "model", payload |-> "model"], "model"),
   Endpoint("PUT", Item, [id |-> "str", payload |-> "model"], "model"),
   Endpoint("PATCH", Item, [id |-> "str", payload |-> "model", q |-> "str"],
            "optional"),
   Endpoint("POST", Items, [item |-> "model", q |-> "optional_model"],
            "model"),
   Endpoint("GET", Item \o <<Placeholder("id")>>, [id |-> "str"], "model"),
   Endpoint("DELETE", Item, [id |-> "str"], "none"),
   Endpoint("TRACE", Item, [id |-> "str"], "none")}

Texts == <<<<"a">>, <<"a", "/", "b">>, <<"%2F">>, None>>

Models == <<[fields |-> {"name", "note"}, set |-> [name |-> "x"]],
            [fields |-> {"name", "note"}, set |-> [name |-> "x", note |-> None]],
            [fields |-> {"name", "note"}, set |-> NoParams],
            None>>

(* The model argument itself is never None, for its annotation says so.    *)
MCArguments(d) ==
  {[n \in DOMAIN d.params |->
      IF d.params[n] = "str" THEN Texts[choice[n]] ELSE Models[choice[n]]] :
     choice \in {c \in [DOMAIN d.params -> 1..4] :
                  \A n \in DOMAIN c : c[n] = 4 => d.params[n] # "model"}}

MCSymmetry == Permutations(Calls)

=============================================================================
