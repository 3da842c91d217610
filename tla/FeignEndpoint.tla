--------------------------- MODULE FeignEndpoint ---------------------------
(***************************************************************************)
(* The endpoint decorators of packages/core (feign.py) as operators: which *)
(* declarations are accepted, the request a call makes, and what a method  *)
(* returns for a response (with BaseServiceClient._parse_response).        *)
(*                                                                         *)
(* A declaration has its method, its path template (a sequence of          *)
(* segments), the annotations of its parameters other than self and ctx,   *)
(* and its return annotation.  A text is a sequence of characters, of      *)
(* which only the ones that matter to a path are told apart.               *)
(***************************************************************************)
EXTENDS Naturals, Sequences, FiniteSets, Functions

CONSTANT None

Segment(name) == [placeholder |-> FALSE, name |-> name]
Placeholder(name) == [placeholder |-> TRUE, name |-> name]

BodyMethods == {"POST", "PUT", "PATCH"}
SupportedMethods == {"GET", "HEAD", "OPTIONS", "DELETE"} \cup BodyMethods

(* The names of the placeholders, in their order: each at its segment.     *)
PathParams(d) ==
  [i \in {i \in DOMAIN d.path : d.path[i].placeholder} |-> d.path[i].name]

BodyParams(d) ==
  {n \in DOMAIN d.params \ Range(PathParams(d)) : d.params[n] = "model"}

QueryParams(d) ==
  DOMAIN d.params \ (Range(PathParams(d)) \cup BodyParams(d))

(* Decoration raises no TypeError.                                         *)
Declarable(d) ==
  /\ d.method \in SupportedMethods
  /\ "unresolvable" \notin Range(d.params) \cup {d.returns}
  /\ d.returns # "missing"
  /\ Range(PathParams(d)) \subseteq DOMAIN d.params
  /\ Cardinality(BodyParams(d)) = IF d.method \in BodyMethods THEN 1 ELSE 0

BuildSpec(d) ==
  [method |-> d.method, path_template |-> d.path,
   path_params |-> PathParams(d), body_params |-> BodyParams(d),
   query_params |-> QueryParams(d), partial_update |-> d.method = "PATCH"]

-----------------------------------------------------------------------------
(* A call                                                                  *)

(* The placeholders that the arguments cannot fill: their value is None,   *)
(* or was taken for the same name before.                                  *)
Unfilled(spec, args) ==
  {i \in DOMAIN spec.path_params :
     \/ args[spec.path_params[i]] = None
     \/ \E j \in DOMAIN spec.path_params :
          j < i /\ spec.path_params[j] = spec.path_params[i]}

BindError(spec, args) ==
  LET first == CHOOSE i \in Unfilled(spec, args) :
                 \A j \in Unfilled(spec, args) : i <= j
  IN  IF args[spec.path_params[first]] = None THEN "TypeError" ELSE "KeyError"

(* The characters of a text: the escapes of "?" and "%2F" are not of them. *)
Characters == STRING \ {"%3F", "%252F"}

(* Mutant: path arguments are put into the path as they are.               *)
QuoteNothing(text) == text

(* urllib's quote with safe="", and the decoding of a path by the server.  *)
Escape == [c \in {"/", "?", "%2F"} |->
             CASE c = "/" -> "%2F" [] c = "?" -> "%3F" [] c = "%2F" -> "%252F"]
Quote(text) ==
  [i \in DOMAIN text |-> IF text[i] \in DOMAIN Escape THEN Escape[text[i]]
                                                      ELSE text[i]]
Unquote(text) ==
  [i \in DOMAIN text |-> IF text[i] \in Range(Escape)
                         THEN CHOOSE c \in DOMAIN Escape : Escape[c] = text[i]
                         ELSE text[i]]

(* Mutant: every body is sent in full.                                     *)
ModelDumpFull(model, exclude_unset) ==
  [f \in model.fields |-> IF f \in DOMAIN model.set THEN model.set[f] ELSE None]

(* A model object knows its fields and the ones that were set; every other *)
(* field has its default, None.                                            *)
ModelDump(model, exclude_unset) ==
  [f \in IF exclude_unset THEN DOMAIN model.set ELSE model.fields |->
     IF f \in DOMAIN model.set THEN model.set[f] ELSE None]

(* Mutant: query parameters that are None are sent too.                    *)
RequestWithNulls(spec, args) ==
  [method |-> spec.method,
   path |-> [i \in DOMAIN spec.path_template |->
               LET s == spec.path_template[i]
               IN  IF s.placeholder THEN Quote(args[s.name]) ELSE <<s.name>>],
   query |-> Restrict(args, spec.query_params),
   json |-> IF spec.body_params = {} THEN None
            ELSE LET n == CHOOSE n \in spec.body_params : TRUE
                 IN  ModelDump(args[n], spec.partial_update)]

Request(spec, args) ==
  [method |-> spec.method,
   path |-> [i \in DOMAIN spec.path_template |->
               LET s == spec.path_template[i]
               IN  IF s.placeholder THEN Quote(args[s.name]) ELSE <<s.name>>],
   query |-> Restrict(args, {n \in spec.query_params : args[n] # None}),
   json |-> IF spec.body_params = {} THEN None
            ELSE LET n == CHOOSE n \in spec.body_params : TRUE
                 IN  ModelDump(args[n], spec.partial_update)]

-----------------------------------------------------------------------------
(* Its result                                                              *)

ReturnContract(returns) ==
  [expects_none |-> returns = "none",
   response_model |-> IF returns = "none" THEN None ELSE returns]

Bodies == {"empty", "null", "model", "list", "garbage"}

ASSUME NoneAssumption ==
  None \notin Bodies \cup {"optional", "ServiceResponseError"}

(* Mutant: only a null body is an absent result.                           *)
ParseResponseStrict(response_model, body) ==
  CASE response_model = None -> "response"
    [] response_model = "optional" /\ body = "null" -> None
    [] body = IF response_model = "optional" THEN "model"
                                             ELSE response_model -> body
    [] OTHER -> "ServiceResponseError"

(* _parse_response for no model, Model, list[Model] or Model | None.       *)
ParseResponse(response_model, body) ==
  CASE response_model = None -> "response"
    [] response_model = "optional" /\ body \in {"empty", "null"} -> None
    [] body = IF response_model = "optional" THEN "model"
                                             ELSE response_model -> body
    [] OTHER -> "ServiceResponseError"

Result(contract, body) ==
  IF contract.expects_none THEN None
                           ELSE ParseResponse(contract.response_model, body)

=============================================================================
