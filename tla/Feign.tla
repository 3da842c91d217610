------------------------------- MODULE Feign -------------------------------
(***************************************************************************)
(* One endpoint under its decorator (packages/core, feign.py): decorated   *)
(* when its class is made, then called by concurrent tasks that share the  *)
(* wrapper and the return contract it caches on its first call.            *)
(***************************************************************************)
EXTENDS FeignEndpoint

CONSTANTS Declarations,    \* the endpoints a class may declare
          Calls,           \* the calls made of one
          Arguments(_)     \* the bound arguments a declaration is called with

(* The annotations that a declaration may have; a placeholder names a      *)
(* parameter that is a text.                                               *)
ASSUME DeclarationAssumption ==
  \A d \in Declarations :
    /\ d.returns \in {"none", "model", "list", "optional",
                      "missing", "unresolvable"}
    /\ \A i \in DOMAIN d.path :
         LET n == d.path[i].name
         IN  /\ d.path[i] \in {Segment(n), Placeholder(n)}
             /\ d.path[i] = Placeholder(n) /\ n \in DOMAIN d.params =>
                  d.params[n] \in {"str", "unresolvable"}

(* The arguments are what the annotations say, and set only fields that    *)
(* the model has.                                                          *)
ASSUME ArgumentAssumption ==
  \A d \in Declarations : Declarable(d) => \A a \in Arguments(d) :
    /\ a # None /\ DOMAIN a = DOMAIN d.params
    /\ \A n \in DOMAIN a :
         /\ d.params[n] = "str" => a[n] \in Seq(Characters) \cup {None}
         /\ d.params[n] = "model" =>
              /\ DOMAIN a[n].set \subseteq a[n].fields
              /\ \A exclude_unset \in BOOLEAN :
                   ModelDump(a[n], exclude_unset) # None

VARIABLES
  declared,   \* the declaration
  phase,      \* undecorated, refused (a TypeError) or bound
  spec,       \* its EndpointSpec, or None
  contract,   \* the cached return contract, or None
  args,       \* per call: the bound arguments
  wire,       \* per call: the request it made, or None
  result      \* per call: None, then its result and the body it was made of

vars == <<declared, phase, spec, contract, args, wire, result>>

Init == /\ declared \in Declarations
        /\ phase = "undecorated"
        /\ spec = None
        /\ contract = None
        /\ args = [c \in Calls |-> None]
        /\ wire = [c \in Calls |-> None]
        /\ result = [c \in Calls |-> None]

(* The decorator.                                                          *)
Route == /\ phase = "undecorated"
         /\ IF Declarable(declared)
            THEN phase' = "bound" /\ spec' = BuildSpec(declared)
            ELSE phase' = "refused" /\ UNCHANGED spec
         /\ UNCHANGED <<declared, contract, args, wire, result>>

(* The wrapper up to its await.                                            *)
Call(c) ==
  /\ phase = "bound" /\ args[c] = None
  /\ \E a \in Arguments(declared) :
       /\ args' = [args EXCEPT ![c] = a]
       /\ IF Unfilled(spec, a) # {}
          THEN /\ result' = [result EXCEPT ![c] = <<BindError(spec, a), None>>]
               /\ UNCHANGED wire
          ELSE /\ wire' = [wire EXCEPT ![c] = Request(spec, a)]
               /\ UNCHANGED result
  /\ contract' = IF contract = None THEN ReturnContract(declared.returns)
                                    ELSE contract
  /\ UNCHANGED <<declared, phase, spec>>

(* self.request returns.                                                   *)
Answer(c) ==
  /\ wire[c] # None /\ result[c] = None
  /\ \E body \in Bodies :
       result' = [result EXCEPT ![c] = <<Result(contract, body), body>>]
  /\ UNCHANGED <<declared, phase, spec, contract, args, wire>>

Next == Route \/ \E c \in Calls : Call(c) \/ Answer(c)

Spec == Init /\ [][Next]_vars

-----------------------------------------------------------------------------
(* Properties                                                              *)

(* The places of a request that carry the value of parameter n.            *)
Places(c, n) ==
  (IF \E i \in DOMAIN declared.path :
        /\ declared.path[i] = Placeholder(n)
        /\ Unquote(wire[c].path[i]) = args[c][n]
   THEN {"path"} ELSE {})
  \cup (IF n \in DOMAIN wire[c].query /\ wire[c].query[n] = args[c][n]
        THEN {"query"} ELSE {})
  \cup (IF declared.params[n] = "model" /\ wire[c].json # None
        THEN {"body"} ELSE {})

(* Every argument that has a value is in one place of the request, and no  *)
(* parameter that is None reaches the query.                               *)
ArgumentsSentOnce ==
  \A c \in Calls : wire[c] # None =>
    /\ \A n \in DOMAIN args[c] :
         args[c][n] # None => Cardinality(Places(c, n)) = 1
    /\ \A n \in DOMAIN wire[c].query : args[c][n] # None

(* A PATCH carries the fields its caller set and no other, a PUT or POST   *)
(* all the fields of the model.                                            *)
BodyAsTheMethodSays ==
  \A c \in Calls : wire[c] # None /\ wire[c].json # None =>
    \E n \in DOMAIN args[c] :
      /\ declared.params[n] = "model"
      /\ DOMAIN wire[c].json = IF declared.method = "PATCH"
                               THEN DOMAIN args[c][n].set ELSE args[c][n].fields
      /\ \A f \in DOMAIN args[c][n].set : wire[c].json[f] = args[c][n].set[f]

(* feign.py:14-18, whichever call found out the contract: only what the    *)
(* annotation names is returned, never the response itself, and None       *)
(* stands for an absent body and never hides one that is there.            *)
ResultAsDeclared ==
  \A c \in Calls : wire[c] # None /\ result[c] # None =>
    LET value == result[c][1]
        body  == result[c][2]
    IN  CASE declared.returns = "none" -> value = None
          [] declared.returns = "optional" ->
               /\ value \in {None, "model", "ServiceResponseError"}
               /\ value = None <=> body \in {"empty", "null"}
          [] OTHER -> value \in {declared.returns, "ServiceResponseError"}

=============================================================================
