----------------------------- MODULE FeignProofs ----------------------------
(***************************************************************************)
(* Proofs about the endpoint decorators, for every declaration that they   *)
(* accept and all the arguments its annotations allow: where the arguments *)
(* of a call go, and what it returns; and about the typed clients, for     *)
(* every text and payload given to them: which handler a call reaches,     *)
(* through the quoting of its path, the normalization of the URL, the      *)
(* decoding and the routing by the service, and what the BFF hands on of a *)
(* path of its own.                                                        *)
(***************************************************************************)
EXTENDS Feign, TypedClients, FiniteSetTheorems, SequenceTheorems, TLAPS

(* A bound wrapper has the spec of its declaration, and the contract that  *)
(* whichever call came first has cached.                                   *)
WrapperInv ==
  /\ declared \in Declarations
  /\ phase \in {"undecorated", "refused", "bound"}
  /\ phase = "bound" => Declarable(declared) /\ spec = BuildSpec(declared)
  /\ contract \in {None, ReturnContract(declared.returns)}

(* A call has made the request of its own arguments, or none; it has the   *)
(* result of a body under the contract of the declaration.                 *)
CallInv ==
  /\ DOMAIN args = Calls /\ DOMAIN wire = Calls /\ DOMAIN result = Calls
  /\ \A c \in Calls :
       /\ args[c] = None => wire[c] = None /\ result[c] = None
       /\ args[c] # None => phase = "bound" /\ args[c] \in Arguments(declared)
       /\ wire[c] # None =>
            /\ Unfilled(BuildSpec(declared), args[c]) = {}
            /\ wire[c] = Request(BuildSpec(declared), args[c])
            /\ contract = ReturnContract(declared.returns)
            /\ result[c] # None =>
                 \E body \in Bodies :
                   result[c] = <<Result(contract, body), body>>

IInv == WrapperInv /\ CallInv

(* The invariant holds in every reachable state.                           *)
THEOREM Invariance == Spec => []IInv
<1>1. Init => IInv
  BY DEF Init, IInv, WrapperInv, CallInv
<1>2. IInv /\ [Next]_vars => IInv'
  <2> SUFFICES ASSUME IInv, [Next]_vars PROVE IInv'
    OBVIOUS
  <2>1. CASE Route
    BY <2>1 DEF Route, IInv, WrapperInv, CallInv
  <2>2. ASSUME NEW c \in Calls, Call(c)
        PROVE  IInv'
    <3>1. PICK a \in Arguments(declared) :
            /\ args' = [args EXCEPT ![c] = a]
            /\ IF Unfilled(spec, a) # {}
               THEN /\ result' = [result EXCEPT
                                    ![c] = <<BindError(spec, a), None>>]
                    /\ wire' = wire
               ELSE /\ wire' = [wire EXCEPT ![c] = Request(spec, a)]
                    /\ result' = result
      BY <2>2 DEF Call
    <3>2. /\ phase = "bound" /\ args[c] = None
          /\ UNCHANGED <<declared, phase, spec>>
          /\ wire[c] = None /\ result[c] = None
          /\ Declarable(declared) /\ spec = BuildSpec(declared)
          /\ declared \in Declarations
      BY <2>2 DEF Call, IInv, WrapperInv, CallInv
    <3>3. contract' = ReturnContract(declared.returns)
      BY <2>2 DEF Call, IInv, WrapperInv
    <3>4. a # None
      BY <3>1, <3>2, ArgumentAssumption
    <3>5. WrapperInv'
      BY <3>2, <3>3 DEF IInv, WrapperInv
    <3>6. CallInv'
      <4>1. /\ DOMAIN args' = Calls /\ DOMAIN wire' = Calls
            /\ DOMAIN result' = Calls
        BY <3>1 DEF IInv, CallInv
      <4>2. \A d \in Calls \ {c} : /\ args'[d] = args[d] /\ wire'[d] = wire[d]
                                   /\ result'[d] = result[d]
        BY <3>1 DEF IInv, CallInv
      <4>3. \A d \in Calls \ {c} : wire[d] # None => contract' = contract
        BY <3>3 DEF IInv, CallInv
      <4>4. /\ args'[c] = a
            /\ \/ wire'[c] = None
               \/ /\ Unfilled(spec, a) = {} /\ wire'[c] = Request(spec, a)
                  /\ result'[c] = None
        BY <3>1, <3>2 DEF IInv, CallInv
      <4> QED
        BY <3>2, <3>3, <3>4, <4>1, <4>2, <4>3, <4>4 DEF IInv, CallInv
    <3> QED
      BY <3>5, <3>6 DEF IInv
  <2>3. ASSUME NEW c \in Calls, Answer(c)
        PROVE  IInv'
    <3>1. PICK body \in Bodies :
            result' = [result EXCEPT ![c] = <<Result(contract, body), body>>]
      BY <2>3 DEF Answer
    <3>2. /\ wire[c] # None
          /\ UNCHANGED <<declared, phase, spec, contract, args, wire>>
      BY <2>3 DEF Answer
    <3>3. /\ DOMAIN result' = Calls
          /\ \A d \in Calls \ {c} : result'[d] = result[d]
      BY <3>1 DEF IInv, CallInv
    <3>4. result'[c] = <<Result(contract, body), body>>
      BY <3>1 DEF IInv, CallInv
    <3> QED
      BY <3>2, <3>3, <3>4 DEF IInv, WrapperInv, CallInv
  <2>4. CASE UNCHANGED vars
    BY <2>4 DEF vars, IInv, WrapperInv, CallInv
  <2> QED
    BY <2>1, <2>2, <2>3, <2>4 DEF Next
<1> QED
  BY <1>1, <1>2, PTL DEF Spec

-----------------------------------------------------------------------------
(* The result                                                              *)

(* feign.py:14-18: only what the annotation names is returned, and None    *)
(* stands for an absent body and never hides one that is there.            *)
LEMMA ResultFromBody ==
  ASSUME NEW returns \in {"none", "model", "list", "optional"},
         NEW body \in Bodies
  PROVE  LET value == Result(ReturnContract(returns), body)
         IN  CASE returns = "none" -> value = None
               [] returns = "optional" ->
                    /\ value \in {None, "model", "ServiceResponseError"}
                    /\ value = None <=> body \in {"empty", "null"}
               [] OTHER -> value \in {returns, "ServiceResponseError"}
<1> DEFINE value == Result(ReturnContract(returns), body)
<1>1. None \notin {"empty", "null", "model", "list", "garbage", "optional",
                  "ServiceResponseError"}
  BY NoneAssumption DEF Bodies
<1>2. CASE returns = "none"
  <2>1. value = None
    BY <1>2 DEF Result, ReturnContract
  <2> QED
    BY <1>2, <2>1
<1>3. CASE returns = "optional"
  <2>1. value = ParseResponse("optional", body)
    BY <1>3 DEF Result, ReturnContract
  <2>2. CASE body \in {"empty", "null"}
    <3>1. value = None
      BY <1>1, <2>1, <2>2 DEF ParseResponse
    <3> QED
      BY <1>3, <2>2, <3>1
  <2>3. CASE body = "model"
    <3>1. value = "model"
      BY <1>1, <2>1, <2>3 DEF ParseResponse
    <3> QED
      BY <1>1, <1>3, <2>3, <3>1
  <2>4. CASE body \in {"list", "garbage"}
    <3>1. value = "ServiceResponseError"
      BY <1>1, <2>1, <2>4 DEF ParseResponse
    <3> QED
      BY <1>1, <1>3, <2>4, <3>1
  <2> QED
    BY <2>2, <2>3, <2>4 DEF Bodies
<1>4. CASE returns \in {"model", "list"}
  <2>1. value = ParseResponse(returns, body)
    BY <1>4 DEF Result, ReturnContract
  <2>2. value \in {returns, "ServiceResponseError"}
    BY <1>1, <1>4, <2>1 DEF ParseResponse
  <2> QED
    BY <1>4, <2>2
<1> QED
  BY <1>2, <1>3, <1>4

(* Whichever call found out the contract, every call returns what its      *)
(* declaration says.                                                       *)
THEOREM ResultsAsDeclared == Spec => []ResultAsDeclared
<1>1. IInv => ResultAsDeclared
  <2> SUFFICES ASSUME IInv, NEW c \in Calls,
                      wire[c] # None, result[c] # None
               PROVE  LET value == result[c][1]
                          body  == result[c][2]
                      IN  CASE declared.returns = "none" -> value = None
                            [] declared.returns = "optional" ->
                                 /\ value \in {None, "model",
                                               "ServiceResponseError"}
                                 /\ value = None <=> body \in {"empty", "null"}
                            [] OTHER -> value \in {declared.returns,
                                                   "ServiceResponseError"}
    BY DEF ResultAsDeclared
  <2>1. PICK body \in Bodies :
          result[c] = <<Result(ReturnContract(declared.returns), body), body>>
    BY DEF IInv, CallInv
  <2>2. /\ result[c][1] = Result(ReturnContract(declared.returns), body)
        /\ result[c][2] = body
    BY <2>1
  <2>3. declared.returns \in {"none", "model", "list", "optional"}
    <3>1. declared \in Declarations /\ Declarable(declared)
      BY DEF IInv, WrapperInv, CallInv
    <3> QED
      BY <3>1, DeclarationAssumption DEF Declarable
  <2> QED
    BY <2>2, <2>3, ResultFromBody
<1> QED
  BY <1>1, Invariance, PTL

-----------------------------------------------------------------------------
(* The request                                                             *)

(* What a path is made of: characters, and the escapes of some.            *)
Letters == Characters \cup {"%3F", "%252F"}

(* The texts of paths.                                                     *)
Text == Seq(Letters)

(* Quoting leaves no slash, and decoding undoes it, whatever the text.     *)
LEMMA QuotedText ==
  ASSUME NEW t \in Seq(Characters)
  PROVE  Unquote(Quote(t)) = t /\ Quote(t) \in Text /\ Slashes(Quote(t)) = {}
<1> DEFINE code(c) == IF c \in DOMAIN Escape THEN Escape[c] ELSE c
           decode(c) == IF c \in Range(Escape)
                        THEN CHOOSE e \in DOMAIN Escape : Escape[e] = c
                        ELSE c
<1>1. /\ DOMAIN Escape = {"/", "?", "%2F"}
      /\ Escape["/"] = "%2F" /\ Escape["?"] = "%3F" /\ Escape["%2F"] = "%252F"
  BY DEF Escape
<1>2. Range(Escape) = {"%2F", "%3F", "%252F"}
  BY <1>1 DEF Range
<1>3. ASSUME NEW c \in Characters
      PROVE  decode(code(c)) = c /\ code(c) \in Letters /\ code(c) # "/"
  <2>1. c \notin {"%3F", "%252F"} /\ c \in Letters
    BY DEF Letters, Characters
  <2>2. CASE c \in {"/", "?", "%2F"}
    <3>1. \A e \in DOMAIN Escape : Escape[e] = code(c) <=> e = c
      BY <1>1, <2>2
    <3>2. code(c) \in Range(Escape) /\ c \in DOMAIN Escape
      BY <1>1, <1>2, <2>2
    <3>3. code(c) \in Letters /\ code(c) # "/"
      BY <1>2, <3>2, CharacterAssumption DEF Letters
    <3> QED
      BY <3>1, <3>2, <3>3
  <2>3. CASE c \notin {"/", "?", "%2F"}
    BY <1>1, <1>2, <2>1, <2>3
  <2> QED
    BY <2>2, <2>3
<1> HIDE DEF code, decode
<1>4. /\ t = [i \in DOMAIN t |-> t[i]] /\ Len(t) \in Nat /\ DOMAIN t = 1..Len(t)
      /\ \A i \in DOMAIN t : t[i] \in Characters
  OBVIOUS
<1>5. Quote(t) = [i \in DOMAIN t |-> code(t[i])]
  BY DEF Quote, code
<1>6. Unquote(Quote(t)) = [i \in DOMAIN t |-> decode(code(t[i]))]
  BY <1>5 DEF Unquote, decode
<1>7. Unquote(Quote(t)) = t
  BY <1>3, <1>4, <1>6
<1>8. Quote(t) \in Text
  BY <1>3, <1>4, <1>5 DEF Text
<1>9. Slashes(Quote(t)) = {}
  BY <1>3, <1>4, <1>5 DEF Slashes
<1> QED
  BY <1>7, <1>8, <1>9

(* A segment of a path is a placeholder, or it is not.                     *)
LEMMA PathSegments ==
  ASSUME NEW d \in Declarations, NEW i \in DOMAIN d.path
  PROVE  LET n == d.path[i].name
         IN  d.path[i] = IF d.path[i].placeholder THEN Placeholder(n)
                                                  ELSE Segment(n)
<1> DEFINE n == d.path[i].name
<1>1. d.path[i] = Segment(n) \/ d.path[i] = Placeholder(n)
  BY DeclarationAssumption
<1>2. Segment(n).placeholder = FALSE /\ Placeholder(n).placeholder = TRUE
  BY DEF Segment, Placeholder
<1> HIDE DEF n
<1> QED
  BY <1>1, <1>2 DEF n

(* The parts of an endpoint's spec: a parameter is a placeholder's, the    *)
(* body or a part of the query.                                            *)
LEMMA SpecParts ==
  ASSUME NEW d \in Declarations, Declarable(d)
  PROVE  LET s == BuildSpec(d)
         IN  /\ s.path_template = d.path /\ s.path_params = PathParams(d)
             /\ s.partial_update = (d.method = "PATCH")
             /\ s.body_params = BodyParams(d)
             /\ s.query_params = QueryParams(d)
             /\ \A n \in BodyParams(d) : /\ n \in DOMAIN d.params
                                         /\ d.params[n] = "model"
             /\ \A n \in DOMAIN d.params :
                  \/ /\ n \in Range(PathParams(d)) /\ d.params[n] = "str"
                     /\ n \notin QueryParams(d)
                  \/ /\ n \notin Range(PathParams(d)) /\ n \in BodyParams(d)
                     /\ n \notin QueryParams(d)
                  \/ /\ n \notin Range(PathParams(d)) /\ n \in QueryParams(d)
                     /\ d.params[n] # "model"
<1>1. \A n \in Range(PathParams(d)) : d.params[n] = "str"
  <2> SUFFICES ASSUME NEW i \in DOMAIN d.path, d.path[i].placeholder
               PROVE  d.params[d.path[i].name] = "str"
    BY DEF PathParams, Range
  <2> DEFINE n == d.path[i].name
  <2>1. n \in DOMAIN d.params
    BY DEF Declarable, PathParams, Range
  <2>2. d.path[i] = Placeholder(n)
    BY PathSegments
  <2>3. d.params[n] \in {"str", "unresolvable"}
    BY <2>1, <2>2, DeclarationAssumption
  <2>4. d.params[n] # "unresolvable"
    BY <2>1 DEF Declarable, Range
  <2> QED
    BY <2>3, <2>4
<1> QED
  BY <1>1 DEF BuildSpec, BodyParams, QueryParams

(* The placeholders of a path are its path parameters.                     *)
LEMMA PlaceholderNames ==
  ASSUME NEW d \in Declarations, NEW n
  PROVE  n \in Range(PathParams(d))
           <=> \E i \in DOMAIN d.path : d.path[i] = Placeholder(n)
<1>1. ASSUME NEW i \in DOMAIN d.path
      PROVE  d.path[i] = Placeholder(n)
               <=> d.path[i].placeholder /\ d.path[i].name = n
  <2>1. d.path[i] = Placeholder(n) => /\ d.path[i].placeholder
                                      /\ d.path[i].name = n
    BY DEF Placeholder
  <2> QED
    BY <2>1, PathSegments
<1> QED
  BY <1>1 DEF PathParams, Range

(* The request of a call: a body is the dump of the parameter that is a    *)
(* model, and the query has the parameters that are not None.              *)
LEMMA RequestParts ==
  ASSUME NEW d \in Declarations, Declarable(d), NEW a \in Arguments(d)
  PROVE  LET sent == Request(BuildSpec(d), a)
         IN  /\ \A i \in DOMAIN d.path :
                  d.path[i].placeholder =>
                    sent.path[i] = Quote(a[d.path[i].name])
             /\ DOMAIN sent.query = {n \in QueryParams(d) : a[n] # None}
             /\ \A n \in DOMAIN sent.query : sent.query[n] = a[n]
             /\ BodyParams(d) = {} => sent.json = None
             /\ BodyParams(d) # {} =>
                  \E n \in BodyParams(d) :
                    sent.json = ModelDump(a[n], d.method = "PATCH")
<1> DEFINE s == BuildSpec(d)
           n == CHOOSE n \in BodyParams(d) : TRUE
<1>1. /\ s.path_template = d.path /\ s.partial_update = (d.method = "PATCH")
      /\ s.body_params = BodyParams(d) /\ s.query_params = QueryParams(d)
  BY SpecParts
<1> HIDE DEF s
<1>2. Request(s, a).json = IF BodyParams(d) = {} THEN None
                           ELSE ModelDump(a[n], d.method = "PATCH")
  BY <1>1 DEF Request
<1>3. BodyParams(d) # {} => n \in BodyParams(d)
  OBVIOUS
<1>4. Request(s, a).query
        = [m \in {m \in QueryParams(d) : a[m] # None} |-> a[m]]
  BY <1>1 DEF Request, Restrict
<1>5. \A i \in DOMAIN d.path :
        d.path[i].placeholder =>
          Request(s, a).path[i] = Quote(a[d.path[i].name])
  BY <1>1 DEF Request
<1> HIDE DEF n
<1> QED
  BY <1>2, <1>3, <1>4, <1>5 DEF s

(* A call that has made its sent.                                       *)
LEMMA CallMade ==
  ASSUME IInv, NEW c \in Calls, wire[c] # None
  PROVE  /\ declared \in Declarations /\ Declarable(declared)
         /\ args[c] \in Arguments(declared)
         /\ DOMAIN args[c] = DOMAIN declared.params
         /\ Unfilled(BuildSpec(declared), args[c]) = {}
         /\ wire[c] = Request(BuildSpec(declared), args[c])
BY ArgumentAssumption DEF IInv, WrapperInv, CallInv

(* A PATCH carries the fields its caller set and no other, a PUT or POST   *)
(* all the fields of the model.                                            *)
THEOREM BodiesAsTheMethodsSay == Spec => []BodyAsTheMethodSays
<1>1. IInv => BodyAsTheMethodSays
  <2> SUFFICES ASSUME IInv, NEW c \in Calls,
                      wire[c] # None, wire[c].json # None
               PROVE  \E n \in DOMAIN args[c] :
                        /\ declared.params[n] = "model"
                        /\ DOMAIN wire[c].json =
                             IF declared.method = "PATCH"
                             THEN DOMAIN args[c][n].set ELSE args[c][n].fields
                        /\ \A f \in DOMAIN args[c][n].set :
                             wire[c].json[f] = args[c][n].set[f]
    BY DEF BodyAsTheMethodSays
  <2> DEFINE d == declared
             a == args[c]
  <2>1. /\ d \in Declarations /\ Declarable(d) /\ a \in Arguments(d)
        /\ DOMAIN a = DOMAIN d.params /\ wire[c] = Request(BuildSpec(d), a)
    BY CallMade
  <2>2. PICK n \in BodyParams(d) :
          wire[c].json = ModelDump(a[n], d.method = "PATCH")
    BY <2>1, RequestParts
  <2>3. n \in DOMAIN a /\ d.params[n] = "model"
    BY <2>1, <2>2, SpecParts
  <2>4. DOMAIN a[n].set \subseteq a[n].fields
    BY <2>1, <2>3, ArgumentAssumption
  <2> HIDE DEF d, a
  <2>5. /\ DOMAIN wire[c].json = IF d.method = "PATCH" THEN DOMAIN a[n].set
                                                       ELSE a[n].fields
        /\ \A f \in DOMAIN a[n].set : wire[c].json[f] = a[n].set[f]
    BY <2>2, <2>4 DEF ModelDump
  <2> QED
    BY <2>3, <2>5 DEF d, a
<1> QED
  BY <1>1, Invariance, PTL

(* Every argument that has a value is in one place of the request, and no  *)
(* parameter that is None reaches the query.                               *)
THEOREM ArgumentsAreSentOnce == Spec => []ArgumentsSentOnce
<1>1. IInv => ArgumentsSentOnce
  <2> SUFFICES ASSUME IInv, NEW c \in Calls, wire[c] # None
               PROVE  /\ \A n \in DOMAIN args[c] :
                           args[c][n] # None => Cardinality(Places(c, n)) = 1
                      /\ \A n \in DOMAIN wire[c].query : args[c][n] # None
    BY DEF ArgumentsSentOnce
  <2> DEFINE d == declared
             a == args[c]
  <2>1. /\ d \in Declarations /\ Declarable(d) /\ a \in Arguments(d)
        /\ DOMAIN a = DOMAIN d.params /\ wire[c] = Request(BuildSpec(d), a)
    BY CallMade
  <2>2. /\ DOMAIN wire[c].query = {n \in QueryParams(d) : a[n] # None}
        /\ \A n \in DOMAIN wire[c].query : wire[c].query[n] = a[n]
    BY <2>1, RequestParts
  <2>3. ASSUME NEW n \in DOMAIN a, a[n] # None
        PROVE  Cardinality(Places(c, n)) = 1
    <3> DEFINE InPath == \E i \in DOMAIN d.path :
                           /\ d.path[i] = Placeholder(n)
                           /\ Unquote(wire[c].path[i]) = a[n]
               InQuery == n \in DOMAIN wire[c].query /\ wire[c].query[n] = a[n]
               InBody == d.params[n] = "model" /\ wire[c].json # None
    <3>1. Places(c, n) = (IF InPath THEN {"path"} ELSE {})
                           \cup (IF InQuery THEN {"query"} ELSE {})
                           \cup (IF InBody THEN {"body"} ELSE {})
      BY DEF Places
    <3>2. InQuery <=> n \in QueryParams(d)
      BY <2>2, <2>3
    <3>3. InPath <=> n \in Range(PathParams(d))
      <4>1. ASSUME NEW i \in DOMAIN d.path, d.path[i] = Placeholder(n),
                   n \in Range(PathParams(d))
            PROVE  Unquote(wire[c].path[i]) = a[n]
        <5>1. a[n] \in Seq(Characters)
          BY <2>1, <2>3, <4>1, SpecParts, ArgumentAssumption
        <5>2. wire[c].path[i] = Quote(a[n])
          BY <2>1, <4>1, RequestParts DEF Placeholder
        <5> QED
          BY <5>1, <5>2, QuotedText
      <4> QED
        BY <2>1, <4>1, PlaceholderNames
    <3>4. n \in BodyParams(d) => InBody
      <4> SUFFICES ASSUME n \in BodyParams(d) PROVE InBody
        OBVIOUS
      <4>1. PICK m \in BodyParams(d) :
              wire[c].json = ModelDump(a[m], d.method = "PATCH")
        BY <2>1, RequestParts
      <4>2. m \in DOMAIN a /\ d.params[m] = "model" /\ d.params[n] = "model"
        BY <2>1, <4>1, SpecParts
      <4>3. ModelDump(a[m], d.method = "PATCH") # None
        BY <2>1, <4>2, ArgumentAssumption
      <4> QED
        BY <4>1, <4>2, <4>3
    <3>5. \/ InPath /\ ~InQuery /\ ~InBody
          \/ ~InPath /\ InQuery /\ ~InBody
          \/ ~InPath /\ ~InQuery /\ InBody
      <4>1. d.params[n] = "str" => d.params[n] # "model"
        OBVIOUS
      <4> HIDE DEF InPath, InQuery
      <4>2. d.params[n] # "model" => ~InBody
        OBVIOUS
      <4> HIDE DEF InBody
      <4> QED
        BY <2>1, <2>3, <3>2, <3>3, <3>4, <4>1, <4>2, SpecParts
    <3> HIDE DEF InPath, InQuery, InBody
    <3>6. \E place : Places(c, n) = {place}
      BY <3>1, <3>5
    <3> QED
      BY <3>6, FS_Singleton
  <2> QED
    BY <2>2, <2>3
<1> QED
  BY <1>1, Invariance, PTL

-----------------------------------------------------------------------------
(* A path as one text, and its segments                                    *)

(* The members of a set up to one of them.                                 *)
Upto(S, i) == {j \in S : j <= i}

(* Nth counts through a set of two, three or four numbers.                 *)
LEMMA NthOfTwo ==
  ASSUME NEW S, NEW a \in Nat, NEW b \in Nat, a < b, S = {a, b}
  PROVE  /\ IsFiniteSet(S) /\ Cardinality(S) = 2
         /\ Nth(S, 1) = a /\ Nth(S, 2) = b
<1>1. IsFiniteSet({a}) /\ Cardinality({a}) = 1
  BY FS_Singleton
<1>2. IsFiniteSet(S) /\ Cardinality(S) = 2
  <2>1. S = {a} \cup {b}
    OBVIOUS
  <2> QED
    BY <1>1, <2>1, FS_AddElement
<1>3. Upto(S, a) = {a} /\ Upto(S, b) = S
  BY DEF Upto
<1>4. \A i \in S : /\ i = a => Cardinality(Upto(S, i)) = 1
                   /\ i = b => Cardinality(Upto(S, i)) = 2
  BY <1>1, <1>2, <1>3
<1> QED
  BY <1>2, <1>4 DEF Nth, Upto

(* Nth of three numbers.                                                   *)
LEMMA NthOfThree ==
  ASSUME NEW S, NEW a \in Nat, NEW b \in Nat, NEW c \in Nat, a < b, b < c,
         S = {a, b, c}
  PROVE  /\ IsFiniteSet(S) /\ Cardinality(S) = 3
         /\ Nth(S, 1) = a /\ Nth(S, 2) = b /\ Nth(S, 3) = c
<1> DEFINE T == Upto(S, b)
<1>1. T = {a, b} /\ Upto(S, a) = {a} /\ Upto(S, c) = S
  BY DEF Upto
<1> HIDE DEF T
<1>2. IsFiniteSet(T) /\ Cardinality(T) = 2
  BY <1>1, NthOfTwo
<1>3. IsFiniteSet(S) /\ Cardinality(S) = 3
  <2>1. S = T \cup {c} /\ c \notin T
    BY <1>1
  <2> QED
    BY <1>2, <2>1, FS_AddElement
<1>4. Cardinality({a}) = 1
  BY FS_Singleton
<1>5. \A i \in S : /\ i = a => Cardinality(Upto(S, i)) = 1
                   /\ i = b => Cardinality(Upto(S, i)) = 2
                   /\ i = c => Cardinality(Upto(S, i)) = 3
  BY <1>1, <1>2, <1>3, <1>4 DEF T
<1> QED
  BY <1>3, <1>5 DEF Nth, Upto

(* Nth of four numbers.                                                    *)
LEMMA NthOfFour ==
  ASSUME NEW S, NEW a \in Nat, NEW b \in Nat, NEW c \in Nat, NEW d \in Nat,
         a < b, b < c, c < d, S = {a, b, c, d}
  PROVE  /\ IsFiniteSet(S) /\ Cardinality(S) = 4
         /\ Nth(S, 1) = a /\ Nth(S, 2) = b /\ Nth(S, 3) = c /\ Nth(S, 4) = d
<1> DEFINE T == Upto(S, b)
           U == Upto(S, c)
<1>1. T = {a, b} /\ U = {a, b, c} /\ Upto(S, a) = {a} /\ Upto(S, d) = S
  BY DEF Upto
<1> HIDE DEF T, U
<1>2. Cardinality(T) = 2 /\ IsFiniteSet(U) /\ Cardinality(U) = 3
  BY <1>1, NthOfTwo, NthOfThree
<1>3. IsFiniteSet(S) /\ Cardinality(S) = 4
  <2>1. S = U \cup {d} /\ d \notin U
    BY <1>1
  <2> QED
    BY <1>2, <2>1, FS_AddElement
<1>4. Cardinality({a}) = 1
  BY FS_Singleton
<1>5. \A i \in S : /\ i = a => Cardinality(Upto(S, i)) = 1
                   /\ i = b => Cardinality(Upto(S, i)) = 2
                   /\ i = c => Cardinality(Upto(S, i)) = 3
                   /\ i = d => Cardinality(Upto(S, i)) = 4
  BY <1>1, <1>2, <1>3, <1>4 DEF T, U
<1> QED
  BY <1>3, <1>5 DEF Nth, Upto

(* What stands between two cuts of a text.                                 *)
Piece(x, i, j) == SubSeq(x, i + 1, j - 1)

(* Split in terms of pieces.                                               *)
LEMMA SplitByCuts ==
  ASSUME NEW x \in Text, NEW S, S = Slashes(x) \cup {0, Len(x) + 1}
  PROVE  Split(x) = [n \in 1..(Cardinality(S) - 1) |->
                       Piece(x, Nth(S, n), Nth(S, n + 1))]
BY DEF Split, Piece

(* A text splits at its slashes.                                           *)
LEMMA SplitAtNone ==
  ASSUME NEW x \in Text, Slashes(x) = {}
  PROVE  Split(x) = <<x>>
<1> DEFINE e == Len(x) + 1
           S == {0, e}
<1>1. e \in Nat /\ 0 < e /\ S = {0, e} /\ S = Slashes(x) \cup {0, Len(x) + 1}
  BY DEF Text
<1> HIDE DEF S, e
<1>2. Split(x) = [n \in 1..(Cardinality(S) - 1) |->
                    Piece(x, Nth(S, n), Nth(S, n + 1))]
  BY <1>1, SplitByCuts
<1>3. Cardinality(S) = 2 /\ Nth(S, 1) = 0 /\ Nth(S, 2) = e
  BY <1>1, NthOfTwo
<1>4. Split(x) = [n \in 1..1 |-> Piece(x, 0, e)]
  BY <1>2, <1>3
<1>5. Piece(x, 0, e) = x
  <2>1. Piece(x, 0, e) = SubSeq(x, 1, Len(x))
    BY DEF Piece, e, Text
  <2> QED
    BY <2>1, SubSeqFull DEF Text
<1> QED
  BY <1>4, <1>5

(* A text with one slash has two segments.                                 *)
LEMMA SplitAtOne ==
  ASSUME NEW x \in Text, NEW p \in 1..Len(x), Slashes(x) = {p}
  PROVE  Split(x) = <<Piece(x, 0, p), Piece(x, p, Len(x) + 1)>>
<1> DEFINE e == Len(x) + 1
           S == {0, p, e}
<1>1. /\ e \in Nat /\ p \in Nat /\ 0 < p /\ p < e
      /\ S = {0, p, e} /\ S = Slashes(x) \cup {0, Len(x) + 1}
  BY DEF Text
<1> HIDE DEF S
<1>2. Split(x) = [n \in 1..(Cardinality(S) - 1) |->
                    Piece(x, Nth(S, n), Nth(S, n + 1))]
  BY <1>1, SplitByCuts
<1> HIDE DEF e
<1>3. /\ Cardinality(S) = 3
      /\ Nth(S, 1) = 0 /\ Nth(S, 2) = p /\ Nth(S, 3) = e
  BY <1>1, NthOfThree
<1>4. /\ Split(x) = [n \in 1..2 |-> Piece(x, Nth(S, n), Nth(S, n + 1))]
  BY <1>2, <1>3
<1>5. Split(x)[1] = Piece(x, 0, p) /\ Split(x)[2] = Piece(x, p, e)
  BY <1>3, <1>4
<1> QED
  BY <1>4, <1>5 DEF e

(* A text with two slashes has three.                                      *)
LEMMA SplitAtTwo ==
  ASSUME NEW x \in Text, NEW p \in 1..Len(x), NEW q \in 1..Len(x), p < q,
         Slashes(x) = {p, q}
  PROVE  Split(x) = <<Piece(x, 0, p), Piece(x, p, q), Piece(x, q, Len(x) + 1)>>
<1> DEFINE e == Len(x) + 1
           S == {0, p, q, e}
<1>1. /\ e \in Nat /\ p \in Nat /\ q \in Nat /\ 0 < p /\ p < q /\ q < e
      /\ S = {0, p, q, e} /\ S = Slashes(x) \cup {0, Len(x) + 1}
  BY DEF Text
<1> HIDE DEF S
<1>2. Split(x) = [n \in 1..(Cardinality(S) - 1) |->
                    Piece(x, Nth(S, n), Nth(S, n + 1))]
  BY <1>1, SplitByCuts
<1> HIDE DEF e
<1>3. /\ Cardinality(S) = 4
      /\ Nth(S, 1) = 0 /\ Nth(S, 2) = p /\ Nth(S, 3) = q /\ Nth(S, 4) = e
  <2>1. /\ e \in Nat /\ p \in Nat /\ q \in Nat /\ 0 \in Nat
        /\ 0 < p /\ p < q /\ q < e /\ S = {0, p, q, e}
    BY <1>1
  <2> QED
    BY <2>1, NthOfFour
<1>4. /\ Split(x) = [n \in 1..3 |-> Piece(x, Nth(S, n), Nth(S, n + 1))]
  BY <1>2, <1>3
<1>5. /\ Split(x)[1] = Piece(x, 0, p) /\ Split(x)[2] = Piece(x, p, q)
      /\ Split(x)[3] = Piece(x, q, e)
  BY <1>3, <1>4
<1> QED
  BY <1>4, <1>5 DEF e

(* A path has one segment more than its text has slashes.                  *)
LEMMA SplitLength ==
  ASSUME NEW x \in Text
  PROVE  /\ IsFiniteSet(Slashes(x)) /\ Cardinality(Slashes(x)) \in Nat
         /\ Len(Split(x)) = Cardinality(Slashes(x)) + 1
         /\ DOMAIN Split(x) = 1..(Cardinality(Slashes(x)) + 1)
<1> DEFINE e == Len(x) + 1
           S == Slashes(x) \cup {0, e}
<1>1. IsFiniteSet(Slashes(x)) /\ Cardinality(Slashes(x)) \in Nat
  <2>1. Slashes(x) \subseteq 1..Len(x) /\ Len(x) \in Nat
    BY DEF Slashes, Text
  <2>2. IsFiniteSet(1..Len(x))
    BY <2>1, FS_Interval
  <2>3. IsFiniteSet(Slashes(x))
    BY <2>1, <2>2, FS_Subset
  <2> QED
    BY <2>3, FS_CardinalityType
<1>2. Cardinality(S) = Cardinality(Slashes(x)) + 2
  <2>1. /\ 0 \notin Slashes(x) /\ e \notin Slashes(x) \cup {0}
        /\ S = (Slashes(x) \cup {0}) \cup {e}
    BY DEF Slashes, Text
  <2> HIDE DEF S
  <2>2. /\ IsFiniteSet(Slashes(x) \cup {0})
        /\ Cardinality(Slashes(x) \cup {0}) = Cardinality(Slashes(x)) + 1
    BY <1>1, <2>1, FS_AddElement
  <2>3. Cardinality((Slashes(x) \cup {0}) \cup {e})
          = Cardinality(Slashes(x) \cup {0}) + 1
    BY <2>1, <2>2, FS_AddElement
  <2> QED
    BY <1>1, <2>1, <2>2, <2>3
<1>3. Split(x) = [n \in 1..(Cardinality(S) - 1) |->
                    Piece(x, Nth(S, n), Nth(S, n + 1))]
  BY SplitByCuts
<1> HIDE DEF S
<1>4. DOMAIN Split(x) = 1..(Cardinality(Slashes(x)) + 1)
  BY <1>1, <1>2, <1>3
<1> QED
  BY <1>1, <1>4

(* Two texts with a slash between them.                                    *)
Slash(x, y) == x \o <<"/">> \o y

(* What Join computes, up to the k-th segment.                             *)
Joins(join, path, k) ==
  join = [n \in 0..k |-> IF n = 0 THEN <<>>
                         ELSE IF n = 1 THEN path[1]
                         ELSE Slash(join[n - 1], path[n])]

(* There is one, and what it is for one, two and three segments.           *)
LEMMA JoinsOfFew ==
  ASSUME NEW path, NEW k \in {1, 2, 3}
  PROVE  /\ \E join : Joins(join, path, k)
         /\ \A join : Joins(join, path, k) =>
              join[k] = IF k = 1 THEN path[1]
                        ELSE IF k = 2 THEN Slash(path[1], path[2])
                        ELSE Slash(Slash(path[1], path[2]), path[3])
<1> DEFINE two == Slash(path[1], path[2])
           three == Slash(two, path[3])
           value(n) == IF n = 0 THEN <<>> ELSE IF n = 1 THEN path[1]
                       ELSE IF n = 2 THEN two ELSE three
           given == [n \in 0..k |-> value(n)]
           step(join, n) == IF n = 0 THEN <<>> ELSE IF n = 1 THEN path[1]
                            ELSE Slash(join[n - 1], path[n])
<1>1. ASSUME NEW n \in 0..k
      PROVE  value(n) = step(given, n)
  <2>1. n \in {0, 1, 2, 3}
    OBVIOUS
  <2>2. CASE n = 2
    <3>1. given[1] = path[1]
      BY <2>2
    <3> QED
      BY <2>2, <3>1
  <2>3. CASE n = 3
    <3>1. given[2] = two
      BY <2>3
    <3> QED
      BY <2>3, <3>1
  <2> QED
    BY <2>1, <2>2, <2>3
<1>2. Joins(given, path, k)
  <2> HIDE DEF value, step
  <2>1. given = [n \in 0..k |-> step(given, n)]
    BY <1>1
  <2> QED
    BY <2>1 DEF Joins, step
<1>3. ASSUME NEW join, Joins(join, path, k)
      PROVE  join[k] = value(k)
  <2>1. \A n \in 0..k : join[n] = step(join, n)
    BY <1>3 DEF Joins
  <2>2. join[1] = path[1]
    BY <2>1
  <2>3. k > 1 => join[2] = Slash(join[1], path[2])
    BY <2>1
  <2>4. k > 2 => join[3] = Slash(join[2], path[3])
    BY <2>1
  <2> QED
    BY <2>2, <2>3, <2>4
<1> QED
  BY <1>2, <1>3

(* The text of a path of one, two or three segments.                       *)
LEMMA JoinOfFew ==
  /\ \A a : Join(<<a>>) = a
  /\ \A a, b : Join(<<a, b>>) = Slash(a, b)
  /\ \A a, b, c : Join(<<a, b, c>>) = Slash(Slash(a, b), c)
<1>1. ASSUME NEW path, NEW k \in {1, 2, 3}, Len(path) = k
      PROVE  Join(path) = IF k = 1 THEN path[1]
                          ELSE IF k = 2 THEN Slash(path[1], path[2])
                          ELSE Slash(Slash(path[1], path[2]), path[3])
  <2> DEFINE join == CHOOSE join : Joins(join, path, k)
  <2>1. Join(path) = join[k]
    BY <1>1 DEF Join, Joins, Slash
  <2>2. Joins(join, path, k)
    BY JoinsOfFew
  <2> HIDE DEF join
  <2> QED
    BY <2>1, <2>2, JoinsOfFew
<1>2. ASSUME NEW a PROVE Join(<<a>>) = a
  <2> DEFINE path == <<a>>
  <2>1. Len(path) = 1 /\ path[1] = a
    OBVIOUS
  <2> HIDE DEF path
  <2> QED
    BY <1>1, <2>1 DEF path
<1>3. ASSUME NEW a, NEW b PROVE Join(<<a, b>>) = Slash(a, b)
  <2> DEFINE path == <<a, b>>
  <2>1. Len(path) = 2 /\ path[1] = a /\ path[2] = b
    OBVIOUS
  <2> HIDE DEF path
  <2>2. Join(path) = Slash(a, b)
    BY <1>1, <2>1
  <2> QED
    BY <2>2 DEF path
<1>4. ASSUME NEW a, NEW b, NEW c
      PROVE  Join(<<a, b, c>>) = Slash(Slash(a, b), c)
  <2> DEFINE path == <<a, b, c>>
  <2>1. Len(path) = 3 /\ path[1] = a /\ path[2] = b /\ path[3] = c
    OBVIOUS
  <2> HIDE DEF path
  <2>2. Join(path) = Slash(Slash(a, b), c)
    BY <1>1, <2>1
  <2> QED
    BY <2>2 DEF path
<1> QED
  BY <1>2, <1>3, <1>4

(* The characters of two texts with a slash between them.                  *)
LEMMA SlashParts ==
  ASSUME NEW x \in Text, NEW y \in Text
  PROVE  LET s == Slash(x, y)
         IN  /\ s \in Text /\ Len(s) = Len(x) + Len(y) + 1
             /\ \A i \in 1..Len(s) : s[i] = IF i <= Len(x) THEN x[i]
                                            ELSE IF i = Len(x) + 1 THEN "/"
                                            ELSE y[i - Len(x) - 1]
<1> DEFINE u == x \o <<"/">>
           s == Slash(x, y)
<1>1. <<"/">> \in Text /\ Len(<<"/">>) = 1 /\ <<"/">>[1] = "/"
  BY CharacterAssumption DEF Text, Letters
<1>2. /\ u \in Text /\ Len(u) = Len(x) + 1
      /\ \A i \in 1..(Len(x) + 1) : u[i] = IF i <= Len(x) THEN x[i] ELSE "/"
  <2>1. /\ u \in Text /\ Len(u) = Len(x) + Len(<<"/">>)
        /\ \A i \in 1..(Len(x) + Len(<<"/">>)) :
             u[i] = IF i <= Len(x) THEN x[i] ELSE <<"/">>[i - Len(x)]
    BY <1>1, ConcatProperties DEF Text
  <2> HIDE DEF u
  <2>2. Len(x) \in Nat
    BY DEF Text
  <2> QED
    BY <1>1, <2>1, <2>2
<1>3. s = u \o y
  BY DEF Slash
<1> HIDE DEF u, s
<1>4. /\ s \in Text /\ Len(s) = Len(u) + Len(y)
      /\ \A i \in 1..(Len(u) + Len(y)) :
           s[i] = IF i <= Len(u) THEN u[i] ELSE y[i - Len(u)]
  BY <1>2, <1>3, ConcatProperties DEF Text
<1>5. Len(x) \in Nat /\ Len(y) \in Nat
  BY DEF Text
<1>6. ASSUME NEW i \in 1..Len(s)
      PROVE  s[i] = IF i <= Len(x) THEN x[i]
                    ELSE IF i = Len(x) + 1 THEN "/" ELSE y[i - Len(x) - 1]
  <2>1. i > Len(x) + 1 => i - Len(u) = i - Len(x) - 1
    BY <1>2, <1>5
  <2> QED
    BY <1>2, <1>4, <1>5, <2>1
<1> QED
  BY <1>2, <1>4, <1>5, <1>6 DEF s

(* The slashes of two texts joined by one, and what stands between them.   *)
LEMMA SlashPieces ==
  ASSUME NEW x \in Text, NEW y \in Text
  PROVE  LET s == Slash(x, y)
         IN  /\ Slashes(s) = Slashes(x) \cup {Len(x) + 1}
                               \cup {Len(x) + 1 + i : i \in Slashes(y)}
             /\ Piece(s, Len(x) + 1, Len(s) + 1) = y
             /\ \A i \in 0..Len(x), j \in 1..(Len(x) + 1) :
                  Piece(s, i, j) = Piece(x, i, j)
<1> DEFINE s == Slash(x, y)
           m == Len(x) + 1
<1>1. /\ s \in Text /\ Len(s) = Len(x) + Len(y) + 1
      /\ \A i \in 1..Len(s) : s[i] = IF i <= Len(x) THEN x[i]
                                     ELSE IF i = Len(x) + 1 THEN "/"
                                     ELSE y[i - Len(x) - 1]
  BY SlashParts
<1>2. /\ Len(x) \in Nat /\ Len(y) \in Nat
      /\ DOMAIN x = 1..Len(x) /\ DOMAIN y = 1..Len(y) /\ DOMAIN s = 1..Len(s)
  BY <1>1 DEF Text
<1> HIDE DEF s
<1>3. Slashes(s) = Slashes(x) \cup {m} \cup {m + i : i \in Slashes(y)}
  <2>1. ASSUME NEW i \in Slashes(s)
        PROVE  i \in Slashes(x) \cup {m} \cup {m + j : j \in Slashes(y)}
    <3>1. i \in 1..Len(s) /\ s[i] = "/"
      BY <1>2 DEF Slashes
    <3>2. CASE i > m
      <4>1. i - m \in 1..Len(y) /\ y[i - m] = "/" /\ i = m + (i - m)
        BY <1>1, <1>2, <3>1, <3>2
      <4>2. i - m \in Slashes(y)
        BY <1>2, <4>1 DEF Slashes
      <4> QED
        BY <4>1, <4>2
    <3>3. CASE i < m
      BY <1>1, <1>2, <3>1, <3>3 DEF Slashes
    <3> QED
      BY <1>2, <3>1, <3>2, <3>3
  <2>2. ASSUME NEW i \in Slashes(x) \cup {m} \cup {m + j : j \in Slashes(y)}
        PROVE  i \in Slashes(s)
    <3>1. CASE i \in Slashes(x)
      BY <1>1, <1>2, <3>1 DEF Slashes
    <3>2. CASE i = m
      BY <1>1, <1>2, <3>2 DEF Slashes
    <3>3. ASSUME NEW j \in Slashes(y), i = m + j PROVE i \in Slashes(s)
      <4>1. j \in 1..Len(y) /\ y[j] = "/" /\ i \in 1..Len(s)
            /\ i - Len(x) - 1 = j
        BY <1>1, <1>2, <3>3 DEF Slashes
      <4>2. s[i] = "/"
        BY <1>1, <1>2, <3>3, <4>1
      <4> QED
        BY <1>2, <4>1, <4>2 DEF Slashes
    <3> QED
      BY <3>1, <3>2, <3>3
  <2> QED
    BY <2>1, <2>2
<1>4. Piece(s, m, Len(s) + 1) = y
  <2> DEFINE w == SubSeq(s, m + 1, Len(s))
  <2>1. /\ w \in Seq(Letters) /\ Len(w) = Len(y)
        /\ \A i \in 1..Len(y) : w[i] = s[m + i]
    <3>1. \A i \in (m + 1)..Len(s) : s[i] \in Letters
      BY <1>1, <1>2 DEF Text
    <3>2. m + 1 \in Int /\ Len(s) \in Int
      BY <1>1, <1>2
    <3>3. /\ w \in Seq(Letters)
          /\ Len(w) = IF m + 1 <= Len(s) THEN Len(s) - (m + 1) + 1 ELSE 0
          /\ \A i \in 1..(Len(s) - (m + 1) + 1) : w[i] = s[m + 1 + i - 1]
      BY <3>1, <3>2, SubSeqProperties
    <3> HIDE DEF w
    <3>4. Len(s) - (m + 1) + 1 = Len(y)
      BY <1>1, <1>2
    <3>5. \A i \in 1..Len(y) : m + 1 + i - 1 = m + i
      BY <1>2
    <3> QED
      BY <1>1, <1>2, <3>3, <3>4, <3>5
  <2> HIDE DEF w
  <2>2. \A i \in 1..Len(y) : w[i] = y[i]
    <3> SUFFICES ASSUME NEW i \in 1..Len(y) PROVE w[i] = y[i]
      OBVIOUS
    <3>1. /\ m + i \in 1..Len(s) /\ ~(m + i <= Len(x)) /\ m + i # m
          /\ (m + i) - Len(x) - 1 = i
      BY <1>1, <1>2
    <3>2. s[m + i] = y[(m + i) - Len(x) - 1]
      BY <1>1, <3>1
    <3> QED
      BY <2>1, <3>1, <3>2
  <2>3. w = y
    BY <2>1, <2>2, SeqEqual DEF Text
  <2>4. Piece(s, m, Len(s) + 1) = w
    BY <1>1, <1>2 DEF Piece, w
  <2> QED
    BY <2>3, <2>4
<1>5. ASSUME NEW i \in 0..Len(x), NEW j \in 1..(Len(x) + 1)
      PROVE  Piece(s, i, j) = Piece(x, i, j)
  <2>1. \A n \in (i + 1)..(j - 1) : s[n] = x[n]
    BY <1>1, <1>2
  <2> QED
    BY <1>1, <1>2, <2>1 DEF Piece
<1> QED
  BY <1>3, <1>4, <1>5 DEF s

(* The path that is joined is found again, if no segment has a slash.      *)
LEMMA SplitOfTwo ==
  ASSUME NEW x \in Text, NEW y \in Text, Slashes(x) = {}, Slashes(y) = {}
  PROVE  Split(Slash(x, y)) = <<x, y>>
<1> DEFINE s == Slash(x, y)
           p == Len(x) + 1
<1>1. s \in Text /\ p \in 1..Len(s)
  BY SlashParts DEF Text
<1>2. /\ Slashes(s) = {p} /\ Piece(s, p, Len(s) + 1) = y
      /\ Piece(s, 0, p) = Piece(x, 0, p)
  <2>1. Len(x) \in Nat
    BY DEF Text
  <2> QED
    BY <2>1, SlashPieces
<1> HIDE DEF s
<1>3. Piece(x, 0, p) = x
  <2>1. Piece(x, 0, p) = SubSeq(x, 1, Len(x))
    BY DEF Piece, Text
  <2> QED
    BY <2>1, SubSeqFull DEF Text
<1> HIDE DEF p
<1>4. Split(s) = <<Piece(s, 0, p), Piece(s, p, Len(s) + 1)>>
  BY <1>1, <1>2, SplitAtOne
<1> QED
  BY <1>2, <1>3, <1>4 DEF s

(* Three texts without a slash, joined, split into themselves.             *)
LEMMA SplitOfThree ==
  ASSUME NEW x \in Text, NEW y \in Text, NEW z \in Text,
         Slashes(x) = {}, Slashes(y) = {}, Slashes(z) = {}
  PROVE  Split(Slash(Slash(x, y), z)) = <<x, y, z>>
<1> DEFINE u == Slash(x, y)
           s == Slash(u, z)
           p == Len(x) + 1
           q == Len(u) + 1
<1>0. Len(x) \in Nat /\ Len(y) \in Nat
  BY DEF Text
<1>1. u \in Text /\ Len(u) = Len(x) + Len(y) + 1
  BY SlashParts
<1>2. /\ Slashes(u) = {p} /\ Piece(u, p, q) = y
      /\ Piece(u, 0, p) = Piece(x, 0, p)
  <2>1. 0 \in 0..Len(x) /\ p \in 1..(Len(x) + 1)
    BY <1>0
  <2>2. {Len(x) + 1 + i : i \in Slashes(y)} = {}
    OBVIOUS
  <2>3. /\ Slashes(u) = Slashes(x) \cup {Len(x) + 1}
                          \cup {Len(x) + 1 + i : i \in Slashes(y)}
        /\ Piece(u, Len(x) + 1, Len(u) + 1) = y
        /\ \A i \in 0..Len(x), j \in 1..(Len(x) + 1) :
             Piece(u, i, j) = Piece(x, i, j)
    BY SlashPieces
  <2> HIDE DEF u
  <2> QED
    BY <2>1, <2>2, <2>3
<1> HIDE DEF u
<1>3. s \in Text /\ Len(s) = Len(u) + Len(z) + 1
  BY <1>1, SlashParts
<1>4. /\ Slashes(s) = Slashes(u) \cup {q}
      /\ Piece(s, q, Len(s) + 1) = z
      /\ \A i \in 0..Len(u), j \in 1..q : Piece(s, i, j) = Piece(u, i, j)
  <2>1. {Len(u) + 1 + i : i \in Slashes(z)} = {}
    OBVIOUS
  <2>2. /\ Slashes(s) = Slashes(u) \cup {Len(u) + 1}
                          \cup {Len(u) + 1 + i : i \in Slashes(z)}
        /\ Piece(s, Len(u) + 1, Len(s) + 1) = z
        /\ \A i \in 0..Len(u), j \in 1..(Len(u) + 1) :
             Piece(s, i, j) = Piece(u, i, j)
    BY <1>1, SlashPieces
  <2> HIDE DEF s
  <2> QED
    BY <2>1, <2>2
<1> HIDE DEF s
<1>5. Piece(x, 0, p) = x
  <2>1. Piece(x, 0, p) = SubSeq(x, 1, Len(x))
    BY DEF Piece, Text
  <2> QED
    BY <2>1, SubSeqFull DEF Text
<1>6. p \in 1..Len(s) /\ q \in 1..Len(s) /\ p < q /\ p <= Len(u)
  BY <1>0, <1>1, <1>3 DEF Text
<1>7. Piece(s, 0, p) = x /\ Piece(s, p, q) = y
  BY <1>0, <1>1, <1>2, <1>4, <1>5, <1>6
<1>8. Slashes(s) = {p, q}
  BY <1>2, <1>4
<1> HIDE DEF p, q
<1>9. Split(s) = <<Piece(s, 0, p), Piece(s, p, q), Piece(s, q, Len(s) + 1)>>
  BY <1>3, <1>6, <1>8, SplitAtTwo
<1> QED
  BY <1>4, <1>7, <1>9 DEF s, u

(* The names of the templates are texts without a slash.                   *)
LEMMA PlainTexts ==
  /\ Seq(Characters) \subseteq Text
  /\ \A name \in {"flows", "users", "by-username", "with-owner"} :
       <<name>> \in Seq(Characters) /\ Slashes(<<name>>) = {}
<1>1. Seq(Characters) \subseteq Text
  BY SeqMonotonic DEF Text, Letters
<1>2. ASSUME NEW name \in {"flows", "users", "by-username", "with-owner"}
      PROVE  <<name>> \in Seq(Characters) /\ Slashes(<<name>>) = {}
  BY CharacterAssumption DEF Slashes
<1> QED
  BY <1>1, <1>2

(* A piece between neighbouring cuts has no slash.                         *)
LEMMA PieceIsPlain ==
  ASSUME NEW s \in Seq(Characters),
         NEW i \in 0..Len(s), NEW j \in 1..(Len(s) + 1),
         \A k \in Slashes(s) : k <= i \/ j <= k
  PROVE  Piece(s, i, j) \in Seq(Characters) /\ Slashes(Piece(s, i, j)) = {}
<1> DEFINE w == SubSeq(s, i + 1, j - 1)
<1>1. Len(s) \in Nat /\ DOMAIN s = 1..Len(s)
  OBVIOUS
<1>2. /\ w \in Seq(Characters)
      /\ Len(w) = IF i + 1 <= j - 1 THEN j - 1 - (i + 1) + 1 ELSE 0
      /\ \A n \in 1..(j - 1 - (i + 1) + 1) : w[n] = s[i + 1 + n - 1]
  <2>1. \A n \in (i + 1)..(j - 1) : s[n] \in Characters
    BY <1>1
  <2>2. i + 1 \in Int /\ j - 1 \in Int
    BY <1>1
  <2> QED
    BY <2>1, <2>2, SubSeqProperties
<1> HIDE DEF w
<1>3. ASSUME NEW n \in DOMAIN w PROVE w[n] # "/"
  <2>1. n \in 1..Len(w) /\ Len(w) \in Nat
    BY <1>2
  <2>2. i + 1 <= j - 1 /\ n \in 1..(j - 1 - (i + 1) + 1)
    BY <1>1, <1>2, <2>1
  <2>3. w[n] = s[i + n] /\ i + n \in 1..Len(s) /\ i < i + n /\ i + n < j
    BY <1>1, <1>2, <2>2
  <2>4. i + n \notin Slashes(s)
    BY <1>1, <2>3
  <2> QED
    BY <1>1, <2>3, <2>4 DEF Slashes
<1> QED
  BY <1>2, <1>3 DEF Piece, Slashes, w

(* A set of two.                                                           *)
LEMMA TwoMembers ==
  ASSUME NEW S, IsFiniteSet(S), Cardinality(S) = 2
  PROVE  \E a, b : a # b /\ S = {a, b}
<1>1. PICK a \in S : TRUE
  BY FS_EmptySet
<1> DEFINE T == S \ {a}
<1>2. IsFiniteSet(T) /\ Cardinality(T) = Cardinality(S) - 1
  BY <1>1, FS_RemoveElement
<1>3. S = T \cup {a} /\ a \notin T
  BY <1>1
<1> HIDE DEF T
<1>4. PICK b : T = {b}
  <2>1. Cardinality(T) = 1
    BY <1>2
  <2> QED
    BY <1>2, <2>1, FS_Singleton
<1> QED
  BY <1>3, <1>4

(* The three segments of a path that splits into three.                    *)
LEMMA SplitIntoThree ==
  ASSUME NEW s \in Seq(Characters), Len(Split(s)) = 3
  PROVE  \A n \in 1..3 : /\ Split(s)[n] \in Seq(Characters)
                          /\ Slashes(Split(s)[n]) = {}
<1>1. s \in Text /\ Len(s) \in Nat /\ Slashes(s) \subseteq 1..Len(s)
  BY PlainTexts DEF Slashes
<1>2. IsFiniteSet(Slashes(s)) /\ Cardinality(Slashes(s)) = 2
  <2>1. Cardinality(Slashes(s)) \in Nat /\ Cardinality(Slashes(s)) + 1 = 3
    BY <1>1, SplitLength
  <2> QED
    BY <1>1, <2>1, SplitLength
<1>3. PICK a, b : a # b /\ Slashes(s) = {a, b}
  BY <1>2, TwoMembers
<1>4. a \in 1..Len(s) /\ b \in 1..Len(s)
  BY <1>1, <1>3
<1>5. PICK p \in 1..Len(s), q \in 1..Len(s) : p < q /\ Slashes(s) = {p, q}
  <2>1. CASE a < b
    BY <1>3, <1>4, <2>1
  <2>2. CASE b < a
    <3>1. Slashes(s) = {b, a}
      BY <1>3
    <3> QED
      BY <1>4, <2>2, <3>1
  <2> QED
    BY <1>1, <1>3, <1>4, <2>1, <2>2
<1>6. Split(s) = <<Piece(s, 0, p), Piece(s, p, q), Piece(s, q, Len(s) + 1)>>
  BY <1>1, <1>5, SplitAtTwo
<1>7. /\ \A k \in Slashes(s) : k <= 0 \/ p <= k
      /\ \A k \in Slashes(s) : k <= p \/ q <= k
      /\ \A k \in Slashes(s) : k <= q \/ Len(s) + 1 <= k
      /\ 0 \in 0..Len(s) /\ p \in 0..Len(s) /\ q \in 0..Len(s)
      /\ p \in 1..(Len(s) + 1) /\ q \in 1..(Len(s) + 1)
      /\ Len(s) + 1 \in 1..(Len(s) + 1)
  BY <1>1, <1>5
<1>8. Piece(s, 0, p) \in Seq(Characters) /\ Slashes(Piece(s, 0, p)) = {}
  BY <1>7, PieceIsPlain
<1>9. Piece(s, p, q) \in Seq(Characters) /\ Slashes(Piece(s, p, q)) = {}
  BY <1>7, PieceIsPlain
<1>10. /\ Piece(s, q, Len(s) + 1) \in Seq(Characters)
       /\ Slashes(Piece(s, q, Len(s) + 1)) = {}
  BY <1>7, PieceIsPlain
<1> QED
  BY <1>6, <1>8, <1>9, <1>10

(* How many segments a path has at least.                                  *)
LEMMA SplitAtMany ==
  ASSUME NEW s \in Text, NEW a \in Slashes(s), NEW b \in Slashes(s), a < b
  PROVE  /\ Len(Split(s)) >= 3
         /\ \A c \in Slashes(s) : b < c => Len(Split(s)) >= 4
<1>1. /\ Slashes(s) \subseteq Nat /\ Cardinality(Slashes(s)) \in Nat
      /\ IsFiniteSet(Slashes(s)) /\ Len(Split(s)) = Cardinality(Slashes(s)) + 1
  BY SplitLength DEF Slashes, Text
<1>2. Cardinality(Slashes(s)) >= 2
  <2> DEFINE S == {a, b}
  <2>1. S = {a, b} /\ S \subseteq Slashes(s) /\ a \in Nat /\ b \in Nat
    BY <1>1
  <2> HIDE DEF S
  <2>2. Cardinality(S) = 2
    BY <2>1, NthOfTwo
  <2> QED
    BY <1>1, <2>1, <2>2, FS_Subset
<1>3. ASSUME NEW c \in Slashes(s), b < c
      PROVE  Cardinality(Slashes(s)) >= 3
  <2> DEFINE S == {a, b, c}
  <2>1. S = {a, b, c} /\ S \subseteq Slashes(s)
        /\ a \in Nat /\ b \in Nat /\ c \in Nat
    BY <1>1
  <2> HIDE DEF S
  <2>2. Cardinality(S) = 3
    BY <1>3, <2>1, NthOfThree
  <2> QED
    BY <1>1, <2>1, <2>2, FS_Subset
<1> QED
  BY <1>1, <1>2, <1>3

-----------------------------------------------------------------------------
(* The path that arrives at a server                                       *)

(* Decoding a path decodes its segments.                                   *)
LEMMA UnquoteSlash ==
  ASSUME NEW x \in Text, NEW y \in Text
  PROVE  /\ Unquote(x) \in Text
         /\ Unquote(Slash(x, y)) = Slash(Unquote(x), Unquote(y))
<1> DEFINE decode(c) == IF c \in Range(Escape)
                        THEN CHOOSE e \in DOMAIN Escape : Escape[e] = c
                        ELSE c
           s == Slash(x, y)
           r == Slash(Unquote(x), Unquote(y))
<1>1. /\ DOMAIN Escape = {"/", "?", "%2F"}
      /\ Range(Escape) = {"%2F", "%3F", "%252F"}
  BY DEF Escape, Range
<1>2. decode("/") = "/" /\ \A c \in Letters : decode(c) \in Letters
  <2>1. \A c \in Range(Escape) : \E e \in DOMAIN Escape : Escape[e] = c
    BY DEF Range
  <2>2. DOMAIN Escape \subseteq Letters
    BY <1>1, CharacterAssumption DEF Letters
  <2>3. decode("/") = "/"
    BY <1>1
  <2> QED
    BY <2>1, <2>2, <2>3
<1>3. \A t : Unquote(t) = [i \in DOMAIN t |-> decode(t[i])]
  BY DEF Unquote
<1> HIDE DEF decode
<1>4. ASSUME NEW t \in Text
      PROVE  /\ Unquote(t) \in Text /\ Len(Unquote(t)) = Len(t)
             /\ \A i \in 1..Len(t) : Unquote(t)[i] = decode(t[i])
  <2>1. /\ Len(t) \in Nat /\ DOMAIN t = 1..Len(t)
        /\ \A i \in DOMAIN t : t[i] \in Letters
    BY DEF Text
  <2> QED
    BY <1>2, <1>3, <2>1 DEF Text
<1>5. /\ s \in Text /\ Len(s) = Len(x) + Len(y) + 1
      /\ \A i \in 1..Len(s) : s[i] = IF i <= Len(x) THEN x[i]
                                     ELSE IF i = Len(x) + 1 THEN "/"
                                     ELSE y[i - Len(x) - 1]
  BY SlashParts
<1>6. /\ r \in Text /\ Len(r) = Len(Unquote(x)) + Len(Unquote(y)) + 1
      /\ \A i \in 1..Len(r) : r[i] = IF i <= Len(Unquote(x)) THEN Unquote(x)[i]
                                     ELSE IF i = Len(Unquote(x)) + 1 THEN "/"
                                     ELSE Unquote(y)[i - Len(Unquote(x)) - 1]
  BY <1>4, SlashParts
<1>7. Len(x) \in Nat /\ Len(y) \in Nat
  BY DEF Text
<1> HIDE DEF s, r
<1>8. /\ Len(Unquote(x)) = Len(x) /\ Len(Unquote(y)) = Len(y)
      /\ Len(r) = Len(s) /\ Unquote(s) \in Text /\ Len(Unquote(s)) = Len(r)
  BY <1>4, <1>5, <1>6
<1>9. ASSUME NEW i \in 1..Len(r)
      PROVE  Unquote(s)[i] = r[i]
  <2>1. i \in 1..Len(s) /\ Unquote(s)[i] = decode(s[i])
    BY <1>4, <1>5, <1>8
  <2>2. CASE i <= Len(x)
    BY <1>4, <1>5, <1>6, <1>7, <1>8, <2>1, <2>2
  <2>3. CASE i = Len(x) + 1
    BY <1>2, <1>5, <1>6, <1>7, <1>8, <2>1, <2>3
  <2>4. CASE i > Len(x) + 1
    <3>1. i - Len(x) - 1 \in 1..Len(y)
      BY <1>5, <1>7, <2>1, <2>4
    <3>2. s[i] = y[i - Len(x) - 1] /\ r[i] = Unquote(y)[i - Len(x) - 1]
      BY <1>5, <1>6, <1>7, <1>8, <2>1, <2>4
    <3> QED
      BY <1>4, <2>1, <3>1, <3>2
  <2> QED
    BY <1>7, <2>1, <2>2, <2>3, <2>4
<1>10. Unquote(s) = r
  BY <1>6, <1>8, <1>9, SeqEqual DEF Text
<1> QED
  BY <1>4, <1>10 DEF s, r

(* The names of the templates hold no escape.                              *)
LEMMA UnquoteName ==
  ASSUME NEW name \in {"flows", "users", "by-username", "with-owner"}
  PROVE  Unquote(<<name>>) = <<name>>
<1>1. Range(Escape) = {"%2F", "%3F", "%252F"}
  BY DEF Escape, Range
<1> QED
  BY <1>1 DEF Unquote

(* What Undotted computes, up to the k-th segment.                         *)
Keeps(kept, segments, k) ==
  kept = [n \in 0..k |-> IF n = 0 THEN <<>> ELSE Keep(kept[n - 1], segments[n])]

(* What stands of one segment, and of two.                                 *)
LEMMA KeepsOfFew ==
  ASSUME NEW segments, NEW k \in {1, 2}
  PROVE  /\ \E kept : Keeps(kept, segments, k)
         /\ \A kept : Keeps(kept, segments, k) =>
              kept[k] = IF k = 1 THEN Keep(<<>>, segments[1])
                        ELSE Keep(Keep(<<>>, segments[1]), segments[2])
<1> DEFINE one == Keep(<<>>, segments[1])
           two == Keep(one, segments[2])
           value(n) == IF n = 0 THEN <<>> ELSE IF n = 1 THEN one ELSE two
           given == [n \in 0..k |-> value(n)]
           step(kept, n) == IF n = 0 THEN <<>>
                            ELSE Keep(kept[n - 1], segments[n])
<1>1. ASSUME NEW n \in 0..k
      PROVE  value(n) = step(given, n)
  <2>1. n \in {0, 1, 2}
    OBVIOUS
  <2>2. CASE n = 1
    <3>1. given[0] = <<>>
      BY <2>2
    <3> QED
      BY <2>2, <3>1
  <2>3. CASE n = 2
    <3>1. given[1] = one
      BY <2>3
    <3> QED
      BY <2>3, <3>1
  <2> QED
    BY <2>1, <2>2, <2>3
<1>2. Keeps(given, segments, k)
  <2> HIDE DEF value, step
  <2>1. given = [n \in 0..k |-> step(given, n)]
    BY <1>1
  <2> QED
    BY <2>1 DEF Keeps, step
<1>3. ASSUME NEW kept, Keeps(kept, segments, k)
      PROVE  kept[k] = value(k)
  <2>1. \A n \in 0..k : kept[n] = step(kept, n)
    BY <1>3 DEF Keeps
  <2>2. kept[0] = <<>>
    BY <2>1
  <2>3. kept[1] = Keep(kept[0], segments[1])
    BY <2>1
  <2>4. k > 1 => kept[2] = Keep(kept[1], segments[2])
    BY <2>1
  <2> QED
    BY <2>2, <2>3, <2>4
<1> QED
  BY <1>2, <1>3

(* A path of at most two segments, of which the last may be dots.          *)
LEMMA NormalizeOfFew ==
  ASSUME NEW a \in Text, Slashes(a) = {}, a # <<".">>, a # <<".", ".">>
  PROVE  /\ Normalize(<<a>>) = <<a>>
         /\ \A b \in Text : Slashes(b) = {} =>
              Normalize(<<a, b>>) = IF b = <<".">> THEN <<a>>
                                    ELSE IF b = <<".", ".">> THEN <<>>
                                    ELSE <<a, b>>
<1>1. Keep(<<>>, a) = <<a>>
  BY DEF Keep
<1>2. ASSUME NEW segments, NEW k \in {1, 2}, Len(segments) = k
      PROVE  Undotted(segments) = IF k = 1 THEN Keep(<<>>, segments[1])
                                  ELSE Keep(Keep(<<>>, segments[1]),
                                            segments[2])
  <2> DEFINE kept == CHOOSE kept : Keeps(kept, segments, k)
  <2>1. Undotted(segments) = kept[k]
    BY <1>2 DEF Undotted, Keeps
  <2>2. Keeps(kept, segments, k)
    BY KeepsOfFew
  <2> HIDE DEF kept
  <2> QED
    BY <2>1, <2>2, KeepsOfFew
<1>3. Normalize(<<a>>) = <<a>>
  <2> DEFINE path == <<a>>
  <2>1. Len(path) = 1 /\ path[1] = a
    OBVIOUS
  <2>2. Split(Join(path)) = path
    BY JoinOfFew, SplitAtNone
  <2> HIDE DEF path
  <2>3. Normalize(path) = Keep(<<>>, a)
    BY <1>2, <2>1, <2>2 DEF Normalize
  <2> QED
    BY <1>1, <2>3 DEF path
<1>4. ASSUME NEW b \in Text, Slashes(b) = {}
      PROVE  Normalize(<<a, b>>) = IF b = <<".">> THEN <<a>>
                                   ELSE IF b = <<".", ".">> THEN <<>>
                                   ELSE <<a, b>>
  <2> DEFINE path == <<a, b>>
             kept == <<a>>
  <2>1. Len(path) = 2 /\ path[1] = a /\ path[2] = b
    OBVIOUS
  <2>2. Split(Join(path)) = path
    <3>1. Join(path) = Slash(a, b)
      BY JoinOfFew
    <3> QED
      BY <1>4, <3>1, SplitOfTwo
  <2> HIDE DEF path
  <2>3. Normalize(path) = Keep(kept, b)
    BY <1>1, <1>2, <2>1, <2>2 DEF Normalize
  <2>4. Append(kept, b) = <<a, b>>
    <3> DEFINE both == Append(kept, b)
    <3>1. kept \in Seq(Text) /\ Len(kept) = 1 /\ kept[1] = a
      OBVIOUS
    <3> HIDE DEF kept
    <3>2. /\ both \in Seq(Text) /\ Len(both) = 2
          /\ both[1] = a /\ both[2] = b
      BY <1>4, <3>1, AppendProperties
    <3> HIDE DEF both
    <3>3. both = <<a, b>>
      BY <3>2
    <3> QED
      BY <3>3 DEF both
  <2>4a. SubSeq(kept, 1, Len(kept) - 1) = <<>>
    <3>1. Len(kept) - 1 = 0
      OBVIOUS
    <3>2. SubSeq(kept, 1, 0) = <<>>
      BY SubSeqEmpty
    <3> HIDE DEF kept
    <3> QED
      BY <3>1, <3>2
  <2>5. <<".">> # <<".", ".">>
    OBVIOUS
  <2> HIDE DEF kept
  <2>6. Keep(kept, b) = IF b = <<".">> THEN kept
                        ELSE IF b = <<".", ".">> THEN <<>> ELSE <<a, b>>
    <3>1. CASE b = <<".">>
      BY <2>5, <3>1 DEF Keep
    <3>2. CASE b = <<".", ".">>
      BY <2>4a, <2>5, <3>2 DEF Keep
    <3>3. CASE b # <<".">> /\ b # <<".", ".">>
      BY <2>4, <3>3 DEF Keep
    <3> QED
      BY <3>1, <3>2, <3>3
  <2> QED
    BY <2>3, <2>6 DEF path, kept
<1> QED
  BY <1>3, <1>4

(* Decoding a path of quoted texts is splitting the path of the texts.     *)
LEMMA DecodeOfFew ==
  /\ Decode(<<>>) = <<<<>>>>
  /\ \A a \in Text : Decode(<<a>>) = Split(Unquote(a))
  /\ \A a, b \in Text : Decode(<<a, b>>) = Split(Slash(Unquote(a), Unquote(b)))
  /\ \A a, b, c \in Text :
       Decode(<<a, b, c>>)
         = Split(Slash(Slash(Unquote(a), Unquote(b)), Unquote(c)))
<1>1. Decode(<<>>) = <<<<>>>>
  <2> DEFINE nothing == <<>>
  <2>1. Join(<<>>) = nothing
    <3> DEFINE path == <<>>
               join == CHOOSE join : Joins(join, path, 0)
               given == [n \in 0..0 |-> <<>>]
    <3>1. Join(path) = join[0]
      BY DEF Join, Joins, Slash
    <3>2. Joins(given, path, 0)
      BY DEF Joins
    <3>3. Joins(join, path, 0)
      BY <3>2
    <3>4. join[0] = <<>>
      <4> HIDE DEF join
      <4> QED
        BY <3>3 DEF Joins
    <3> QED
      BY <3>1, <3>4
  <2>2. Unquote(nothing) = nothing
    BY DEF Unquote
  <2>3. nothing \in Text /\ Slashes(nothing) = {}
    BY DEF Text, Slashes
  <2> HIDE DEF nothing
  <2>4. Split(nothing) = <<nothing>>
    BY <2>3, SplitAtNone
  <2> QED
    BY <2>1, <2>2, <2>4 DEF Decode, nothing
<1>2. \A a \in Text : Decode(<<a>>) = Split(Unquote(a))
  BY JoinOfFew DEF Decode
<1>3. ASSUME NEW a \in Text, NEW b \in Text
      PROVE  Decode(<<a, b>>) = Split(Slash(Unquote(a), Unquote(b)))
  BY JoinOfFew, UnquoteSlash DEF Decode
<1>4. ASSUME NEW a \in Text, NEW b \in Text, NEW c \in Text
      PROVE  Decode(<<a, b, c>>)
               = Split(Slash(Slash(Unquote(a), Unquote(b)), Unquote(c)))
  <2> DEFINE u == Slash(a, b)
  <2>1. u \in Text /\ Unquote(u) = Slash(Unquote(a), Unquote(b))
    BY SlashParts, UnquoteSlash
  <2>2. Join(<<a, b, c>>) = Slash(u, c)
    BY JoinOfFew
  <2> HIDE DEF u
  <2>3. Unquote(Slash(u, c)) = Slash(Unquote(u), Unquote(c))
    BY <2>1, UnquoteSlash
  <2> QED
    BY <2>1, <2>2, <2>3 DEF Decode
<1> QED
  BY <1>1, <1>2, <1>3, <1>4

(* A text after the name of a service: it is one segment, or too many.     *)
LEMMA SplitNameAndText ==
  ASSUME NEW s \in {"flows", "users"}, NEW t \in Seq(Characters)
  PROVE  /\ Slash(<<s>>, t) \in Seq(Characters)
         /\ "/" \notin Range(t) => Split(Slash(<<s>>, t)) = <<<<s>>, t>>
         /\ "/" \in Range(t) => Len(Split(Slash(<<s>>, t))) >= 3
<1> DEFINE n == <<s>>
           p == Slash(n, t)
<1>1. n \in Text /\ t \in Text /\ Slashes(n) = {} /\ Len(n) = 1
      /\ n \in Seq(Characters)
  BY PlainTexts
<1>2. p = n \o <<"/">> \o t
  BY DEF Slash
<1>3. /\ p \in Text
      /\ Slashes(p) = Slashes(n) \cup {2} \cup {2 + i : i \in Slashes(t)}
  <2> HIDE DEF n
  <2>1. /\ p \in Text
        /\ Slashes(p) = Slashes(n) \cup {Len(n) + 1}
                           \cup {Len(n) + 1 + i : i \in Slashes(t)}
    BY <1>1, SlashParts, SlashPieces
  <2>2. Len(n) + 1 = 2
    BY <1>1
  <2> HIDE DEF p
  <2> QED
    BY <2>1, <2>2
<1>4. p \in Seq(Characters)
  <2>1. <<"/">> \in Seq(Characters)
    BY CharacterAssumption
  <2> HIDE DEF n
  <2> QED
    BY <1>1, <1>2, <2>1, ConcatProperties
<1>5. "/" \in Range(t) <=> Slashes(t) # {}
  BY DEF Range, Slashes
<1>6. ASSUME "/" \notin Range(t)
      PROVE  Split(p) = <<n, t>>
  <2> HIDE DEF n
  <2> QED
    BY <1>1, <1>5, <1>6, SplitOfTwo
<1>7. ASSUME "/" \in Range(t)
      PROVE  Len(Split(p)) >= 3
  <2>1. PICK i \in Slashes(t) : TRUE
    BY <1>5, <1>7
  <2>2. i \in Nat /\ i > 0
    BY DEF Slashes
  <2> HIDE DEF n, p
  <2>3. 2 \in Slashes(p) /\ 2 + i \in Slashes(p) /\ 2 < 2 + i
    BY <1>3, <2>1, <2>2
  <2> QED
    BY <1>3, <2>3, SplitAtMany
<1> QED
  BY <1>4, <1>6, <1>7

(* The path that a call with a text sends, as the service sees it.         *)
LEMMA PathArrives ==
  ASSUME NEW s \in {"flows", "users"}, NEW t \in Seq(Characters)
  PROVE  Decode(Normalize(<<<<s>>, Quote(t)>>))
           = IF t = <<".">> THEN <<<<s>>>>
             ELSE IF t = <<".", ".">> THEN <<<<>>>>
             ELSE Split(Slash(<<s>>, t))
<1> DEFINE n == <<s>>
           q == Quote(t)
<1>1. /\ n \in Text /\ Slashes(n) = {} /\ n # <<".">> /\ n # <<".", ".">>
      /\ Unquote(n) = n
  BY PlainTexts, UnquoteName
<1>2. q \in Text /\ Slashes(q) = {} /\ Unquote(q) = t
  BY QuotedText
<1>3. \A x : x \in {<<".">>, <<".", ".">>} => Quote(x) = x /\ Unquote(x) = x
  <2>1. /\ DOMAIN Escape = {"/", "?", "%2F"}
        /\ Range(Escape) = {"%2F", "%3F", "%252F"}
    BY DEF Escape, Range
  <2> QED
    BY <2>1 DEF Quote, Unquote
<1>4. /\ q = <<".">> <=> t = <<".">>
      /\ q = <<".", ".">> <=> t = <<".", ".">>
  BY <1>2, <1>3
<1> HIDE DEF n, q
<1>5. Normalize(<<n, q>>) = IF t = <<".">> THEN <<n>>
                            ELSE IF t = <<".", ".">> THEN <<>> ELSE <<n, q>>
  BY <1>1, <1>2, <1>4, NormalizeOfFew
<1>6. /\ Decode(<<n>>) = <<n>> /\ Decode(<<>>) = <<<<>>>>
      /\ Decode(<<n, q>>) = Split(Slash(n, t))
  BY <1>1, <1>2, DecodeOfFew, SplitAtNone
<1> QED
  BY <1>5, <1>6 DEF n, q

(* The paths without a text.                                               *)
LEMMA NamesArrive ==
  /\ \A s \in {"flows", "users"} : Decode(Normalize(<<<<s>>>>)) = <<<<s>>>>
  /\ Decode(Normalize(<<<<"users">>, <<"by-username">>>>))
       = <<<<"users">>, <<"by-username">>>>
<1>1. ASSUME NEW s \in {"flows", "users"}
      PROVE  Decode(Normalize(<<<<s>>>>)) = <<<<s>>>>
  <2> DEFINE n == <<s>>
  <2>1. /\ n \in Text /\ Slashes(n) = {} /\ n # <<".">> /\ n # <<".", ".">>
        /\ Unquote(n) = n
    BY PlainTexts, UnquoteName
  <2> HIDE DEF n
  <2>2. Normalize(<<n>>) = <<n>> /\ Decode(<<n>>) = <<n>>
    BY <2>1, NormalizeOfFew, DecodeOfFew, SplitAtNone
  <2> QED
    BY <2>2 DEF n
<1>2. Decode(Normalize(<<<<"users">>, <<"by-username">>>>))
        = <<<<"users">>, <<"by-username">>>>
  <2> DEFINE t == <<"by-username">>
  <2>1. /\ t \in Seq(Characters) /\ t # <<".">> /\ t # <<".", ".">>
        /\ "/" \notin Range(t)
    BY CharacterAssumption DEF Range
  <2>2. Quote(t) = t
    <3>1. DOMAIN Escape = {"/", "?", "%2F"}
      BY DEF Escape
    <3> QED
      BY <3>1 DEF Quote
  <2> HIDE DEF t
  <2>3. Decode(Normalize(<<<<"users">>, t>>)) = <<<<"users">>, t>>
    BY <2>1, <2>2, PathArrives, SplitNameAndText
  <2> QED
    BY <2>3 DEF t
<1> QED
  BY <1>1, <1>2

-----------------------------------------------------------------------------
(* The routes of the services                                              *)

(* A segment of a path fits one of a route's template.                     *)
Fits(x, a) == IF x.placeholder THEN a # <<>> ELSE a = <<x.name>>

(* Templates and paths of one, two and three segments.                     *)
LEMMA MatchesFew ==
  /\ \A route, x, a : route.path = <<x>> =>
       (Matches(route, <<a>>) <=> Fits(x, a))
  /\ \A route, x, y, a, b : route.path = <<x, y>> =>
       (Matches(route, <<a, b>>) <=> Fits(x, a) /\ Fits(y, b))
  /\ \A route, x, y, z, a, b, c : route.path = <<x, y, z>> =>
       (Matches(route, <<a, b, c>>) <=> Fits(x, a) /\ Fits(y, b) /\ Fits(z, c))
<1>1. ASSUME NEW route, NEW x, NEW a, route.path = <<x>>
      PROVE  Matches(route, <<a>>) <=> Fits(x, a)
  BY <1>1 DEF Matches, Fits
<1>2. ASSUME NEW route, NEW x, NEW y, NEW a, NEW b, route.path = <<x, y>>
      PROVE  Matches(route, <<a, b>>) <=> Fits(x, a) /\ Fits(y, b)
  <2> DEFINE p == <<a, b>>
  <2>1. /\ Len(p) = 2 /\ DOMAIN p = {1, 2} /\ p[1] = a /\ p[2] = b
        /\ Len(route.path) = 2 /\ route.path[1] = x /\ route.path[2] = y
    BY <1>2
  <2> HIDE DEF p
  <2>2. Matches(route, p) <=> Fits(x, a) /\ Fits(y, b)
    BY <2>1 DEF Matches, Fits
  <2> QED
    BY <2>2 DEF p
<1>3. ASSUME NEW route, NEW x, NEW y, NEW z, NEW a, NEW b, NEW c,
             route.path = <<x, y, z>>
      PROVE  Matches(route, <<a, b, c>>)
               <=> Fits(x, a) /\ Fits(y, b) /\ Fits(z, c)
  <2> DEFINE p == <<a, b, c>>
  <2>1. /\ Len(p) = 3 /\ DOMAIN p = {1, 2, 3}
        /\ p[1] = a /\ p[2] = b /\ p[3] = c
        /\ Len(route.path) = 3
        /\ route.path[1] = x /\ route.path[2] = y /\ route.path[3] = z
    BY <1>3
  <2> HIDE DEF p
  <2>2. Matches(route, p) <=> Fits(x, a) /\ Fits(y, b) /\ Fits(z, c)
    BY <2>1 DEF Matches, Fits
  <2> QED
    BY <2>2 DEF p
<1> QED
  BY <1>1, <1>2, <1>3

(* What matches each template.                                             *)
LEMMA TemplateMatches ==
  ASSUME NEW route
  PROVE  /\ route.path = Flows =>
              /\ \A a : Matches(route, <<a>>) <=> a = <<"flows">>
              /\ \A p : Len(p) # 1 => ~Matches(route, p)
         /\ route.path = Users =>
              /\ \A a : Matches(route, <<a>>) <=> a = <<"users">>
              /\ \A p : Len(p) # 1 => ~Matches(route, p)
         /\ route.path = Flow =>
              /\ \A a, b : Matches(route, <<a, b>>)
                             <=> a = <<"flows">> /\ b # <<>>
              /\ \A p : Len(p) # 2 => ~Matches(route, p)
         /\ route.path = User =>
              /\ \A a, b : Matches(route, <<a, b>>)
                             <=> a = <<"users">> /\ b # <<>>
              /\ \A p : Len(p) # 2 => ~Matches(route, p)
         /\ route.path = ByUsername =>
              /\ \A a, b : Matches(route, <<a, b>>)
                             <=> a = <<"users">> /\ b = <<"by-username">>
              /\ \A p : Len(p) # 2 => ~Matches(route, p)
         /\ route.path = OfUsername =>
              /\ \A a, b, c : Matches(route, <<a, b, c>>)
                   <=> a = <<"users">> /\ b = <<"by-username">> /\ c # <<>>
              /\ \A p : Len(p) # 3 => ~Matches(route, p)
         /\ route.path = WithOwner =>
              /\ \A a, b, c : Matches(route, <<a, b, c>>)
                   <=> a = <<"flows">> /\ b # <<>> /\ c = <<"with-owner">>
              /\ \A p : Len(p) # 3 => ~Matches(route, p)
<1>1. /\ \A name, a : Fits(Segment(name), a) <=> a = <<name>>
      /\ \A name, a : Fits(Placeholder(name), a) <=> a # <<>>
  BY DEF Fits, Segment, Placeholder
<1>2. \A p : Matches(route, p) => Len(p) = Len(route.path)
  BY DEF Matches
<1>3. /\ \A x : Len(<<x>>) = 1
      /\ \A x, y : Len(<<x, y>>) = 2
      /\ \A x, y, z : Len(<<x, y, z>>) = 3
  OBVIOUS
<1>4. ASSUME NEW name, route.path = <<Segment(name)>>
      PROVE  /\ \A a : Matches(route, <<a>>) <=> a = <<name>>
             /\ \A p : Len(p) # 1 => ~Matches(route, p)
  BY <1>1, <1>2, <1>3, <1>4, MatchesFew
<1>5. ASSUME NEW x, NEW y, route.path = <<x, y>>
      PROVE  /\ \A a, b : Matches(route, <<a, b>>) <=> Fits(x, a) /\ Fits(y, b)
             /\ \A p : Len(p) # 2 => ~Matches(route, p)
  BY <1>2, <1>3, <1>5, MatchesFew
<1>6. ASSUME NEW x, NEW y, NEW z, route.path = <<x, y, z>>
      PROVE  /\ \A a, b, c : Matches(route, <<a, b, c>>)
                               <=> Fits(x, a) /\ Fits(y, b) /\ Fits(z, c)
             /\ \A p : Len(p) # 3 => ~Matches(route, p)
  BY <1>2, <1>3, <1>6, MatchesFew
<1>7. /\ Flows = <<Segment("flows")>> /\ Users = <<Segment("users")>>
      /\ Flow = <<Segment("flows"), Placeholder("flow_id")>>
      /\ User = <<Segment("users"), Placeholder("user_id")>>
      /\ ByUsername = <<Segment("users"), Segment("by-username")>>
  BY DEF Flows, Flow, Users, User, ByUsername
<1>8. /\ OfUsername = <<Segment("users"), Segment("by-username"),
                        Placeholder("username")>>
      /\ WithOwner = <<Segment("flows"), Placeholder("flow_id"),
                       Segment("with-owner")>>
  BY DEF OfUsername, WithOwner
<1>9. /\ route.path = Flows =>
           /\ \A a : Matches(route, <<a>>) <=> a = <<"flows">>
           /\ \A p : Len(p) # 1 => ~Matches(route, p)
      /\ route.path = Users =>
           /\ \A a : Matches(route, <<a>>) <=> a = <<"users">>
           /\ \A p : Len(p) # 1 => ~Matches(route, p)
  BY <1>4, <1>7
<1>10. /\ route.path = Flow =>
            /\ \A a, b : Matches(route, <<a, b>>)
                            <=> a = <<"flows">> /\ b # <<>>
            /\ \A p : Len(p) # 2 => ~Matches(route, p)
       /\ route.path = User =>
            /\ \A a, b : Matches(route, <<a, b>>)
                            <=> a = <<"users">> /\ b # <<>>
            /\ \A p : Len(p) # 2 => ~Matches(route, p)
       /\ route.path = ByUsername =>
            /\ \A a, b : Matches(route, <<a, b>>)
                            <=> a = <<"users">> /\ b = <<"by-username">>
            /\ \A p : Len(p) # 2 => ~Matches(route, p)
  BY <1>1, <1>5, <1>7
<1>11. /\ route.path = OfUsername =>
            /\ \A a, b, c : Matches(route, <<a, b, c>>)
                 <=> a = <<"users">> /\ b = <<"by-username">> /\ c # <<>>
            /\ \A p : Len(p) # 3 => ~Matches(route, p)
       /\ route.path = WithOwner =>
            /\ \A a, b, c : Matches(route, <<a, b, c>>)
                 <=> a = <<"flows">> /\ b # <<>> /\ c = <<"with-owner">>
            /\ \A p : Len(p) # 3 => ~Matches(route, p)
  BY <1>1, <1>6, <1>8
<1> QED
  BY <1>9, <1>10, <1>11

(* The route that a request is dispatched to.                              *)
LEMMA FirstMatch ==
  ASSUME NEW routes, NEW method, NEW path, DOMAIN routes \subseteq Nat,
         NEW i \in DOMAIN routes,
         Matches(routes[i], path), routes[i].method = method,
         \A j \in DOMAIN routes :
           j < i => ~Matches(routes[j], path) \/ routes[j].method # method
  PROVE  Dispatch(routes, method, path) = [status |-> 200, route |-> routes[i]]
<1> DEFINE known == {j \in DOMAIN routes : Matches(routes[j], path)}
           full == {j \in known : routes[j].method = method}
<1>1. i \in full /\ \A j \in full : i <= j
  OBVIOUS
<1>2. (CHOOSE j \in full : \A k \in full : j <= k) = i
  BY <1>1
<1> QED
  BY <1>1, <1>2 DEF Dispatch

(* A path that no route of the method matches is refused.                  *)
LEMMA NoMatch ==
  ASSUME NEW routes, NEW method, NEW path,
         \A j \in DOMAIN routes :
           ~Matches(routes[j], path) \/ routes[j].method # method
  PROVE  Dispatch(routes, method, path).status \in {307, 404, 405}
BY DEF Dispatch

(* What the services do with the paths that their clients can send.        *)
LEMMA FlowDispatch ==
  /\ LET hit(method, p, i) == Dispatch(FlowRoutes, method, p)
                                = [status |-> 200, route |-> FlowRoutes[i]]
     IN  /\ hit("GET", <<<<"flows">>>>, 1) /\ hit("POST", <<<<"flows">>>>, 3)
         /\ \A t : t # <<>> => /\ hit("GET", <<<<"flows">>, t>>, 2)
                               /\ hit("PATCH", <<<<"flows">>, t>>, 4)
                               /\ hit("DELETE", <<<<"flows">>, t>>, 5)
  /\ LET miss(method, p) == Dispatch(FlowRoutes, method, p).status # 200
     IN  /\ miss("PATCH", <<<<"flows">>>>) /\ miss("DELETE", <<<<"flows">>>>)
<1>1. /\ DOMAIN FlowRoutes = {1, 2, 3, 4, 5}
      /\ FlowRoutes[1].method = "GET" /\ FlowRoutes[1].path = Flows
      /\ FlowRoutes[2].method = "GET" /\ FlowRoutes[2].path = Flow
      /\ FlowRoutes[3].method = "POST" /\ FlowRoutes[3].path = Flows
      /\ FlowRoutes[4].method = "PATCH" /\ FlowRoutes[4].path = Flow
      /\ FlowRoutes[5].method = "DELETE" /\ FlowRoutes[5].path = Flow
  BY DEF FlowRoutes, Serve
<1>2. /\ \A x : Len(<<x>>) = 1
      /\ \A x, y : Len(<<x, y>>) = 2
  OBVIOUS
<1>3. \A i \in DOMAIN FlowRoutes : \A a :
        Matches(FlowRoutes[i], <<a>>) <=> i \in {1, 3} /\ a = <<"flows">>
  BY <1>1, <1>2, TemplateMatches
<1>4. \A i \in DOMAIN FlowRoutes : \A a, b :
        Matches(FlowRoutes[i], <<a, b>>)
          <=> i \in {2, 4, 5} /\ a = <<"flows">> /\ b # <<>>
  BY <1>1, <1>2, TemplateMatches
<1>7. DOMAIN FlowRoutes \subseteq Nat
  BY <1>1
<1>8. Dispatch(FlowRoutes, "GET", <<<<"flows">>>>)
        = [status |-> 200, route |-> FlowRoutes[1]]
  BY <1>1, <1>3, <1>7, FirstMatch
<1>9. Dispatch(FlowRoutes, "POST", <<<<"flows">>>>)
        = [status |-> 200, route |-> FlowRoutes[3]]
  BY <1>1, <1>3, <1>7, FirstMatch
<1>10. ASSUME NEW t, t # <<>>
       PROVE  /\ Dispatch(FlowRoutes, "GET", <<<<"flows">>, t>>)
                   = [status |-> 200, route |-> FlowRoutes[2]]
              /\ Dispatch(FlowRoutes, "PATCH", <<<<"flows">>, t>>)
                   = [status |-> 200, route |-> FlowRoutes[4]]
              /\ Dispatch(FlowRoutes, "DELETE", <<<<"flows">>, t>>)
                   = [status |-> 200, route |-> FlowRoutes[5]]
  <2> DEFINE p == <<<<"flows">>, t>>
  <2>1. \A i \in {2, 4, 5} : Matches(FlowRoutes[i], p)
    BY <1>1, <1>4, <1>10
  <2>2. \A i \in {1, 3} : ~Matches(FlowRoutes[i], p)
    BY <1>1, <1>4
  <2> HIDE DEF p
  <2>3. Dispatch(FlowRoutes, "GET", p)
          = [status |-> 200, route |-> FlowRoutes[2]]
    BY <1>1, <1>7, <2>1, <2>2, FirstMatch
  <2>4. Dispatch(FlowRoutes, "PATCH", p)
          = [status |-> 200, route |-> FlowRoutes[4]]
    BY <1>1, <1>7, <2>1, <2>2, FirstMatch
  <2>5. Dispatch(FlowRoutes, "DELETE", p)
          = [status |-> 200, route |-> FlowRoutes[5]]
    BY <1>1, <1>7, <2>1, <2>2, FirstMatch
  <2> QED
    BY <2>3, <2>4, <2>5 DEF p
<1>11. \A method, p :
         (\A j \in DOMAIN FlowRoutes : ~Matches(FlowRoutes[j], p)
                                       \/ FlowRoutes[j].method # method)
           => Dispatch(FlowRoutes, method, p).status # 200
  <2>1. \A n \in {307, 404, 405} : n # 200
    OBVIOUS
  <2> QED
    BY <2>1, NoMatch
<1>12. \A method \in {"PATCH", "DELETE"} :
         Dispatch(FlowRoutes, method, <<<<"flows">>>>).status # 200
  BY <1>1, <1>3, <1>11
<1> QED
  BY <1>8, <1>9, <1>10, <1>12

(* The same of the user service.                                           *)
LEMMA UcDispatch ==
  /\ LET hit(method, p, i) == Dispatch(UcRoutes, method, p)
                                = [status |-> 200, route |-> UcRoutes[i]]
     IN  /\ hit("GET", <<<<"users">>>>, 1) /\ hit("POST", <<<<"users">>>>, 4)
         /\ hit("GET", <<<<"users">>, <<"by-username">>>>, 2)
         /\ \A t : t # <<>> => /\ t # <<"by-username">> =>
                                    hit("GET", <<<<"users">>, t>>, 3)
                               /\ hit("PATCH", <<<<"users">>, t>>, 5)
                               /\ hit("DELETE", <<<<"users">>, t>>, 6)
  /\ LET miss(method, p) == Dispatch(UcRoutes, method, p).status # 200
     IN  /\ miss("PATCH", <<<<"users">>>>) /\ miss("DELETE", <<<<"users">>>>)
<1>1. /\ DOMAIN UcRoutes = {1, 2, 3, 4, 5, 6}
      /\ UcRoutes[1].method = "GET" /\ UcRoutes[1].path = Users
      /\ UcRoutes[2].method = "GET" /\ UcRoutes[2].path = ByUsername
      /\ UcRoutes[3].method = "GET" /\ UcRoutes[3].path = User
      /\ UcRoutes[4].method = "POST" /\ UcRoutes[4].path = Users
      /\ UcRoutes[5].method = "PATCH" /\ UcRoutes[5].path = User
      /\ UcRoutes[6].method = "DELETE" /\ UcRoutes[6].path = User
  BY DEF UcRoutes, Serve
<1>2. /\ \A x : Len(<<x>>) = 1
      /\ \A x, y : Len(<<x, y>>) = 2
  OBVIOUS
<1>3. \A i \in DOMAIN UcRoutes : \A a :
        Matches(UcRoutes[i], <<a>>) <=> i \in {1, 4} /\ a = <<"users">>
  <2> SUFFICES ASSUME NEW i \in DOMAIN UcRoutes, NEW a
               PROVE  Matches(UcRoutes[i], <<a>>)
                        <=> i \in {1, 4} /\ a = <<"users">>
    OBVIOUS
  <2>1. Len(<<a>>) = 1 /\ Len(<<a>>) # 2
    BY <1>2
  <2>2. CASE i \in {1, 4}
    <3>1. UcRoutes[i].path = Users
      BY <1>1, <2>2
    <3> QED
      BY <2>2, <3>1, TemplateMatches
  <2>3. CASE i = 2
    <3>1. UcRoutes[i].path = ByUsername
      BY <1>1, <2>3
    <3> QED
      BY <2>1, <2>3, <3>1, TemplateMatches
  <2>4. CASE i \in {3, 5, 6}
    <3>1. UcRoutes[i].path = User
      BY <1>1, <2>4
    <3> QED
      BY <2>1, <2>4, <3>1, TemplateMatches
  <2> QED
    BY <1>1, <2>2, <2>3, <2>4
<1>4. \A i \in DOMAIN UcRoutes : \A a, b :
        Matches(UcRoutes[i], <<a, b>>)
          <=> /\ i \in {2, 3, 5, 6} /\ a = <<"users">> /\ b # <<>>
              /\ i = 2 => b = <<"by-username">>
  <2> SUFFICES ASSUME NEW i \in DOMAIN UcRoutes, NEW a, NEW b
               PROVE  Matches(UcRoutes[i], <<a, b>>)
                        <=> /\ i \in {2, 3, 5, 6}
                            /\ a = <<"users">> /\ b # <<>>
                            /\ i = 2 => b = <<"by-username">>
    OBVIOUS
  <2>1. <<"by-username">> # <<>> /\ Len(<<a, b>>) # 1
    BY <1>2
  <2>2. CASE i \in {1, 4}
    <3>1. UcRoutes[i].path = Users
      BY <1>1, <2>2
    <3> QED
      BY <2>1, <2>2, <3>1, TemplateMatches
  <2>3. CASE i = 2
    <3>1. UcRoutes[i].path = ByUsername
      BY <1>1, <2>3
    <3> QED
      BY <2>1, <2>3, <3>1, TemplateMatches
  <2>4. CASE i \in {3, 5, 6}
    <3>1. UcRoutes[i].path = User
      BY <1>1, <2>4
    <3> QED
      BY <2>4, <3>1, TemplateMatches
  <2> QED
    BY <1>1, <2>2, <2>3, <2>4
<1>7. DOMAIN UcRoutes \subseteq Nat
  BY <1>1
<1>8. Dispatch(UcRoutes, "GET", <<<<"users">>>>)
        = [status |-> 200, route |-> UcRoutes[1]]
  BY <1>1, <1>3, <1>7, FirstMatch
<1>9. Dispatch(UcRoutes, "POST", <<<<"users">>>>)
        = [status |-> 200, route |-> UcRoutes[4]]
  BY <1>1, <1>3, <1>7, FirstMatch
<1>10. ASSUME NEW t, t # <<>>
       PROVE  /\ t # <<"by-username">> =>
                   Dispatch(UcRoutes, "GET", <<<<"users">>, t>>)
                     = [status |-> 200, route |-> UcRoutes[3]]
              /\ t = <<"by-username">> =>
                   Dispatch(UcRoutes, "GET", <<<<"users">>, t>>)
                     = [status |-> 200, route |-> UcRoutes[2]]
              /\ Dispatch(UcRoutes, "PATCH", <<<<"users">>, t>>)
                   = [status |-> 200, route |-> UcRoutes[5]]
              /\ Dispatch(UcRoutes, "DELETE", <<<<"users">>, t>>)
                   = [status |-> 200, route |-> UcRoutes[6]]
  <2> DEFINE p == <<<<"users">>, t>>
  <2>1. \A i \in {3, 5, 6} : Matches(UcRoutes[i], p)
    BY <1>1, <1>4, <1>10
  <2>2. /\ \A i \in {1, 4} : ~Matches(UcRoutes[i], p)
        /\ Matches(UcRoutes[2], p) <=> t = <<"by-username">>
    BY <1>1, <1>4, <1>10
  <2> HIDE DEF p
  <2>3. t # <<"by-username">> => Dispatch(UcRoutes, "GET", p)
          = [status |-> 200, route |-> UcRoutes[3]]
    BY <1>1, <1>7, <2>1, <2>2, FirstMatch
  <2>4. t = <<"by-username">> => Dispatch(UcRoutes, "GET", p)
          = [status |-> 200, route |-> UcRoutes[2]]
    BY <1>1, <1>7, <2>1, <2>2, FirstMatch
  <2>5. Dispatch(UcRoutes, "PATCH", p)
          = [status |-> 200, route |-> UcRoutes[5]]
    BY <1>1, <1>7, <2>1, <2>2, FirstMatch
  <2>6. Dispatch(UcRoutes, "DELETE", p)
          = [status |-> 200, route |-> UcRoutes[6]]
    BY <1>1, <1>7, <2>1, <2>2, FirstMatch
  <2> QED
    BY <2>3, <2>4, <2>5, <2>6 DEF p
<1>11. \A method, p :
         (\A j \in DOMAIN UcRoutes : ~Matches(UcRoutes[j], p)
                                     \/ UcRoutes[j].method # method)
           => Dispatch(UcRoutes, method, p).status # 200
  <2>1. \A n \in {307, 404, 405} : n # 200
    OBVIOUS
  <2> QED
    BY <2>1, NoMatch
<1>12. \A method \in {"PATCH", "DELETE"} :
         Dispatch(UcRoutes, method, <<<<"users">>>>).status # 200
  BY <1>1, <1>3, <1>11
<1>14. <<"by-username">> # <<>>
  OBVIOUS
<1>15. Dispatch(UcRoutes, "GET", <<<<"users">>, <<"by-username">>>>)
         = [status |-> 200, route |-> UcRoutes[2]]
  BY <1>10, <1>14
<1> QED
  BY <1>8, <1>9, <1>10, <1>12, <1>15

(* What a text with a slash, the text .. or the empty text makes of a path *)
(* is no route of the flow service.                                        *)
LEMMA FlowMisses ==
  ASSUME NEW method, NEW p,
         \/ p = <<<<>>>> \/ p = <<<<"flows">>, <<>>>>
         \/ Len(p) >= 3 /\ Len(p) \in Nat
  PROVE  Dispatch(FlowRoutes, method, p).status # 200
<1>1. /\ DOMAIN FlowRoutes = {1, 2, 3, 4, 5}
      /\ FlowRoutes[1].path = Flows /\ FlowRoutes[2].path = Flow
      /\ FlowRoutes[3].path = Flows /\ FlowRoutes[4].path = Flow
      /\ FlowRoutes[5].path = Flow
  BY DEF FlowRoutes, Serve
<1>2. /\ \A x : Len(<<x>>) = 1
      /\ \A x, y : Len(<<x, y>>) = 2
      /\ <<"flows">> # <<>>
      /\ \A n \in Nat : n >= 3 => n # 1 /\ n # 2
  OBVIOUS
<1>3. ASSUME NEW i \in DOMAIN FlowRoutes, Matches(FlowRoutes[i], p)
      PROVE  FALSE
  <2> DEFINE d == FlowRoutes[i]
  <2>1. Matches(d, p) /\ d.path \in {Flows, Flow}
    BY <1>1, <1>3
  <2> HIDE DEF d
  <2>2. CASE Len(p) >= 3 /\ Len(p) \in Nat
    <3>1. Len(p) # 1 /\ Len(p) # 2
      BY <1>2, <2>2
    <3> QED
      BY <2>1, <3>1, TemplateMatches
  <2>3. CASE p = <<<<>>>>
    <3>1. Len(p) # 2
      BY <1>2, <2>3
    <3>2. CASE d.path = Flows
      BY <1>2, <2>1, <2>3, <3>1, <3>2, TemplateMatches
    <3>3. CASE d.path = Flow
      BY <1>2, <2>1, <2>3, <3>1, <3>3, TemplateMatches
    <3> QED
      BY <2>1, <3>2, <3>3
  <2>4. CASE p = <<<<"flows">>, <<>>>>
    <3>1. Len(p) # 1
      BY <1>2, <2>4
    <3>2. CASE d.path = Flows
      BY <1>2, <2>1, <2>4, <3>1, <3>2, TemplateMatches
    <3>3. CASE d.path = Flow
      BY <1>2, <2>1, <2>4, <3>1, <3>3, TemplateMatches
    <3> QED
      BY <2>1, <3>2, <3>3
  <2> QED
    BY <2>2, <2>3, <2>4
<1> QED
  <2>1. \A n \in {307, 404, 405} : n # 200
    OBVIOUS
  <2> QED
    BY <1>3, <2>1, NoMatch

(* Nor of the user service.                                                *)
LEMMA UcMisses ==
  ASSUME NEW method, NEW p,
         \/ p = <<<<>>>> \/ p = <<<<"users">>, <<>>>>
         \/ Len(p) >= 3 /\ Len(p) \in Nat
  PROVE  Dispatch(UcRoutes, method, p).status # 200
<1>1. /\ DOMAIN UcRoutes = {1, 2, 3, 4, 5, 6}
      /\ UcRoutes[1].path = Users /\ UcRoutes[2].path = ByUsername
      /\ UcRoutes[3].path = User /\ UcRoutes[4].path = Users
      /\ UcRoutes[5].path = User /\ UcRoutes[6].path = User
  BY DEF UcRoutes, Serve
<1>2. /\ \A x : Len(<<x>>) = 1
      /\ \A x, y : Len(<<x, y>>) = 2
      /\ <<"users">> # <<>> /\ <<"by-username">> # <<>>
      /\ \A n \in Nat : n >= 3 => n # 1 /\ n # 2
  OBVIOUS
<1>3. ASSUME NEW i \in DOMAIN UcRoutes, Matches(UcRoutes[i], p)
      PROVE  FALSE
  <2> DEFINE d == UcRoutes[i]
  <2>1. Matches(d, p) /\ d.path \in {Users, ByUsername, User}
    BY <1>1, <1>3
  <2> HIDE DEF d
  <2>2. CASE Len(p) >= 3 /\ Len(p) \in Nat
    <3>1. Len(p) # 1 /\ Len(p) # 2
      BY <1>2, <2>2
    <3> QED
      BY <2>1, <3>1, TemplateMatches
  <2>3. CASE p = <<<<>>>>
    <3>1. Len(p) # 2
      BY <1>2, <2>3
    <3>2. CASE d.path = Users
      BY <1>2, <2>1, <2>3, <3>1, <3>2, TemplateMatches
    <3>3. CASE d.path = ByUsername
      BY <1>2, <2>1, <2>3, <3>1, <3>3, TemplateMatches
    <3>4. CASE d.path = User
      BY <1>2, <2>1, <2>3, <3>1, <3>4, TemplateMatches
    <3> QED
      BY <2>1, <3>2, <3>3, <3>4
  <2>4. CASE p = <<<<"users">>, <<>>>>
    <3>1. Len(p) # 1
      BY <1>2, <2>4
    <3>2. CASE d.path = Users
      BY <1>2, <2>1, <2>4, <3>1, <3>2, TemplateMatches
    <3>3. CASE d.path = ByUsername
      BY <1>2, <2>1, <2>4, <3>1, <3>3, TemplateMatches
    <3>4. CASE d.path = User
      BY <1>2, <2>1, <2>4, <3>1, <3>4, TemplateMatches
    <3> QED
      BY <2>1, <3>2, <3>3, <3>4
  <2> QED
    BY <2>2, <2>3, <2>4
<1> QED
  <2>1. \A n \in {307, 404, 405} : n # 200
    OBVIOUS
  <2> QED
    BY <1>3, <2>1, NoMatch

-----------------------------------------------------------------------------
(* The routes of the BFF                                                   *)

(* The BFF runs a handler only for a path that matches its route.          *)
LEMMA BffDispatch ==
  ASSUME NEW method, NEW p,
         Dispatch(BffRoutes, method, p).status = 200
  PROVE  \E i \in 1..6 : /\ Dispatch(BffRoutes, method, p).route = BffRoutes[i]
                         /\ Matches(BffRoutes[i], p)
                         /\ BffRoutes[i].method = method
<1> DEFINE full == {i \in {i \in DOMAIN BffRoutes : Matches(BffRoutes[i], p)} :
                      BffRoutes[i].method = method}
           first == CHOOSE i \in full : \A j \in full : i <= j
<1>1. DOMAIN BffRoutes = {1, 2, 3, 4, 5, 6} /\ 1..6 = {1, 2, 3, 4, 5, 6}
  BY DEF BffRoutes
<1>2. full # {}
  <2>1. \A n \in {307, 404, 405} : n # 200
    OBVIOUS
  <2> QED
    BY <2>1, NoMatch
<1>3. Dispatch(BffRoutes, method, p).route = BffRoutes[first]
  BY <1>2 DEF Dispatch
<1>4. full \subseteq {1, 2, 3, 4, 5, 6}
  BY <1>1
<1>5. first \in full
  <2> HIDE DEF full
  <2>1. \E i \in full : \A j \in full : i <= j
    <3>1. \A j \in full : j = 1 \/ j = 2 \/ j = 3 \/ j = 4 \/ j = 5 \/ j = 6
      BY <1>4
    <3>2. CASE 1 \in full
      BY <3>1, <3>2
    <3>3. CASE 1 \notin full /\ 2 \in full
      BY <3>1, <3>3
    <3>4. CASE 1 \notin full /\ 2 \notin full /\ 3 \in full
      BY <3>1, <3>4
    <3>5. CASE /\ 1 \notin full /\ 2 \notin full /\ 3 \notin full
               /\ 4 \in full
      BY <3>1, <3>5
    <3>6. CASE /\ 1 \notin full /\ 2 \notin full /\ 3 \notin full
               /\ 4 \notin full /\ 5 \in full
      BY <3>1, <3>6
    <3>7. CASE /\ 1 \notin full /\ 2 \notin full /\ 3 \notin full
               /\ 4 \notin full /\ 5 \notin full
      BY <1>2, <3>1, <3>7
    <3> QED
      BY <3>2, <3>3, <3>4, <3>5, <3>6, <3>7
  <2> QED
    BY <2>1
<1> HIDE DEF first
<1> QED
  BY <1>1, <1>3, <1>5

(* The routes of the BFF, one by one.                                      *)
LEMMA BffTable ==
  /\ DOMAIN BffRoutes = 1..6
  /\ BffRoutes[1] = Serve("GET", Flows, {}, "list_flows", "list")
  /\ BffRoutes[2] = Serve("GET", Flow, {}, "get_flow", "model")
  /\ BffRoutes[3] = Serve("POST", Flows, {}, "create_flow", "model")
  /\ BffRoutes[4] = Serve("GET", User, {}, "get_user", "model")
  /\ BffRoutes[5]
       = Serve("GET", OfUsername, {}, "get_user_by_username", "model")
  /\ BffRoutes[6] = Serve("GET", WithOwner, {}, "get_flow", "model")
BY DEF BffRoutes

(* The routes of the BFF by the length and the first segment of a path.    *)
LEMMA BffMatches ==
  /\ \A i \in 1..6 : \A p : Matches(BffRoutes[i], p) =>
       Len(p) = IF i \in {1, 3} THEN 1 ELSE IF i \in {2, 4} THEN 2 ELSE 3
  /\ \A i \in 1..6 : \A a : Matches(BffRoutes[i], <<a>>) =>
       i \in {1, 3} /\ a = <<"flows">>
  /\ \A i \in 1..6 : \A a, b : Matches(BffRoutes[i], <<a, b>>) =>
       /\ i \in {2, 4} /\ b # <<>>
       /\ a = IF i = 2 THEN <<"flows">> ELSE <<"users">>
  /\ \A i \in 1..6 : \A a, b, c : Matches(BffRoutes[i], <<a, b, c>>) =>
       \/ i = 5 /\ a = <<"users">> /\ b = <<"by-username">> /\ c # <<>>
       \/ i = 6 /\ a = <<"flows">> /\ b # <<>> /\ c = <<"with-owner">>
<1>1. /\ BffRoutes[1].path = Flows /\ BffRoutes[2].path = Flow
      /\ BffRoutes[3].path = Flows /\ BffRoutes[4].path = User
      /\ BffRoutes[5].path = OfUsername /\ BffRoutes[6].path = WithOwner
  BY BffTable DEF Serve
<1>2. /\ \A x : Len(<<x>>) = 1
      /\ \A x, y : Len(<<x, y>>) = 2
      /\ \A x, y, z : Len(<<x, y, z>>) = 3
  OBVIOUS
<1>3. ASSUME NEW i \in 1..6, NEW p, Matches(BffRoutes[i], p)
      PROVE  /\ Len(p) = IF i \in {1, 3} THEN 1
                         ELSE IF i \in {2, 4} THEN 2 ELSE 3
             /\ \A a : p = <<a>> => a = <<"flows">>
             /\ \A a, b : p = <<a, b>> =>
                  b # <<>> /\ a = IF i = 2 THEN <<"flows">> ELSE <<"users">>
             /\ \A a, b, c : p = <<a, b, c>> =>
                  \/ i = 5 /\ a = <<"users">> /\ b = <<"by-username">>
                           /\ c # <<>>
                  \/ i = 6 /\ a = <<"flows">> /\ b # <<>>
                           /\ c = <<"with-owner">>
  <2>1. CASE i \in {1, 3}
    <3>1. BffRoutes[i].path = Flows
      BY <1>1, <2>1
    <3>2. Len(p) = 1
      BY <1>3, <3>1, TemplateMatches
    <3>3. \A a : p = <<a>> => a = <<"flows">>
      BY <1>3, <3>1, TemplateMatches
    <3> QED
      BY <1>2, <2>1, <3>2, <3>3
  <2>2. CASE i = 2
    <3>1. BffRoutes[i].path = Flow
      BY <1>1, <2>2
    <3>2. Len(p) = 2
      BY <1>3, <3>1, TemplateMatches
    <3>3. \A a, b : p = <<a, b>> => b # <<>> /\ a = <<"flows">>
      BY <1>3, <3>1, TemplateMatches
    <3> QED
      BY <1>2, <2>2, <3>2, <3>3
  <2>3. CASE i = 4
    <3>1. BffRoutes[i].path = User
      BY <1>1, <2>3
    <3>2. Len(p) = 2
      BY <1>3, <3>1, TemplateMatches
    <3>3. \A a, b : p = <<a, b>> => b # <<>> /\ a = <<"users">>
      BY <1>3, <3>1, TemplateMatches
    <3> QED
      BY <1>2, <2>3, <3>2, <3>3
  <2>4. CASE i = 5
    <3>1. BffRoutes[i].path = OfUsername
      BY <1>1, <2>4
    <3>2. Len(p) = 3
      BY <1>3, <3>1, TemplateMatches
    <3>3. \A a, b, c : p = <<a, b, c>> =>
            a = <<"users">> /\ b = <<"by-username">> /\ c # <<>>
      BY <1>3, <3>1, TemplateMatches
    <3> QED
      BY <1>2, <2>4, <3>2, <3>3
  <2>5. CASE i = 6
    <3>1. BffRoutes[i].path = WithOwner
      BY <1>1, <2>5
    <3>2. Len(p) = 3
      BY <1>3, <3>1, TemplateMatches
    <3>3. \A a, b, c : p = <<a, b, c>> =>
            a = <<"flows">> /\ b # <<>> /\ c = <<"with-owner">>
      BY <1>3, <3>1, TemplateMatches
    <3> QED
      BY <1>2, <2>5, <3>2, <3>3
  <2> QED
    BY <2>1, <2>2, <2>3, <2>4, <2>5
<1>4. ASSUME NEW i \in 1..6, NEW a, Matches(BffRoutes[i], <<a>>)
      PROVE  i \in {1, 3} /\ a = <<"flows">>
  BY <1>2, <1>3, <1>4
<1>5. ASSUME NEW i \in 1..6, NEW a, NEW b, Matches(BffRoutes[i], <<a, b>>)
      PROVE  /\ i \in {2, 4} /\ b # <<>>
             /\ a = IF i = 2 THEN <<"flows">> ELSE <<"users">>
  <2> DEFINE p == <<a, b>>
  <2>1. Len(p) = 2
    BY <1>2
  <2>2. Matches(BffRoutes[i], p)
    BY <1>5
  <2>3. b # <<>> /\ a = IF i = 2 THEN <<"flows">> ELSE <<"users">>
    BY <1>3, <2>2
  <2> HIDE DEF p
  <2>4. i \in {2, 4}
    BY <1>3, <2>1, <2>2
  <2> QED
    BY <2>3, <2>4
<1>6. ASSUME NEW i \in 1..6, NEW a, NEW b, NEW c,
             Matches(BffRoutes[i], <<a, b, c>>)
      PROVE  \/ i = 5 /\ a = <<"users">> /\ b = <<"by-username">> /\ c # <<>>
             \/ i = 6 /\ a = <<"flows">> /\ b # <<>> /\ c = <<"with-owner">>
  BY <1>3, <1>6
<1> QED
  BY <1>3, <1>4, <1>5, <1>6

(* A template with the placeholder n, and no other, at its k-th segment.   *)
Holds(path, n, k) ==
  \/ n = "flow_id" /\ k = 2 /\ path \in {Flow, WithOwner}
  \/ n = "user_id" /\ k = 2 /\ path = User
  \/ n = "username" /\ k = 3 /\ path = OfUsername

(* The placeholders of a template, and what a path gives for them.         *)
LEMMA PlainTemplates ==
  ASSUME NEW d, d.path \in {Flows, Users, ByUsername}
  PROVE  Range(PathParams(d)) = {}
<1>1. \A i \in DOMAIN d.path : ~d.path[i].placeholder
  BY DEF Flows, Users, ByUsername, Segment
<1> QED
  BY <1>1 DEF PathParams, Range

(* The one placeholder of a template.                                      *)
LEMMA TemplateSegments ==
  ASSUME NEW d, NEW n, NEW k, Holds(d.path, n, k)
  PROVE  /\ k \in DOMAIN d.path /\ d.path[k] = Placeholder(n)
         /\ \A i \in DOMAIN d.path : i # k => ~d.path[i].placeholder
<1>1. /\ k \in DOMAIN d.path /\ d.path[k] = Placeholder(n)
      /\ \A i \in DOMAIN d.path : i # k => ~d.path[i].placeholder
  <2>1. CASE d.path = Flow /\ n = "flow_id" /\ k = 2
    BY <2>1 DEF Flow, Segment, Placeholder
  <2>2. CASE d.path = WithOwner /\ n = "flow_id" /\ k = 2
    BY <2>2 DEF WithOwner, Segment, Placeholder
  <2>3. CASE d.path = User /\ n = "user_id" /\ k = 2
    BY <2>3 DEF User, Segment, Placeholder
  <2>4. CASE d.path = OfUsername /\ n = "username" /\ k = 3
    BY <2>4 DEF OfUsername, Segment, Placeholder
  <2> QED
    BY <2>1, <2>2, <2>3, <2>4 DEF Holds
<1> QED
  BY <1>1

(* The one parameter of a template.                                        *)
LEMMA TemplateParams ==
  ASSUME NEW d, NEW n, NEW k, Holds(d.path, n, k)
  PROVE  Range(PathParams(d)) = {n} /\ ResourceKey(d) = n
<1>1. /\ k \in DOMAIN d.path /\ d.path[k] = Placeholder(n)
      /\ \A i \in DOMAIN d.path : i # k => ~d.path[i].placeholder
  BY TemplateSegments
<1>2. Placeholder(n).placeholder /\ Placeholder(n).name = n
  BY DEF Placeholder
<1>3. PathParams(d) = [i \in {k} |-> n]
  <2>1. {i \in DOMAIN d.path : d.path[i].placeholder} = {k}
    BY <1>1, <1>2
  <2> QED
    BY <1>1, <1>2, <2>1 DEF PathParams
<1>4. Range(PathParams(d)) = {n}
  BY <1>3 DEF Range
<1>5. ResourceKey(d) = n
  BY <1>4 DEF ResourceKey
<1> QED
  BY <1>4, <1>5

(* A path of as many segments as a template.                               *)
Aligned(path, template) == DOMAIN path = DOMAIN template

(* A template captures the segment at its placeholder.                     *)
LEMMA TemplateCaptures ==
  ASSUME NEW d, NEW n, NEW k, NEW p, Holds(d.path, n, k), Aligned(p, d.path)
  PROVE  Captured(d, p)[n] = p[k]
<1> DEFINE place(m) == CHOOSE i \in DOMAIN p : d.path[i] = Placeholder(m)
<1>0. Range(PathParams(d)) = {n}
  BY TemplateParams
<1>1. /\ k \in DOMAIN d.path /\ d.path[k] = Placeholder(n)
      /\ \A i \in DOMAIN d.path : i # k => ~d.path[i].placeholder
  BY TemplateSegments
<1>2. Placeholder(n).placeholder
  BY DEF Placeholder
<1>3. Captured(d, p) = [m \in {n} |-> p[place(m)]]
  BY <1>0 DEF Captured
<1>4. place(n) = k
  BY <1>1, <1>2 DEF Aligned
<1> HIDE DEF place
<1> QED
  BY <1>3, <1>4

(* The paths that are asked of the BFF.                                    *)
LEMMA AskedPaths ==
  ASSUME NEW t \in Seq(Characters)
  PROVE  /\ \A i \in {1, 3} : AskedPath(BffRoutes[i], t) = <<<<"flows">>>>
         /\ AskedPath(BffRoutes[2], t) = Split(Slash(<<"flows">>, t))
         /\ AskedPath(BffRoutes[4], t) = Split(Slash(<<"users">>, t))
         /\ AskedPath(BffRoutes[5], t)
              = Split(Slash(Slash(<<"users">>, <<"by-username">>), t))
         /\ AskedPath(BffRoutes[6], t)
              = Split(Slash(Slash(<<"flows">>, t), <<"with-owner">>))
<1> DEFINE q == Quote(t)
           filled(d) == [k \in DOMAIN d.path |->
                          IF d.path[k].placeholder THEN q
                                                   ELSE <<d.path[k].name>>]
<1>1. q \in Text /\ Unquote(q) = t
  BY QuotedText
<1>2. \A name \in {"flows", "users", "by-username", "with-owner"} :
        /\ <<name>> \in Text /\ Unquote(<<name>>) = <<name>>
        /\ Slashes(<<name>>) = {}
  BY PlainTexts, UnquoteName
<1>3. \A d : AskedPath(d, t) = Decode(filled(d))
  BY DEF AskedPath
<1> HIDE DEF q
<1>4. /\ \A d : d.path = Flows => filled(d) = <<<<"flows">>>>
      /\ \A d : d.path = Flow => filled(d) = <<<<"flows">>, q>>
      /\ \A d : d.path = User => filled(d) = <<<<"users">>, q>>
  BY DEF Flows, Flow, User, Segment, Placeholder
<1>5. /\ \A d : d.path = OfUsername =>
           filled(d) = <<<<"users">>, <<"by-username">>, q>>
      /\ \A d : d.path = WithOwner =>
           filled(d) = <<<<"flows">>, q, <<"with-owner">>>>
  <2>1. ASSUME NEW d, d.path = OfUsername
        PROVE  filled(d) = <<<<"users">>, <<"by-username">>, q>>
    <3>1. /\ DOMAIN d.path = 1..3
          /\ ~d.path[1].placeholder /\ d.path[1].name = "users"
          /\ ~d.path[2].placeholder /\ d.path[2].name = "by-username"
          /\ d.path[3].placeholder
      BY <2>1 DEF OfUsername, Segment, Placeholder
    <3>2. /\ DOMAIN filled(d) = 1..3 /\ filled(d)[1] = <<"users">>
          /\ filled(d)[2] = <<"by-username">> /\ filled(d)[3] = q
      BY <3>1
    <3>3. filled(d) = [k \in 1..3 |-> filled(d)[k]]
      BY <3>1
    <3> HIDE DEF filled
    <3> QED
      BY <3>2, <3>3
  <2>2. ASSUME NEW d, d.path = WithOwner
        PROVE  filled(d) = <<<<"flows">>, q, <<"with-owner">>>>
    <3>1. /\ DOMAIN d.path = 1..3
          /\ ~d.path[1].placeholder /\ d.path[1].name = "flows"
          /\ d.path[2].placeholder
          /\ ~d.path[3].placeholder /\ d.path[3].name = "with-owner"
      BY <2>2 DEF WithOwner, Segment, Placeholder
    <3>2. /\ DOMAIN filled(d) = 1..3 /\ filled(d)[1] = <<"flows">>
          /\ filled(d)[2] = q /\ filled(d)[3] = <<"with-owner">>
      BY <3>1
    <3>3. filled(d) = [k \in 1..3 |-> filled(d)[k]]
      BY <3>1
    <3> HIDE DEF filled
    <3> QED
      BY <3>2, <3>3
  <2> QED
    BY <2>1, <2>2
<1>6. /\ BffRoutes[1].path = Flows /\ BffRoutes[2].path = Flow
      /\ BffRoutes[3].path = Flows /\ BffRoutes[4].path = User
      /\ BffRoutes[5].path = OfUsername /\ BffRoutes[6].path = WithOwner
  BY BffTable DEF Serve
<1> HIDE DEF filled
<1>7. Decode(<<<<"flows">>>>) = <<<<"flows">>>>
  <2> DEFINE n == <<"flows">>
  <2>1. n \in Text /\ Unquote(n) = n /\ Slashes(n) = {}
    BY <1>2
  <2> HIDE DEF n
  <2>2. Decode(<<n>>) = <<n>>
    BY <2>1, DecodeOfFew, SplitAtNone
  <2> QED
    BY <2>2 DEF n
<1>8. /\ Decode(<<<<"flows">>, q>>) = Split(Slash(<<"flows">>, t))
      /\ Decode(<<<<"users">>, q>>) = Split(Slash(<<"users">>, t))
  BY <1>1, <1>2, DecodeOfFew
<1>9. /\ Decode(<<<<"users">>, <<"by-username">>, q>>)
           = Split(Slash(Slash(<<"users">>, <<"by-username">>), t))
      /\ Decode(<<<<"flows">>, q, <<"with-owner">>>>)
           = Split(Slash(Slash(<<"flows">>, t), <<"with-owner">>))
  BY <1>1, <1>2, DecodeOfFew
<1> QED
  BY <1>3, <1>4, <1>5, <1>6, <1>7, <1>8, <1>9

(* What a path of the BFF gives for the placeholder of a route.            *)
Caught(j, p) == Captured(BffRoutes[j], p)[ResourceKey(BffRoutes[j])]

(* The segment that each route of the BFF captures.                        *)
LEMMA CaughtSegment ==
  /\ \A a, b : \A j \in {2, 4} : Caught(j, <<a, b>>) = b
  /\ \A a, b, c : Caught(5, <<a, b, c>>) = c /\ Caught(6, <<a, b, c>>) = b
<1>1. /\ BffRoutes[2].path = Flow /\ BffRoutes[4].path = User
      /\ BffRoutes[5].path = OfUsername /\ BffRoutes[6].path = WithOwner
  BY BffTable DEF Serve
<1>2. /\ DOMAIN Flow = 1..2 /\ DOMAIN User = 1..2
      /\ DOMAIN OfUsername = 1..3 /\ DOMAIN WithOwner = 1..3
  BY DEF Flow, User, OfUsername, WithOwner
<1>3. ASSUME NEW j, NEW n, NEW k, NEW p, Holds(BffRoutes[j].path, n, k),
             DOMAIN p = DOMAIN BffRoutes[j].path
      PROVE  Caught(j, p) = p[k]
  <2> DEFINE d == BffRoutes[j]
  <2>1. Holds(d.path, n, k) /\ Aligned(p, d.path)
    BY <1>3 DEF Aligned
  <2>2. Caught(j, p) = Captured(d, p)[ResourceKey(d)]
    BY DEF Caught
  <2> HIDE DEF d
  <2>3. ResourceKey(d) = n
    BY <2>1, TemplateParams
  <2>4. Captured(d, p)[n] = p[k]
    BY <2>1, TemplateCaptures
  <2> QED
    BY <2>2, <2>3, <2>4
<1>4. ASSUME NEW a, NEW b
      PROVE  Caught(2, <<a, b>>) = b /\ Caught(4, <<a, b>>) = b
  <2> DEFINE p == <<a, b>>
  <2>1. DOMAIN p = 1..2 /\ p[2] = b
    OBVIOUS
  <2> HIDE DEF p
  <2>2. Caught(2, p) = b
    BY <1>1, <1>2, <1>3, <2>1 DEF Holds
  <2>3. Caught(4, p) = b
    BY <1>1, <1>2, <1>3, <2>1 DEF Holds
  <2> QED
    BY <2>2, <2>3 DEF p
<1>5. ASSUME NEW a, NEW b, NEW c
      PROVE  Caught(5, <<a, b, c>>) = c /\ Caught(6, <<a, b, c>>) = b
  <2> DEFINE p == <<a, b, c>>
  <2>1. DOMAIN p = 1..3 /\ p[2] = b /\ p[3] = c
    OBVIOUS
  <2> HIDE DEF p
  <2>2. Caught(5, p) = c
    BY <1>1, <1>2, <1>3, <2>1 DEF Holds
  <2>3. Caught(6, p) = b
    BY <1>1, <1>2, <1>3, <2>1 DEF Holds
  <2> QED
    BY <2>2, <2>3 DEF p
<1> QED
  BY <1>4, <1>5

(* Two texts joined have the slashes of each, and one more.                *)
LEMMA SlashCuts ==
  ASSUME NEW x \in Text, NEW y \in Text, NEW s, s = Slash(x, y)
  PROVE  /\ Slashes(x) \subseteq Slashes(s) /\ Len(x) + 1 \in Slashes(s)
         /\ \A i \in Slashes(y) : Len(x) + 1 + i \in Slashes(s)
BY SlashPieces

(* A path that has two slashes more than those of its text, if the text    *)
(* has one, matches no route; else its text is a segment of it.            *)
LEMMA LongPaths ==
  ASSUME NEW t \in Seq(Characters)
  PROVE  LET s == Slash(Slash(<<"users">>, <<"by-username">>), t)
             r == Slash(Slash(<<"flows">>, t), <<"with-owner">>)
         IN  IF "/" \in Range(t) THEN Len(Split(s)) >= 4 /\ Len(Split(r)) >= 4
             ELSE /\ Split(s) = <<<<"users">>, <<"by-username">>, t>>
                  /\ Split(r) = <<<<"flows">>, t, <<"with-owner">>>>
<1> DEFINE f == <<"flows">>
           u == <<"users">>
           b == <<"by-username">>
           w == <<"with-owner">>
           s == Slash(Slash(u, b), t)
           r == Slash(Slash(f, t), w)
<1>1. /\ f \in Text /\ u \in Text /\ b \in Text /\ w \in Text /\ t \in Text
      /\ Slashes(f) = {} /\ Slashes(u) = {}
      /\ Slashes(b) = {} /\ Slashes(w) = {}
      /\ Len(f) = 1 /\ Len(u) = 1 /\ Len(b) = 1
  BY PlainTexts
<1>2. "/" \in Range(t) <=> Slashes(t) # {}
  BY DEF Range, Slashes
<1>3. ASSUME "/" \in Range(t)
      PROVE  Len(Split(s)) >= 4 /\ Len(Split(r)) >= 4
  <2>1. PICK i \in Slashes(t) : TRUE
    BY <1>2, <1>3
  <2>2. i \in Nat /\ 0 < i /\ i <= Len(t) /\ Len(t) \in Nat
    BY DEF Slashes
  <2>3. /\ s \in Text /\ r \in Text
        /\ Slash(u, b) \in Text /\ Slash(f, t) \in Text
        /\ Len(Slash(u, b)) = 3 /\ Len(Slash(f, t)) = Len(t) + 2
    <3> HIDE DEF f, u, b, w
    <3>1. /\ Slash(u, b) \in Text /\ Len(Slash(u, b)) = Len(u) + Len(b) + 1
          /\ Slash(f, t) \in Text /\ Len(Slash(f, t)) = Len(f) + Len(t) + 1
      BY <1>1, SlashParts
    <3>2. s \in Text /\ r \in Text
      BY <1>1, <3>1, SlashParts
    <3> QED
      BY <1>1, <2>2, <3>1, <3>2
  <2>4. 2 \in Slashes(s) /\ 4 \in Slashes(s) /\ 4 + i \in Slashes(s)
    <3> HIDE DEF f, u, b, w
    <3>1. Len(u) + 1 \in Slashes(Slash(u, b))
      BY <1>1, SlashCuts
    <3>2. /\ Slashes(Slash(u, b)) \subseteq Slashes(s)
          /\ Len(Slash(u, b)) + 1 \in Slashes(s)
          /\ Len(Slash(u, b)) + 1 + i \in Slashes(s)
      BY <1>1, <2>1, <2>3, SlashCuts
    <3>3. Len(u) + 1 = 2 /\ Len(Slash(u, b)) + 1 = 4
      BY <1>1, <2>3
    <3> QED
      BY <3>1, <3>2, <3>3
  <2>5. 2 \in Slashes(r) /\ 2 + i \in Slashes(r) /\ Len(t) + 3 \in Slashes(r)
    <3> HIDE DEF f, u, b, w
    <3>1. /\ Len(f) + 1 \in Slashes(Slash(f, t))
          /\ Len(f) + 1 + i \in Slashes(Slash(f, t))
      BY <1>1, <2>1, SlashCuts
    <3>2. /\ Slashes(Slash(f, t)) \subseteq Slashes(r)
          /\ Len(Slash(f, t)) + 1 \in Slashes(r)
      BY <1>1, <2>3, SlashCuts
    <3>3. Len(f) + 1 = 2 /\ Len(Slash(f, t)) + 1 = Len(t) + 3
      BY <1>1, <2>2, <2>3
    <3> QED
      BY <3>1, <3>2, <3>3
  <2> HIDE DEF s, r
  <2>6. Len(Split(s)) >= 4
    <3>1. 2 < 4 /\ 4 < 4 + i
      BY <2>2
    <3> QED
      BY <2>3, <2>4, <3>1, SplitAtMany
  <2>7. Len(Split(r)) >= 4
    <3>1. 2 < 2 + i /\ 2 + i < Len(t) + 3
      BY <2>2
    <3> QED
      BY <2>3, <2>5, <3>1, SplitAtMany
  <2> QED
    BY <2>6, <2>7
<1>4. ASSUME "/" \notin Range(t)
      PROVE  Split(s) = <<u, b, t>> /\ Split(r) = <<f, t, w>>
  <2> HIDE DEF f, u, b, w
  <2> QED
    BY <1>1, <1>2, <1>4, SplitOfThree
<1> QED
  BY <1>3, <1>4

(* A path of three segments, found by splitting it, is their triple.       *)
LEMMA SplitTriple ==
  ASSUME NEW s \in Seq(Characters), Len(Split(s)) = 3
  PROVE  \E a, b, c \in Seq(Characters) :
           /\ Split(s) = <<a, b, c>>
           /\ "/" \notin Range(a) /\ "/" \notin Range(b) /\ "/" \notin Range(c)
<1> DEFINE p == Split(s)
<1>1. \A n \in 1..3 : p[n] \in Seq(Characters) /\ Slashes(p[n]) = {}
  BY SplitIntoThree
<1>2. \A x : Slashes(x) = {} => "/" \notin Range(x)
  BY DEF Slashes, Range
<1>3. p = [n \in 1..3 |-> p[n]]
  <2> DEFINE S == Slashes(s) \cup {0, Len(s) + 1}
  <2>1. s \in Text
    BY PlainTexts
  <2>2. /\ Cardinality(Slashes(s)) \in Nat
        /\ Len(p) = Cardinality(Slashes(s)) + 1
        /\ DOMAIN p = 1..(Cardinality(Slashes(s)) + 1)
    BY <2>1, SplitLength
  <2>3. p = [n \in 1..(Cardinality(S) - 1) |->
               Piece(s, Nth(S, n), Nth(S, n + 1))]
    BY <2>1, SplitByCuts
  <2>4. DOMAIN p = 1..3
    BY <2>2
  <2>5. p = [n \in DOMAIN p |-> p[n]]
    BY <2>3
  <2> HIDE DEF p
  <2> QED
    BY <2>4, <2>5
<1> HIDE DEF p
<1>4. p = <<p[1], p[2], p[3]>>
  BY <1>3
<1> QED
  BY <1>1, <1>2, <1>4 DEF p

(* What the BFF's route hands on, whatever text it was asked for: a text   *)
(* that a path carries, and the text itself if it is such a one.           *)
LEMMA BffCatches ==
  ASSUME NEW i \in {2, 4, 5, 6}, NEW t \in Seq(Characters), NEW j \in 1..6,
         NEW p, p = AskedPath(BffRoutes[i], t), Matches(BffRoutes[j], p)
  PROVE  /\ j \in {2, 4, 5, 6} /\ Caught(j, p) \in Seq(Characters)
         /\ Caught(j, p) # <<>> /\ "/" \notin Range(Caught(j, p))
         /\ "/" \notin Range(t) => j = i /\ Caught(j, p) = t
<1>1. /\ i = 2 => p = Split(Slash(<<"flows">>, t))
      /\ i = 4 => p = Split(Slash(<<"users">>, t))
      /\ i = 5 => p = Split(Slash(Slash(<<"users">>, <<"by-username">>), t))
      /\ i = 6 => p = Split(Slash(Slash(<<"flows">>, t), <<"with-owner">>))
  BY AskedPaths
<1>2. <<"flows">> # <<"users">>
  OBVIOUS
<1>3. CASE "/" \notin Range(t)
  <2>1. CASE i = 2
    <3>1. p = <<<<"flows">>, t>>
      BY <1>1, <1>3, <2>1, SplitNameAndText
    <3>2. j = 2 /\ t # <<>>
      BY <1>2, <3>1, BffMatches
    <3> QED
      BY <1>3, <2>1, <3>1, <3>2, CaughtSegment
  <2>2. CASE i = 4
    <3>1. p = <<<<"users">>, t>>
      BY <1>1, <1>3, <2>2, SplitNameAndText
    <3>2. j = 4 /\ t # <<>>
      BY <1>2, <3>1, BffMatches
    <3> QED
      BY <1>3, <2>2, <3>1, <3>2, CaughtSegment
  <2>3. CASE i = 5
    <3>1. p = <<<<"users">>, <<"by-username">>, t>>
      BY <1>1, <1>3, <2>3, LongPaths
    <3>2. j = 5 /\ t # <<>>
      BY <1>2, <3>1, BffMatches
    <3> QED
      BY <1>3, <2>3, <3>1, <3>2, CaughtSegment
  <2>4. CASE i = 6
    <3>1. p = <<<<"flows">>, t, <<"with-owner">>>>
      BY <1>1, <1>3, <2>4, LongPaths
    <3>2. j = 6 /\ t # <<>>
      BY <1>2, <3>1, BffMatches
    <3> QED
      BY <1>3, <2>4, <3>1, <3>2, CaughtSegment
  <2> QED
    BY <2>1, <2>2, <2>3, <2>4
<1>4. CASE "/" \in Range(t)
  <2>1. Len(p) = IF j \in {1, 3} THEN 1 ELSE IF j \in {2, 4} THEN 2 ELSE 3
    BY BffMatches
  <2>2. i \in {2, 4}
    <3>1. i \in {5, 6} => Len(p) >= 4
      BY <1>1, <1>4, LongPaths
    <3> QED
      BY <2>1, <3>1
  <2>3. PICK s \in Seq(Characters) : p = Split(s) /\ Len(p) >= 3
    BY <1>1, <1>4, <2>2, SplitNameAndText
  <2>4. Len(p) = 3
    BY <2>1, <2>3
  <2>5. PICK a \in Seq(Characters), b \in Seq(Characters),
             c \in Seq(Characters) :
          /\ p = <<a, b, c>>
          /\ "/" \notin Range(a) /\ "/" \notin Range(b) /\ "/" \notin Range(c)
    BY <2>3, <2>4, SplitTriple
  <2>6. \/ j = 5 /\ c # <<>>
        \/ j = 6 /\ b # <<>>
    BY <2>5, BffMatches
  <2>7. /\ j = 5 => Caught(j, p) = c
        /\ j = 6 => Caught(j, p) = b
    BY <2>5, CaughtSegment
  <2> QED
    BY <1>4, <2>5, <2>6, <2>7
<1> QED
  BY <1>3, <1>4

-----------------------------------------------------------------------------
(* The requests of the clients                                             *)

(* The declarations of the clients.                                        *)
LEMMA EndpointTable ==
  /\ DOMAIN Endpoints
       = {"get_flow", "list_flows", "create_flow", "update_flow",
          "delete_flow", "get_user", "get_user_by_username", "list_users",
          "create_user", "update_user", "delete_user"}
  /\ Endpoints["get_flow"]
       = Declare("GET", Flow, [flow_id |-> "str"], "model")
  /\ Endpoints["list_flows"] = Declare("GET", Flows, NoParams, "list")
  /\ Endpoints["create_flow"]
       = Declare("POST", Flows, [payload |-> "model"], "model")
  /\ Endpoints["update_flow"]
       = Declare("PATCH", Flow, [flow_id |-> "str", payload |-> "model"],
                 "model")
  /\ Endpoints["delete_flow"]
       = Declare("DELETE", Flow, [flow_id |-> "str"], "none")
  /\ Endpoints["get_user"]
       = Declare("GET", User, [user_id |-> "str"], "model")
  /\ Endpoints["get_user_by_username"]
       = Declare("GET", ByUsername, [username |-> "str"], "model")
  /\ Endpoints["list_users"] = Declare("GET", Users, NoParams, "list")
  /\ Endpoints["create_user"]
       = Declare("POST", Users, [payload |-> "model"], "model")
  /\ Endpoints["update_user"]
       = Declare("PATCH", User, [user_id |-> "str", payload |-> "model"],
                 "model")
  /\ Endpoints["delete_user"]
       = Declare("DELETE", User, [user_id |-> "str"], "none")
<1>1. DOMAIN FlowServiceClient = {"get_flow", "list_flows", "create_flow",
                                  "update_flow", "delete_flow"}
  BY DEF FlowServiceClient
<1>2. DOMAIN UcServiceClient = {"get_user", "get_user_by_username",
                                "list_users", "create_user", "update_user",
                                "delete_user"}
  BY DEF UcServiceClient
<1>3. /\ \A m \in DOMAIN FlowServiceClient : Endpoints[m] = FlowServiceClient[m]
      /\ \A m \in DOMAIN UcServiceClient : Endpoints[m] = UcServiceClient[m]
      /\ DOMAIN Endpoints = DOMAIN FlowServiceClient \cup DOMAIN UcServiceClient
  BY <1>1, <1>2 DEF Endpoints
<1>4. /\ FlowServiceClient["get_flow"]
           = Declare("GET", Flow, [flow_id |-> "str"], "model")
      /\ FlowServiceClient["list_flows"]
           = Declare("GET", Flows, NoParams, "list")
      /\ FlowServiceClient["create_flow"]
           = Declare("POST", Flows, [payload |-> "model"], "model")
      /\ FlowServiceClient["update_flow"]
           = Declare("PATCH", Flow, [flow_id |-> "str", payload |-> "model"],
                     "model")
      /\ FlowServiceClient["delete_flow"]
           = Declare("DELETE", Flow, [flow_id |-> "str"], "none")
  BY DEF FlowServiceClient
<1>5. /\ UcServiceClient["get_user"]
           = Declare("GET", User, [user_id |-> "str"], "model")
      /\ UcServiceClient["get_user_by_username"]
           = Declare("GET", ByUsername, [username |-> "str"], "model")
      /\ UcServiceClient["list_users"]
           = Declare("GET", Users, NoParams, "list")
      /\ UcServiceClient["create_user"]
           = Declare("POST", Users, [payload |-> "model"], "model")
      /\ UcServiceClient["update_user"]
           = Declare("PATCH", User, [user_id |-> "str", payload |-> "model"],
                     "model")
      /\ UcServiceClient["delete_user"]
           = Declare("DELETE", User, [user_id |-> "str"], "none")
  BY DEF UcServiceClient
<1> QED
  BY <1>1, <1>2, <1>3, <1>4, <1>5

(* A call: its arguments are those of its method.                          *)
Given(m, values) ==
  /\ DOMAIN values = DOMAIN Endpoints[m].params
  /\ \A n \in DOMAIN values : IF n = "payload" THEN values[n] \in Payloads(m)
                                             ELSE values[n] \in Seq(Characters)

(* The request of a call.                                                  *)
Sent(m, values) == Request(BuildSpec(Endpoints[m]), values)

(* The parts of the request of a call.                                     *)
LEMMA RequestPaths ==
  ASSUME NEW d, NEW values, NEW r, r = Request(BuildSpec(d), values)
  PROVE  /\ d.path = Flows => r.path = <<<<"flows">>>>
         /\ d.path = Users => r.path = <<<<"users">>>>
         /\ d.path = ByUsername => r.path = <<<<"users">>, <<"by-username">>>>
         /\ d.path = Flow => r.path = <<<<"flows">>, Quote(values["flow_id"])>>
         /\ d.path = User => r.path = <<<<"users">>, Quote(values["user_id"])>>
<1>1. r.path = [i \in DOMAIN d.path |->
                  IF d.path[i].placeholder THEN Quote(values[d.path[i].name])
                                           ELSE <<d.path[i].name>>]
  BY DEF Request, BuildSpec
<1>2. ASSUME d.path = Flows PROVE r.path = <<<<"flows">>>>
  BY <1>1, <1>2 DEF Flows, Segment
<1>3. ASSUME d.path = Users PROVE r.path = <<<<"users">>>>
  BY <1>1, <1>3 DEF Users, Segment
<1>4. ASSUME d.path = ByUsername
      PROVE  r.path = <<<<"users">>, <<"by-username">>>>
  BY <1>1, <1>4 DEF ByUsername, Segment
<1>5. ASSUME d.path = Flow
      PROVE  r.path = <<<<"flows">>, Quote(values["flow_id"])>>
  BY <1>1, <1>5 DEF Flow, Segment, Placeholder
<1>6. ASSUME d.path = User
      PROVE  r.path = <<<<"users">>, Quote(values["user_id"])>>
  BY <1>1, <1>6 DEF User, Segment, Placeholder
<1> QED
  BY <1>2, <1>3, <1>4, <1>5, <1>6

(* What the body and the query of a request carry.                         *)
LEMMA RequestBodies ==
  ASSUME NEW m \in DOMAIN Endpoints, NEW values, Given(m, values),
         NEW r, r = Sent(m, values)
  PROVE  /\ "payload" \in DOMAIN values <=> r.json # None
         /\ r.json # None =>
              DOMAIN r.json = IF r.method = "PATCH"
                              THEN DOMAIN values["payload"].set
                              ELSE values["payload"].fields
<1> DEFINE d == Endpoints[m]
<1>1. r.method = d.method
      /\ r.json = IF BodyParams(d) = {} THEN None
                  ELSE ModelDump(values[CHOOSE n \in BodyParams(d) : TRUE],
                                 d.method = "PATCH")
  BY DEF Sent, Request, BuildSpec
<1>2. BodyParams(d) = DOMAIN d.params \cap {"payload"}
  <2>1. /\ Range(PathParams(d)) \subseteq {"flow_id", "user_id"}
        /\ DOMAIN d.params
             \subseteq {"flow_id", "user_id", "username", "payload"}
        /\ \A n \in DOMAIN d.params :
             d.params[n] = IF n = "payload" THEN "model" ELSE "str"
    <3>1. Range(PathParams(d)) \subseteq {"flow_id", "user_id"}
      <4>0. d.path \in {Flows, Users, ByUsername, Flow, User}
        BY EndpointTable DEF Declare
      <4> HIDE DEF d
      <4>1. CASE d.path \in {Flows, Users, ByUsername}
        BY <4>1, PlainTemplates
      <4>2. CASE d.path = Flow
        <5>1. Holds(d.path, "flow_id", 2)
          BY <4>2 DEF Holds
        <5> QED
          BY <5>1, TemplateParams
      <4>3. CASE d.path = User
        <5>1. Holds(d.path, "user_id", 2)
          BY <4>3 DEF Holds
        <5> QED
          BY <5>1, TemplateParams
      <4> QED
        BY <4>0, <4>1, <4>2, <4>3
    <3>2. /\ DOMAIN d.params
               \subseteq {"flow_id", "user_id", "username", "payload"}
          /\ \A n \in DOMAIN d.params :
               d.params[n] = IF n = "payload" THEN "model" ELSE "str"
      BY EndpointTable DEF Declare, NoParams
    <3> QED
      BY <3>1, <3>2
  <2> HIDE DEF d
  <2> QED
    BY <2>1 DEF BodyParams
<1>3. CASE "payload" \in DOMAIN values
  <2>1. BodyParams(d) = {"payload"} /\ values["payload"] \in Payloads(m)
    BY <1>2, <1>3 DEF Given
  <2>2. /\ DOMAIN values["payload"].set \subseteq values["payload"].fields
        /\ \A exclude_unset \in BOOLEAN :
             ModelDump(values["payload"], exclude_unset) # None
    BY <1>3, <2>1, PayloadAssumption DEF Given
  <2>3. r.json = ModelDump(values["payload"], d.method = "PATCH")
    BY <1>1, <2>1
  <2>4. r.json # None
    BY <2>2, <2>3
  <2>5. DOMAIN r.json = IF d.method = "PATCH"
                        THEN DOMAIN values["payload"].set
                        ELSE values["payload"].fields
    BY <2>3 DEF ModelDump
  <2> QED
    BY <1>1, <1>3, <2>4, <2>5
<1>4. CASE "payload" \notin DOMAIN values
  BY <1>1, <1>2, <1>4 DEF Given
<1> QED
  BY <1>3, <1>4

(* A query carries arguments, and a username always.                       *)
LEMMA RequestQueries ==
  ASSUME NEW m \in DOMAIN Endpoints, NEW values, Given(m, values),
         NEW r, r = Sent(m, values)
  PROVE  /\ DOMAIN r.query \subseteq DOMAIN values
         /\ m = "get_user_by_username" =>
              /\ DOMAIN r.query = {"username"}
              /\ r.query["username"] = values["username"]
<1> DEFINE d == Endpoints[m]
<1>1. r.query = Restrict(values, {n \in QueryParams(d) : values[n] # None})
  BY DEF Sent, Request, BuildSpec
<1>2. DOMAIN r.query = {n \in QueryParams(d) : values[n] # None}
      /\ \A n \in DOMAIN r.query : r.query[n] = values[n]
  BY <1>1 DEF Restrict
<1>3. QueryParams(d) \subseteq DOMAIN values
  BY DEF QueryParams, Given
<1>4. ASSUME m = "get_user_by_username"
      PROVE  DOMAIN r.query = {"username"}
  <2>1. d.path = ByUsername /\ d.params = [username |-> "str"]
    BY <1>4, EndpointTable DEF Declare
  <2>2. Range(PathParams(d)) = {} /\ DOMAIN d.params = {"username"}
        /\ d.params["username"] = "str"
    BY <2>1, PlainTemplates
  <2>3. BodyParams(d) = {}
    BY <2>2 DEF BodyParams
  <2>4. QueryParams(d) = {"username"}
    BY <2>2, <2>3 DEF QueryParams
  <2>5. values["username"] # None
    BY <2>2, TextAssumption DEF Given
  <2> QED
    BY <1>2, <2>4, <2>5
<1> QED
  BY <1>2, <1>3, <1>4

-----------------------------------------------------------------------------
(* What a service runs for them                                            *)

(* A text that a path carries as a segment of its own.                     *)
Carried(t) ==
  t # <<>> /\ "/" \notin Range(t) /\ t \notin {<<".">>, <<".", ".">>}

(* How a path with a text arrives, by the text.                            *)
LEMMA PathCases ==
  ASSUME NEW s \in {"flows", "users"}, NEW t \in Seq(Characters),
         NEW p, p = Decode(Normalize(<<<<s>>, Quote(t)>>))
  PROVE  /\ Carried(t) => p = <<<<s>>, t>>
         /\ t = <<".">> => p = <<<<s>>>>
         /\ ~Carried(t) /\ t # <<".">> =>
              \/ p = <<<<>>>> \/ p = <<<<s>>, <<>>>>
              \/ Len(p) >= 3 /\ Len(p) \in Nat
<1>1. p = IF t = <<".">> THEN <<<<s>>>>
          ELSE IF t = <<".", ".">> THEN <<<<>>>> ELSE Split(Slash(<<s>>, t))
  BY PathArrives
<1>2. /\ "/" \notin Range(t) => Split(Slash(<<s>>, t)) = <<<<s>>, t>>
      /\ "/" \in Range(t) => Len(Split(Slash(<<s>>, t))) >= 3
  BY SplitNameAndText
<1>3. Len(Split(Slash(<<s>>, t))) \in Nat
  <2> DEFINE x == Slash(<<s>>, t)
  <2>1. x \in Text
    BY SplitNameAndText, PlainTexts
  <2> HIDE DEF x
  <2>2. /\ Len(Split(x)) = Cardinality(Slashes(x)) + 1
        /\ Cardinality(Slashes(x)) \in Nat
    BY <2>1, SplitLength
  <2>3. Len(Split(x)) \in Nat
    BY <2>2
  <2> QED
    BY <2>3 DEF x
<1>4. <<".">> # <<".", ".">>
  OBVIOUS
<1>5. Carried(t) => p = <<<<s>>, t>>
  BY <1>1, <1>2 DEF Carried
<1>6. t = <<".">> => p = <<<<s>>>>
  BY <1>1
<1>7. ASSUME ~Carried(t), t # <<".">>
      PROVE  \/ p = <<<<>>>> \/ p = <<<<s>>, <<>>>>
             \/ Len(p) >= 3 /\ Len(p) \in Nat
  <2>1. CASE t = <<".", ".">>
    BY <1>1, <1>4, <2>1
  <2>2. CASE t # <<".", ".">> /\ "/" \in Range(t)
    BY <1>1, <1>2, <1>3, <1>7, <2>2
  <2>3. CASE t # <<".", ".">> /\ "/" \notin Range(t)
    <3>1. t = <<>>
      BY <1>7, <2>3 DEF Carried
    <3> QED
      BY <1>1, <1>2, <1>7, <2>3, <3>1
  <2> QED
    BY <2>1, <2>2, <2>3
<1> QED
  BY <1>5, <1>6, <1>7

(* What runs for a call with a text in its path.                           *)
LEMMA FlowServes ==
  ASSUME NEW t \in Seq(Characters), NEW method \in {"GET", "PATCH", "DELETE"},
         NEW p, p = Decode(Normalize(<<<<"flows">>, Quote(t)>>)),
         NEW to, to = Dispatch(FlowRoutes, method, p)
  PROVE  /\ Carried(t) =>
              /\ p = <<<<"flows">>, t>> /\ to.status = 200
              /\ to.route = FlowRoutes[IF method = "GET" THEN 2
                                       ELSE IF method = "PATCH" THEN 4 ELSE 5]
         /\ ~Carried(t) =>
              \/ to.status # 200
              \/ method = "GET" /\ to.route = FlowRoutes[1]
<1>1. /\ Carried(t) => p = <<<<"flows">>, t>>
      /\ t = <<".">> => p = <<<<"flows">>>>
      /\ ~Carried(t) /\ t # <<".">> =>
           \/ p = <<<<>>>> \/ p = <<<<"flows">>, <<>>>>
           \/ Len(p) >= 3 /\ Len(p) \in Nat
  BY PathCases
<1>2. ASSUME Carried(t)
      PROVE  /\ p = <<<<"flows">>, t>> /\ to.status = 200
             /\ to.route = FlowRoutes[IF method = "GET" THEN 2
                                      ELSE IF method = "PATCH" THEN 4 ELSE 5]
  <2>1. p = <<<<"flows">>, t>> /\ t # <<>>
    BY <1>1, <1>2 DEF Carried
  <2>2. to = [status |-> 200,
              route |-> FlowRoutes[IF method = "GET" THEN 2
                                   ELSE IF method = "PATCH" THEN 4 ELSE 5]]
    <3>1. CASE method = "GET"
      BY <2>1, <3>1, FlowDispatch
    <3>2. CASE method = "PATCH"
      BY <2>1, <3>2, FlowDispatch
    <3>3. CASE method = "DELETE"
      BY <2>1, <3>3, FlowDispatch
    <3> QED
      BY <3>1, <3>2, <3>3
  <2> QED
    BY <2>1, <2>2
<1>3. ASSUME t = <<".">>
      PROVE  \/ to.status # 200
             \/ method = "GET" /\ to.route = FlowRoutes[1]
  <2>1. p = <<<<"flows">>>>
    BY <1>1, <1>3
  <2>2. CASE method = "GET"
    <3>1. to = [status |-> 200, route |-> FlowRoutes[1]]
      BY <2>1, <2>2, FlowDispatch
    <3> QED
      BY <2>2, <3>1
  <2>3. CASE method \in {"PATCH", "DELETE"}
    BY <2>1, <2>3, FlowDispatch
  <2> QED
    BY <2>2, <2>3
<1>4. ASSUME ~Carried(t), t # <<".">>
      PROVE  to.status # 200
  BY <1>1, <1>4, FlowMisses
<1> QED
  BY <1>2, <1>3, <1>4

(* The same of the user service, where one name of a user is a route.      *)
LEMMA UcServes ==
  ASSUME NEW t \in Seq(Characters), NEW method \in {"GET", "PATCH", "DELETE"},
         NEW p, p = Decode(Normalize(<<<<"users">>, Quote(t)>>)),
         NEW to, to = Dispatch(UcRoutes, method, p)
  PROVE  /\ Carried(t) =>
              /\ p = <<<<"users">>, t>> /\ to.status = 200
              /\ IF method = "GET" /\ t = <<"by-username">>
                 THEN to.route = UcRoutes[2]
                 ELSE to.route = UcRoutes[IF method = "GET" THEN 3
                                          ELSE IF method = "PATCH" THEN 5
                                          ELSE 6]
         /\ ~Carried(t) =>
              \/ to.status # 200
              \/ method = "GET" /\ to.route = UcRoutes[1]
<1>1. /\ Carried(t) => p = <<<<"users">>, t>>
      /\ t = <<".">> => p = <<<<"users">>>>
      /\ ~Carried(t) /\ t # <<".">> =>
           \/ p = <<<<>>>> \/ p = <<<<"users">>, <<>>>>
           \/ Len(p) >= 3 /\ Len(p) \in Nat
  BY PathCases
<1>2. ASSUME Carried(t)
      PROVE  /\ p = <<<<"users">>, t>> /\ to.status = 200
             /\ IF method = "GET" /\ t = <<"by-username">>
                THEN to.route = UcRoutes[2]
                ELSE to.route = UcRoutes[IF method = "GET" THEN 3
                                         ELSE IF method = "PATCH" THEN 5
                                         ELSE 6]
  <2>1. p = <<<<"users">>, t>> /\ t # <<>>
    BY <1>1, <1>2 DEF Carried
  <2>2. CASE method = "GET" /\ t = <<"by-username">>
    <3>1. to = [status |-> 200, route |-> UcRoutes[2]]
      BY <2>1, <2>2, UcDispatch
    <3> QED
      BY <2>1, <2>2, <3>1
  <2>3. CASE method = "GET" /\ t # <<"by-username">>
    <3>1. to = [status |-> 200, route |-> UcRoutes[3]]
      BY <2>1, <2>3, UcDispatch
    <3> QED
      BY <2>1, <2>3, <3>1
  <2>4. CASE method = "PATCH"
    <3>1. to = [status |-> 200, route |-> UcRoutes[5]]
      BY <2>1, <2>4, UcDispatch
    <3> QED
      BY <2>1, <2>4, <3>1
  <2>5. CASE method = "DELETE"
    <3>1. to = [status |-> 200, route |-> UcRoutes[6]]
      BY <2>1, <2>5, UcDispatch
    <3> QED
      BY <2>1, <2>5, <3>1
  <2> QED
    BY <2>2, <2>3, <2>4, <2>5
<1>3. ASSUME t = <<".">>
      PROVE  \/ to.status # 200
             \/ method = "GET" /\ to.route = UcRoutes[1]
  <2>1. p = <<<<"users">>>>
    BY <1>1, <1>3
  <2>2. CASE method = "GET"
    <3>1. to = [status |-> 200, route |-> UcRoutes[1]]
      BY <2>1, <2>2, UcDispatch
    <3> QED
      BY <2>2, <3>1
  <2>3. CASE method \in {"PATCH", "DELETE"}
    BY <2>1, <2>3, UcDispatch
  <2> QED
    BY <2>2, <2>3
<1>4. ASSUME ~Carried(t), t # <<".">>
      PROVE  to.status # 200
  BY <1>1, <1>4, UcMisses
<1> QED
  BY <1>2, <1>3, <1>4

(* The texts of a call that its path carries, and what it then reaches.    *)
TextsOf(m, values) == {values[n] : n \in Range(PathParams(Endpoints[m]))}

(* A text with which a call reaches the handler of its method.             *)
Reached(m, t) == Carried(t) /\ (m = "get_user" => t # <<"by-username">>)

(* What a service answers and runs for a request.                          *)
Served(m, sent, answer, run) ==
  LET path == Decode(Normalize(sent.path))
      to   == Dispatch(RoutesOf(m), sent.method, path)
  IN  IF to.status = 200 /\ to.route.query \subseteq DOMAIN sent.query
      THEN /\ answer = [status |-> 200, body |-> to.route.body]
           /\ run = [handler |-> to.route.handler,
                     path |-> Captured(to.route, path),
                     query |-> Restrict(sent.query, to.route.query),
                     json |-> sent.json]
      ELSE answer.status # 200

(* Delivered, of any call, answer and run.                                 *)
Fulfilled(m, values, sent, answer, run) ==
  /\ answer.status = 200 /\ run.handler = m
  /\ "payload" \in DOMAIN values <=> run.json # None
  /\ run.json # None =>
       DOMAIN run.json = IF sent.method = "PATCH"
                         THEN DOMAIN values["payload"].set
                         ELSE values["payload"].fields
  /\ \A n \in DOMAIN values \ {"payload"} :
       \E given \in {run.path, run.query} :
         n \in DOMAIN given /\ given[n] = values[n]

(* A call that goes astray, but for a refusal, is a read answered by a     *)
(* list.                                                                   *)
OnlyReadsStray(m, values, sent, answer, run) ==
  answer.status = 200 /\ ~Fulfilled(m, values, sent, answer, run) =>
    /\ run.handler \in {"list_flows", "list_users"}
    /\ answer.body = "list" /\ Endpoints[m].returns = "model"

(* A call is fulfilled when its handler was run with its arguments.        *)
LEMMA FulfilledWhen ==
  ASSUME NEW m \in DOMAIN Endpoints, NEW values, Given(m, values),
         NEW sent, sent = Sent(m, values), NEW answer, NEW run,
         answer.status = 200, run.handler = m, run.json = sent.json,
         \A n \in DOMAIN values \ {"payload"} :
           \/ n \in DOMAIN run.path /\ run.path[n] = values[n]
           \/ n \in DOMAIN run.query /\ run.query[n] = values[n]
  PROVE  Fulfilled(m, values, sent, answer, run)
<1>1. /\ "payload" \in DOMAIN values <=> sent.json # None
      /\ sent.json # None =>
           DOMAIN sent.json = IF sent.method = "PATCH"
                              THEN DOMAIN values["payload"].set
                              ELSE values["payload"].fields
  BY RequestBodies
<1>2. ASSUME NEW n \in DOMAIN values \ {"payload"}
      PROVE  \E given \in {run.path, run.query} :
               n \in DOMAIN given /\ given[n] = values[n]
  OBVIOUS
<1> QED
  BY <1>1, <1>2 DEF Fulfilled

(* What a template captures has the name of its placeholder.               *)
LEMMA CapturedNames ==
  ASSUME NEW d, NEW n, NEW k, NEW p, Holds(d.path, n, k)
  PROVE  DOMAIN Captured(d, p) = {n}
BY TemplateParams DEF Captured

(* The calls of the flow service with an id in their path.                 *)
LEMMA FlowTexts ==
  ASSUME NEW m \in {"get_flow", "update_flow", "delete_flow"}, NEW values,
         Given(m, values), NEW sent, sent = Sent(m, values),
         NEW answer, NEW run,
         Served(m, sent, answer, run)
  PROVE  /\ Fulfilled(m, values, sent, answer, run)
              <=> \A t \in TextsOf(m, values) : Reached(m, t)
         /\ OnlyReadsStray(m, values, sent, answer, run)
<1> DEFINE t == values["flow_id"]
           path == Decode(Normalize(sent.path))
           to == Dispatch(RoutesOf(m), sent.method, path)
<1>1. /\ m \in DOMAIN Endpoints /\ RoutesOf(m) = FlowRoutes
      /\ Endpoints[m].path = Flow
      /\ DOMAIN Endpoints[m].params \subseteq {"flow_id", "payload"}
      /\ "flow_id" \in DOMAIN Endpoints[m].params
      /\ Endpoints[m].method = IF m = "get_flow" THEN "GET"
                               ELSE IF m = "update_flow" THEN "PATCH"
                               ELSE "DELETE"
      /\ m = "get_flow" => Endpoints[m].returns = "model"
  BY EndpointTable DEF Declare, RoutesOf, FlowServiceClient
<1>2. t \in Seq(Characters) /\ DOMAIN values \subseteq {"flow_id", "payload"}
  BY <1>1 DEF Given
<1>3. TextsOf(m, values) = {t}
  <2>1. Holds(Endpoints[m].path, "flow_id", 2)
    BY <1>1 DEF Holds
  <2>2. Range(PathParams(Endpoints[m])) = {"flow_id"}
    BY <2>1, TemplateParams
  <2> QED
    BY <2>2 DEF TextsOf
<1>4. /\ sent.method = Endpoints[m].method
      /\ sent.path = <<<<"flows">>, Quote(t)>>
  <2>1. sent.method = Endpoints[m].method
    BY DEF Sent, Request, BuildSpec
  <2>2. sent.path = <<<<"flows">>, Quote(t)>>
    BY <1>1, RequestPaths DEF Sent
  <2> QED
    BY <2>1, <2>2
<1>5. /\ FlowRoutes[1].handler = "list_flows" /\ FlowRoutes[1].query = {}
      /\ FlowRoutes[1].body = "list"
      /\ \A i \in {2, 4, 5} : /\ FlowRoutes[i].path = Flow
                              /\ FlowRoutes[i].query = {}
      /\ FlowRoutes[2].handler = "get_flow"
      /\ FlowRoutes[4].handler = "update_flow"
      /\ FlowRoutes[5].handler = "delete_flow"
  BY DEF FlowRoutes, Serve
<1>6. Reached(m, t) <=> Carried(t)
  BY DEF Reached
<1> HIDE DEF t
<1>7. /\ Carried(t) =>
           /\ path = <<<<"flows">>, t>> /\ to.status = 200
           /\ to.route = FlowRoutes[IF sent.method = "GET" THEN 2
                                    ELSE IF sent.method = "PATCH" THEN 4
                                    ELSE 5]
      /\ ~Carried(t) =>
           \/ to.status # 200
           \/ sent.method = "GET" /\ to.route = FlowRoutes[1]
  <2>1. sent.method \in {"GET", "PATCH", "DELETE"}
    BY <1>1, <1>4
  <2> HIDE DEF path, to
  <2>2. /\ path = Decode(Normalize(<<<<"flows">>, Quote(t)>>))
        /\ to = Dispatch(FlowRoutes, sent.method, path)
    BY <1>1, <1>4 DEF path, to
  <2> QED
    BY <1>2, <2>1, <2>2, FlowServes
<1>8. IF to.status = 200 /\ to.route.query \subseteq DOMAIN sent.query
      THEN /\ answer = [status |-> 200, body |-> to.route.body]
           /\ run = [handler |-> to.route.handler,
                     path |-> Captured(to.route, path),
                     query |-> Restrict(sent.query, to.route.query),
                     json |-> sent.json]
      ELSE answer.status # 200
  BY DEF Served
<1> HIDE DEF path, to
<1>9. ASSUME Carried(t)
      PROVE  Fulfilled(m, values, sent, answer, run)
  <2>1. /\ to.route.handler = m /\ to.route.query = {} /\ to.route.path = Flow
        /\ path = <<<<"flows">>, t>> /\ to.status = 200
    BY <1>1, <1>4, <1>5, <1>7, <1>9
  <2>2. /\ answer.status = 200 /\ run.handler = m /\ run.json = sent.json
        /\ run.path = Captured(to.route, path)
    BY <1>8, <2>1
  <2> DEFINE d == to.route
             caught == Captured(d, path)
  <2>3. run.path = caught
    BY <2>2
  <2>4. /\ Holds(d.path, "flow_id", 2) /\ Aligned(path, d.path)
        /\ path[2] = t
    BY <2>1 DEF Holds, Aligned, Flow
  <2> HIDE DEF d
  <2>5. DOMAIN caught = {"flow_id"}
    BY <2>4, CapturedNames
  <2>6. caught["flow_id"] = t
    <3>1. ASSUME NEW n, NEW k, Holds(d.path, n, k)
          PROVE  caught[n] = path[k]
      BY <2>4, <3>1, TemplateCaptures
    <3> HIDE DEF caught
    <3> QED
      BY <2>4, <3>1
  <2> HIDE DEF caught
  <2> QED
    BY <1>1, <1>2, <2>2, <2>3, <2>5, <2>6, FulfilledWhen DEF t
<1>10. ASSUME ~Carried(t)
       PROVE  /\ ~Fulfilled(m, values, sent, answer, run)
              /\ OnlyReadsStray(m, values, sent, answer, run)
  <2>1. CASE to.status # 200
    BY <1>8, <2>1 DEF Fulfilled, OnlyReadsStray
  <2>2. CASE to.status = 200
    <3>1. m = "get_flow" /\ to.route = FlowRoutes[1]
      BY <1>1, <1>4, <1>7, <1>10, <2>2
    <3>2. run.handler = "list_flows" /\ answer.body = "list"
      BY <1>5, <1>8, <2>2, <3>1
    <3> QED
      BY <1>1, <3>1, <3>2 DEF Fulfilled, OnlyReadsStray
  <2> QED
    BY <2>1, <2>2
<1> QED
  BY <1>3, <1>6, <1>9, <1>10 DEF OnlyReadsStray

(* The calls of the user service with an id in their path.                 *)
LEMMA UcTexts ==
  ASSUME NEW m \in {"get_user", "update_user", "delete_user"}, NEW values,
         Given(m, values), NEW sent, sent = Sent(m, values),
         NEW answer, NEW run,
         Served(m, sent, answer, run)
  PROVE  /\ Fulfilled(m, values, sent, answer, run)
              <=> \A t \in TextsOf(m, values) : Reached(m, t)
         /\ OnlyReadsStray(m, values, sent, answer, run)
<1> DEFINE t == values["user_id"]
           path == Decode(Normalize(sent.path))
           to == Dispatch(RoutesOf(m), sent.method, path)
<1>1. /\ m \in DOMAIN Endpoints /\ RoutesOf(m) = UcRoutes
      /\ Endpoints[m].path = User
      /\ DOMAIN Endpoints[m].params \subseteq {"user_id", "payload"}
      /\ "user_id" \in DOMAIN Endpoints[m].params
      /\ Endpoints[m].method = IF m = "get_user" THEN "GET"
                               ELSE IF m = "update_user" THEN "PATCH"
                               ELSE "DELETE"
      /\ m = "get_user" => Endpoints[m].returns = "model"
  BY EndpointTable DEF Declare, RoutesOf, FlowServiceClient, UcServiceClient
<1>2. t \in Seq(Characters) /\ DOMAIN values \subseteq {"user_id", "payload"}
  BY <1>1 DEF Given
<1>3. TextsOf(m, values) = {t}
  <2>1. Holds(Endpoints[m].path, "user_id", 2)
    BY <1>1 DEF Holds
  <2>2. Range(PathParams(Endpoints[m])) = {"user_id"}
    BY <2>1, TemplateParams
  <2> QED
    BY <2>2 DEF TextsOf
<1>4. /\ sent.method = Endpoints[m].method
      /\ sent.path = <<<<"users">>, Quote(t)>>
  <2>1. sent.method = Endpoints[m].method
    BY DEF Sent, Request, BuildSpec
  <2>2. sent.path = <<<<"users">>, Quote(t)>>
    BY <1>1, RequestPaths DEF Sent
  <2> QED
    BY <2>1, <2>2
<1>5. /\ UcRoutes[1].handler = "list_users" /\ UcRoutes[1].query = {}
      /\ UcRoutes[1].body = "list"
      /\ UcRoutes[2].query = {"username"}
      /\ \A i \in {3, 5, 6} : UcRoutes[i].path = User /\ UcRoutes[i].query = {}
      /\ UcRoutes[3].handler = "get_user"
      /\ UcRoutes[5].handler = "update_user"
      /\ UcRoutes[6].handler = "delete_user"
  BY DEF UcRoutes, Serve
<1>6. Reached(m, t) <=> Carried(t) /\ (m = "get_user" => t # <<"by-username">>)
  BY DEF Reached
<1> HIDE DEF t
<1>7. /\ Carried(t) =>
           /\ path = <<<<"users">>, t>> /\ to.status = 200
           /\ IF sent.method = "GET" /\ t = <<"by-username">>
              THEN to.route = UcRoutes[2]
              ELSE to.route = UcRoutes[IF sent.method = "GET" THEN 3
                                       ELSE IF sent.method = "PATCH" THEN 5
                                       ELSE 6]
      /\ ~Carried(t) =>
           \/ to.status # 200
           \/ sent.method = "GET" /\ to.route = UcRoutes[1]
  <2>1. sent.method \in {"GET", "PATCH", "DELETE"}
    BY <1>1, <1>4
  <2> HIDE DEF path, to
  <2>2. /\ path = Decode(Normalize(<<<<"users">>, Quote(t)>>))
        /\ to = Dispatch(UcRoutes, sent.method, path)
    BY <1>1, <1>4 DEF path, to
  <2> QED
    BY <1>2, <2>1, <2>2, UcServes
<1>8. IF to.status = 200 /\ to.route.query \subseteq DOMAIN sent.query
      THEN /\ answer = [status |-> 200, body |-> to.route.body]
           /\ run = [handler |-> to.route.handler,
                     path |-> Captured(to.route, path),
                     query |-> Restrict(sent.query, to.route.query),
                     json |-> sent.json]
      ELSE answer.status # 200
  BY DEF Served
<1> HIDE DEF path, to
<1>9. ASSUME Reached(m, t)
      PROVE  Fulfilled(m, values, sent, answer, run)
  <2>1. /\ to.route.handler = m /\ to.route.query = {} /\ to.route.path = User
        /\ path = <<<<"users">>, t>> /\ to.status = 200
    BY <1>1, <1>4, <1>5, <1>6, <1>7, <1>9
  <2>2. /\ answer.status = 200 /\ run.handler = m /\ run.json = sent.json
        /\ run.path = Captured(to.route, path)
    BY <1>8, <2>1
  <2> DEFINE d == to.route
             caught == Captured(d, path)
  <2>3. run.path = caught
    BY <2>2
  <2>4. /\ Holds(d.path, "user_id", 2) /\ Aligned(path, d.path)
        /\ path[2] = t
    BY <2>1 DEF Holds, Aligned, User
  <2> HIDE DEF d
  <2>5. DOMAIN caught = {"user_id"}
    BY <2>4, CapturedNames
  <2>6. caught["user_id"] = t
    <3>1. ASSUME NEW n, NEW k, Holds(d.path, n, k)
          PROVE  caught[n] = path[k]
      BY <2>4, <3>1, TemplateCaptures
    <3> HIDE DEF caught
    <3> QED
      BY <2>4, <3>1
  <2> HIDE DEF caught
  <2> QED
    BY <1>1, <1>2, <2>2, <2>3, <2>5, <2>6, FulfilledWhen DEF t
<1>10. ASSUME ~Reached(m, t)
       PROVE  /\ ~Fulfilled(m, values, sent, answer, run)
              /\ OnlyReadsStray(m, values, sent, answer, run)
  <2>1. CASE to.status # 200
    BY <1>8, <2>1 DEF Fulfilled, OnlyReadsStray
  <2>2. CASE to.status = 200 /\ Carried(t)
    <3>1. m = "get_user" /\ to.route = UcRoutes[2]
      BY <1>1, <1>4, <1>6, <1>7, <1>10, <2>2
    <3>2. "username" \notin DOMAIN sent.query
      <4>1. DOMAIN values = {"user_id"}
        BY <3>1, EndpointTable DEF Given, Declare
      <4> QED
        BY <1>1, <4>1, RequestQueries
    <3>3. answer.status # 200
      BY <1>5, <1>8, <3>1, <3>2
    <3> QED
      BY <3>3 DEF Fulfilled, OnlyReadsStray
  <2>3. CASE to.status = 200 /\ ~Carried(t)
    <3>1. m = "get_user" /\ to.route = UcRoutes[1]
      BY <1>1, <1>4, <1>7, <2>3
    <3>2. run.handler = "list_users" /\ answer.body = "list"
      BY <1>5, <1>8, <2>3, <3>1
    <3> QED
      BY <1>1, <3>1, <3>2 DEF Fulfilled, OnlyReadsStray
  <2> QED
    BY <2>1, <2>2, <2>3
<1> QED
  BY <1>3, <1>6, <1>9, <1>10 DEF OnlyReadsStray

(* The calls without a text in their path.                                 *)
LEMMA NoTexts ==
  ASSUME NEW m \in {"list_flows", "create_flow", "list_users", "create_user",
                    "get_user_by_username"},
         NEW values, Given(m, values), NEW sent, sent = Sent(m, values),
         NEW answer, NEW run, Served(m, sent, answer, run)
  PROVE  /\ TextsOf(m, values) = {}
         /\ Fulfilled(m, values, sent, answer, run)
<1> DEFINE path == Decode(Normalize(sent.path))
           to == Dispatch(RoutesOf(m), sent.method, path)
           i == IF m \in {"list_flows", "list_users"} THEN 1
                ELSE IF m = "create_flow" THEN 3
                ELSE IF m = "create_user" THEN 4 ELSE 2
<1>1. /\ m \in DOMAIN Endpoints
      /\ RoutesOf(m) = IF m \in {"list_flows", "create_flow"} THEN FlowRoutes
                                                              ELSE UcRoutes
      /\ Endpoints[m].path = IF m \in {"list_flows", "create_flow"} THEN Flows
                             ELSE IF m = "get_user_by_username"
                             THEN ByUsername ELSE Users
      /\ Endpoints[m].method = IF m \in {"create_flow", "create_user"}
                               THEN "POST" ELSE "GET"
      /\ DOMAIN Endpoints[m].params
           \subseteq IF m = "get_user_by_username" THEN {"username"}
                                                   ELSE {"payload"}
  BY EndpointTable DEF Declare, RoutesOf, FlowServiceClient, UcServiceClient,
                       NoParams
<1>2. TextsOf(m, values) = {}
  <2>1. Endpoints[m].path \in {Flows, Users, ByUsername}
    BY <1>1
  <2>2. Range(PathParams(Endpoints[m])) = {}
    BY <2>1, PlainTemplates
  <2> QED
    BY <2>2 DEF TextsOf
<1>3. sent.method = Endpoints[m].method
  BY DEF Sent, Request, BuildSpec
<1>4. path = IF m \in {"list_flows", "create_flow"} THEN <<<<"flows">>>>
             ELSE IF m = "get_user_by_username"
             THEN <<<<"users">>, <<"by-username">>>> ELSE <<<<"users">>>>
  <2>1. CASE m \in {"list_flows", "create_flow"}
    <3>1. sent.path = <<<<"flows">>>>
      BY <1>1, <2>1, RequestPaths DEF Sent
    <3> QED
      BY <2>1, <3>1, NamesArrive
  <2>2. CASE m \in {"list_users", "create_user"}
    <3>1. sent.path = <<<<"users">>>>
      BY <1>1, <2>2, RequestPaths DEF Sent
    <3> QED
      BY <2>2, <3>1, NamesArrive
  <2>3. CASE m = "get_user_by_username"
    <3>1. sent.path = <<<<"users">>, <<"by-username">>>>
      BY <1>1, <2>3, RequestPaths DEF Sent
    <3> QED
      BY <2>3, <3>1, NamesArrive
  <2> QED
    BY <2>1, <2>2, <2>3
<1> HIDE DEF path
<1>5. to = [status |-> 200, route |-> RoutesOf(m)[i]]
  <2>1. CASE m = "list_flows"
    BY <1>1, <1>3, <1>4, <2>1, FlowDispatch
  <2>2. CASE m = "create_flow"
    BY <1>1, <1>3, <1>4, <2>2, FlowDispatch
  <2>3. CASE m = "list_users"
    BY <1>1, <1>3, <1>4, <2>3, UcDispatch
  <2>4. CASE m = "create_user"
    BY <1>1, <1>3, <1>4, <2>4, UcDispatch
  <2>5. CASE m = "get_user_by_username"
    BY <1>1, <1>3, <1>4, <2>5, UcDispatch
  <2> QED
    BY <2>1, <2>2, <2>3, <2>4, <2>5
<1>6. /\ RoutesOf(m)[i].handler = m
      /\ RoutesOf(m)[i].query = IF m = "get_user_by_username" THEN {"username"}
                                                              ELSE {}
  <2>1. CASE m \in {"list_flows", "create_flow"}
    BY <1>1, <2>1 DEF FlowRoutes, Serve
  <2>2. CASE m \in {"list_users", "create_user", "get_user_by_username"}
    BY <1>1, <2>2 DEF UcRoutes, Serve
  <2> QED
    BY <2>1, <2>2
<1>7. IF to.status = 200 /\ to.route.query \subseteq DOMAIN sent.query
      THEN /\ answer = [status |-> 200, body |-> to.route.body]
           /\ run = [handler |-> to.route.handler,
                     path |-> Captured(to.route, path),
                     query |-> Restrict(sent.query, to.route.query),
                     json |-> sent.json]
      ELSE answer.status # 200
  BY DEF Served, path
<1> HIDE DEF to, i
<1>8. /\ to.status = 200 /\ to.route.handler = m
      /\ to.route.query = IF m = "get_user_by_username" THEN {"username"}
                                                        ELSE {}
  BY <1>5, <1>6
<1>9. m = "get_user_by_username" =>
        /\ DOMAIN sent.query = {"username"}
        /\ sent.query["username"] = values["username"]
  BY <1>1, RequestQueries
<1>10. /\ answer.status = 200 /\ run.handler = m /\ run.json = sent.json
       /\ run.query = Restrict(sent.query, to.route.query)
  BY <1>7, <1>8, <1>9
<1>11. ASSUME NEW n \in DOMAIN values \ {"payload"}
       PROVE  n \in DOMAIN run.query /\ run.query[n] = values[n]
  <2>1. m = "get_user_by_username" /\ n = "username"
    BY <1>1 DEF Given
  <2> QED
    BY <1>8, <1>9, <1>10, <2>1 DEF Restrict
<1>12. Fulfilled(m, values, sent, answer, run)
  BY <1>1, <1>10, <1>11, FulfilledWhen
<1> QED
  BY <1>2, <1>12

-----------------------------------------------------------------------------
(* The typed clients: the invariant                                        *)

(* The request of a call is the one of its method and arguments.           *)
Sending ==
  at # "start" => /\ call.method \in DOMAIN Endpoints
                  /\ Given(call.method, call.args)
                  /\ request = Sent(call.method, call.args)

(* The BFF hands on the text of its path, unless that is split by a slash: *)
(* then it hands on another one.                                           *)
Relaying ==
  at # "start" /\ origin = "bff" /\ Range(PathParams(asked.route)) # {} =>
    IF "/" \in Range(asked.text) THEN asked.text \notin Range(call.args)
    ELSE /\ asked.text # <<>> /\ Range(call.args) = {asked.text}
         /\ call.method = Names(asked.route)
         /\ call.method \in {"get_flow", "get_user", "get_user_by_username"}

(* What a service makes of any call.                                       *)
Answering ==
  Answered =>
    /\ Fulfilled(call.method, call.args, request, response, handled)
         <=> \A t \in TextsOf(call.method, call.args) : Reached(call.method, t)
    /\ OnlyReadsStray(call.method, call.args, request, response, handled)

(* A method returns what its contract makes of the body, or raises.        *)
Returning ==
  at = "returned" =>
    returned = IF response.status = 200
               THEN Result(ReturnContract(Endpoints[call.method].returns),
                           response.body)
               ELSE "ServiceCallError"

(* The inductive invariant.                                                *)
ClientsInv ==
  /\ at \in {"start", "sent", "answered", "returned"}
  /\ Sending /\ Relaying /\ Answering /\ Returning

(* The properties speak of the call, answer and run that are current.      *)
LEMMA SameDelivery ==
  /\ Delivered <=> Fulfilled(call.method, call.args, request, response, handled)
  /\ PathTexts = TextsOf(call.method, call.args)
  /\ \A t : Routable(t) <=> Reached(call.method, t)
BY DEF Delivered, Fulfilled, PathTexts, TextsOf, Routable, Reached, Carried

(* What a service answers and runs, of every call.                         *)
LEMMA AnyCall ==
  ASSUME NEW m \in DOMAIN Endpoints, NEW values, Given(m, values),
         NEW sent, sent = Sent(m, values), NEW answer, NEW run,
         Served(m, sent, answer, run)
  PROVE  /\ Fulfilled(m, values, sent, answer, run)
              <=> \A t \in TextsOf(m, values) : Reached(m, t)
         /\ OnlyReadsStray(m, values, sent, answer, run)
<1>1. CASE m \in {"get_flow", "update_flow", "delete_flow"}
  BY <1>1, FlowTexts
<1>2. CASE m \in {"get_user", "update_user", "delete_user"}
  BY <1>2, UcTexts
<1>3. CASE m \in {"list_flows", "create_flow", "list_users", "create_user",
                  "get_user_by_username"}
  BY <1>3, NoTexts DEF OnlyReadsStray
<1> QED
  BY <1>1, <1>2, <1>3, EndpointTable

(* A request of the BFF's routes without a placeholder, and of the others. *)
LEMMA RelayedPlain ==
  ASSUME NEW i \in {1, 3}, NEW t \in Seq(Characters), NEW j \in 1..6,
         Matches(BffRoutes[j], AskedPath(BffRoutes[i], t)),
         BffRoutes[j].method = BffRoutes[i].method
  PROVE  j = i /\ Range(PathParams(BffRoutes[i])) = {}
<1>1. j \in {1, 3}
  BY AskedPaths, BffMatches
<1>2. /\ BffRoutes[1].method = "GET" /\ BffRoutes[3].method = "POST"
      /\ BffRoutes[1].path = Flows /\ BffRoutes[3].path = Flows
  BY BffTable DEF Serve
<1> QED
  BY <1>1, <1>2, PlainTemplates

(* The arguments that the BFF hands on: one text.                          *)
Handing(m, x) == [n \in DOMAIN Endpoints[m].params |-> x]

(* A request of a route with a placeholder: the handler that the BFF runs  *)
(* asks for the text of the path, unless a slash split it.                 *)
LEMMA RelayedText ==
  ASSUME NEW i \in {2, 4, 5, 6}, NEW t \in Seq(Characters), NEW j \in 1..6,
         NEW p, p = AskedPath(BffRoutes[i], t), Matches(BffRoutes[j], p),
         NEW m, m = BffRoutes[j].handler, NEW values,
         values = Handing(m, Caught(j, p))
  PROVE  /\ m \in {"get_flow", "get_user", "get_user_by_username"}
         /\ m \in DOMAIN Endpoints /\ Given(m, values)
         /\ BffRoutes[j].method # "POST"
         /\ IF "/" \in Range(t) THEN t \notin Range(values)
            ELSE t # <<>> /\ m = Names(BffRoutes[i]) /\ Range(values) = {t}
<1> DEFINE x == Caught(j, p)
<1>1. /\ j \in {2, 4, 5, 6} /\ x \in Seq(Characters)
      /\ x # <<>> /\ "/" \notin Range(x)
      /\ "/" \notin Range(t) => j = i /\ x = t
  BY BffCatches
<1> HIDE DEF x
<1>2. /\ m = IF j \in {2, 6} THEN "get_flow"
             ELSE IF j = 4 THEN "get_user" ELSE "get_user_by_username"
      /\ BffRoutes[j].method = "GET"
      /\ BffRoutes[j].path = IF j = 2 THEN Flow ELSE IF j = 4 THEN User
                             ELSE IF j = 5 THEN OfUsername ELSE WithOwner
  BY <1>1, BffTable DEF Serve
<1>3. /\ m \in DOMAIN Endpoints
      /\ DOMAIN Endpoints[m].params
           = {IF m = "get_flow" THEN "flow_id"
              ELSE IF m = "get_user" THEN "user_id" ELSE "username"}
  BY <1>1, <1>2, EndpointTable DEF Declare
<1>4. DOMAIN values = DOMAIN Endpoints[m].params
      /\ \A n \in DOMAIN values : values[n] = x
  BY DEF x, Handing
<1>5. Given(m, values)
  BY <1>1, <1>3, <1>4 DEF Given
<1>6. Range(values) = {x}
  BY <1>3, <1>4 DEF Range
<1>7. Names(BffRoutes[j]) = m
  <2> DEFINE d == BffRoutes[j]
  <2>1. CASE j \in {2, 6}
    <3>1. Holds(d.path, "flow_id", 2)
      BY <1>2, <2>1 DEF Holds
    <3> HIDE DEF d
    <3>2. ResourceKey(d) = "flow_id"
      BY <3>1, TemplateParams
    <3> QED
      BY <1>2, <2>1, <3>2 DEF Names, d
  <2>2. CASE j = 4
    <3>1. Holds(d.path, "user_id", 2)
      BY <1>2, <2>2 DEF Holds
    <3> HIDE DEF d
    <3>2. ResourceKey(d) = "user_id"
      BY <3>1, TemplateParams
    <3> QED
      BY <1>2, <2>2, <3>2 DEF Names, d
  <2>3. CASE j = 5
    <3>1. Holds(d.path, "username", 3)
      BY <1>2, <2>3 DEF Holds
    <3> HIDE DEF d
    <3>2. ResourceKey(d) = "username"
      BY <3>1, TemplateParams
    <3> QED
      BY <1>2, <2>3, <3>2 DEF Names, d
  <2> QED
    BY <1>1, <2>1, <2>2, <2>3
<1>8. IF "/" \in Range(t) THEN t \notin Range(values)
      ELSE t # <<>> /\ m = Names(BffRoutes[i]) /\ Range(values) = {t}
  BY <1>1, <1>6, <1>7
<1> QED
  BY <1>2, <1>3, <1>5, <1>8

(* The arguments that a task may give are those of the method.             *)
LEMMA ArgumentsGiven ==
  ASSUME NEW m \in DOMAIN Endpoints, NEW values \in ArgumentsOf(m)
  PROVE  Given(m, values)
<1> DEFINE params == Endpoints[m].params
<1>1. PICK t \in Texts, p \in IF "payload" \in DOMAIN params
                              THEN Payloads(m) ELSE {None} :
        values = [n \in DOMAIN params |-> IF n = "payload" THEN p ELSE t]
  BY DEF ArgumentsOf
<1>2. t \in Seq(Characters)
  BY TextAssumption
<1> QED
  BY <1>1, <1>2 DEF Given

(* Every step keeps what is known of a call, of what the BFF hands on, and *)
(* of the answer.                                                          *)
LEMMA CallingKeeps ==
  ASSUME at = "start", NEW m \in DOMAIN Endpoints, NEW values,
         Given(m, values), Send(m, values)
  PROVE  /\ Sending' /\ Answering' /\ Returning' /\ at' = "sent"
         /\ call'.method = m /\ call'.args = values
BY DEF Send, Sending, Answering, Answered, Returning, Sent, Given

(* A request for the BFF.                                                  *)
LEMMA BffKeeps ==
  ASSUME ClientsInv, CallBff
  PROVE  ClientsInv'
<1>1. at = "start"
  BY DEF CallBff
<1>2. PICK i \in DOMAIN BffRoutes, t \in Texts :
        LET path == AskedPath(BffRoutes[i], t)
            to   == Dispatch(BffRoutes, BffRoutes[i].method, path)
        IN  /\ to.status = 200
            /\ asked' = [route |-> BffRoutes[i], text |-> t]
            /\ IF to.route.method = "POST"
               THEN \E p \in Payloads(to.route.handler) :
                      Send(to.route.handler, [payload |-> p])
               ELSE Send(to.route.handler,
                         [n \in DOMAIN Endpoints[to.route.handler].params |->
                            Captured(to.route, path)[ResourceKey(to.route)]])
  BY DEF CallBff
<1> DEFINE path == AskedPath(BffRoutes[i], t)
           to   == Dispatch(BffRoutes, BffRoutes[i].method, path)
<1>3. i \in 1..6 /\ t \in Seq(Characters)
  BY BffTable, TextAssumption
<1>4. PICK j \in 1..6 : /\ to.route = BffRoutes[j]
                        /\ Matches(BffRoutes[j], path)
                        /\ BffRoutes[j].method = BffRoutes[i].method
  BY <1>2, BffDispatch
<1>5. /\ asked'.route = BffRoutes[i] /\ asked'.text = t
      /\ IF BffRoutes[j].method = "POST"
         THEN \E p \in Payloads(BffRoutes[j].handler) :
                Send(BffRoutes[j].handler, [payload |-> p])
         ELSE Send(BffRoutes[j].handler,
                   [n \in DOMAIN Endpoints[BffRoutes[j].handler].params |->
                      Captured(BffRoutes[j], path)[ResourceKey(BffRoutes[j])]])
  BY <1>2, <1>4
<1> HIDE DEF path, to
<1>6. CASE i \in {1, 3}
  <2>1. j = i /\ Range(PathParams(BffRoutes[i])) = {}
    BY <1>3, <1>4, <1>6, RelayedPlain DEF path
  <2>2. Relaying'
    BY <2>1, <1>5 DEF Relaying
  <2>3. CASE i = 1
    <3>1. /\ BffRoutes[1].method = "GET" /\ BffRoutes[1].handler = "list_flows"
          /\ "list_flows" \in DOMAIN Endpoints
          /\ Endpoints["list_flows"].params = NoParams
      BY BffTable, EndpointTable DEF Serve, Declare
    <3>2. PICK values : DOMAIN values = {} /\ Send("list_flows", values)
      BY <1>5, <2>1, <2>3, <3>1 DEF NoParams
    <3>3. Given("list_flows", values)
      BY <3>1, <3>2 DEF Given, NoParams
    <3> QED
      BY <1>1, <2>2, <3>1, <3>2, <3>3, CallingKeeps DEF ClientsInv
  <2>4. CASE i = 3
    <3>1. /\ BffRoutes[3].method = "POST"
          /\ BffRoutes[3].handler = "create_flow"
          /\ "create_flow" \in DOMAIN Endpoints
          /\ DOMAIN Endpoints["create_flow"].params = {"payload"}
      BY BffTable, EndpointTable DEF Serve, Declare
    <3>2. PICK p \in Payloads("create_flow") :
            Send("create_flow", [payload |-> p])
      BY <1>5, <2>1, <2>4, <3>1
    <3>3. Given("create_flow", [payload |-> p])
      BY <3>1, <3>2 DEF Given
    <3> QED
      BY <1>1, <2>2, <3>1, <3>2, <3>3, CallingKeeps DEF ClientsInv
  <2> QED
    BY <1>6, <2>3, <2>4
<1>7. CASE i \in {2, 4, 5, 6}
  <2> DEFINE m == BffRoutes[j].handler
             values == Handing(m, Caught(j, path))
  <2>1. /\ m = BffRoutes[j].handler /\ path = AskedPath(BffRoutes[i], t)
        /\ values = Handing(m, Caught(j, path))
    BY DEF path
  <2>2. Send(m, values) \/ BffRoutes[j].method = "POST"
    BY <1>5 DEF Caught, Handing
  <2> HIDE DEF m, values
  <2>3. /\ m \in {"get_flow", "get_user", "get_user_by_username"}
        /\ m \in DOMAIN Endpoints /\ Given(m, values)
        /\ BffRoutes[j].method # "POST"
        /\ IF "/" \in Range(t) THEN t \notin Range(values)
           ELSE t # <<>> /\ m = Names(BffRoutes[i]) /\ Range(values) = {t}
    BY <1>3, <1>4, <1>7, <2>1, RelayedText
  <2>4. Send(m, values)
    BY <2>3, <2>2
  <2>5. /\ Sending' /\ Answering' /\ Returning' /\ at' = "sent"
        /\ call'.method = m /\ call'.args = values
    BY <1>1, <2>3, <2>4, CallingKeeps
  <2>6. Relaying'
    BY <1>5, <2>3, <2>5 DEF Relaying
  <2> QED
    BY <2>5, <2>6 DEF ClientsInv
<1> QED
  BY <1>3, <1>6, <1>7

(* The invariant holds in every reachable state.                           *)
THEOREM ClientsInvariance == ClientsSpec => []ClientsInv
<1>1. ClientsInit => ClientsInv
  BY DEF ClientsInit, ClientsInv, Sending, Relaying, Answering, Answered,
         Returning
<1>2. ClientsInv /\ [ClientsNext]_clientsVars => ClientsInv'
  <2> SUFFICES ASSUME ClientsInv, [ClientsNext]_clientsVars
               PROVE  ClientsInv'
    OBVIOUS
  <2>1. CASE CallMethod
    <3>1. PICK m \in DOMAIN Endpoints :
            at = "start" /\ \E values \in ArgumentsOf(m) : Send(m, values)
      BY <2>1 DEF CallMethod
    <3>2. PICK values \in ArgumentsOf(m) : at = "start" /\ Send(m, values)
      BY <3>1
    <3>3. Given(m, values)
      BY <3>2, ArgumentsGiven
    <3>4. Relaying'
      BY <2>1 DEF CallMethod, Relaying
    <3> QED
      BY <3>2, <3>3, <3>4, CallingKeeps DEF ClientsInv
  <2>2. CASE CallBff
    BY <2>2, BffKeeps
  <2>3. CASE Handle
    <3>1. /\ at = "sent" /\ at' = "answered"
          /\ UNCHANGED <<origin, asked, call, request, returned>>
      BY <2>3 DEF Handle
    <3>2. /\ call.method \in DOMAIN Endpoints
          /\ Given(call.method, call.args)
          /\ request = Sent(call.method, call.args)
      BY <3>1 DEF ClientsInv, Sending
    <3>3. Served(call.method, request, response', handled')
      <4> DEFINE path == Decode(Normalize(request.path))
                 to   == Dispatch(RoutesOf(call.method), request.method, path)
                 found == /\ to.status = 200
                          /\ to.route.query \subseteq DOMAIN request.query
      <4>1. CASE found
        BY <4>1, <2>3 DEF Handle, Served
      <4>2. CASE ~found
        <5>1. response'.status = IF to.status = 200 THEN 422 ELSE to.status
          BY <4>2, <2>3 DEF Handle
        <5>2. response'.status # 200
          BY <5>1
        <5> QED
          BY <4>2, <5>2 DEF Served
      <4> QED
        BY <4>1, <4>2
    <3>4. Answering'
      <4>1. /\ Fulfilled(call.method, call.args, request, response', handled')
                 <=> \A t \in TextsOf(call.method, call.args) :
                       Reached(call.method, t)
            /\ OnlyReadsStray(call.method, call.args,
                              request, response', handled')
        BY <3>2, <3>3, AnyCall
      <4> QED
        BY <4>1, <3>1 DEF Answering
    <3>5. Sending' /\ Relaying' /\ Returning'
      BY <3>1 DEF ClientsInv, Sending, Relaying, Returning
    <3> QED
      BY <3>1, <3>4, <3>5 DEF ClientsInv
  <2>4. CASE Return
    <3>1. /\ at = "answered" /\ at' = "returned"
          /\ UNCHANGED <<origin, asked, call, request, handled, response>>
      BY <2>4 DEF Return
    <3>2. Sending' /\ Relaying' /\ Answering'
      BY <3>1 DEF ClientsInv, Sending, Relaying, Answering, Answered
    <3>3. Returning'
      BY <2>4 DEF Return, Returning
    <3> QED
      BY <3>1, <3>2, <3>3 DEF ClientsInv
  <2>5. CASE UNCHANGED clientsVars
    BY <2>5 DEF clientsVars, ClientsInv, Sending, Relaying, Answering,
                Answered, Returning
  <2> QED
    BY <2>1, <2>2, <2>3, <2>4, <2>5 DEF ClientsNext
<1> QED
  BY <1>1, <1>2, PTL DEF ClientsSpec

-----------------------------------------------------------------------------
(* What becomes of a call                                                  *)

(* A call reaches the handler of its own method with what its caller gave, *)
(* for exactly the texts that a path can carry.                            *)
THEOREM CallsReachTheirHandler == ClientsSpec => []ReachesItsHandler
<1>1. ClientsInv => ReachesItsHandler
  BY SameDelivery DEF ClientsInv, Answering, ReachesItsHandler
<1> QED
  BY <1>1, ClientsInvariance, PTL

(* A call that goes astray is a read, and raises.                          *)
THEOREM WritesStayOnCourse == ClientsSpec => []NoWriteGoesAstray
<1>1. ClientsInv => NoWriteGoesAstray
  <2> SUFFICES ASSUME ClientsInv, Answered, response.status = 200, ~Delivered
               PROVE  /\ handled.handler \in {"list_flows", "list_users"}
                      /\ at = "returned" => returned = "ServiceResponseError"
    BY DEF NoWriteGoesAstray
  <2>1. /\ handled.handler \in {"list_flows", "list_users"}
        /\ response.body = "list"
        /\ Endpoints[call.method].returns = "model"
    BY SameDelivery DEF ClientsInv, Answering, OnlyReadsStray
  <2>2. Result(ReturnContract("model"), "list") = "ServiceResponseError"
    BY NoneAssumption
       DEF Result, ReturnContract, ParseResponse, Bodies
  <2> QED
    BY <2>1, <2>2 DEF ClientsInv, Returning
<1> QED
  BY <1>1, ClientsInvariance, PTL

(* What the BFF is asked for is asked of the service by the same text.     *)
THEOREM BffForwardsAsAsked == ClientsSpec => []ForwardedAsAsked
<1>1. ClientsInv => ForwardedAsAsked
  <2> SUFFICES ASSUME ClientsInv, Answered, origin = "bff",
                      Range(PathParams(asked.route)) # {}
               PROVE  (/\ Delivered /\ call.method = Names(asked.route)
                       /\ asked.text \in Range(call.args))
                      <=> /\ asked.text # <<>> /\ "/" \notin Range(asked.text)
                          /\ Names(asked.route) # "get_user_by_username" =>
                               Routable(asked.text)
    BY DEF ForwardedAsAsked
  <2>1. at # "start"
    BY DEF Answered
  <2>2. Delivered <=> \A t \in PathTexts : Routable(t)
    BY SameDelivery DEF ClientsInv, Answering
  <2>3. CASE "/" \in Range(asked.text)
    <3>1. asked.text \notin Range(call.args)
      BY <2>1, <2>3 DEF ClientsInv, Relaying
    <3> QED
      BY <2>3, <3>1
  <2>4. CASE "/" \notin Range(asked.text)
    <3>1. /\ asked.text # <<>> /\ call.method = Names(asked.route)
          /\ Range(call.args) = {asked.text}
          /\ call.method \in {"get_flow", "get_user", "get_user_by_username"}
      BY <2>1, <2>4 DEF ClientsInv, Relaying
    <3>2. CASE Names(asked.route) = "get_user_by_username"
      <4>1. Endpoints[call.method].path = ByUsername
        BY <3>1, <3>2, EndpointTable DEF Declare
      <4>2. PathTexts = {}
        BY <4>1, PlainTemplates DEF PathTexts
      <4> QED
        BY <2>2, <2>4, <3>1, <3>2, <4>2
    <3>3. CASE Names(asked.route) # "get_user_by_username"
      <4>1. PathTexts = {asked.text}
        <5> DEFINE n == IF call.method = "get_flow" THEN "flow_id"
                                                   ELSE "user_id"
                   d == Endpoints[call.method]
        <5>1. /\ call.method \in {"get_flow", "get_user"}
              /\ DOMAIN call.args = DOMAIN Endpoints[call.method].params
          BY <2>1, <2>4, <3>1, <3>3 DEF ClientsInv, Relaying, Sending, Given
        <5>2. Holds(d.path, n, 2) /\ n \in DOMAIN d.params
          BY <5>1, EndpointTable DEF Declare, Holds
        <5> HIDE DEF n, d
        <5>3. Range(PathParams(d)) = {n}
          BY <5>2, TemplateParams
        <5>4. PathTexts = {call.args[n]}
          BY <5>3 DEF PathTexts, d
        <5>5. n \in DOMAIN call.args
          BY <5>1, <5>2 DEF d
        <5>6. call.args[n] = asked.text
          BY <5>5, <3>1 DEF Range
        <5> QED
          BY <5>4, <5>6
      <4> QED
        BY <2>2, <2>4, <3>1, <3>3, <4>1
    <3> QED
      BY <3>2, <3>3
  <2> QED
    BY <2>3, <2>4
<1> QED
  BY <1>1, ClientsInvariance, PTL

=============================================================================
