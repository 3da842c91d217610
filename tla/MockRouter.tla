----------------------------- MODULE MockRouter -----------------------------
(***************************************************************************)
(* The transport that stands for the services in the tests of the clients  *)
(* (packages/test-utils, mock_router.py): a test registers and configures  *)
(* routes, the client's requests are answered from them and recorded.  A   *)
(* route's key is its method and URL; a generator, which can be iterated   *)
(* only once, is not among the side effects.                               *)
(***************************************************************************)
EXTENDS Naturals, Sequences, FiniteSets

CONSTANTS Keys,         \* the routes of a test
          Requests,     \* the requests sent to a route
          Responses,    \* what return_value may be
          SideEffects,  \* records with a kind and its items
          MaxCalls,     \* the calls of a route between two resets
          None

(* What side effects come to: the items of lists, and single outcomes.     *)
Items == UNION {{e.items[i] : i \in DOMAIN e.items} : e \in SideEffects}

(* A TypeError is the router's own: no side effect comes to one.           *)
ASSUME SideEffectAssumption ==
  /\ \A e \in SideEffects :
       /\ e.kind \in {"exception", "callable", "list", "response"}
       /\ e.items \in Seq(Items)
       /\ e.kind # "list" => Len(e.items) = 1
  /\ "TypeError" \notin Items \cup Responses

VARIABLES
  routes,   \* MockRouter._routes: None, or the MockRoute
  log       \* per route: the side_effect and outcome of each request it got
            \* since it was made or reset

vars == <<routes, log>>

Routes == [return_value : Responses \cup {None},
           side_effect : SideEffects \cup {None},
           calls : Seq(Requests), iter : Seq(Items) \cup {None}]

ASSUME NoneAssumption == None \notin Routes /\ None \notin Seq(Items)

MockRoute == [return_value |-> None, side_effect |-> None,
              calls |-> <<>>, iter |-> None]

Init == /\ routes = [k \in Keys |-> None]
        /\ log = [k \in Keys |-> <<>>]

Registered == {k \in Keys : routes[k] # None}

(* router.route(method, url) of a URL that has none yet.                   *)
Register(k) == /\ routes[k] = None
               /\ routes' = [routes EXCEPT ![k] = MockRoute]
               /\ UNCHANGED log

SetReturnValue(k) ==
  /\ k \in Registered
  /\ \E r \in Responses : routes' = [routes EXCEPT ![k].return_value = r]
  /\ UNCHANGED log

SetSideEffect(k) ==
  /\ k \in Registered
  /\ \E e \in SideEffects \cup {None} :
       routes' = [routes EXCEPT ![k].side_effect = e]
  /\ UNCHANGED log

(* Mutant: only the call history is reset.                                 *)
ResetCalls(K) ==
  /\ K # {} /\ K \subseteq Registered
  /\ routes' = [k \in Keys |->
                  IF k \in K THEN [routes[k] EXCEPT !.calls = <<>>]
                  ELSE routes[k]]
  /\ log' = [k \in Keys |-> IF k \in K THEN <<>> ELSE log[k]]

(* The reset of some route, or of the router.                              *)
Reset(K) ==
  /\ K # {} /\ K \subseteq Registered
  /\ routes' = [k \in Keys |->
                  IF k \in K THEN [routes[k] EXCEPT !.calls = <<>>, !.iter = None]
                  ELSE routes[k]]
  /\ log' = [k \in Keys |-> IF k \in K THEN <<>> ELSE log[k]]

Clear == /\ routes' = [k \in Keys |-> None]
         /\ log' = [k \in Keys |-> <<>>]

(* The items that are left to the iterator when a call has taken one.      *)
NextItem(items) ==
  IF items = <<>> THEN [outcome |-> "exhausted", iter |-> <<>>]
                  ELSE [outcome |-> Head(items), iter |-> Tail(items)]

(* _resolve_response: the outcome is a response, "error" for an exception  *)
(* of the side effect, or what the router itself raises.                   *)
ResolveResponse(route) ==
  LET e == route.side_effect
      same(outcome) == [outcome |-> outcome, iter |-> route.iter]
  IN  CASE e = None /\ route.return_value # None -> same(route.return_value)
        [] e = None /\ route.return_value = None -> same("unset")
        [] e # None /\ e.kind \in {"exception", "callable"} -> same(e.items[1])
        [] e # None /\ e.kind \in {"list", "response"} /\ route.iter # None ->
             NextItem(route.iter)
        [] e # None /\ e.kind = "list" /\ route.iter = None -> NextItem(e.items)
        [] e # None /\ e.kind = "response" /\ route.iter = None ->
             same("TypeError")

(* Mutant: a call is recorded when its response is known.                  *)
HandleRecordsLast(k, request) ==
  /\ k \in Registered /\ Len(log[k]) < MaxCalls
  /\ LET resolved == ResolveResponse(routes[k])
     IN  /\ routes' = [routes EXCEPT
                         ![k].calls = IF resolved.outcome \in Responses
                                      THEN Append(@, request) ELSE @,
                         ![k].iter = resolved.iter]
         /\ log' = [log EXCEPT ![k] =
                      Append(@, [request |-> request,
                                 effect |-> routes[k].side_effect,
                                 outcome |-> resolved.outcome])]

(* A request that matches a route; any other is an AssertionError, and     *)
(* leaves nothing behind.                                                  *)
Handle(k, request) ==
  /\ k \in Registered /\ Len(log[k]) < MaxCalls
  /\ LET resolved == ResolveResponse(routes[k])
     IN  /\ routes' = [routes EXCEPT ![k].calls = Append(@, request),
                                     ![k].iter = resolved.iter]
         /\ log' = [log EXCEPT ![k] =
                      Append(@, [request |-> request,
                                 effect |-> routes[k].side_effect,
                                 outcome |-> resolved.outcome])]

Next == \/ \E k \in Keys : \/ Register(k) \/ SetReturnValue(k)
                           \/ SetSideEffect(k) \/ Reset({k})
                           \/ \E q \in Requests : Handle(k, q)
        \/ Reset(Registered) \/ Clear

Spec == Init /\ [][Next]_vars

-----------------------------------------------------------------------------
(* Properties                                                              *)

(* Every request that reached a route is recorded, in its order, whatever  *)
(* became of it: a test that counts attempts counts the failed ones too.   *)
EveryCallRecorded ==
  \A k \in Registered :
    routes[k].calls = [i \in DOMAIN log[k] |-> log[k][i].request]

(* The requests of a log that were answered from a script.                 *)
Played(l) == {i \in DOMAIN l : /\ l[i].effect # None
                               /\ l[i].effect.kind \in {"list", "response"}
                               /\ l[i].outcome # "TypeError"}

(* A script that was the only one played since the route was made or reset *)
(* is played in order and once, from its first item, whatever else was the *)
(* side effect between two of its calls: a reset leaves no item of the     *)
(* script before it.                                                       *)
ScriptInOrder ==
  \A k \in Registered : \A i \in Played(log[k]) :
    LET effect == log[k][i].effect
        before == {j \in Played(log[k]) : j <= i}
        nth    == Cardinality(before)
    IN  (\A j \in before : log[k][j].effect = effect) =>
          /\ effect.kind = "list"
          /\ log[k][i].outcome = IF nth <= Len(effect.items)
                                 THEN effect.items[nth] ELSE "exhausted"

(* mock_router.py:84: "If side_effect is set, use it", a list that takes   *)
(* the place of another included: a call is answered by an item of the     *)
(* list that is set when it comes.                                         *)
SideEffectIsUsed ==
  \A k \in Registered : \A i \in Played(log[k]) :
    LET effect == log[k][i].effect
    IN  effect.kind = "list" =>
          log[k][i].outcome \in {effect.items[j] : j \in DOMAIN effect.items}
                                  \cup {"exhausted"}

=============================================================================
