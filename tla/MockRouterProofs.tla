-------------------------- MODULE MockRouterProofs --------------------------
(***************************************************************************)
(* Proofs about the mock router, for every set of routes, requests and     *)
(* side effects: the tests of the clients may believe what it records and  *)
(* the order in which it plays a script.                                   *)
(***************************************************************************)
EXTENDS MockRouter, FiniteSetTheorems, SequenceTheorems,
        WellFoundedInduction, TLAPS

Entries == [request : Requests, effect : SideEffects \cup {None},
            outcome : Items \cup Responses \cup {"unset", "exhausted",
                                                 "TypeError"}]

TypeInv == /\ routes \in [Keys -> Routes \cup {None}]
           /\ log \in [Keys -> Seq(Entries)]

(* What is left to the iterator when n of the script's items are played.   *)
Rest(iter, script, n) ==
  /\ Len(iter) = IF n <= Len(script) THEN Len(script) - n ELSE 0
  /\ \A j \in 1..Len(iter) : iter[j] = script[n + j]

(* A route has an iterator when a script has been played since its reset,  *)
(* and the iterator has what is left of that script.                       *)
Follows(iter, l) ==
  /\ Played(l) = {} <=> iter = None
  /\ \A first \in Played(l) :
       (\A j \in Played(l) : first <= j) =>
         Rest(iter, l[first].effect.items, Cardinality(Played(l)))

IterInv ==
  \A k \in Keys : /\ routes[k] = None => log[k] = <<>>
                  /\ routes[k] # None => Follows(routes[k].iter, log[k])

(* The calls of a log that are answered from a script get, in turn, the    *)
(* items of the script that was played first, even if another is the side  *)
(* effect by then: what the router does, not what it says of a new list.   *)
InOrder(l) ==
  \A first, i \in Played(l) :
    (\A j \in Played(l) : first <= j) =>
      LET effect == l[first].effect
          nth    == Cardinality({j \in Played(l) : j <= i})
      IN  /\ effect.kind = "list"
          /\ l[i].outcome = IF nth <= Len(effect.items)
                            THEN effect.items[nth] ELSE "exhausted"

OrderInv == \A k \in Registered : InOrder(log[k])

IInv == TypeInv /\ IterInv /\ EveryCallRecorded /\ OrderInv

-----------------------------------------------------------------------------
(* One request                                                             *)

(* The requests answered from a script are finitely many, and the first of *)
(* them is one of them.                                                    *)
LEMMA PlayedFinite ==
  ASSUME NEW l \in Seq(Entries)
  PROVE  /\ Played(l) \subseteq 1..Len(l) /\ IsFiniteSet(Played(l))
         /\ Cardinality(Played(l)) \in Nat
         /\ Cardinality(Played(l)) = 0 <=> Played(l) = {}
<1>1. Played(l) \subseteq 1..Len(l)
  BY DEF Played
<1>2. IsFiniteSet(1..Len(l))
  BY FS_Interval
<1> QED
  BY <1>1, <1>2, FS_Subset, FS_CardinalityType, FS_EmptySet

(* A log that is one request longer.                                       *)
LEMMA PlayedAppend ==
  ASSUME NEW l \in Seq(Entries), NEW e \in Entries
  PROVE  LET new == Append(l, e)
             n   == Len(l) + 1
         IN  /\ new \in Seq(Entries) /\ DOMAIN new = DOMAIN l \cup {n}
             /\ n \notin DOMAIN l /\ DOMAIN l = 1..Len(l)
             /\ new[n] = e /\ \A i \in DOMAIN l : new[i] = l[i]
             /\ Played(new) =
                  IF /\ e.effect # None /\ e.outcome # "TypeError"
                     /\ e.effect.kind \in {"list", "response"}
                  THEN Played(l) \cup {n} ELSE Played(l)
<1> DEFINE new == Append(l, e)
           n == Len(l) + 1
<1>1. /\ new \in Seq(Entries) /\ DOMAIN new = DOMAIN l \cup {n}
      /\ n \notin DOMAIN l /\ DOMAIN l = 1..Len(l)
      /\ new[n] = e /\ \A i \in DOMAIN l : new[i] = l[i]
  OBVIOUS
<1> HIDE DEF new, n
<1>2. Played(new) = IF /\ e.effect # None /\ e.outcome # "TypeError"
                       /\ e.effect.kind \in {"list", "response"}
                    THEN Played(l) \cup {n} ELSE Played(l)
  BY <1>1 DEF Played
<1> QED
  BY <1>1, <1>2 DEF new, n

(* What the router makes of a request of a route.                          *)
LEMMA Resolved ==
  ASSUME NEW route \in Routes
  PROVE  LET e == route.side_effect
             resolved == ResolveResponse(route)
             scripted == /\ e # None /\ e.kind \in {"list", "response"}
                         /\ resolved.outcome # "TypeError"
         IN  /\ resolved.iter \in Seq(Items) \cup {None}
             /\ resolved.outcome \in Items \cup Responses
                                     \cup {"unset", "exhausted", "TypeError"}
             /\ scripted => resolved = NextItem(IF route.iter = None
                                                THEN e.items ELSE route.iter)
             /\ scripted /\ route.iter = None => e.kind = "list"
             /\ scripted => resolved.iter # None
             /\ ~scripted => resolved.iter = route.iter
<1> DEFINE e == route.side_effect
           resolved == ResolveResponse(route)
           Same(outcome) == [outcome |-> outcome, iter |-> route.iter]
<1>1. /\ route.return_value \in Responses \cup {None}
      /\ e \in SideEffects \cup {None}
      /\ route.iter \in Seq(Items) \cup {None}
  BY DEF Routes
<1>2. ASSUME NEW items \in Seq(Items)
      PROVE  /\ NextItem(items).outcome \in Items \cup {"exhausted"}
             /\ NextItem(items).outcome # "TypeError"
             /\ NextItem(items).iter \in Seq(Items)
             /\ NextItem(items).iter # None
  <2>1. CASE items = <<>>
    BY <2>1, NoneAssumption DEF NextItem
  <2>2. CASE items # <<>>
    <3>1. Head(items) \in Items /\ Tail(items) \in Seq(Items)
      BY <2>2, HeadTailProperties
    <3> QED
      BY <2>2, <3>1, NoneAssumption, SideEffectAssumption DEF NextItem
  <2> QED
    BY <2>1, <2>2
<1>3. CASE e = None
  <2>1. resolved = Same(IF route.return_value # None THEN route.return_value
                                                     ELSE "unset")
    BY <1>3 DEF ResolveResponse
  <2> QED
    BY <1>1, <1>3, <2>1
<1>4. CASE e # None /\ e.kind \in {"exception", "callable"}
  <2>1. resolved = Same(e.items[1])
    BY <1>4 DEF ResolveResponse
  <2>2. e.items[1] \in Items
    BY <1>1, <1>4, SideEffectAssumption
  <2> QED
    BY <1>1, <1>4, <2>1, <2>2
<1>5. CASE e # None /\ e.kind \in {"list", "response"} /\ route.iter # None
  <2>1. resolved = NextItem(route.iter)
    BY <1>5 DEF ResolveResponse
  <2> QED
    BY <1>1, <1>2, <1>5, <2>1
<1>6. CASE e # None /\ e.kind = "list" /\ route.iter = None
  <2>1. resolved = NextItem(e.items)
    BY <1>6 DEF ResolveResponse
  <2>2. e.items \in Seq(Items)
    BY <1>1, <1>6, SideEffectAssumption
  <2> QED
    BY <1>2, <1>6, <2>1, <2>2
<1>7. CASE e # None /\ e.kind = "response" /\ route.iter = None
  <2>1. resolved = Same("TypeError")
    BY <1>7 DEF ResolveResponse
  <2> QED
    BY <1>1, <1>7, <2>1
<1> QED
  BY <1>1, <1>3, <1>4, <1>5, <1>6, <1>7, SideEffectAssumption

(* The next item of what is left of a script.                              *)
LEMMA RestStep ==
  ASSUME NEW iter \in Seq(Items), NEW script \in Seq(Items), NEW n \in Nat,
         Rest(iter, script, n)
  PROVE  /\ Rest(NextItem(iter).iter, script, n + 1)
         /\ NextItem(iter).outcome = IF n + 1 <= Len(script)
                                     THEN script[n + 1] ELSE "exhausted"
<1>1. CASE iter = <<>>
  BY <1>1 DEF Rest, NextItem
<1>2. CASE iter # <<>>
  <2>1. /\ Len(iter) \in Nat \ {0} /\ Head(iter) = iter[1]
        /\ Len(Tail(iter)) = Len(iter) - 1
        /\ \A j \in 1..Len(Tail(iter)) : Tail(iter)[j] = iter[j + 1]
    BY <1>2, HeadTailProperties
  <2>2. n + 1 <= Len(script) /\ Len(iter) = Len(script) - n
    BY <2>1 DEF Rest
  <2>3. Head(iter) = script[n + 1]
    <3>1. 1 \in 1..Len(iter)
      BY <2>1
    <3> QED
      BY <2>1, <3>1 DEF Rest
  <2>4. \A j \in 1..Len(Tail(iter)) : Tail(iter)[j] = script[n + 1 + j]
    <3> SUFFICES ASSUME NEW j \in 1..Len(Tail(iter))
                 PROVE  Tail(iter)[j] = script[n + 1 + j]
      OBVIOUS
    <3>1. j + 1 \in 1..Len(iter) /\ n + (j + 1) = n + 1 + j
      BY <2>1
    <3> QED
      BY <2>1, <3>1 DEF Rest
  <2> QED
    BY <1>2, <2>1, <2>2, <2>3, <2>4 DEF Rest, NextItem
<1> QED
  BY <1>1, <1>2

(* A request that is answered from a script takes the item whose turn it   *)
(* is; any other leaves the script where it was.                           *)
LEMMA ScriptStep ==
  ASSUME NEW route \in Routes, NEW l \in Seq(Entries), NEW q \in Requests,
         Follows(route.iter, l), InOrder(l)
  PROVE  LET resolved == ResolveResponse(route)
             new == Append(l, [request |-> q, effect |-> route.side_effect,
                               outcome |-> resolved.outcome])
         IN  Follows(resolved.iter, new) /\ InOrder(new)
<1> DEFINE resolved == ResolveResponse(route)
           e == [request |-> q, effect |-> route.side_effect,
                 outcome |-> resolved.outcome]
           new == Append(l, e)
           n == Len(l) + 1
           scripted == /\ route.side_effect # None
                       /\ route.side_effect.kind \in {"list", "response"}
                       /\ resolved.outcome # "TypeError"
           played == Cardinality(Played(l))
<1> SUFFICES Follows(resolved.iter, new) /\ InOrder(new)
  OBVIOUS
<1>1. /\ resolved.iter \in Seq(Items) \cup {None}
      /\ scripted => resolved = NextItem(IF route.iter = None
                                         THEN route.side_effect.items
                                         ELSE route.iter)
      /\ scripted /\ route.iter = None => route.side_effect.kind = "list"
      /\ scripted => resolved.iter # None
      /\ ~scripted => resolved.iter = route.iter
  BY Resolved
<1>2. e \in Entries
  BY Resolved DEF Entries, Routes
<1>3. /\ Played(l) \subseteq 1..Len(l) /\ IsFiniteSet(Played(l))
      /\ played \in Nat /\ Len(l) \in Nat
      /\ played = 0 <=> Played(l) = {}
  BY PlayedFinite
<1>4. e.effect = route.side_effect /\ e.outcome = resolved.outcome
  OBVIOUS
<1> HIDE DEF resolved, e
<1>5. /\ new[n] = e /\ \A i \in 1..Len(l) : new[i] = l[i]
      /\ Played(new) = IF scripted THEN Played(l) \cup {n} ELSE Played(l)
  <2>1. scripted <=> /\ e.effect # None /\ e.outcome # "TypeError"
                     /\ e.effect.kind \in {"list", "response"}
    BY <1>4
  <2> HIDE DEF scripted
  <2> QED
    BY <1>2, <2>1, PlayedAppend
<1>6. /\ route.iter \in Seq(Items) \cup {None}
      /\ route.side_effect \in SideEffects \cup {None}
  BY DEF Routes
<1>7. n \notin Played(l) /\ Cardinality(Played(l) \cup {n}) = played + 1
  <2>1. n \notin Played(l)
    BY <1>3
  <2> QED
    BY <1>3, <2>1, FS_AddElement
<1> HIDE DEF new, n, scripted, played
<1>8. CASE ~scripted
  <2>1. Played(new) = Played(l) /\ resolved.iter = route.iter
    BY <1>1, <1>5, <1>8
  <2>2. \A i \in Played(l) : new[i] = l[i]
    BY <1>3, <1>5
  <2>3. Follows(resolved.iter, new)
    BY <2>1, <2>2 DEF Follows
  <2>4. \A i : {j \in Played(new) : j <= i} = {j \in Played(l) : j <= i}
    BY <2>1
  <2>5. InOrder(new)
    BY <2>1, <2>2, <2>4 DEF InOrder
  <2> QED
    BY <2>3, <2>5
<1>9. CASE scripted /\ Played(l) = {}
  <2>1. Played(new) = {n} /\ played = 0
    BY <1>3, <1>5, <1>9
  <2>2. /\ route.iter = None /\ route.side_effect.kind = "list"
        /\ resolved = NextItem(route.side_effect.items)
    BY <1>1, <1>9 DEF Follows
  <2>3. route.side_effect.items \in Seq(Items)
    BY <1>6, <1>9, SideEffectAssumption DEF scripted
  <2>4. Rest(route.side_effect.items, route.side_effect.items, 0)
    BY <2>3 DEF Rest
  <2>5. /\ Rest(resolved.iter, route.side_effect.items, 1)
        /\ resolved.outcome = IF 1 <= Len(route.side_effect.items)
                              THEN route.side_effect.items[1]
                              ELSE "exhausted"
    BY <2>2, <2>3, <2>4, RestStep
  <2>6. Cardinality(Played(new)) = 1
    BY <2>1, FS_Singleton
  <2>7. {j \in Played(new) : j <= n} = Played(new)
    BY <1>3, <2>1 DEF n
  <2>8. new[n].effect = route.side_effect /\ new[n].outcome = resolved.outcome
    BY <1>5, <1>4
  <2>9. Follows(resolved.iter, new)
    BY <1>1, <1>9, <2>1, <2>5, <2>6, <2>8 DEF Follows
  <2>10. InOrder(new)
    <3> SUFFICES LET effect == new[n].effect
                     nth    == Cardinality({j \in Played(new) : j <= n})
                 IN  /\ effect.kind = "list"
                     /\ new[n].outcome = IF nth <= Len(effect.items)
                                         THEN effect.items[nth]
                                         ELSE "exhausted"
      BY <2>1 DEF InOrder
    <3> QED
      BY <2>2, <2>5, <2>6, <2>7, <2>8
  <2> QED
    BY <2>9, <2>10
<1>10. CASE scripted /\ Played(l) # {}
  <2>1. /\ Played(new) = Played(l) \cup {n} /\ route.iter # None
        /\ route.iter \in Seq(Items) /\ resolved = NextItem(route.iter)
    BY <1>1, <1>5, <1>6, <1>10 DEF Follows
  <2>2. Cardinality(Played(new)) = played + 1
    BY <1>7, <2>1
  <2>3. \A i \in Played(l) : new[i] = l[i] /\ i \in Nat /\ i < n
    BY <1>3, <1>5 DEF n
  <2>4. n \in Nat
    BY <1>3 DEF n
  <2> SUFFICES ASSUME NEW first \in Played(new),
                      \A j \in Played(new) : first <= j
               PROVE  LET effect == new[first].effect
                      IN  /\ Rest(resolved.iter, effect.items,
                                  Cardinality(Played(new)))
                          /\ effect.kind = "list"
                          /\ \A i \in Played(new) :
                               LET nth == Cardinality({j \in Played(new) :
                                                         j <= i})
                               IN  new[i].outcome =
                                     IF nth <= Len(effect.items)
                                     THEN effect.items[nth] ELSE "exhausted"
    BY <1>1, <1>10, <2>1 DEF Follows, InOrder
  <2> DEFINE script == new[first].effect.items
  <2>5. first \in Played(l) /\ \A j \in Played(l) : first <= j
    <3>1. first # n
      BY <1>10, <2>1, <2>3, <2>4
    <3> QED
      BY <2>1, <3>1
  <2>6. script = l[first].effect.items /\ script \in Seq(Items)
    <3>1. new[first] = l[first]
      BY <2>3, <2>5
    <3>2. l[first] \in Entries /\ l[first].effect # None
      BY <2>5 DEF Played
    <3> QED
      BY <3>1, <3>2, SideEffectAssumption DEF Entries
  <2>7. Rest(route.iter, script, played)
    BY <2>5, <2>6 DEF Follows, played
  <2>8. /\ Rest(resolved.iter, script, played + 1)
        /\ resolved.outcome = IF played + 1 <= Len(script)
                              THEN script[played + 1] ELSE "exhausted"
    <3> HIDE DEF script
    <3>1. /\ Rest(NextItem(route.iter).iter, script, played + 1)
          /\ NextItem(route.iter).outcome = IF played + 1 <= Len(script)
                                            THEN script[played + 1]
                                            ELSE "exhausted"
      BY <1>3, <2>1, <2>6, <2>7, RestStep
    <3> QED
      BY <2>1, <3>1
  <2>9. new[first].effect.kind = "list"
    BY <2>3, <2>5 DEF InOrder
  <2>10. ASSUME NEW i \in Played(l)
         PROVE  LET nth == Cardinality({j \in Played(new) : j <= i})
                IN  new[i].outcome = IF nth <= Len(script)
                                     THEN script[nth] ELSE "exhausted"
    <3>1. {j \in Played(new) : j <= i} = {j \in Played(l) : j <= i}
      BY <2>1, <2>3, <2>4
    <3>2. new[i] = l[i]
      BY <2>3
    <3> QED
      BY <2>5, <2>6, <3>1, <3>2 DEF InOrder
  <2>11. LET nth == Cardinality({j \in Played(new) : j <= n})
         IN  new[n].outcome = IF nth <= Len(script)
                              THEN script[nth] ELSE "exhausted"
    <3>1. {j \in Played(new) : j <= n} = Played(new)
      BY <2>1, <2>3, <2>4
    <3> QED
      BY <1>5, <1>4, <2>2, <2>8, <3>1
  <2> HIDE DEF script
  <2> QED
    BY <2>1, <2>2, <2>8, <2>9, <2>10, <2>11 DEF script
<1> QED
  BY <1>8, <1>9, <1>10

-----------------------------------------------------------------------------
(* The invariant is inductive                                              *)

(* A request of a route is handled.                                        *)
LEMMA HandleStep ==
  ASSUME IInv, NEW k \in Keys, NEW q \in Requests, Handle(k, q)
  PROVE  IInv'
<1> DEFINE route == routes[k]
           l == log[k]
           resolved == ResolveResponse(route)
           e == [request |-> q, effect |-> route.side_effect,
                 outcome |-> resolved.outcome]
           calls == Append(route.calls, q)
<1>1. /\ routes[k] # None /\ route \in Routes /\ l \in Seq(Entries)
      /\ routes' = [routes EXCEPT ![k].calls = calls, ![k].iter = resolved.iter]
      /\ log' = [log EXCEPT ![k] = Append(l, e)]
  BY DEF Handle, Registered, IInv, TypeInv
<1>2. /\ routes'[k] = [route EXCEPT !.calls = calls, !.iter = resolved.iter]
      /\ \A h \in Keys \ {k} : routes'[h] = routes[h] /\ log'[h] = log[h]
      /\ log'[k] = Append(l, e)
      /\ DOMAIN routes' = Keys /\ routes' = [h \in Keys |-> routes'[h]]
  BY <1>1 DEF IInv, TypeInv
<1>3. e \in Entries /\ resolved.iter \in Seq(Items) \cup {None}
  BY <1>1, Resolved DEF Entries, Routes
<1>4. /\ routes'[k] \in Routes /\ routes'[k].calls = calls
      /\ routes'[k].iter = resolved.iter
  <2>1. calls \in Seq(Requests)
    BY <1>1 DEF Routes
  <2> HIDE DEF calls, resolved
  <2> QED
    BY <1>1, <1>2, <1>3, <2>1 DEF Routes
<1>5. routes'[k] # None
  BY <1>4, NoneAssumption
<1>6. Follows(route.iter, l) /\ InOrder(l)
  BY <1>1 DEF IInv, IterInv, OrderInv, Registered
<1>7. Follows(resolved.iter, log'[k]) /\ InOrder(log'[k])
  BY <1>1, <1>2, <1>6, ScriptStep
<1>8. calls = [i \in DOMAIN log'[k] |-> log'[k][i].request]
  <2>1. route.calls = [i \in DOMAIN l |-> l[i].request]
    BY <1>1 DEF IInv, EveryCallRecorded, Registered
  <2>2. /\ DOMAIN log'[k] = 1..(Len(l) + 1) /\ DOMAIN l = 1..Len(l)
        /\ Len(l) \in Nat
        /\ log'[k][Len(l) + 1] = e /\ \A i \in 1..Len(l) : log'[k][i] = l[i]
    BY <1>1, <1>2, <1>3, PlayedAppend
  <2>3. e.request = q
    OBVIOUS
  <2>4. route.calls \in Seq(Requests) /\ Len(route.calls) = Len(l)
    BY <1>1, <2>1, <2>2 DEF Routes
  <2>5. /\ calls \in Seq(Requests) /\ Len(calls) = Len(l) + 1
        /\ \A i \in 1..Len(l) : calls[i] = route.calls[i]
        /\ calls[Len(l) + 1] = q
    BY <2>4, AppendProperties
  <2>6. calls = [i \in 1..(Len(l) + 1) |-> calls[i]]
    BY <2>5
  <2> HIDE DEF calls, e
  <2>7. \A i \in 1..(Len(l) + 1) : calls[i] = log'[k][i].request
    <3>1. \A i \in 1..Len(l) : calls[i] = log'[k][i].request
      BY <2>1, <2>2, <2>5
    <3>2. calls[Len(l) + 1] = log'[k][Len(l) + 1].request
      BY <2>2, <2>3, <2>5
    <3> QED
      BY <2>2, <3>1, <3>2
  <2> QED
    BY <2>2, <2>6, <2>7
<1>9. TypeInv'
  BY <1>1, <1>2, <1>3, <1>4 DEF IInv, TypeInv
<1> HIDE DEF route, l, resolved, e, calls
<1>10. IterInv'
  <2>1. Follows(routes'[k].iter, log'[k])
    BY <1>4, <1>7
  <2>2. \A h \in Keys \ {k} :
          /\ routes'[h] = None => log'[h] = <<>>
          /\ routes'[h] # None => Follows(routes'[h].iter, log'[h])
    BY <1>2 DEF IInv, IterInv
  <2> QED
    BY <1>5, <2>1, <2>2 DEF IterInv
<1>11. EveryCallRecorded'
  <2>1. routes'[k].calls = [i \in DOMAIN log'[k] |-> log'[k][i].request]
    BY <1>4, <1>8
  <2>2. ASSUME NEW h \in Keys \ {k}, routes'[h] # None
        PROVE  routes'[h].calls = [i \in DOMAIN log'[h] |-> log'[h][i].request]
    <3>1. routes[h].calls = [i \in DOMAIN log[h] |-> log[h][i].request]
      BY <1>2, <2>2 DEF IInv, EveryCallRecorded, Registered
    <3>2. routes'[h] = routes[h] /\ log'[h] = log[h]
      BY <1>2
    <3> QED
      BY <3>1, <3>2, Zenon
  <2> QED
    BY <2>1, <2>2 DEF EveryCallRecorded, Registered
<1>12. OrderInv'
  <2>1. \A h \in Keys \ {k} : routes'[h] # None => InOrder(log'[h])
    <3>1. \A h \in Keys : routes[h] # None => InOrder(log[h])
      BY DEF IInv, OrderInv, Registered
    <3> QED
      BY <1>2, <3>1
  <2>2. \A h \in Keys : routes'[h] # None => InOrder(log'[h])
    BY <1>7, <2>1
  <2> QED
    BY <2>2 DEF OrderInv, Registered
<1> QED
  BY <1>9, <1>10, <1>11, <1>12 DEF IInv

(* Routes are registered, configured or reset: a route that is new, reset  *)
(* or gone has an empty log.                                               *)
LEMMA ConfigureStep ==
  ASSUME IInv,
         \/ \E k \in Keys : \/ Register(k) \/ SetReturnValue(k)
                            \/ SetSideEffect(k) \/ Reset({k})
         \/ Reset(Registered) \/ Clear
  PROVE  IInv'
<1>1. TypeInv
  BY DEF IInv
<1>2. /\ DOMAIN routes' = Keys /\ DOMAIN log' = Keys
      /\ routes' = [k \in Keys |-> routes'[k]]
      /\ log' = [k \in Keys |-> log'[k]]
  BY <1>1 DEF TypeInv, Register, SetReturnValue, SetSideEffect, Reset, Clear
<1>3. Played(<<>>) = {}
  BY DEF Played
<1>4. \A h \in Keys :
        \/ routes'[h] = None /\ log'[h] = <<>>
        \/ /\ routes'[h] \in Routes /\ routes'[h].calls = <<>>
           /\ routes'[h].iter = None /\ log'[h] = <<>>
        \/ /\ routes[h] # None /\ routes'[h] \in Routes
           /\ routes'[h].calls = routes[h].calls
           /\ routes'[h].iter = routes[h].iter /\ log'[h] = log[h]
  <2> SUFFICES ASSUME NEW h \in Keys
               PROVE  \/ routes'[h] = None /\ log'[h] = <<>>
                      \/ /\ routes'[h] \in Routes /\ routes'[h].calls = <<>>
                         /\ routes'[h].iter = None /\ log'[h] = <<>>
                      \/ /\ routes[h] # None /\ routes'[h] \in Routes
                         /\ routes'[h].calls = routes[h].calls
                         /\ routes'[h].iter = routes[h].iter
                         /\ log'[h] = log[h]
    OBVIOUS
  <2>1. /\ routes[h] \in Routes \cup {None} /\ log[h] \in Seq(Entries)
        /\ routes[h] = None => log[h] = <<>>
    BY DEF IInv, TypeInv, IterInv
  <2>2. <<>> \in Seq(Requests)
    OBVIOUS
  <2>3. ASSUME NEW k \in Keys, Register(k)
        PROVE  routes'[h] = (IF h = k THEN MockRoute ELSE routes[h])
               /\ log' = log
    BY <1>1, <2>3 DEF Register, TypeInv
  <2>4. MockRoute \in Routes /\ MockRoute.calls = <<>> /\ MockRoute.iter = None
    BY <2>2 DEF MockRoute, Routes
  <2>5. CASE \E k \in Keys : Register(k)
    BY <2>1, <2>3, <2>4, <2>5 DEF Register
  <2>6. CASE \E k \in Keys : SetReturnValue(k) \/ SetSideEffect(k)
    <3>1. PICK k \in Keys : SetReturnValue(k) \/ SetSideEffect(k)
      BY <2>6
    <3>2. log' = log /\ (h # k => routes'[h] = routes[h])
      BY <1>1, <3>1 DEF TypeInv, SetReturnValue, SetSideEffect
    <3>3. CASE h = k
      <4>1. \/ \E v \in Responses :
                 routes'[h] = [routes[h] EXCEPT !.return_value = v]
            \/ \E e \in SideEffects \cup {None} :
                 routes'[h] = [routes[h] EXCEPT !.side_effect = e]
        BY <1>1, <3>1, <3>3 DEF TypeInv, SetReturnValue, SetSideEffect
      <4>2. routes[h] # None
        BY <3>1, <3>3 DEF SetReturnValue, SetSideEffect, Registered
      <4> QED
        BY <2>1, <3>2, <4>1, <4>2 DEF Routes
    <3> QED
      BY <2>1, <3>2, <3>3
  <2>7. ASSUME NEW K \in SUBSET Keys, Reset(K)
        PROVE  \/ /\ routes'[h] = [routes[h] EXCEPT !.calls = <<>>,
                                                  !.iter = None]
                  /\ log'[h] = <<>> /\ routes[h] # None
               \/ routes'[h] = routes[h] /\ log'[h] = log[h]
    BY <2>7 DEF Reset, Registered
  <2>8. CASE Reset(Registered) \/ \E k \in Keys : Reset({k})
    <3>1. PICK K \in SUBSET Keys : Reset(K)
      BY <2>8 DEF Registered
    <3>2. CASE routes'[h] = routes[h] /\ log'[h] = log[h]
      BY <2>1, <3>2
    <3>3. CASE /\ routes'[h] = [routes[h] EXCEPT !.calls = <<>>, !.iter = None]
               /\ log'[h] = <<>> /\ routes[h] # None
      BY <2>1, <2>2, <3>3 DEF Routes
    <3> QED
      BY <2>7, <3>1, <3>2, <3>3
  <2>9. CASE Clear
    BY <2>9 DEF Clear
  <2> QED
    BY <2>5, <2>6, <2>8, <2>9
<1>5. TypeInv'
  <2>1. \A h \in Keys : /\ routes'[h] \in Routes \cup {None}
                        /\ log'[h] \in Seq(Entries)
    <3>1. <<>> \in Seq(Entries)
      OBVIOUS
    <3> QED
      BY <1>1, <1>4, <3>1 DEF TypeInv
  <2> QED
    BY <1>2, <2>1 DEF TypeInv
<1>6. IterInv'
  <2> SUFFICES ASSUME NEW h \in Keys
               PROVE  /\ routes'[h] = None => log'[h] = <<>>
                      /\ routes'[h] # None => Follows(routes'[h].iter, log'[h])
    BY DEF IterInv
  <2>1. Follows(None, <<>>)
    BY <1>3 DEF Follows
  <2>2. routes[h] # None => Follows(routes[h].iter, log[h])
    BY DEF IInv, IterInv
  <2> QED
    BY <1>4, <2>1, <2>2, NoneAssumption
<1>7. EveryCallRecorded'
  <2> SUFFICES ASSUME NEW h \in Keys, routes'[h] # None
               PROVE  routes'[h].calls
                        = [i \in DOMAIN log'[h] |-> log'[h][i].request]
    BY DEF EveryCallRecorded, Registered
  <2>1. CASE routes'[h].calls = <<>> /\ log'[h] = <<>>
    BY <2>1
  <2>2. CASE /\ routes[h] # None /\ routes'[h].calls = routes[h].calls
             /\ log'[h] = log[h]
    <3>1. routes[h].calls = [i \in DOMAIN log[h] |-> log[h][i].request]
      BY <2>2 DEF IInv, EveryCallRecorded, Registered
    <3> QED
      BY <2>2, <3>1, Zenon
  <2> QED
    BY <1>4, <2>1, <2>2
<1>8. OrderInv'
  <2>1. InOrder(<<>>)
    BY <1>3 DEF InOrder
  <2>2. \A h \in Keys : routes[h] # None => InOrder(log[h])
    BY DEF IInv, OrderInv, Registered
  <2>3. \A h \in Keys : routes'[h] # None => InOrder(log'[h])
    BY <1>4, <2>1, <2>2
  <2> QED
    BY <2>3 DEF OrderInv, Registered
<1> QED
  BY <1>5, <1>6, <1>7, <1>8 DEF IInv

(* The invariant holds in every reachable state.                           *)
THEOREM Invariance == Spec => []IInv
<1>1. Init => IInv
  <2> SUFFICES ASSUME Init PROVE IInv
    OBVIOUS
  <2>1. TypeInv
    BY DEF Init, TypeInv
  <2>2. IterInv /\ EveryCallRecorded /\ OrderInv
    BY DEF Init, IterInv, EveryCallRecorded, OrderInv, Registered
  <2> QED
    BY <2>1, <2>2 DEF IInv
<1>2. IInv /\ [Next]_vars => IInv'
  <2> SUFFICES ASSUME IInv, [Next]_vars PROVE IInv'
    OBVIOUS
  <2>1. ASSUME NEW k \in Keys, NEW q \in Requests, Handle(k, q)
        PROVE  IInv'
    BY <2>1, HandleStep
  <2>2. CASE UNCHANGED vars
    <3>1. TypeInv'
      BY <2>2 DEF vars, IInv, TypeInv
    <3>2. IterInv'
      BY <2>2 DEF vars, IInv, IterInv
    <3>3. EveryCallRecorded'
      BY <2>2 DEF vars, IInv, EveryCallRecorded, Registered
    <3>4. OrderInv'
      BY <2>2 DEF vars, IInv, OrderInv, Registered
    <3> QED
      BY <3>1, <3>2, <3>3, <3>4 DEF IInv
  <2>3. CASE \/ \E k \in Keys : \/ Register(k) \/ SetReturnValue(k)
                               \/ SetSideEffect(k) \/ Reset({k})
             \/ Reset(Registered) \/ Clear
    BY <2>3, ConfigureStep
  <2> QED
    BY <2>1, <2>2, <2>3 DEF Next
<1> QED
  BY <1>1, <1>2, PTL DEF Spec

(* Every request that reached a route is recorded, in its order, whatever  *)
(* became of it.                                                           *)
THEOREM CallsAreRecorded == Spec => []EveryCallRecorded
<1>1. IInv => EveryCallRecorded
  BY DEF IInv
<1> QED
  BY <1>1, Invariance, PTL

-----------------------------------------------------------------------------
(* A script alone                                                          *)

(* A set of numbers has a least one.                                       *)
LEMMA LeastNumber ==
  ASSUME NEW S \in SUBSET Nat, S # {}
  PROVE  \E first \in S : \A j \in S : first <= j
<1> DEFINE R == OpToRel(<, Nat)
<1>1. IsWellFoundedOn(R, Nat)
  BY NatLessThanWellFounded
<1>2. \A x, y \in Nat : <<y, x>> \in R <=> y < x
  BY DEF OpToRel
<1> HIDE DEF R
<1>3. PICK first \in S : \A j \in S : <<j, first>> \notin R
  BY <1>1, WFMin
<1>4. \A j \in S : ~(j < first)
  BY <1>2, <1>3
<1> QED
  BY <1>4

(* A script that was the only one played since a reset is played in order  *)
(* and once, from its first item: nothing of an earlier one is left.       *)
THEOREM ScriptsInOrder == Spec => []ScriptInOrder
<1>1. IInv => ScriptInOrder
  <2> SUFFICES ASSUME IInv, NEW k \in Registered, NEW i \in Played(log[k]),
                      \A j \in {h \in Played(log[k]) : h <= i} :
                        log[k][j].effect = log[k][i].effect
               PROVE  LET effect == log[k][i].effect
                          nth == Cardinality({j \in Played(log[k]) : j <= i})
                      IN  /\ effect.kind = "list"
                          /\ log[k][i].outcome = IF nth <= Len(effect.items)
                                                 THEN effect.items[nth]
                                                 ELSE "exhausted"
    BY DEF ScriptInOrder
  <2>1. InOrder(log[k]) /\ log[k] \in Seq(Entries)
    BY DEF IInv, OrderInv, TypeInv, Registered
  <2>2. Played(log[k]) \in SUBSET Nat
    BY <2>1, PlayedFinite
  <2>3. PICK first \in Played(log[k]) : \A j \in Played(log[k]) : first <= j
    BY <2>2, LeastNumber
  <2>4. log[k][first].effect = log[k][i].effect
    BY <2>3
  <2> QED
    BY <2>1, <2>3, <2>4 DEF InOrder
<1> QED
  BY <1>1, Invariance, PTL

=============================================================================
