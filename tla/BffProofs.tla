----------------------------- MODULE BffProofs -----------------------------
(***************************************************************************)
(* Proofs about Bff for every set of requests, tokens and bound on the     *)
(* retries.  The invariant that carries them says what the BFF has settled *)
(* of a request at each point of its way, and that a UUID drawn for a      *)
(* trace has never left the BFF as anything else.                          *)
(***************************************************************************)
EXTENDS Bff, TLAPS

(* What the BFF holds of a request: nothing before it arrives, its ids     *)
(* from then on, and the headers of its attempts once it is ready.         *)
HandlerInv ==
  \A r \in Requests :
    /\ pc[r] = "idle" => /\ state[r] = NoIds
                         /\ inbound[r] = NoHeaders
    /\ pc[r] # "idle" => state[r] \in IdPairs
    /\ pc[r] \in {"ready", "waiting"} =>
         /\ ctx[r] \in Contexts
         /\ ctx[r].request_id = state[r].request_id
         /\ ctx[r].trace_id = state[r].trace_id
    /\ echoed[r] = IF pc[r] = "done" THEN state[r].request_id ELSE None
    /\ pc[r] # "idle" /\ IsSafe(inbound[r].request_id) =>
         state[r].request_id = inbound[r].request_id

(* What is on its way, and what has arrived, carries the ids of a request. *)
HopInv ==
  /\ \A m \in network : /\ pc[m.from] # "idle"
                        /\ m.headers.request_id = state[m.from].request_id
                        /\ m.headers.trace_id = state[m.from].trace_id
  /\ \A h \in hops : pc[h.from] # "idle" /\ h.ids = state[h.from]

(* The tokens that have come with, or been given to, request r as a name   *)
(* of itself: those that a browser may know.                               *)
Names(r) ==
  {state[r].request_id, inbound[r].request_id, inbound[r].trace_id}

(* Every UUID in use has been drawn.                                       *)
DrawnInv ==
  \A r \in Requests : pc[r] # "idle" =>
    /\ state[r].trace_id <= minted
    /\ \A token \in Names(r) : token \in Nat => token <= minted

(* A trace belongs to one request, and is nothing that a browser may know. *)
ApartInv ==
  \A r, q \in Requests : pc[r] # "idle" /\ pc[q] # "idle" =>
    /\ r # q => state[r].trace_id # state[q].trace_id
    /\ state[r].trace_id \notin Names(q)

IInv == TypeOK /\ HandlerInv /\ HopInv /\ DrawnInv /\ ApartInv

-----------------------------------------------------------------------------
(* The identifiers                                                         *)

(* No header value of a browser is a number, and None is no token.         *)
LEMMA TokenFacts ==
  /\ None \notin Ids /\ None \notin Nat /\ None # Identity
  /\ \A token \in SafeTokens \cup UnsafeTokens : token \notin Nat
  /\ \A token : IsSafe(token) <=> token \in Ids
  /\ Uuids \subseteq Ids /\ Uuids \subseteq Nat
BY TokenAssumption DEF Ids, Uuids, IsSafe

(* The edge keeps a safe request id and draws a new trace.                 *)
LEMMA EdgeIds ==
  ASSUME NEW headers \in Inbound, NEW n \in Nat
  PROVE  LET ids == DispatchIds(headers, TrustInboundTrace("bff"), n)
         IN /\ ids \in IdPairs
            /\ ids.trace_id = n + 2
            /\ ids.request_id = IF IsSafe(headers.request_id)
                                  THEN headers.request_id ELSE n + 1
<1>1. n + 1 \in Uuids /\ n + 2 \in Uuids
  BY DEF Uuids
<1> QED
  BY <1>1, TokenFacts DEF DispatchIds, TrustInboundTrace,
     SanitizeHeaderToken, IdPairs

(* A service keeps the ids that the BFF sends it.                          *)
LEMMA ServiceIds ==
  ASSUME NEW headers \in Contexts, NEW n \in Nat
  PROVE  /\ DispatchIds(headers, TrustInboundTrace("flow"), n)
              = [request_id |-> headers.request_id,
                 trace_id |-> headers.trace_id]
         /\ DispatchIds(headers, TrustInboundTrace("flow"), n) \in IdPairs
BY TokenFacts DEF DispatchIds, TrustInboundTrace, SanitizeHeaderToken,
   IdPairs, Contexts

(* The context keeps the ids of request.state.                             *)
LEMMA ContextIds ==
  ASSUME NEW ids \in IdPairs, NEW headers, NEW n \in Nat
  PROVE  /\ FromRequest(ids, headers, n) \in Contexts
         /\ FromRequest(ids, headers, n).request_id = ids.request_id
         /\ FromRequest(ids, headers, n).trace_id = ids.trace_id
BY TokenFacts DEF FromRequest, IdPairs, Contexts

-----------------------------------------------------------------------------
(* The invariant is inductive                                              *)

(* A step of one request touches nothing of the others.                    *)
LEMMA OwnStep ==
  ASSUME TypeOK, NEW r \in Requests,
         \/ Arrive(r) \/ BuildContext(r) \/ Reject(r)
         \/ SendAttempt(r) \/ RetryAttempt(r) \/ Respond(r) \/ Crash(r)
  PROVE  \A q \in Requests \ {r} :
           /\ pc'[q] = pc[q] /\ state'[q] = state[q] /\ ctx'[q] = ctx[q]
           /\ inbound'[q] = inbound[q] /\ echoed'[q] = echoed[q]
BY DEF TypeOK, Arrive, BuildContext, Reject, SendAttempt, RetryAttempt,
   Respond, Crash

(* A request arrives with tokens that browsers know, and gets ids of its   *)
(* own.                                                                    *)
LEMMA ArriveStep ==
  ASSUME IInv, NEW r \in Requests, Arrive(r)
  PROVE  IInv'
<1>1. PICK headers \in [request_id : BrowserTokens \cup {None},
                        trace_id : BrowserTokens \cup {None},
                        user_id : SafeTokens \cup {None}] :
        /\ inbound' = [inbound EXCEPT ![r] = headers]
        /\ state' = [state EXCEPT ![r] =
                       DispatchIds(headers, TrustInboundTrace("bff"), minted)]
  BY DEF Arrive
<1> DEFINE ids == DispatchIds(headers, TrustInboundTrace("bff"), minted)
<1>2. /\ pc[r] = "idle" /\ pc' = [pc EXCEPT ![r] = "routed"]
      /\ minted' = minted + 2 /\ minted \in Nat
      /\ UNCHANGED <<ctx, attempt, network, hops, echoed>>
      /\ method' \in [Requests -> {"GET", "POST", None}]
  BY DEF Arrive, IInv, TypeOK
<1>3. \A q \in Requests : echoed[q] \in Ids \cup {None}
  BY DEF IInv, TypeOK
<1>4. headers \in Inbound
  BY <1>3 DEF BrowserTokens, Inbound, Tokens, Ids
<1>5. \A token \in {headers.request_id, headers.trace_id} :
        token \in Nat => \E q \in Requests :
          pc[q] # "idle" /\ token = state[q].request_id
  BY TokenFacts DEF BrowserTokens, IInv, HandlerInv
<1>6. /\ ids \in IdPairs /\ ids.trace_id = minted + 2
      /\ ids.request_id = IF IsSafe(headers.request_id)
                            THEN headers.request_id ELSE minted + 1
  BY <1>2, <1>4, EdgeIds
<1> HIDE DEF ids
<1>7. /\ inbound' = [inbound EXCEPT ![r] = headers]
      /\ state' = [state EXCEPT ![r] = ids]
  BY <1>1 DEF ids
<1>8. TypeOK'
  BY <1>2, <1>4, <1>6, <1>7 DEF IInv, TypeOK
<1>9. HandlerInv'
  BY <1>2, <1>6, <1>7 DEF IInv, TypeOK, HandlerInv
<1>10. HopInv'
  BY <1>2, <1>7 DEF IInv, TypeOK, HopInv
<1>11. /\ Names(r)' = {ids.request_id, headers.request_id, headers.trace_id}
       /\ state'[r].trace_id = minted + 2
       /\ \A q \in Requests \ {r} : /\ Names(q)' = Names(q)
                                    /\ state'[q] = state[q]
                                    /\ pc'[q] = pc[q]
  BY <1>2, <1>6, <1>7 DEF IInv, TypeOK, Names
<1>12. \A token \in Names(r)' : token \in Nat =>
         \/ token = minted + 1
         \/ /\ token <= minted
            /\ \A q \in Requests : pc[q] # "idle" => token # state[q].trace_id
  <2> SUFFICES ASSUME NEW token \in Names(r)', token \in Nat,
                      token # minted + 1
               PROVE  /\ token <= minted
                      /\ \A q \in Requests :
                           pc[q] # "idle" => token # state[q].trace_id
    OBVIOUS
  <2>1. token \in {headers.request_id, headers.trace_id}
    BY <1>6, <1>11
  <2>2. PICK q \in Requests : pc[q] # "idle" /\ token = state[q].request_id
    BY <1>5, <2>1
  <2>3. token \in Names(q)
    BY <2>2 DEF Names
  <2> QED
    BY <2>2, <2>3 DEF IInv, DrawnInv, ApartInv
<1>13. DrawnInv'
  <2> SUFFICES ASSUME NEW q \in Requests, pc'[q] # "idle"
               PROVE  /\ state'[q].trace_id <= minted'
                      /\ \A token \in Names(q)' :
                           token \in Nat => token <= minted'
    BY DEF DrawnInv
  <2>1. CASE q = r
    BY <1>2, <1>11, <1>12, <2>1
  <2>2. CASE q # r
    <3>1. state[q].trace_id \in Nat
      BY <1>11, <2>2, TokenFacts DEF IInv, HandlerInv, IdPairs
    <3> QED
      BY <1>2, <1>11, <2>2, <3>1 DEF IInv, DrawnInv
  <2> QED
    BY <2>1, <2>2
<1>14. ApartInv'
  <2> SUFFICES ASSUME NEW p \in Requests, NEW q \in Requests,
                      pc'[p] # "idle", pc'[q] # "idle"
               PROVE  /\ p # q => state'[p].trace_id # state'[q].trace_id
                      /\ state'[p].trace_id \notin Names(q)'
    BY DEF ApartInv
  <2>1. \A u \in Requests : pc[u] # "idle" =>
          /\ state[u].trace_id \in Nat /\ state[u].trace_id <= minted
          /\ \A token \in Names(u) : token \in Nat => token <= minted
    BY TokenFacts DEF IInv, HandlerInv, IdPairs, DrawnInv
  <2>2. CASE p = r /\ q = r
    BY <1>2, <1>11, <1>12, <2>2
  <2>3. CASE p = r /\ q # r
    BY <1>2, <1>11, <2>1, <2>3
  <2>4. CASE p # r /\ q = r
    BY <1>2, <1>11, <1>12, <2>1, <2>4
  <2>5. CASE p # r /\ q # r
    BY <1>11, <2>5 DEF IInv, ApartInv
  <2> QED
    BY <2>2, <2>3, <2>4, <2>5
<1> QED
  BY <1>8, <1>9, <1>10, <1>13, <1>14 DEF IInv

(* The other steps of a request draw no id that anybody sees.              *)
LEMMA NamesKept ==
  ASSUME IInv, UNCHANGED <<state, inbound>>, minted' \in Nat, minted <= minted',
         \A r \in Requests : pc'[r] = "idle" <=> pc[r] = "idle"
  PROVE  DrawnInv' /\ ApartInv'
<1>1. \A r \in Requests : Names(r)' = Names(r)
  BY DEF Names
<1>2. \A r \in Requests : pc[r] # "idle" => state[r].trace_id \in Nat
  BY TokenFacts DEF IInv, HandlerInv, IdPairs
<1>3. DrawnInv'
  BY <1>1, <1>2 DEF IInv, TypeOK, DrawnInv
<1>4. ApartInv'
  BY <1>1 DEF IInv, ApartInv
<1> QED
  BY <1>3, <1>4

(* The invariant, action by action.                                        *)
LEMMA Inductive == IInv /\ [Next]_vars => IInv'
<1> SUFFICES ASSUME IInv, [Next]_vars PROVE IInv'
  OBVIOUS
<1>0. minted \in Nat
  BY DEF IInv, TypeOK
<1>1. ASSUME NEW r \in Requests, Arrive(r) PROVE IInv'
  BY <1>1, ArriveStep
<1>2. ASSUME NEW r \in Requests, BuildContext(r) PROVE IInv'
  <2> DEFINE context == FromRequest(state[r], inbound[r], minted)
  <2>1. /\ pc[r] = "routed" /\ pc' = [pc EXCEPT ![r] = "ready"]
        /\ ctx' = [ctx EXCEPT ![r] = context] /\ minted' = minted + 2
        /\ UNCHANGED <<method, inbound, state, attempt, network, hops, echoed>>
    BY <1>2 DEF BuildContext
  <2>2. /\ state[r] \in IdPairs /\ context \in Contexts
        /\ context.request_id = state[r].request_id
        /\ context.trace_id = state[r].trace_id
    BY <1>0, <2>1, ContextIds DEF IInv, HandlerInv
  <2> HIDE DEF context
  <2>3. TypeOK'
    BY <2>1, <2>2 DEF IInv, TypeOK
  <2>4. HandlerInv'
    BY <2>1, <2>2 DEF IInv, TypeOK, HandlerInv
  <2>5. HopInv'
    BY <2>1 DEF IInv, TypeOK, HopInv
  <2>6. DrawnInv' /\ ApartInv'
    BY <1>0, <2>1, NamesKept DEF IInv, TypeOK
  <2> QED
    BY <2>3, <2>4, <2>5, <2>6 DEF IInv
<1>3. ASSUME NEW r \in Requests, Reject(r) \/ Respond(r) PROVE IInv'
  <2>1. /\ pc[r] \in {"routed", "waiting"} /\ pc' = [pc EXCEPT ![r] = "done"]
        /\ echoed' = [echoed EXCEPT ![r] = state[r].request_id]
        /\ UNCHANGED <<minted, method, inbound, state, ctx, attempt,
                       network, hops>>
    BY <1>3 DEF Reject, Respond
  <2>2. state[r] \in IdPairs
    BY <2>1 DEF IInv, HandlerInv
  <2>3. TypeOK'
    BY <2>1, <2>2 DEF IInv, TypeOK, IdPairs
  <2>4. HandlerInv'
    BY <2>1, <2>2 DEF IInv, TypeOK, HandlerInv
  <2>5. HopInv'
    BY <2>1 DEF IInv, TypeOK, HopInv
  <2>6. DrawnInv' /\ ApartInv'
    BY <1>0, <2>1, NamesKept DEF IInv, TypeOK
  <2> QED
    BY <2>3, <2>4, <2>5, <2>6 DEF IInv
<1>4. ASSUME NEW r \in Requests, SendAttempt(r) PROVE IInv'
  <2> DEFINE message == [from |-> r, nr |-> attempt'[r], headers |-> ctx[r]]
  <2>1. /\ pc[r] = "ready" /\ pc' = [pc EXCEPT ![r] = "waiting"]
        /\ attempt' = [attempt EXCEPT ![r] = @ + 1]
        /\ network' = network \cup {message}
        /\ UNCHANGED <<minted, method, inbound, state, ctx, hops, echoed>>
    BY <1>4 DEF SendAttempt
  <2>2. /\ ctx[r] \in Contexts
        /\ ctx[r].request_id = state[r].request_id
        /\ ctx[r].trace_id = state[r].trace_id
    BY <2>1 DEF IInv, HandlerInv
  <2>3. /\ attempt' \in [Requests -> Nat]
        /\ message \in [from : Requests, nr : Nat, headers : Contexts]
    BY <2>1, <2>2 DEF IInv, TypeOK
  <2>4. message.from = r /\ message.headers = ctx[r]
    OBVIOUS
  <2> HIDE DEF message
  <2>5. TypeOK'
    BY <2>1, <2>3 DEF IInv, TypeOK
  <2>6. HandlerInv'
    BY <2>1, <2>2 DEF IInv, TypeOK, HandlerInv
  <2>7. HopInv'
    BY <2>1, <2>2, <2>4 DEF IInv, TypeOK, HopInv
  <2>8. DrawnInv' /\ ApartInv'
    BY <1>0, <2>1, NamesKept DEF IInv, TypeOK
  <2> QED
    BY <2>5, <2>6, <2>7, <2>8 DEF IInv
<1>5. ASSUME NEW r \in Requests, RetryAttempt(r) \/ Crash(r) PROVE IInv'
  <2>1. /\ pc[r] = "waiting" /\ pc' = [pc EXCEPT ![r] = pc'[r]]
        /\ pc'[r] \in {"ready", "crashed"}
        /\ UNCHANGED <<minted, method, inbound, state, ctx, attempt,
                       network, hops, echoed>>
    BY <1>5 DEF RetryAttempt, Crash, IInv, TypeOK
  <2>2. TypeOK'
    BY <2>1 DEF IInv, TypeOK
  <2>3. HandlerInv'
    BY <2>1 DEF IInv, TypeOK, HandlerInv
  <2>4. HopInv'
    BY <2>1 DEF IInv, TypeOK, HopInv
  <2>5. DrawnInv' /\ ApartInv'
    BY <1>0, <2>1, NamesKept DEF IInv, TypeOK
  <2> QED
    BY <2>2, <2>3, <2>4, <2>5 DEF IInv
<1>6. ASSUME NEW m \in network, ServiceDispatch(m) PROVE IInv'
  <2> DEFINE ids == DispatchIds(m.headers, TrustInboundTrace("flow"), minted)
             hop == [from |-> m.from, nr |-> m.nr,
                     user_id |-> m.headers.user_id, ids |-> ids]
  <2>1. /\ network' = network \ {m} /\ hops' = hops \cup {hop}
        /\ minted' = minted + 2
        /\ UNCHANGED <<pc, method, inbound, state, ctx, attempt, echoed>>
    BY <1>6 DEF ServiceDispatch
  <2>2. /\ m.from \in Requests /\ m.nr \in Nat /\ m.headers \in Contexts
        /\ pc[m.from] # "idle"
        /\ m.headers.request_id = state[m.from].request_id
        /\ m.headers.trace_id = state[m.from].trace_id
    BY DEF IInv, TypeOK, HopInv
  <2>3. /\ ids = [request_id |-> m.headers.request_id,
                  trace_id |-> m.headers.trace_id]
        /\ ids \in IdPairs
    BY <1>0, <2>2, ServiceIds
  <2> HIDE DEF ids
  <2>4. state[m.from] \in IdPairs
    BY <2>2 DEF IInv, HandlerInv
  <2>5. ids = state[m.from]
    BY <2>2, <2>3, <2>4 DEF IdPairs
  <2>6. /\ hop \in [from : Requests, nr : Nat, user_id : {Identity},
                    ids : IdPairs]
        /\ hop.from = m.from /\ hop.ids = ids
    BY <2>2, <2>3 DEF Contexts
  <2> HIDE DEF hop
  <2>7. TypeOK'
    BY <1>0, <2>1, <2>6 DEF IInv, TypeOK
  <2>8. HandlerInv'
    BY <2>1 DEF IInv, HandlerInv
  <2>9. HopInv'
    BY <2>1, <2>2, <2>5, <2>6 DEF IInv, HopInv
  <2>10. DrawnInv' /\ ApartInv'
    BY <1>0, <2>1, NamesKept DEF IInv, TypeOK
  <2> QED
    BY <2>7, <2>8, <2>9, <2>10 DEF IInv
<1>7. CASE UNCHANGED vars
  BY <1>7 DEF vars, IInv, TypeOK, HandlerInv, HopInv, DrawnInv, ApartInv,
     Names
<1> QED
  BY <1>1, <1>2, <1>3, <1>4, <1>5, <1>6, <1>7 DEF Next

(* The inductive invariant holds in every reachable state.                 *)
THEOREM Invariance == Spec => []IInv
<1>1. Init => IInv
  BY TokenFacts DEF Init, IInv, TypeOK, HandlerInv, HopInv, DrawnInv,
     ApartInv, Names, NoIds, NoHeaders, Inbound, Tokens
<1> QED
  BY <1>1, Inductive, PTL DEF Spec

(* Nothing but safe tokens is kept, forwarded, logged or echoed, whatever  *)
(* headers the browsers send.                                              *)
THEOREM TypeCorrect == Spec => []TypeOK
<1>1. IInv => TypeOK
  BY DEF IInv
<1> QED
  BY <1>1, Invariance, PTL

-----------------------------------------------------------------------------
(* The three properties of the trace                                       *)

(* A request is known at the services by the ids it has at the BFF,        *)
(* however many attempts were made and however late they came.             *)
THEOREM OneRequestOneTrace == Spec => []HopsJoin
<1>1. IInv => HopsJoin
  BY DEF IInv, HopInv, HopsJoin
<1> QED
  BY <1>1, Invariance, PTL

(* Nobody but the BFF can put two requests under one trace.                *)
THEOREM NoSharedTrace == Spec => []TracesStayApart
<1>1. IInv => TracesStayApart
  <2> SUFFICES ASSUME IInv, NEW h \in hops, NEW r \in Requests
               PROVE  /\ h.from # r => h.ids.trace_id # state[r].trace_id
                      /\ h.ids.trace_id \notin {echoed[r], inbound[r].trace_id,
                                                inbound[r].request_id}
    BY DEF TracesStayApart
  <2>1. /\ h.from \in Requests /\ pc[h.from] # "idle"
        /\ h.ids = state[h.from] /\ state[h.from].trace_id # None
    BY TokenFacts DEF IInv, TypeOK, HopInv, HandlerInv, IdPairs
  <2>2. CASE pc[r] = "idle"
    BY <2>1, <2>2 DEF IInv, HandlerInv, NoIds, NoHeaders
  <2>3. CASE pc[r] # "idle"
    <3>1. echoed[r] \in Names(r) \cup {None}
      BY DEF IInv, HandlerInv, Names
    <3> QED
      BY <2>1, <2>3, <3>1 DEF IInv, ApartInv, Names
  <2> QED
    BY <2>2, <2>3
<1> QED
  BY <1>1, Invariance, PTL

(* The id that a browser reads in a response is the one to search for; a   *)
(* request that crashed past the middleware's line shows none.             *)
THEOREM ResponseIdFindsAll == Spec => []EchoFindsRequest
<1>1. IInv => EchoFindsRequest
  BY DEF IInv, TypeOK, HandlerInv, HopInv, IdPairs, EchoFindsRequest
<1> QED
  BY <1>1, Invariance, PTL

=============================================================================
