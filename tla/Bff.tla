-------------------------------- MODULE Bff --------------------------------
(***************************************************************************)
(* A request on its way from a browser through the BFF to the services     *)
(* behind it, and the identifiers it carries: RequestIDMiddleware at the   *)
(* BFF and at the service (packages/core, middleware.py), RequestContext   *)
(* (context.py), the BFF's dependencies and proxy routes (apps/bff).  The  *)
(* BFF serves many requests at once, and the client of a route may send    *)
(* several attempts, each of which can arrive late or never.  What the     *)
(* attempts do there is in ServiceClient.                                  *)
(***************************************************************************)
EXTENDS Naturals, FiniteSets

CONSTANTS Requests,      \* the requests that reach the BFF
          SafeTokens,    \* header values of _TOKEN_PATTERN that browsers send
          UnsafeTokens,  \* header values outside it
          Identity,      \* what the auth dependency derives for the caller
          MaxRetries,    \* max_retries of the BFF's clients
          None           \* no header, no value

ASSUME RetryAssumption == MaxRetries \in Nat

ASSUME TokenAssumption ==
  /\ SafeTokens \cap UnsafeTokens = {}
  /\ (SafeTokens \cup UnsafeTokens) \cap Nat = {}
  /\ None \notin SafeTokens \cup UnsafeTokens \cup Nat \cup {Identity}
  /\ Identity \notin SafeTokens \cup UnsafeTokens \cup Nat

VARIABLES
  minted,   \* the UUIDs up to this number may have been drawn
  pc,       \* per request: idle, routed, ready, waiting, done or crashed
  method,   \* per request: the method of its route and of the route's call
  inbound,  \* per request: the headers it came with
  state,    \* per request: request.state at the BFF
  ctx,      \* per request: its RequestContext
  attempt,  \* per request: attempts its client has sent
  network,  \* attempts on their way to a service
  hops,     \* what the services saw of each attempt that arrived
  echoed    \* per request: X-Request-ID of the response

vars == <<minted, pc, method, inbound, state, ctx, attempt, network, hops, echoed>>

NoIds     == [request_id |-> None, trace_id |-> None]
NoHeaders == [request_id |-> None, trace_id |-> None, user_id |-> None]

Init == /\ minted = 0
        /\ pc = [r \in Requests |-> "idle"]
        /\ method = [r \in Requests |-> None]
        /\ inbound = [r \in Requests |-> NoHeaders]
        /\ state = [r \in Requests |-> NoIds]
        /\ ctx = [r \in Requests |-> NoHeaders]
        /\ attempt = [r \in Requests |-> 0]
        /\ network = {}
        /\ hops = {}
        /\ echoed = [r \in Requests |-> None]

-----------------------------------------------------------------------------
(* Identifiers                                                             *)

Uuids == Nat \ {0}

(* Mutant: a pattern without the hyphen, which no UUID matches.            *)
IsSafeWord(token) == token \in SafeTokens

(* _TOKEN_PATTERN.fullmatch: str(uuid4()) is such a token too.             *)
IsSafe(token) == token \in SafeTokens \cup Uuids

(* Mutant: a token is taken as it came.                                    *)
SanitizeNothing(raw, fresh) == IF raw # None THEN raw ELSE fresh

SanitizeHeaderToken(raw, fresh) == IF IsSafe(raw) THEN raw ELSE fresh

(* Mutant: the edge trusts the traces of its callers as a service does.    *)
IdsTrusting(headers, trust, n) ==
  [request_id |-> SanitizeHeaderToken(headers.request_id, n + 1),
   trace_id   |-> SanitizeHeaderToken(headers.trace_id, n + 2)]

(* dispatch: the ids of a request, n UUIDs having been drawn before.       *)
DispatchIds(headers, trust, n) ==
  [request_id |-> SanitizeHeaderToken(headers.request_id, n + 1),
   trace_id   |-> IF trust THEN SanitizeHeaderToken(headers.trace_id, n + 2)
                           ELSE n + 2]

(* create_basic_app and the create_app of each service: those behind the   *)
(* BFF continue the trace they are given.                                  *)
TrustInboundTrace(service) == service # "bff"

(* Mutant: the identity is read from the inbound header.                   *)
ContextOfHeaders(ids, headers, n) ==
  [request_id |-> IF ids.request_id = None THEN n + 1 ELSE ids.request_id,
   trace_id   |-> IF ids.trace_id = None THEN n + 2 ELSE ids.trace_id,
   user_id    |-> headers.user_id]

(* from_request, with the identity of the auth dependency.                 *)
FromRequest(ids, headers, n) ==
  [request_id |-> IF ids.request_id = None THEN n + 1 ELSE ids.request_id,
   trace_id   |-> IF ids.trace_id = None THEN n + 2 ELSE ids.trace_id,
   user_id    |-> Identity]

-----------------------------------------------------------------------------
(* The BFF                                                                 *)

(* A browser knows its own tokens and the ids of the responses it has got, *)
(* and sends any of them in any header.                                    *)
BrowserTokens == SafeTokens \cup UnsafeTokens \cup {echoed[r] : r \in Requests}

(* A request arrives and passes the middleware.                            *)
Arrive(r) ==
  /\ pc[r] = "idle" /\ pc' = [pc EXCEPT ![r] = "routed"]
  /\ \E m \in {"GET", "POST"} : method' = [method EXCEPT ![r] = m]
  /\ \E headers \in [request_id : BrowserTokens \cup {None},
                     trace_id : BrowserTokens \cup {None},
                     user_id : SafeTokens \cup {None}] :
       /\ inbound' = [inbound EXCEPT ![r] = headers]
       /\ state' = [state EXCEPT ![r] =
                      DispatchIds(headers, TrustInboundTrace("bff"), minted)]
  /\ minted' = minted + 2
  /\ UNCHANGED <<ctx, attempt, network, hops, echoed>>

(* The dependencies of the route run, on a thread of the pool.             *)
BuildContext(r) ==
  /\ pc[r] = "routed" /\ pc' = [pc EXCEPT ![r] = "ready"]
  /\ ctx' = [ctx EXCEPT ![r] = FromRequest(state[r], inbound[r], minted)]
  /\ minted' = minted + 2
  /\ UNCHANGED <<method, inbound, state, attempt, network, hops, echoed>>

(* The request does not validate: 422, and the route does not run.         *)
Reject(r) ==
  /\ pc[r] = "routed" /\ pc' = [pc EXCEPT ![r] = "done"]
  /\ echoed' = [echoed EXCEPT ![r] = state[r].request_id]
  /\ UNCHANGED <<minted, method, inbound, state, ctx, attempt, network, hops>>

(* The route's client sends an attempt, with the headers of the context.   *)
SendAttempt(r) ==
  /\ pc[r] = "ready" /\ pc' = [pc EXCEPT ![r] = "waiting"]
  /\ attempt' = [attempt EXCEPT ![r] = @ + 1]
  /\ network' = network \cup {[from |-> r, nr |-> attempt'[r], headers |-> ctx[r]]}
  /\ UNCHANGED <<minted, method, inbound, state, ctx, hops, echoed>>

(* The attempt has failed in a way that is retried: answered by a 5xx, cut *)
(* off or timed out, while it may still be on its way.                     *)
RetryAttempt(r) ==
  /\ pc[r] = "waiting" /\ pc' = [pc EXCEPT ![r] = "ready"]
  /\ method[r] = "GET"
  /\ attempt[r] < MaxRetries
  /\ UNCHANGED <<minted, method, inbound, state, ctx, attempt, network, hops, echoed>>

(* The call has ended, with a value or a ServiceCallError that a handler   *)
(* maps: call_next returns a response, and the middleware marks it.        *)
Respond(r) ==
  /\ pc[r] = "waiting" /\ pc' = [pc EXCEPT ![r] = "done"]
  /\ echoed' = [echoed EXCEPT ![r] = state[r].request_id]
  /\ UNCHANGED <<minted, method, inbound, state, ctx, attempt, network, hops>>

(* The call has ended with an exception that nothing maps, as a body that  *)
(* cannot be decoded does: call_next raises, and the 500 is made outside   *)
(* the middleware, without the id.                                         *)
Crash(r) ==
  /\ pc[r] = "waiting" /\ pc' = [pc EXCEPT ![r] = "crashed"]
  /\ UNCHANGED <<minted, method, inbound, state, ctx, attempt, network, hops, echoed>>

-----------------------------------------------------------------------------
(* An attempt arrives at a service, which trusts the BFF's trace.          *)
ServiceDispatch(m) ==
  /\ m \in network
  /\ network' = network \ {m}
  /\ hops' = hops \cup
       {[from |-> m.from, nr |-> m.nr, user_id |-> m.headers.user_id,
         ids |-> DispatchIds(m.headers, TrustInboundTrace("flow"), minted)]}
  /\ minted' = minted + 2
  /\ UNCHANGED <<pc, method, inbound, state, ctx, attempt, echoed>>

Next == \/ \E r \in Requests : \/ Arrive(r) \/ BuildContext(r) \/ Reject(r)
                               \/ SendAttempt(r) \/ RetryAttempt(r)
                               \/ Respond(r) \/ Crash(r)
        \/ \E m \in network : ServiceDispatch(m)

Spec == Init /\ [][Next]_vars

-----------------------------------------------------------------------------
(* Properties                                                              *)

Ids     == SafeTokens \cup Uuids
IdPairs == [request_id : Ids, trace_id : Uuids]
Tokens  == Ids \cup UnsafeTokens \cup {None}

Inbound  == [request_id : Tokens, trace_id : Tokens, user_id : SafeTokens \cup {None}]
Contexts == [request_id : Ids, trace_id : Uuids, user_id : {Identity}]

(* The type invariant: nothing but safe tokens is kept, forwarded, logged  *)
(* or echoed.                                                              *)
TypeOK ==
  /\ minted \in Nat
  /\ pc \in [Requests -> {"idle", "routed", "ready", "waiting", "done", "crashed"}]
  /\ method \in [Requests -> {"GET", "POST", None}]
  /\ inbound \in [Requests -> Inbound]
  /\ state \in [Requests -> IdPairs \cup {NoIds}]
  /\ ctx \in [Requests -> Contexts \cup {NoHeaders}]
  /\ attempt \in [Requests -> Nat]
  /\ network \subseteq [from : Requests, nr : Nat, headers : Contexts]
  /\ hops \subseteq [from : Requests, nr : Nat, user_id : {Identity}, ids : IdPairs]
  /\ echoed \in [Requests -> Ids \cup {None}]

(* Whatever the browser sent, every attempt that arrives at a service, be  *)
(* it a retry or late, is known there by the ids it has at the BFF: the    *)
(* service accepts the ids that the BFF minted.                            *)
HopsJoin == \A h \in hops : h.ids = state[h.from]

(* No two requests share a trace, and no browser can name one: traces that *)
(* callers supply are not continued, even ids they got from the BFF.       *)
TracesStayApart ==
  \A h \in hops : \A r \in Requests :
    /\ h.from # r => h.ids.trace_id # state[r].trace_id
    /\ h.ids.trace_id \notin {echoed[r], inbound[r].trace_id, inbound[r].request_id}

(* Every response that the middleware gets has an X-Request-ID that finds  *)
(* all that the request did in the services, and is the caller's own if    *)
(* that is a safe token.  No response names an id but these: the 500 of a  *)
(* request that crashed has none.                                          *)
EchoFindsRequest ==
  \A r \in Requests : pc[r] = "done" \/ echoed[r] # None =>
    /\ echoed[r] \in Ids
    /\ IsSafe(inbound[r].request_id) => echoed[r] = inbound[r].request_id
    /\ \A h \in hops : h.from = r => h.ids.request_id = echoed[r]

=============================================================================
