--------------------------- MODULE ServiceClient ---------------------------
(***************************************************************************)
(* BaseServiceClient.request (packages/core, base_client.py): calls from   *)
(* one service to another over HTTP, with their attempts, timeouts and     *)
(* retries, and a downstream service that may answer late, fail, or carry  *)
(* out an attempt that the client has given up.                            *)
(*                                                                         *)
(* The downstream keeps a set of items, like the users and flows of apps/  *)
(* uc and apps/flow.  An attempt has an effect when it creates, changes or *)
(* removes an item; effects counts those of each call.                     *)
(***************************************************************************)
EXTENDS ServiceErrors, FiniteSets

CONSTANTS Calls,       \* the calls made through the client, one each
          Items,       \* the ids the downstream can give to items
          Methods,     \* the HTTP methods in use
          MaxRetries,  \* max_retries: the attempts an idempotent call has
          None

ASSUME RetryAssumption == MaxRetries \in Nat

ASSUME MethodAssumption == Methods \subseteq {"GET", "POST", "PATCH", "DELETE"}

VARIABLES
  items,      \* downstream: the items that exist
  created,    \* downstream: the items that ever existed
  requests,   \* attempts under way: <<call, attempt number>>
  responses,  \* answers under way: [to |-> attempt, status |-> HTTP status]
  pc,         \* per call: idle, sending, waiting, backoff or done
  method,     \* per call: the method, or None
  item,       \* per call: the item in the path, or None
  attempt,    \* per call: attempt_number of the retry loop
  result,     \* per call: how it ended, or its last error, or None
  effects     \* per call: the attempts that had an effect downstream

network    == <<requests, responses>>
downstream == <<items, created, effects>>
vars == <<items, created, requests, responses,
          pc, method, item, attempt, result, effects>>

Init == /\ items \in {S \in SUBSET Items : Cardinality(S) <= 1}
        /\ created = items
        /\ requests = {}
        /\ responses = {}
        /\ pc = [c \in Calls |-> "idle"]
        /\ method = [c \in Calls |-> None]
        /\ item = [c \in Calls |-> None]
        /\ attempt = [c \in Calls |-> 0]
        /\ result = [c \in Calls |-> None]
        /\ effects = [c \in Calls |-> 0]

-----------------------------------------------------------------------------
(* The client                                                              *)

(* Mutant: a create is taken for safe to retry.                            *)
IdempotentWithPost == {"GET", "HEAD", "OPTIONS", "PUT", "DELETE", "POST"}

IdempotentMethods == {"GET", "HEAD", "OPTIONS", "PUT", "DELETE"}

ShouldRetry(m) == m \in IdempotentMethods /\ MaxRetries > 0

(* A client names an item only after it exists: ids are random.  Bound: a  *)
(* POST is made only while an id is left for the item.                     *)
Start(c) ==
  /\ pc[c] = "idle"
  /\ \E m \in Methods, i \in created \cup {None} :
       /\ m = "POST" <=> i = None
       /\ m = "POST" =>
            Cardinality(created) + Cardinality({d \in Calls : method[d] = "POST"})
              < Cardinality(Items)
       /\ method' = [method EXCEPT ![c] = m]
       /\ item' = [item EXCEPT ![c] = i]
  /\ attempt' = [attempt EXCEPT ![c] = 1]
  /\ pc' = [pc EXCEPT ![c] = "sending"]
  /\ UNCHANGED <<network, downstream, result>>

Send(c) ==
  /\ pc[c] = "sending"
  /\ pc' = [pc EXCEPT ![c] = "waiting"]
  /\ requests' = requests \cup {<<c, attempt[c]>>}
  /\ UNCHANGED <<responses, downstream, method, item, attempt, result>>

(* Mutant: max_retries taken for the retries after the first attempt.      *)
FailedOnceMore(c, e) ==
  /\ result' = [result EXCEPT ![c] = e]
  /\ pc' = [pc EXCEPT ![c] =
              IF /\ Transient(e) /\ ShouldRetry(method[c])
                 /\ attempt[c] <= MaxRetries
                THEN "backoff" ELSE "done"]
  /\ UNCHANGED <<downstream, method, item, attempt>>

(* An attempt ends with error e: the retry loop goes on or raises it.      *)
Failed(c, e) ==
  /\ result' = [result EXCEPT ![c] = e]
  /\ pc' = [pc EXCEPT ![c] =
              IF /\ Transient(e) /\ ShouldRetry(method[c])
                 /\ attempt[c] < MaxRetries
                THEN "backoff" ELSE "done"]
  /\ UNCHANGED <<downstream, method, item, attempt>>

(* The connection is refused, or the pool has none free in time.           *)
SendFails(c) ==
  /\ pc[c] = "sending"
  /\ \E exc \in {"timeout", "connect"} : Failed(c, MapTransportError(exc))
  /\ UNCHANGED network

(* Mutant: no timeout is set, and the client waits for the answer.         *)
WaitOn(c) == FALSE /\ UNCHANGED vars

(* The connection breaks, or times out, while the attempt may still be     *)
(* under way downstream.                                                   *)
GiveUp(c) ==
  /\ pc[c] = "waiting"
  /\ responses' = {r \in responses : r.to # <<c, attempt[c]>>}
  /\ \E exc \in {"timeout", "read"} : Failed(c, MapTransportError(exc))
  /\ UNCHANGED requests

(* The backoff delay is over.                                              *)
Retry(c) ==
  /\ pc[c] = "backoff"
  /\ pc' = [pc EXCEPT ![c] = "sending"]
  /\ attempt' = [attempt EXCEPT ![c] = @ + 1]
  /\ UNCHANGED <<network, downstream, method, item, result>>

(* Mutant: raise_for_status is left out, every readable answer is success. *)
AnyOutcome(m, status) == {Success(status), Unreadable}

(* What an answer with this status can mean to the caller.  A 2xx body may *)
(* not parse into the response model, unless nothing reads it: the delete  *)
(* routes answer 204 and their clients return None.  A body whose encoding *)
(* is broken fails in client.request, before anything is mapped.           *)
Outcomes(m, status) ==
  {e \in {Undecodable} : status # 204} \cup
  IF status \in 200..299
    THEN {Success(status)} \cup {e \in {Unreadable} : m # "DELETE"}
    ELSE {MapHttpError(status)}

Deliver(c) ==
  /\ pc[c] = "waiting"
  /\ \E r \in responses :
       /\ r.to = <<c, attempt[c]>>
       /\ responses' = responses \ {r}
       /\ \E e \in Outcomes(method[c], r.status) : Failed(c, e)
  /\ UNCHANGED requests

-----------------------------------------------------------------------------
(* The downstream service                                                  *)

(* The answer to attempt a, if its connection is still open.               *)
Answer(a, status) ==
  /\ requests' = requests \ {a}
  /\ responses' = IF pc[a[1]] = "waiting" /\ attempt[a[1]] = a[2]
                    THEN responses \cup {[to |-> a, status |-> status]}
                    ELSE responses
  /\ UNCHANGED <<pc, method, item, attempt, result>>

(* The effect of attempt a, made by call c.                                *)
Affect(c) == effects' = [effects EXCEPT ![c] = @ + 1]

(* Mutant: ids are reused, like those derived from the number of items.    *)
CreateReusing(c) == /\ Affect(c)
                    /\ \E i \in Items \ items :
                         items' = items \cup {i} /\ created' = created \cup {i}

Create(c) == /\ Affect(c)
             /\ \E i \in Items \ created :
                  items' = items \cup {i} /\ created' = created \cup {i}

Remove(c) == /\ Affect(c)
             /\ items' = items \ {item[c]}
             /\ UNCHANGED created

(* The request is carried out.  Its answer is the handler's, or a 500 when *)
(* something fails after the effect.                                       *)
CarryOut(a) ==
  LET c == a[1]
  IN /\ a \in requests
     /\ \/ method[c] = "POST" /\ Create(c)
           /\ \E s \in {201, 500} : Answer(a, s)
        \/ method[c] = "DELETE" /\ item[c] \in items /\ Remove(c)
           /\ \E s \in {204, 500} : Answer(a, s)
        \/ method[c] = "PATCH" /\ item[c] \in items
           /\ Affect(c) /\ UNCHANGED <<items, created>>
           /\ \E s \in {200, 500} : Answer(a, s)
        \/ method[c] = "GET" /\ item[c] \in items
           /\ UNCHANGED downstream /\ Answer(a, 200)
        \/ method[c] # "POST" /\ item[c] \notin items
           /\ UNCHANGED downstream /\ Answer(a, 404)

(* The request has no effect: it is refused, finds the service overloaded, *)
(* or is redirected to its path without a trailing slash.                  *)
TurnAway(a) ==
  /\ a \in requests
  /\ \E s \in {307, 409, 503} : Answer(a, s)
  /\ UNCHANGED downstream

(* The service's process dies and another starts: the items were in its    *)
(* memory.  What it was serving is never answered, and clients give it up. *)
Restart == /\ items # {}
           /\ items' = {}
           /\ UNCHANGED <<created, effects, network,
                          pc, method, item, attempt, result>>

-----------------------------------------------------------------------------
(* A step of the coroutine that makes call c.                              *)
Client(c) == Send(c) \/ SendFails(c) \/ GiveUp(c) \/ Retry(c) \/ Deliver(c)

Next == \/ \E c \in Calls : Start(c) \/ Client(c)
        \/ \E a \in requests : CarryOut(a) \/ TurnAway(a)
        \/ Restart

Spec == Init /\ [][Next]_vars

(* The HTTP library bounds every wait of an attempt by the timeout, and the *)
(* event loop runs a coroutine that can go on.  The downstream may do      *)
(* nothing at all.                                                         *)
FairSpec == Spec /\ \A c \in Calls : WF_vars(Client(c))

-----------------------------------------------------------------------------
(* Properties                                                              *)

MaxAttempts(m) == IF ShouldRetry(m) THEN MaxRetries ELSE 1

(* The type invariant.                                                     *)
TypeOK ==
  /\ items \subseteq created /\ created \subseteq Items
  /\ requests \subseteq Calls \X Nat
  /\ responses \subseteq [to : Calls \X Nat, status : Nat]
  /\ pc \in [Calls -> {"idle", "sending", "waiting", "backoff", "done"}]
  /\ method \in [Calls -> Methods \cup {None}]
  /\ item \in [Calls -> Items \cup {None}]
  /\ attempt \in [Calls -> Nat]
  /\ result \in [Calls -> Results \cup Errors \cup {Undecodable, None}]
  /\ effects \in [Calls -> Nat]

(* A call has at most one effect downstream, however many of its attempts  *)
(* the downstream carries out and whenever it does: POST and PATCH are     *)
(* never sent twice, and a second DELETE finds nothing.                    *)
EffectAtMostOnce == \A c \in Calls : effects[c] <= 1

(* A write that is reported to have succeeded has happened.                *)
SuccessIsReal ==
  \A c \in Calls : pc[c] = "done" /\ result[c].type = "ok" /\ method[c] # "GET"
                   => effects[c] = 1

(* A caller told that an item is not there will not see it come back, be   *)
(* it deleted or lost in a restart.                                        *)
NotFoundMeansGone ==
  \A c \in Calls : pc[c] = "done" /\ result[c].type = "not_found"
                   => item[c] \notin items

(* An idempotent call uses its max_retries attempts and no more: it raises *)
(* a transient error only after the last of them, any other call after its *)
(* only one.                                                               *)
AttemptsUsed ==
  \A c \in Calls :
    /\ pc[c] # "idle" => attempt[c] \in 1..MaxAttempts(method[c])
    /\ pc[c] = "done" /\ Transient(result[c]) =>
         attempt[c] = MaxAttempts(method[c])

(* Once a call has ended with a success or a 404, it has no effect any     *)
(* more: an attempt that it gave up, and that the downstream carries out   *)
(* later, changes nothing.                                                 *)
OutcomeIsSettled ==
  [][\A c \in Calls :
       pc[c] = "done" /\ result[c].type \in {"ok", "not_found"} =>
         effects'[c] = effects[c]]_vars

(* Every call ends, whatever the downstream and the network do.            *)
CallEnds == \A c \in Calls : pc[c] = "sending" ~> pc[c] = "done"

(* test_context_boundary.py:94: "Invariant kept by every error type: body  *)
(* status_code == HTTP status."                                            *)
BodyStatusIsHttpStatus ==
  \A c \in Calls : pc[c] = "done" /\ result[c] \in Errors =>
    ErrorResponse(result[c]).body = ErrorResponse(result[c]).http

=============================================================================
