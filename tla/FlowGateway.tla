---------------------------- MODULE FlowGateway ----------------------------
(***************************************************************************)
(* FlowServiceClient (packages/core and flow-api) and the flow service     *)
(* behind it: the attempts of a call are the requests that the service,    *)
(* here the FlowStore it implements, carries out when it gets to them,     *)
(* the ones that the client has given up among them.  Of the errors only   *)
(* those of the transport are here: the others are in ServiceClient.       *)
(***************************************************************************)
EXTENDS FlowApi, ServiceErrors, FiniteSets

CONSTANTS Calls,       \* the calls made through the client, one each
          MaxRetries,  \* max_retries
          MaxTime      \* bound: the clock stops here

ASSUME RetryAssumption == MaxRetries \in Nat \ {0}

ASSUME TimeAssumption == MaxTime \in Nat

VARIABLES
  stored, used, clock,   \* the service's store
  req, res,              \* per attempt: what it asks for, its answer
  request,   \* per call: what it asks for, or None
  pc,        \* per call: idle, sending, waiting, backoff or done
  attempt,   \* per call: attempt_number of the retry loop
  reply,     \* per call: the answer it returned or the error it raised
  effect     \* per call: whether one of its attempts changed the store

service == <<stored, used, clock, req, res>>
caller == <<request, pc, attempt, reply>>
vars == <<service, caller, effect>>

Attempts == Calls \X (1..MaxRetries)

Store == INSTANCE FlowStore WITH Clients <- Attempts

Init == /\ Store!Init
        /\ request = [c \in Calls |-> None]
        /\ pc = [c \in Calls |-> "idle"]
        /\ attempt = [c \in Calls |-> 0]
        /\ reply = [c \in Calls |-> None]
        /\ effect = [c \in Calls |-> FALSE]

-----------------------------------------------------------------------------
(* The client                                                              *)

(* Mutant: a create is taken for safe to retry.                            *)
RetriesCreate(r) == r.op # "update"

(* The methods of the calls that are retried: GET and DELETE.              *)
Retries(r) == r.op \in {"get", "list", "delete"}

Creating == {c \in Calls : /\ request[c] # None /\ request[c].op = "create"
                           /\ ~effect[c]}

(* A caller knows the ids of flows that exist or existed.  Bound: a create *)
(* is made only while an id is left for it.                                *)
Start(c) ==
  /\ pc[c] = "idle"
  /\ \E r \in Requests :
       /\ r.op \in {"get", "update", "delete"} => r.flow_id \in used
       /\ r.op = "create" => Cardinality(used \cup Creating) < Cardinality(FlowIds)
       /\ request' = [request EXCEPT ![c] = r]
  /\ pc' = [pc EXCEPT ![c] = "sending"]
  /\ attempt' = [attempt EXCEPT ![c] = 1]
  /\ UNCHANGED <<service, reply, effect>>

(* The request is under way to the service, or in its hands.               *)
Send(c) ==
  /\ pc[c] = "sending"
  /\ pc' = [pc EXCEPT ![c] = "waiting"]
  /\ req' = [req EXCEPT ![<<c, attempt[c]>>] = request[c]]
  /\ UNCHANGED <<stored, used, clock, res, request, attempt, reply, effect>>

(* No connection, or no answer in time: the last attempt's error is raised. *)
Fail(c) ==
  /\ pc[c] \in {"sending", "waiting"}
  /\ IF Retries(request[c]) /\ attempt[c] < MaxRetries
     THEN pc' = [pc EXCEPT ![c] = "backoff"] /\ UNCHANGED reply
     ELSE /\ pc' = [pc EXCEPT ![c] = "done"]
          /\ \E exc \in {"timeout", "connect"} :
               reply' = [reply EXCEPT ![c] = MapTransportError(exc)]
  /\ UNCHANGED <<service, request, attempt, effect>>

Retry(c) ==
  /\ pc[c] = "backoff"
  /\ pc' = [pc EXCEPT ![c] = "sending"]
  /\ attempt' = [attempt EXCEPT ![c] = @ + 1]
  /\ UNCHANGED <<service, request, reply, effect>>

(* Mutant: an answer is matched to its call, not to its attempt.           *)
WaitsForCall(a) == pc[a[1]] = "waiting"

WaitsFor(a) == pc[a[1]] = "waiting" /\ attempt[a[1]] = a[2]

(* The answer to an attempt arrives, or finds its connection closed.       *)
Deliver(a) ==
  /\ Store!Return(a)
  /\ IF WaitsFor(a)
     THEN /\ pc' = [pc EXCEPT ![a[1]] = "done"]
          /\ reply' = [reply EXCEPT ![a[1]] = res[a]]
     ELSE UNCHANGED <<pc, reply>>
  /\ UNCHANGED <<request, attempt, effect>>

-----------------------------------------------------------------------------
(* The service                                                             *)

CarryOut(a) ==
  /\ \/ Store!List(a) \/ Store!Get(a)
     \/ Store!Create(a) \/ Store!Update(a) \/ Store!Delete(a)
  /\ effect' = [effect EXCEPT ![a[1]] =
                  @ \/ /\ req[a].op \in {"create", "update", "delete"}
                       /\ res'[a].status # 404]
  /\ UNCHANGED caller

Tick == clock < MaxTime /\ Store!Tick /\ UNCHANGED <<caller, effect>>

Next == \/ \E c \in Calls : Start(c) \/ Send(c) \/ Fail(c) \/ Retry(c)
        \/ \E a \in Attempts : CarryOut(a) \/ Deliver(a)
        \/ Tick

Spec == Init /\ [][Next]_vars

-----------------------------------------------------------------------------
(* Properties                                                              *)

(* A call is for its caller what RemoteFlows promises, whichever of its    *)
(* attempts are carried out, lost, late or overtaken: one effect at most,  *)
(* no answer of another attempt, no row that was never stored.             *)
Remote ==
  INSTANCE RemoteFlows WITH
    outcome <- [c \in Calls |->
                  IF pc[c] = "waiting" THEN res[<<c, attempt[c]>>] ELSE None]
ImplementsRemoteFlows == Remote!Spec

=============================================================================
