---------------------------- MODULE RemoteFlows ----------------------------
(***************************************************************************)
(* What a caller of FlowServiceClient can rely on: its call takes effect   *)
(* in the store of flows at most once, at an instant after it was made; an *)
(* answer tells what that instant, or one instant of the call for a read   *)
(* or a 404, found; and an error leaves open whether the effect has taken  *)
(* place, or still will.                                                   *)
(***************************************************************************)
EXTENDS FlowApi, ServiceErrors

CONSTANT Calls

VARIABLES stored,   \* the flows: stored[id] is a row, or None
          used,     \* the ids that have been in the store
          clock,    \* the wall clock
          request,  \* per call: what it asks for, or None
          effect,   \* per call: whether it has changed the store
          outcome,  \* per call: the answer it would get now, or None
          reply     \* per call: the answer or error it got, or None

vars == <<stored, used, clock, request, effect, outcome, reply>>

Init == /\ stored = [id \in FlowIds |-> None]
        /\ used = {} /\ clock = 0
        /\ request = [c \in Calls |-> None]
        /\ effect = [c \in Calls |-> FALSE]
        /\ outcome = [c \in Calls |-> None]
        /\ reply = [c \in Calls |-> None]

Open(c) == request[c] # None /\ reply[c] = None

Call(c) == /\ request[c] = None
           /\ \E r \in Requests : request' = [request EXCEPT ![c] = r]
           /\ UNCHANGED <<stored, used, clock, effect, outcome, reply>>

Tick == /\ clock' = clock + 1
        /\ UNCHANGED <<stored, used, request, effect, outcome, reply>>

Answers(c, answer) == outcome' = [outcome EXCEPT ![c] = answer]

(* A read, or an id that the store has not.                                *)
Read(c) ==
  /\ Open(c)
  /\ LET r == request[c]
     IN  \/ /\ r.op = "list"
            /\ Answers(c, [status |-> 200,
                           rows |-> {stored[id] : id \in FlowIds} \ {None}])
         \/ /\ r.op \in {"get", "update", "delete"} /\ stored[r.flow_id] = None
            /\ Answers(c, [status |-> 404, rows |-> {}])
         \/ /\ r.op = "get" /\ stored[r.flow_id] # None
            /\ Answers(c, [status |-> 200, rows |-> {stored[r.flow_id]}])
  /\ UNCHANGED <<stored, used, clock, request, effect, reply>>

(* The one effect of a call, in time for its answer or not.                *)
Affect(c, status, rows) ==
  /\ effect' = [effect EXCEPT ![c] = TRUE]
  /\ \/ Open(c) /\ Answers(c, [status |-> status, rows |-> rows])
     \/ UNCHANGED outcome
  /\ UNCHANGED <<clock, request, reply>>

Write(c) ==
  /\ request[c] # None /\ ~effect[c]
  /\ LET r == request[c]
     IN  \/ /\ r.op = "create"
            /\ \E id \in FlowIds \ used, now \in 0..clock :
                 /\ stored' = [stored EXCEPT ![id] = NewFlow(id, r, now)]
                 /\ used' = used \cup {id}
                 /\ Affect(c, 201, {NewFlow(id, r, now)})
         \/ /\ r.op = "update" /\ stored[r.flow_id] # None
            /\ \E now \in 0..clock :
                 LET new == Updated(stored[r.flow_id], r, now)
                 IN  /\ stored' = [stored EXCEPT ![r.flow_id] = new]
                     /\ Affect(c, 200, {new})
            /\ UNCHANGED used
         \/ /\ r.op = "delete" /\ stored[r.flow_id] # None
            /\ stored' = [stored EXCEPT ![r.flow_id] = None]
            /\ Affect(c, 204, {})
            /\ UNCHANGED used

(* The answer is lost, and the caller may try again.                       *)
Lose(c) == /\ outcome[c] # None
           /\ outcome' = [outcome EXCEPT ![c] = None]
           /\ UNCHANGED <<stored, used, clock, request, effect, reply>>

Return(c) ==
  /\ Open(c)
  /\ \/ outcome[c] # None /\ reply' = [reply EXCEPT ![c] = outcome[c]]
     \/ \E e \in {Timeout, Unavailable} : reply' = [reply EXCEPT ![c] = e]
  /\ outcome' = [outcome EXCEPT ![c] = None]
  /\ UNCHANGED <<stored, used, clock, request, effect>>

Next == Tick \/ \E c \in Calls : \/ Call(c) \/ Read(c) \/ Write(c)
                                 \/ Lose(c) \/ Return(c)

Spec == Init /\ [][Next]_vars

=============================================================================
