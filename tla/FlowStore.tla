----------------------------- MODULE FlowStore -----------------------------
(***************************************************************************)
(* What the flow service promises: a store of flows in which every request *)
(* takes effect at one instant between its arrival and its answer.  A      *)
(* PATCH gives each field the value it names; a null clears a description  *)
(* and means nothing for a name or a status.                               *)
(***************************************************************************)
EXTENDS FlowApi

CONSTANT Clients

VARIABLES stored,   \* the flows: stored[id] is a row, or None
          used,     \* the ids that have been in the store
          clock,    \* the wall clock
          req,      \* the request each client waits on, or None
          res       \* the reply that request will get, or None

vars == <<stored, used, clock, req, res>>

Init == /\ stored = [id \in FlowIds |-> None]
        /\ used = {}
        /\ clock = 0
        /\ req = [c \in Clients |-> None]
        /\ res = [c \in Clients |-> None]

Live == {id \in FlowIds : stored[id] # None}

-----------------------------------------------------------------------------
Call(c) == /\ req[c] = None
           /\ \E r \in Requests : req' = [req EXCEPT ![c] = r]
           /\ UNCHANGED <<stored, used, clock, res>>

Return(c) == /\ res[c] # None
             /\ req' = [req EXCEPT ![c] = None]
             /\ res' = [res EXCEPT ![c] = None]
             /\ UNCHANGED <<stored, used, clock>>

Tick == /\ clock' = clock + 1
        /\ UNCHANGED <<stored, used, req, res>>

(* c's request, of kind op, is carried out now.                            *)
Pending(c, op) == req[c] # None /\ req[c].op = op /\ res[c] = None

Answer(c, status, rows) ==
  /\ res' = [res EXCEPT ![c] = [status |-> status, rows |-> rows]]
  /\ UNCHANGED <<clock, req>>

NotFound(c) == /\ req[c].flow_id \notin Live
               /\ Answer(c, 404, {})
               /\ UNCHANGED <<stored, used>>

List(c) == /\ Pending(c, "list")
           /\ Answer(c, 200, {stored[id] : id \in Live})
           /\ UNCHANGED <<stored, used>>

Get(c) == /\ Pending(c, "get")
          /\ \/ NotFound(c)
             \/ /\ req[c].flow_id \in Live
                /\ Answer(c, 200, {stored[req[c].flow_id]})
                /\ UNCHANGED <<stored, used>>

Create(c) ==
  /\ Pending(c, "create")
  /\ \E id \in FlowIds \ used, now \in 0..clock :
       /\ used' = used \cup {id}
       /\ stored' = [stored EXCEPT ![id] = NewFlow(id, req[c], now)]
       /\ Answer(c, 201, {NewFlow(id, req[c], now)})

Patched(row, p, now) ==
  [f \in DOMAIN row |->
     IF f = "updated_at" THEN now
     ELSE IF f \in DOMAIN p /\ (p[f] # None \/ f = "description")
            THEN p[f] ELSE row[f]]

Update(c) ==
  /\ Pending(c, "update")
  /\ \/ NotFound(c)
     \/ LET id == req[c].flow_id
        IN /\ id \in Live
           /\ \E now \in stored[id].updated_at..clock :
                LET new == Patched(stored[id], req[c].payload, now)
                IN /\ stored' = [stored EXCEPT ![id] = new]
                   /\ Answer(c, 200, {new})
           /\ UNCHANGED used

Delete(c) ==
  /\ Pending(c, "delete")
  /\ \/ NotFound(c)
     \/ /\ req[c].flow_id \in Live
        /\ stored' = [stored EXCEPT ![req[c].flow_id] = None]
        /\ Answer(c, 204, {})
        /\ UNCHANGED used

-----------------------------------------------------------------------------
Next == \/ Tick
        \/ \E c \in Clients : \/ Call(c) \/ Return(c) \/ List(c) \/ Get(c)
                              \/ Create(c) \/ Update(c) \/ Delete(c)

Spec == Init /\ [][Next]_vars

=============================================================================
