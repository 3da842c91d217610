---------------------------- MODULE FlowService ----------------------------
(***************************************************************************)
(* The routes of the Flow service (apps/flow/.../api/routes.py), modelled  *)
(* like those of UcService: one action for each read or write of the       *)
(* shared store, threads interleaving between any two.  A create builds    *)
(* its row, with its id and its clock reading, before it takes the lock.   *)
(***************************************************************************)
EXTENDS FlowApi, FiniteSets

CONSTANTS Threads,    \* the threads of the pool
          MaxTime     \* bound: the clock stops here

ASSUME ThreadAssumption == None \notin Threads

ASSUME TimeAssumption == MaxTime \in Nat

VARIABLES
  flows,        \* _FLOWS: id -> row, or None where the dict has no key
  flowsLock,    \* _FLOWS_LOCK: the thread that holds it, or None
  minted,       \* the ids uuid4 has returned: it returns none twice
  clock,        \* datetime.now(UTC)
  pc, req, res, \* per thread: where it is, its request, its reply
  row, now      \* per thread: the locals flow (existing) and now

vars == <<flows, flowsLock, minted, clock, pc, req, res, row, now>>

Init == /\ flows = [id \in FlowIds |-> None]
        /\ flowsLock = None
        /\ minted = {}
        /\ clock = 0
        /\ pc  = [t \in Threads |-> "idle"]
        /\ req = [t \in Threads |-> None]
        /\ res = [t \in Threads |-> None]
        /\ row = [t \in Threads |-> None]
        /\ now = [t \in Threads |-> 0]

-----------------------------------------------------------------------------
At(t, point) == pc[t] = point

Goto(t, point) == pc' = [pc EXCEPT ![t] = point]

Reply(t, status, rows) ==
  res' = [res EXCEPT ![t] = [status |-> status, rows |-> rows]]

(* An exception leaves the with block: the lock is released next.          *)
Raise(t, status) == /\ Goto(t, "release")
                    /\ Reply(t, status, {})
                    /\ UNCHANGED <<flows, row, now>>

KeyError(t) == Raise(t, 500)

(* What a step that holds the lock never touches.                          *)
Held == UNCHANGED <<flowsLock, minted, clock, req>>

Tick == /\ clock < MaxTime
        /\ clock' = clock + 1
        /\ UNCHANGED <<flows, flowsLock, minted, pc, req, res, row, now>>

-----------------------------------------------------------------------------
(* A request arrives.  Bound: a create is taken only while an id is left.  *)
IdBudget(r) ==
  LET unbuilt == {t \in Threads : pc[t] = "build"}
  IN r.op = "create" =>
       Cardinality(minted) + Cardinality(unbuilt) < Cardinality(FlowIds)

Receive(t) ==
  /\ At(t, "idle")
  /\ \E r \in Requests :
       /\ IdBudget(r)
       /\ req' = [req EXCEPT ![t] = r]
       /\ Goto(t, IF r.op = "create" THEN "build" ELSE "acquire")
  /\ UNCHANGED <<flows, flowsLock, minted, clock, res, row, now>>

(* create_flow, before the lock.                                           *)
BuildFlow(t) ==
  /\ At(t, "build") /\ Goto(t, "acquire")
  /\ \E id \in FlowIds \ minted :
       /\ minted' = minted \cup {id}
       /\ row' = [row EXCEPT ![t] = NewFlow(id, req[t], clock)]
  /\ UNCHANGED <<flows, flowsLock, clock, req, res, now>>

Entry(op) == CASE op = "list"   -> "list"
               [] op = "create" -> "insert"
               [] OTHER         -> "exists"

(* Mutant: no lock around the handler.                                     *)
AcquireNothing(t) ==
  /\ At(t, "acquire") /\ Goto(t, Entry(req[t].op))
  /\ flowsLock' = t
  /\ UNCHANGED <<flows, minted, clock, req, res, row, now>>

Acquire(t) ==
  /\ At(t, "acquire") /\ Goto(t, Entry(req[t].op))
  /\ flowsLock = None
  /\ flowsLock' = t
  /\ UNCHANGED <<flows, minted, clock, req, res, row, now>>

(* The end of the with block, by return or by an exception.                *)
Release(t) ==
  /\ At(t, "release") /\ Goto(t, "reply")
  /\ flowsLock' = None
  /\ UNCHANGED <<flows, minted, clock, req, res, row, now>>

Respond(t) ==
  /\ At(t, "reply") /\ Goto(t, "idle")
  /\ req' = [req EXCEPT ![t] = None]
  /\ res' = [res EXCEPT ![t] = None]
  /\ row' = [row EXCEPT ![t] = None]
  /\ now' = [now EXCEPT ![t] = 0]
  /\ UNCHANGED <<flows, flowsLock, minted, clock>>

-----------------------------------------------------------------------------
ListFlows(t) ==
  /\ At(t, "list") /\ Goto(t, "release")
  /\ Reply(t, 200, {flows[id] : id \in {i \in FlowIds : flows[i] # None}})
  /\ UNCHANGED <<flows, row, now>> /\ Held

InsertFlow(t) ==
  /\ At(t, "insert") /\ Goto(t, "release")
  /\ flows' = [flows EXCEPT ![row[t].id] = row[t]]
  /\ Reply(t, 201, {row[t]})
  /\ UNCHANGED <<row, now>> /\ Held

(* flow_id not in _FLOWS, in the three handlers that name a flow.          *)
AfterExists(op) == CASE op = "get"    -> "read"
                     [] op = "update" -> "fetch"
                     [] op = "delete" -> "del"

CheckExists(t) ==
  /\ At(t, "exists")
  /\ \/ flows[req[t].flow_id] = None /\ Raise(t, 404)
     \/ /\ flows[req[t].flow_id] # None
        /\ Goto(t, AfterExists(req[t].op))
        /\ UNCHANGED <<flows, res, row, now>>
  /\ Held

ReadFlow(t) ==
  /\ At(t, "read")
  /\ \/ flows[req[t].flow_id] = None /\ KeyError(t)
     \/ /\ flows[req[t].flow_id] # None
        /\ Goto(t, "release")
        /\ Reply(t, 200, {flows[req[t].flow_id]})
        /\ UNCHANGED <<flows, row, now>>
  /\ Held

FetchFlow(t) ==
  /\ At(t, "fetch")
  /\ \/ flows[req[t].flow_id] = None /\ KeyError(t)
     \/ /\ flows[req[t].flow_id] # None
        /\ Goto(t, "store")
        /\ row' = [row EXCEPT ![t] = flows[req[t].flow_id]]
        /\ now' = [now EXCEPT ![t] = clock]
        /\ UNCHANGED <<flows, res>>
  /\ Held

StoreFlow(t) ==
  LET updated == Updated(row[t], req[t], now[t])
  IN /\ At(t, "store") /\ Goto(t, "release")
     /\ flows' = [flows EXCEPT ![req[t].flow_id] = updated]
     /\ Reply(t, 200, {updated})
     /\ UNCHANGED <<row, now>> /\ Held

DelFlow(t) ==
  /\ At(t, "del")
  /\ \/ flows[req[t].flow_id] = None /\ KeyError(t)
     \/ /\ flows[req[t].flow_id] # None
        /\ Goto(t, "release")
        /\ flows' = [flows EXCEPT ![req[t].flow_id] = None]
        /\ Reply(t, 204, {})
        /\ UNCHANGED <<row, now>>
  /\ Held

-----------------------------------------------------------------------------
(* A step of the handler that thread t runs once it has its request.       *)
Handler(t) ==
  \/ BuildFlow(t) \/ Acquire(t)    \/ Release(t)   \/ Respond(t)
  \/ ListFlows(t) \/ InsertFlow(t) \/ CheckExists(t)
  \/ ReadFlow(t)  \/ FetchFlow(t)  \/ StoreFlow(t) \/ DelFlow(t)

Next == Tick \/ \E t \in Threads : Receive(t) \/ Handler(t)

Spec == Init /\ [][Next]_vars

-----------------------------------------------------------------------------
(* Properties                                                              *)

Points == {"idle", "build", "acquire", "list", "insert", "exists", "read",
           "fetch", "store", "del", "release", "reply"}

Outside == {"idle", "build", "acquire", "reply"}  \* points without the lock

(* The type invariant: the shared store, and the locals of each thread.    *)
TypeOK ==
  /\ flows \in [FlowIds -> FlowResponse \cup {None}]
  /\ flowsLock \in Threads \cup {None}
  /\ minted \in SUBSET FlowIds
  /\ clock \in Nat
  /\ pc  \in [Threads -> Points]
  /\ req \in [Threads -> Requests \cup {None}]
  /\ res \in [Threads -> Replies \cup {None}]
  /\ row \in [Threads -> FlowResponse \cup {None}]
  /\ now \in [Threads -> Nat]

(* No request is ever answered 500: concurrent deletes do not raise        *)
(* KeyError (routes.py:20-22), nor does any read of a row checked to exist. *)
NoServerError == \A t \in Threads : res[t] # None => res[t].status # 500

(* The ids whose rows have been in the store: all but those that a create  *)
(* has drawn and not inserted yet.                                         *)
Unborn == {row[t].id : t \in {u \in Threads : /\ pc[u] \in {"acquire", "insert"}
                                              /\ req[u].op = "create"}}

Used == minted \ Unborn

(* A delete racing an update does not resurrect the row (routes.py:20-22), *)
(* and no create takes the id of a deleted flow.                           *)
DeletedStaysDeleted ==
  [][\A id \in Used : flows[id] = None => flows'[id] = None]_vars

(* As long as a flow exists its created_at stays and its updated_at never  *)
(* goes back, though a create reads the clock outside the lock.            *)
UpdatedAtAdvances ==
  [][\A id \in FlowIds : flows[id] # None /\ flows'[id] # None =>
       /\ flows'[id].created_at = flows[id].created_at
       /\ flows'[id].updated_at >= flows[id].updated_at]_vars

(* The service is linearizable: it implements the store in which each      *)
(* request is one indivisible step, with the null semantics stated there.  *)
Store == INSTANCE FlowStore WITH Clients <- Threads, stored <- flows,
                                 used <- Used
ImplementsStore == Store!Spec

=============================================================================
