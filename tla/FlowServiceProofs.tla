------------------------- MODULE FlowServiceProofs -------------------------
(***************************************************************************)
(* Proofs about FlowService for every set of threads, ids, names and       *)
(* payloads.  A create makes its row before it takes the lock, so the      *)
(* invariant that carries the proofs follows those rows: each has an id of *)
(* its own, which the store has never shown.                               *)
(***************************************************************************)
EXTENDS FlowService, TLAPS

(* The lock is held exactly by the thread inside the with block.           *)
LockInv == \A t \in Threads : flowsLock = t <=> pc[t] \notin Outside

(* What a handler knows of its own request.                                *)
HandlerInv ==
  \A t \in Threads :
    /\ pc[t] = "idle" <=> req[t] = None
    /\ pc[t] \in {"build", "insert"} => req[t].op = "create"
    /\ pc[t] = "list" => req[t].op = "list"
    /\ pc[t] = "exists" => req[t].op \in {"get", "update", "delete"}
    /\ pc[t] = "read" => req[t].op = "get"
    /\ pc[t] \in {"fetch", "store"} => req[t].op = "update"
    /\ pc[t] = "del" => req[t].op = "delete"

(* Thread t has built the row of a create and has yet to insert it.        *)
Carries(t) == pc[t] \in {"acquire", "insert"} /\ req[t].op = "create"

(* The rows that the threads carry: new rows under ids that nobody shares. *)
BirthInv ==
  /\ \A id \in FlowIds : flows[id] # None => id \in minted
  /\ \A t \in Threads : Carries(t) =>
       /\ row[t] # None
       /\ row[t].id \in minted
       /\ flows[row[t].id] = None
       /\ row[t].created_at <= clock
       /\ row[t] = NewFlow(row[t].id, req[t], row[t].created_at)
  /\ \A t, u \in Threads :
       Carries(t) /\ Carries(u) /\ t # u => row[t].id # row[u].id

(* What a handler inside the lock knows of the store.                      *)
StoreInv ==
  \A t \in Threads :
    /\ pc[t] \in {"read", "fetch", "del"} => flows[req[t].flow_id] # None
    /\ pc[t] = "store" => /\ row[t] # None
                          /\ flows[req[t].flow_id] = row[t]

(* The points at which the reply is settled.                               *)
Answered == {"release", "reply"}

ReplyInv == \A t \in Threads : pc[t] \in Answered <=> res[t] # None

(* Clock readings never run ahead of the clock.                            *)
TimeInv ==
  /\ \A id \in FlowIds : flows[id] # None => flows[id].updated_at <= clock
  /\ \A t \in Threads :
       /\ now[t] <= clock
       /\ pc[t] = "store" => row[t].updated_at <= now[t]

Control == TypeOK /\ LockInv /\ HandlerInv

IInv == Control /\ BirthInv /\ StoreInv /\ ReplyInv /\ TimeInv /\ NoServerError

-----------------------------------------------------------------------------
(* The operators of FlowApi                                                *)

(* Requests carry an operation and, but for list and create, an id.        *)
LEMMA RequestFields ==
  ASSUME NEW r \in Requests
  PROVE  /\ r.op \in {"list", "get", "create", "update", "delete"}
         /\ r.op \in {"get", "update", "delete"} => r.flow_id \in FlowIds
         /\ r.op = "update" => r.payload \in UpdatePayloads
  BY DEF Requests

(* A PATCH changes the fields its payload sets, but for a null name and a  *)
(* null status: of these fields only the description may be null.          *)
LEMMA UpdateFields ==
  ASSUME NEW p \in UpdatePayloads
  PROVE  /\ DOMAIN PartialUpdateDict(p, FlowFields)
              = {f \in DOMAIN p : p[f] # None \/ f = "description"}
         /\ \A f \in DOMAIN PartialUpdateDict(p, FlowFields) :
              /\ PartialUpdateDict(p, FlowFields)[f] = p[f]
              /\ f \in {"name", "description", "status"}
              /\ f = "name" => p[f] \in Names
              /\ f = "description" => p[f] \in Descriptions \cup {None}
              /\ f = "status" => p[f] \in Statuses
<1>1. IsFlowUpdate(p)
  BY PayloadAssumption
<1>2. \A f \in {"name", "description", "status"} :
        f \in TargetNullable(FlowFields) <=> f = "description"
  <2>1. /\ {"str", "None"} # {"None"} /\ "None" \notin {"str"}
        /\ "None" \in {"str", "None"}
    OBVIOUS
  <2> QED
    BY <2>1 DEF TargetNullable, IsOptional, FlowFields
<1> QED
  BY <1>1, <1>2 DEF PartialUpdateDict, Restrict, IsFlowUpdate

(* The row that an update stores: its creation time is the old one's.      *)
LEMMA UpdatedRow ==
  ASSUME NEW old \in FlowResponse, NEW r \in Requests, r.op = "update",
         NEW n \in Nat
  PROVE  /\ Updated(old, r, n) \in FlowResponse
         /\ Updated(old, r, n).created_at = old.created_at
         /\ Updated(old, r, n).updated_at = n
<1> DEFINE data == PartialUpdateDict(r.payload, FlowFields)
           new == ModelCopy(old, data)
<1>1. r.payload \in UpdatePayloads
  BY RequestFields
<1>2. /\ new \in FlowResponse
      /\ new.created_at = old.created_at
  BY <1>1, UpdateFields DEF ModelCopy, FlowResponse
<1>3. Updated(old, r, n) = [new EXCEPT !["updated_at"] = n]
  BY DEF Updated
<1> HIDE DEF new
<1> QED
  BY <1>2, <1>3 DEF FlowResponse

(* The row that a create builds.                                           *)
LEMMA NewRow ==
  ASSUME NEW r \in Requests, r.op = "create", NEW id \in FlowIds, NEW n \in Nat
  PROVE  /\ NewFlow(id, r, n) \in FlowResponse
         /\ NewFlow(id, r, n).id = id
         /\ NewFlow(id, r, n).created_at = n
         /\ NewFlow(id, r, n).updated_at = n
  BY CreatedAssumption DEF NewFlow, Requests, FlowResponse

(* A reply of the right shape keeps the replies well typed.                *)
LEMMA ReplyType ==
  ASSUME TypeOK, NEW t \in Threads, NEW rows \in SUBSET FlowResponse,
         NEW status \in {200, 201, 204, 404, 500}, Reply(t, status, rows)
  PROVE  /\ res' \in [Threads -> Replies \cup {None}]
         /\ res'[t] # None
         /\ res'[t].status = status
         /\ \A u \in Threads \ {t} : res'[u] = res[u]
<1>1. [status |-> status, rows |-> rows] \in Replies
  BY DEF Replies
<1> QED
  BY <1>1, NoneAssumption DEF TypeOK, Reply

-----------------------------------------------------------------------------
(* The invariant is inductive                                              *)

(* Types, the lock and the locals, action by action.                       *)
LEMMA ControlStep == Control /\ BirthInv /\ StoreInv /\ [Next]_vars => Control'
<1> SUFFICES ASSUME Control, BirthInv, StoreInv, [Next]_vars PROVE Control'
  OBVIOUS
<1> USE ThreadAssumption, NoneAssumption
     DEF Control, At, Goto, Held, Points, Outside
<1>1. CASE Tick \/ UNCHANGED vars
  BY <1>1 DEF Tick, vars, TypeOK, LockInv, HandlerInv
<1>2. ASSUME NEW t \in Threads, Receive(t) PROVE Control'
  <2>1. PICK r \in Requests :
          /\ req' = [req EXCEPT ![t] = r]
          /\ pc' = [pc EXCEPT ![t] = IF r.op = "create" THEN "build"
                                                        ELSE "acquire"]
    BY <1>2 DEF Receive
  <2>2. /\ pc[t] = "idle"
        /\ UNCHANGED <<flows, flowsLock, minted, clock, res, row, now>>
    BY <1>2 DEF Receive
  <2> QED
    BY <2>1, <2>2 DEF TypeOK, LockInv, HandlerInv
<1>3. ASSUME NEW t \in Threads, BuildFlow(t) PROVE Control'
  <2>1. req[t] \in Requests /\ req[t].op = "create"
    BY <1>3 DEF BuildFlow, TypeOK, HandlerInv
  <2>2. PICK id \in FlowIds \ minted :
          /\ minted' = minted \cup {id}
          /\ row' = [row EXCEPT ![t] = NewFlow(id, req[t], clock)]
    BY <1>3 DEF BuildFlow
  <2>3. NewFlow(id, req[t], clock) \in FlowResponse
    BY <2>1, NewRow DEF TypeOK
  <2>4. TypeOK'
    BY <1>3, <2>2, <2>3 DEF BuildFlow, TypeOK
  <2> QED
    BY <1>3, <2>1, <2>4 DEF BuildFlow, TypeOK, LockInv, HandlerInv
<1>4. ASSUME NEW t \in Threads, Acquire(t) PROVE Control'
  <2>1. req[t] \in Requests
    BY <1>4 DEF Acquire, TypeOK, HandlerInv
  <2> QED
    BY <1>4, <2>1, RequestFields
       DEF Acquire, Entry, TypeOK, LockInv, HandlerInv
<1>5. ASSUME NEW t \in Threads, Release(t) PROVE Control'
  BY <1>5 DEF Release, TypeOK, LockInv, HandlerInv
<1>6. ASSUME NEW t \in Threads, Respond(t) PROVE Control'
  BY <1>6 DEF Respond, TypeOK, LockInv, HandlerInv
<1>7. ASSUME NEW t \in Threads, ListFlows(t) PROVE Control'
  <2>1. {flows[id] : id \in {i \in FlowIds : flows[i] # None}}
          \in SUBSET FlowResponse
    BY DEF TypeOK
  <2>2. res' \in [Threads -> Replies \cup {None}]
    BY <1>7, <2>1, ReplyType DEF ListFlows
  <2> QED
    BY <1>7, <2>2 DEF ListFlows, TypeOK, LockInv, HandlerInv
<1>8. ASSUME NEW t \in Threads, InsertFlow(t) PROVE Control'
  <2>1. /\ row[t] \in FlowResponse /\ row[t].id \in FlowIds
        /\ {row[t]} \in SUBSET FlowResponse
    BY <1>8
       DEF InsertFlow, BirthInv, Carries, TypeOK, HandlerInv, FlowResponse
  <2>2. res' \in [Threads -> Replies \cup {None}]
    BY <1>8, <2>1, ReplyType DEF InsertFlow
  <2> QED
    BY <1>8, <2>1, <2>2 DEF InsertFlow, TypeOK, LockInv, HandlerInv
<1>9. ASSUME NEW t \in Threads, CheckExists(t) PROVE Control'
  <2>1. req[t] \in Requests
    BY <1>9 DEF CheckExists, TypeOK, HandlerInv
  <2>2. CASE flows[req[t].flow_id] = None
    <3>1. res' \in [Threads -> Replies \cup {None}]
      BY <1>9, <2>2, ReplyType DEF CheckExists, Raise
    <3>2. /\ pc[t] = "exists" /\ pc' = [pc EXCEPT ![t] = "release"]
          /\ UNCHANGED <<flows, row, now, flowsLock, minted, clock, req>>
      BY <1>9, <2>2 DEF CheckExists, Raise
    <3> QED
      BY <3>1, <3>2 DEF TypeOK, LockInv, HandlerInv
  <2>3. CASE flows[req[t].flow_id] # None
    BY <1>9, <2>1, <2>3
       DEF CheckExists, AfterExists, TypeOK, LockInv, HandlerInv
  <2> QED
    BY <2>2, <2>3
<1>10. ASSUME NEW t \in Threads, ReadFlow(t) PROVE Control'
  <2>1. /\ req[t] \in Requests /\ req[t].flow_id \in FlowIds
        /\ req[t].op = "get"
    BY <1>10, RequestFields DEF ReadFlow, TypeOK, HandlerInv
  <2>2. res' \in [Threads -> Replies \cup {None}]
    <3>1. CASE flows[req[t].flow_id] = None
      BY <1>10, <3>1, ReplyType DEF ReadFlow, KeyError, Raise
    <3>2. CASE flows[req[t].flow_id] # None
      BY <1>10, <2>1, <3>2, ReplyType DEF ReadFlow, TypeOK
    <3> QED
      BY <3>1, <3>2
  <2> QED
    BY <1>10, <2>1, <2>2
       DEF ReadFlow, KeyError, Raise, TypeOK, LockInv, HandlerInv
<1>11. ASSUME NEW t \in Threads, FetchFlow(t) PROVE Control'
  <2>1. /\ req[t] \in Requests /\ req[t].flow_id \in FlowIds
        /\ req[t].op = "update"
    BY <1>11, RequestFields DEF FetchFlow, TypeOK, HandlerInv
  <2>2. CASE flows[req[t].flow_id] = None
    <3>1. res' \in [Threads -> Replies \cup {None}]
      BY <1>11, <2>2, ReplyType DEF FetchFlow, KeyError, Raise
    <3>2. /\ pc[t] = "fetch" /\ pc' = [pc EXCEPT ![t] = "release"]
          /\ UNCHANGED <<flows, row, now, flowsLock, minted, clock, req>>
      BY <1>11, <2>2 DEF FetchFlow, KeyError, Raise
    <3> QED
      BY <3>1, <3>2 DEF TypeOK, LockInv, HandlerInv
  <2>3. CASE flows[req[t].flow_id] # None
    BY <1>11, <2>1, <2>3 DEF FetchFlow, TypeOK, LockInv, HandlerInv
  <2> QED
    BY <2>2, <2>3
<1>12. ASSUME NEW t \in Threads, StoreFlow(t) PROVE Control'
  <2> DEFINE updated == Updated(row[t], req[t], now[t])
  <2>1. /\ req[t] \in Requests /\ req[t].op = "update"
        /\ row[t] \in FlowResponse /\ now[t] \in Nat
    BY <1>12 DEF StoreFlow, StoreInv, TypeOK, HandlerInv
  <2>2. updated \in FlowResponse
    BY <2>1, UpdatedRow
  <2>3. /\ flows' = [flows EXCEPT ![req[t].flow_id] = updated]
        /\ Reply(t, 200, {updated})
    BY <1>12 DEF StoreFlow
  <2> HIDE DEF updated
  <2>4. res' \in [Threads -> Replies \cup {None}]
    BY <2>2, <2>3, ReplyType
  <2>5. /\ pc[t] = "store" /\ pc' = [pc EXCEPT ![t] = "release"]
        /\ UNCHANGED <<row, now, flowsLock, minted, clock, req>>
    BY <1>12 DEF StoreFlow
  <2>6. flows' \in [FlowIds -> FlowResponse \cup {None}]
    BY <2>2, <2>3 DEF TypeOK
  <2> QED
    BY <2>4, <2>5, <2>6 DEF TypeOK, LockInv, HandlerInv
<1>13. ASSUME NEW t \in Threads, DelFlow(t) PROVE Control'
  <2>1. /\ req[t] \in Requests /\ req[t].op = "delete"
    BY <1>13 DEF DelFlow, TypeOK, HandlerInv
  <2>2. res' \in [Threads -> Replies \cup {None}]
    BY <1>13, ReplyType DEF DelFlow, KeyError, Raise
  <2> QED
    BY <1>13, <2>1, <2>2
       DEF DelFlow, KeyError, Raise, TypeOK, LockInv, HandlerInv
<1> QED
  BY <1>1, <1>2, <1>3, <1>4, <1>5, <1>6, <1>7, <1>8, <1>9, <1>10, <1>11,
     <1>12, <1>13 DEF Next, Handler

(* Each new row keeps its id to itself until it is inserted.               *)
LEMMA BirthStep == Control /\ BirthInv /\ StoreInv /\ [Next]_vars => BirthInv'
<1> SUFFICES ASSUME Control, BirthInv, StoreInv, [Next]_vars PROVE BirthInv'
  OBVIOUS
<1> USE NoneAssumption DEF Control, At, Goto, Held, Carries
<1>1. CASE Tick \/ UNCHANGED vars
  BY <1>1 DEF Tick, vars, TypeOK, BirthInv, FlowResponse
<1>2. ASSUME NEW t \in Threads, Receive(t) PROVE BirthInv'
  <2>1. PICK r \in Requests :
          /\ req' = [req EXCEPT ![t] = r]
          /\ pc' = [pc EXCEPT ![t] = IF r.op = "create" THEN "build"
                                                        ELSE "acquire"]
    BY <1>2 DEF Receive
  <2>2. /\ pc[t] = "idle"
        /\ UNCHANGED <<flows, minted, clock, row>>
    BY <1>2 DEF Receive
  <2> QED
    BY <2>1, <2>2 DEF TypeOK, BirthInv
<1>3. ASSUME NEW t \in Threads, BuildFlow(t) PROVE BirthInv'
  <2>1. req[t] \in Requests /\ req[t].op = "create" /\ clock \in Nat
    BY <1>3 DEF BuildFlow, TypeOK, HandlerInv
  <2>2. PICK id \in FlowIds \ minted :
          /\ minted' = minted \cup {id}
          /\ row' = [row EXCEPT ![t] = NewFlow(id, req[t], clock)]
    BY <1>3 DEF BuildFlow
  <2> DEFINE new == NewFlow(id, req[t], clock)
  <2>3. /\ new \in FlowResponse /\ new # None
        /\ new.id = id /\ new.created_at = clock
        /\ new = NewFlow(new.id, req[t], new.created_at)
    BY <2>1, NewRow
  <2> HIDE DEF new
  <2>4. /\ pc[t] = "build" /\ pc' = [pc EXCEPT ![t] = "acquire"]
        /\ row' = [row EXCEPT ![t] = new]
        /\ UNCHANGED <<flows, clock, req>>
    BY <1>3, <2>2 DEF BuildFlow, new
  <2>5. ASSUME NEW u \in Threads, Carries(u)', u # t
        PROVE  Carries(u) /\ row'[u] = row[u] /\ row[u].id \in minted
    BY <2>4, <2>5 DEF TypeOK, BirthInv
  <2>6. row'[t] = new /\ flows[id] = None
    BY <2>2, <2>4 DEF TypeOK, BirthInv
  <2>7. \A u \in Threads : Carries(u)' =>
          /\ row'[u] # None
          /\ row'[u].id \in minted'
          /\ flows'[row'[u].id] = None
          /\ row'[u].created_at <= clock'
          /\ row'[u] = NewFlow(row'[u].id, req'[u], row'[u].created_at)
    <3> SUFFICES ASSUME NEW u \in Threads, Carries(u)'
        PROVE  /\ row'[u] # None
               /\ row'[u].id \in minted'
               /\ flows'[row'[u].id] = None
               /\ row'[u].created_at <= clock'
               /\ row'[u] = NewFlow(row'[u].id, req'[u], row'[u].created_at)
      OBVIOUS
    <3>1. CASE u = t
      BY <2>1, <2>2, <2>3, <2>4, <2>6, <3>1
    <3>2. CASE u # t
      BY <2>2, <2>4, <2>5, <3>2 DEF BirthInv
    <3> QED
      BY <3>1, <3>2
  <2>8. \A u, v \in Threads :
          Carries(u)' /\ Carries(v)' /\ u # v => row'[u].id # row'[v].id
    BY <2>2, <2>3, <2>5, <2>6 DEF BirthInv
  <2>9. \A i \in FlowIds : flows'[i] # None => i \in minted'
    BY <2>2, <2>4 DEF BirthInv
  <2> QED
    BY <2>7, <2>8, <2>9 DEF BirthInv
<1>4. ASSUME NEW t \in Threads, Acquire(t) PROVE BirthInv'
  <2>1. req[t] \in Requests
    BY <1>4 DEF Acquire, TypeOK, HandlerInv
  <2> QED
    BY <1>4, <2>1, RequestFields DEF Acquire, Entry, TypeOK, BirthInv
<1>5. ASSUME NEW t \in Threads, InsertFlow(t) PROVE BirthInv'
  <2>1. row[t] \in FlowResponse /\ row[t].id \in minted /\ Carries(t)
    BY <1>5 DEF InsertFlow, BirthInv, TypeOK, HandlerInv
  <2>2. /\ flows' = [flows EXCEPT ![row[t].id] = row[t]]
        /\ pc[t] = "insert" /\ pc' = [pc EXCEPT ![t] = "release"]
        /\ UNCHANGED <<minted, clock, req, row>>
    BY <1>5 DEF InsertFlow
  <2>3. \A u \in Threads : Carries(u)' => Carries(u) /\ u # t
    BY <2>2 DEF TypeOK
  <2> QED
    BY <2>1, <2>2, <2>3 DEF TypeOK, BirthInv
<1>6. ASSUME NEW t \in Threads, StoreFlow(t) PROVE BirthInv'
  <2> DEFINE updated == Updated(row[t], req[t], now[t])
  <2>1. /\ req[t] \in Requests /\ req[t].op = "update"
        /\ flows[req[t].flow_id] # None
    BY <1>6 DEF StoreFlow, StoreInv, TypeOK, HandlerInv
  <2>2. /\ flows' = [flows EXCEPT ![req[t].flow_id] = updated]
        /\ pc[t] = "store" /\ pc' = [pc EXCEPT ![t] = "release"]
        /\ UNCHANGED <<minted, clock, req, row>>
    BY <1>6 DEF StoreFlow
  <2> HIDE DEF updated
  <2>3. \A u \in Threads : Carries(u)' => Carries(u)
    BY <2>2 DEF TypeOK
  <2> QED
    BY <2>1, <2>2, <2>3, RequestFields DEF TypeOK, BirthInv
<1>7. ASSUME NEW t \in Threads, DelFlow(t) PROVE BirthInv'
  BY <1>7 DEF DelFlow, KeyError, Raise, TypeOK, BirthInv
<1>8. ASSUME NEW t \in Threads, FetchFlow(t) PROVE BirthInv'
  <2>1. /\ pc[t] = "fetch" /\ UNCHANGED <<flows, minted, clock, req>>
        /\ \A u \in Threads : Carries(u)' => Carries(u) /\ u # t
        /\ \A u \in Threads \ {t} : row'[u] = row[u]
    BY <1>8 DEF FetchFlow, KeyError, Raise, TypeOK
  <2> QED
    BY <2>1 DEF BirthInv
<1>9. ASSUME NEW t \in Threads, Respond(t) PROVE BirthInv'
  <2>1. /\ UNCHANGED <<flows, minted, clock>>
        /\ \A u \in Threads : Carries(u)' => Carries(u) /\ u # t
        /\ \A u \in Threads \ {t} : row'[u] = row[u] /\ req'[u] = req[u]
    BY <1>9 DEF Respond, TypeOK
  <2> QED
    BY <2>1 DEF BirthInv
<1>10. ASSUME NEW t \in Threads,
              \/ Release(t) \/ ListFlows(t) \/ CheckExists(t) \/ ReadFlow(t)
       PROVE  BirthInv'
  <2>1. /\ UNCHANGED <<flows, minted, clock, req, row>>
        /\ \A u \in Threads : Carries(u)' => Carries(u)
    <3>1. req[t] \in Requests
      BY <1>10 DEF Release, ListFlows, CheckExists, ReadFlow, TypeOK,
                   HandlerInv
    <3> QED
      BY <1>10, <3>1 DEF Release, ListFlows, CheckExists, ReadFlow,
         AfterExists, KeyError, Raise, TypeOK, HandlerInv
  <2> QED
    BY <2>1 DEF BirthInv
<1> QED
  BY <1>1, <1>2, <1>3, <1>4, <1>5, <1>6, <1>7, <1>8, <1>9, <1>10
     DEF Next, Handler

(* What a thread inside the lock has read stays so: nobody else writes.    *)
LEMMA StoreStep == Control /\ BirthInv /\ StoreInv /\ [Next]_vars => StoreInv'
<1> SUFFICES ASSUME Control, BirthInv, StoreInv, [Next]_vars PROVE StoreInv'
  OBVIOUS
<1> USE NoneAssumption, ThreadAssumption
    DEF Control, At, Goto, Held, KeyError, Raise
<1>1. CASE Tick \/ UNCHANGED vars
  BY <1>1 DEF Tick, vars, StoreInv
<1>2. ASSUME NEW t \in Threads,
             \/ Receive(t) \/ BuildFlow(t) \/ Acquire(t) \/ Release(t)
             \/ Respond(t) \/ ListFlows(t)
      PROVE  StoreInv'
  <2>1. /\ UNCHANGED flows
        /\ \A u \in Threads : u # t =>
             pc'[u] = pc[u] /\ req'[u] = req[u] /\ row'[u] = row[u]
        /\ pc'[t] \in {"idle", "build", "acquire", "list", "insert", "exists",
                       "release", "reply"}
    <3>1. CASE Receive(t)
      BY <3>1 DEF Receive, TypeOK
    <3>2. CASE BuildFlow(t)
      BY <3>2 DEF BuildFlow, TypeOK
    <3>3. CASE Acquire(t)
      BY <3>3 DEF Acquire, Entry, TypeOK
    <3>4. CASE Release(t) \/ Respond(t) \/ ListFlows(t)
      BY <3>4 DEF Release, Respond, ListFlows, TypeOK
    <3> QED
      BY <1>2, <3>1, <3>2, <3>3, <3>4
  <2> QED
    BY <2>1 DEF StoreInv
<1>3. ASSUME NEW t \in Threads,
             \/ InsertFlow(t) \/ StoreFlow(t) \/ DelFlow(t)
      PROVE  StoreInv'
  <2>1. /\ pc' = [pc EXCEPT ![t] = "release"] /\ pc[t] \notin Outside
    BY <1>3 DEF InsertFlow, StoreFlow, DelFlow, Outside
  <2>2. \A u \in Threads : u # t => pc[u] \in Outside
    BY <2>1 DEF LockInv
  <2> QED
    BY <2>1, <2>2 DEF TypeOK, StoreInv, Outside
<1>4. ASSUME NEW t \in Threads, CheckExists(t) \/ ReadFlow(t)
      PROVE  StoreInv'
  <2>1. /\ UNCHANGED <<flows, req, row>>
        /\ \A u \in Threads : u # t => pc'[u] = pc[u]
        /\ pc'[t] = "release" \/ /\ flows[req[t].flow_id] # None
                                 /\ pc'[t] \in {"read", "fetch", "del"}
    <3>1. CASE CheckExists(t)
      <4>1. req[t].op \in {"get", "update", "delete"}
        BY <3>1 DEF CheckExists, HandlerInv
      <4> QED
        BY <3>1, <4>1 DEF CheckExists, AfterExists, TypeOK
    <3>2. CASE ReadFlow(t)
      BY <3>2 DEF ReadFlow, TypeOK
    <3> QED
      BY <1>4, <3>1, <3>2
  <2> QED
    BY <2>1 DEF StoreInv
<1>5. ASSUME NEW t \in Threads, FetchFlow(t) PROVE StoreInv'
  BY <1>5 DEF FetchFlow, StoreInv, TypeOK
<1> QED
  BY <1>1, <1>2, <1>3, <1>4, <1>5 DEF Next, Handler

(* A step leaves alone the locals and the reply of every other thread.     *)
LEMMA OwnStep ==
  ASSUME TypeOK, NEW t \in Threads, Receive(t) \/ Handler(t)
  PROVE  \A u \in Threads \ {t} :
           /\ pc'[u] = pc[u] /\ req'[u] = req[u] /\ res'[u] = res[u]
           /\ row'[u] = row[u] /\ now'[u] = now[u]
<1>1. CASE Receive(t)
  BY <1>1 DEF Receive, Goto, TypeOK
<1>2. CASE Handler(t)
  BY <1>2 DEF Handler, BuildFlow, Acquire, Release, Respond, ListFlows,
     InsertFlow, CheckExists, ReadFlow, FetchFlow, StoreFlow, DelFlow,
     KeyError, Raise, Reply, Goto, Held, TypeOK
<1> QED
  BY <1>1, <1>2

(* A reply is settled by the step that leads to the release of the lock,   *)
(* and no read of a row under the lock fails.                              *)
LEMMA ReplyStep ==
  Control /\ BirthInv /\ StoreInv /\ ReplyInv /\ NoServerError /\ [Next]_vars
    => ReplyInv' /\ NoServerError'
<1> SUFFICES ASSUME Control, BirthInv, StoreInv, ReplyInv, NoServerError,
                    [Next]_vars
             PROVE  ReplyInv' /\ NoServerError'
  OBVIOUS
<1> USE NoneAssumption DEF Control, At, Goto, Held, Answered
<1>1. CASE Tick \/ UNCHANGED vars
  BY <1>1 DEF Tick, vars, ReplyInv, NoServerError
<1>2. ASSUME NEW t \in Threads, Receive(t) \/ Handler(t)
      PROVE  ReplyInv' /\ NoServerError'
  <2>1. \/ res'[t] = None /\ pc'[t] \notin Answered
        \/ /\ res'[t] # None /\ pc'[t] \in Answered
           /\ res'[t] = res[t] \/ res'[t].status # 500
    <3>1. CASE Receive(t)
      BY <3>1 DEF Receive, ReplyInv, TypeOK
    <3>2. CASE BuildFlow(t) \/ Acquire(t)
      BY <3>2 DEF BuildFlow, Acquire, Entry, ReplyInv, TypeOK
    <3>3. CASE Release(t) \/ Respond(t)
      BY <3>3 DEF Release, Respond, ReplyInv, TypeOK
    <3>4. CASE ListFlows(t)
      <4>1. {flows[id] : id \in {i \in FlowIds : flows[i] # None}}
              \in SUBSET FlowResponse
        BY DEF TypeOK
      <4> QED
        BY <3>4, <4>1, ReplyType DEF ListFlows, TypeOK
    <3>5. CASE InsertFlow(t)
      <4>1. row[t] \in FlowResponse
        BY <3>5 DEF InsertFlow, BirthInv, Carries, HandlerInv, TypeOK
      <4> QED
        BY <3>5, <4>1, ReplyType DEF InsertFlow, TypeOK
    <3>6. CASE CheckExists(t)
      <4>1. CASE flows[req[t].flow_id] = None
        BY <3>6, <4>1, ReplyType DEF CheckExists, Raise, TypeOK
      <4>2. CASE flows[req[t].flow_id] # None
        BY <3>6, <4>2
           DEF CheckExists, AfterExists, HandlerInv, ReplyInv, TypeOK
      <4> QED
        BY <4>1, <4>2
    <3>7. CASE ReadFlow(t)
      <4>1. /\ flows[req[t].flow_id] # None
            /\ flows[req[t].flow_id] \in FlowResponse
        BY <3>7, RequestFields
           DEF ReadFlow, StoreInv, HandlerInv, TypeOK
      <4> QED
        BY <3>7, <4>1, ReplyType DEF ReadFlow, TypeOK
    <3>8. CASE FetchFlow(t)
      <4>1. flows[req[t].flow_id] # None
        BY <3>8 DEF FetchFlow, StoreInv
      <4> QED
        BY <3>8, <4>1 DEF FetchFlow, ReplyInv, TypeOK
    <3>9. CASE StoreFlow(t)
      <4>1. /\ req[t] \in Requests /\ req[t].op = "update"
            /\ row[t] \in FlowResponse /\ now[t] \in Nat
        BY <3>9 DEF StoreFlow, StoreInv, TypeOK, HandlerInv
      <4> QED
        BY <3>9, <4>1, UpdatedRow, ReplyType DEF StoreFlow, TypeOK
    <3>10. CASE DelFlow(t)
      <4>1. flows[req[t].flow_id] # None
        BY <3>10 DEF DelFlow, StoreInv
      <4> QED
        BY <3>10, <4>1, ReplyType DEF DelFlow, TypeOK
    <3> QED
      BY <1>2, <3>1, <3>2, <3>3, <3>4, <3>5, <3>6, <3>7, <3>8, <3>9, <3>10
         DEF Handler
  <2> QED
    BY <1>2, <2>1, OwnStep DEF ReplyInv, NoServerError
<1> QED
  BY <1>1, <1>2 DEF Next

(* No row in the store is newer than the clock, and an update reads the    *)
(* clock after the row it replaces was written.                            *)
LEMMA TimeStep ==
  Control /\ BirthInv /\ StoreInv /\ TimeInv /\ [Next]_vars => TimeInv'
<1> SUFFICES ASSUME Control, BirthInv, StoreInv, TimeInv, [Next]_vars
             PROVE  TimeInv'
  OBVIOUS
<1> USE NoneAssumption DEF Control, At, Goto, Held, KeyError, Raise
<1>1. CASE Tick \/ UNCHANGED vars
  <2>1. \A id \in FlowIds : flows[id] # None => flows[id].updated_at \in Nat
    BY DEF TypeOK, FlowResponse
  <2> QED
    BY <1>1, <2>1 DEF Tick, vars, TypeOK, TimeInv
<1>2. ASSUME NEW t \in Threads, InsertFlow(t) PROVE TimeInv'
  <2>1. /\ row[t] \in FlowResponse /\ row[t].created_at <= clock
        /\ row[t].updated_at = row[t].created_at
    <3>1. /\ Carries(t) /\ req[t] \in Requests /\ req[t].op = "create"
          /\ row[t] \in FlowResponse
      BY <1>2 DEF InsertFlow, BirthInv, Carries, TypeOK, HandlerInv
    <3>2. row[t].id \in FlowIds /\ row[t].created_at \in Nat
      BY <3>1 DEF FlowResponse
    <3>3. row[t] = NewFlow(row[t].id, req[t], row[t].created_at)
      BY <3>1 DEF BirthInv
    <3> QED
      BY <3>1, <3>2, <3>3, NewRow DEF BirthInv
  <2> QED
    BY <1>2, <2>1 DEF InsertFlow, TypeOK, TimeInv
<1>3. ASSUME NEW t \in Threads, StoreFlow(t) PROVE TimeInv'
  <2> DEFINE updated == Updated(row[t], req[t], now[t])
  <2>1. /\ req[t] \in Requests /\ req[t].op = "update"
        /\ row[t] \in FlowResponse /\ now[t] \in Nat
    BY <1>3 DEF StoreFlow, StoreInv, TypeOK, HandlerInv
  <2>2. updated.updated_at = now[t]
    BY <2>1, UpdatedRow
  <2>3. /\ flows' = [flows EXCEPT ![req[t].flow_id] = updated]
        /\ pc' = [pc EXCEPT ![t] = "release"]
        /\ UNCHANGED <<clock, row, now>>
    BY <1>3 DEF StoreFlow
  <2> HIDE DEF updated
  <2> QED
    BY <2>2, <2>3 DEF TypeOK, TimeInv
<1>4. ASSUME NEW t \in Threads, FetchFlow(t) PROVE TimeInv'
  <2>1. /\ req[t] \in Requests /\ req[t].flow_id \in FlowIds
        /\ flows[req[t].flow_id] # None
    BY <1>4, RequestFields DEF FetchFlow, StoreInv, TypeOK, HandlerInv
  <2>2. /\ pc' = [pc EXCEPT ![t] = "store"]
        /\ row' = [row EXCEPT ![t] = flows[req[t].flow_id]]
        /\ now' = [now EXCEPT ![t] = clock]
        /\ UNCHANGED <<flows, clock>>
    BY <1>4, <2>1 DEF FetchFlow
  <2> QED
    BY <2>1, <2>2 DEF TypeOK, TimeInv
<1>5. ASSUME NEW t \in Threads, DelFlow(t) PROVE TimeInv'
  BY <1>5 DEF DelFlow, TypeOK, TimeInv
<1>6. ASSUME NEW t \in Threads,
             \/ Receive(t) \/ BuildFlow(t) \/ Acquire(t) \/ Release(t)
             \/ Respond(t) \/ ListFlows(t) \/ CheckExists(t) \/ ReadFlow(t)
      PROVE  TimeInv'
  <2>1. /\ UNCHANGED <<flows, clock>>
        /\ now'[t] \in {now[t], 0} /\ pc'[t] # "store"
    <3>1. CASE Receive(t)
      BY <3>1 DEF Receive, TypeOK
    <3>2. CASE BuildFlow(t) \/ Acquire(t)
      BY <3>2 DEF BuildFlow, Acquire, Entry, TypeOK
    <3>3. CASE Release(t) \/ Respond(t) \/ ListFlows(t) \/ ReadFlow(t)
      BY <3>3 DEF Release, Respond, ListFlows, ReadFlow, TypeOK
    <3>4. CASE CheckExists(t)
      BY <3>4 DEF CheckExists, AfterExists, HandlerInv, TypeOK
    <3> QED
      BY <1>6, <3>1, <3>2, <3>3, <3>4
  <2>2. \A u \in Threads \ {t} :
          pc'[u] = pc[u] /\ row'[u] = row[u] /\ now'[u] = now[u]
    BY <1>6, OwnStep DEF Handler
  <2> QED
    BY <2>1, <2>2 DEF TypeOK, TimeInv
<1> QED
  BY <1>1, <1>2, <1>3, <1>4, <1>5, <1>6 DEF Next, Handler

(* The inductive invariant holds in every reachable state.                 *)
THEOREM Invariance == Spec => []IInv
<1>1. Init => IInv
  BY NoneAssumption, ThreadAssumption
     DEF Init, IInv, Control, TypeOK, LockInv, HandlerInv, BirthInv, Carries,
         StoreInv, ReplyInv, Answered, TimeInv, NoServerError, Points, Outside
<1>2. IInv /\ [Next]_vars => IInv'
  BY ControlStep, BirthStep, StoreStep, ReplyStep, TimeStep DEF IInv
<1> QED
  BY <1>1, <1>2, PTL DEF Spec

(* In every reachable state each variable has a value of its type: only    *)
(* whole flows are ever stored or returned.                                *)
THEOREM TypeCorrect == Spec => []TypeOK
<1>1. IInv => TypeOK
  BY DEF IInv, Control
<1> QED
  BY <1>1, Invariance, PTL

(* _FLOWS_LOCK works: no two threads are inside the with block at a time.  *)
THEOREM MutualExclusion ==
  Spec => [](\A t, u \in Threads :
               pc[t] \notin Outside /\ pc[u] \notin Outside => t = u)
<1>1. IInv => \A t, u \in Threads :
                pc[t] \notin Outside /\ pc[u] \notin Outside => t = u
  BY DEF IInv, Control, LockInv
<1> QED
  BY <1>1, Invariance, PTL

(* However many deletes race, no handler reads a row that is gone: no      *)
(* KeyError is raised and no request is answered 500.                      *)
THEOREM NeverServerError == Spec => []NoServerError
<1>1. IInv => NoServerError
  BY DEF IInv
<1> QED
  BY <1>1, Invariance, PTL

-----------------------------------------------------------------------------
(* What happens to one flow                                                *)

(* The store is written in three ways: a new row under an id of its own,   *)
(* a new version of a row, or the removal of one.                          *)
LEMMA FlowsStep ==
  ASSUME IInv, [Next]_vars
  PROVE  \/ UNCHANGED flows
         \/ \E id \in FlowIds, new \in FlowResponse :
              /\ id \in Unborn /\ flows[id] = None
              /\ flows' = [flows EXCEPT ![id] = new]
         \/ \E id \in FlowIds, new \in FlowResponse :
              /\ flows[id] # None
              /\ new.created_at = flows[id].created_at
              /\ new.updated_at >= flows[id].updated_at
              /\ flows' = [flows EXCEPT ![id] = new]
         \/ \E id \in FlowIds : flows' = [flows EXCEPT ![id] = None]
<1> USE NoneAssumption DEF IInv, Control, At, Goto, Held, KeyError, Raise
<1>1. ASSUME NEW t \in Threads, InsertFlow(t)
      PROVE  \E id \in FlowIds, new \in FlowResponse :
               /\ id \in Unborn /\ flows[id] = None
               /\ flows' = [flows EXCEPT ![id] = new]
  <2>1. /\ pc[t] = "insert" /\ req[t].op = "create" /\ Carries(t)
        /\ flows' = [flows EXCEPT ![row[t].id] = row[t]]
    BY <1>1 DEF InsertFlow, HandlerInv, Carries
  <2>2. /\ row[t] \in FlowResponse /\ row[t].id \in FlowIds
        /\ flows[row[t].id] = None
    BY <2>1 DEF BirthInv, TypeOK, FlowResponse
  <2>3. row[t].id \in Unborn
    BY <2>1 DEF Unborn
  <2> QED
    BY <2>1, <2>2, <2>3
<1>2. ASSUME NEW t \in Threads, StoreFlow(t)
      PROVE  \E id \in FlowIds, new \in FlowResponse :
               /\ flows[id] # None
               /\ new.created_at = flows[id].created_at
               /\ new.updated_at >= flows[id].updated_at
               /\ flows' = [flows EXCEPT ![id] = new]
  <2> DEFINE updated == Updated(row[t], req[t], now[t])
  <2>1. /\ req[t] \in Requests /\ req[t].op = "update"
        /\ req[t].flow_id \in FlowIds
        /\ row[t] \in FlowResponse /\ now[t] \in Nat
        /\ flows[req[t].flow_id] = row[t] /\ row[t] # None
        /\ row[t].updated_at <= now[t] /\ row[t].updated_at \in Nat
    BY <1>2, RequestFields
       DEF StoreFlow, StoreInv, TimeInv, TypeOK, HandlerInv, FlowResponse
  <2>2. /\ updated \in FlowResponse
        /\ updated.created_at = row[t].created_at
        /\ updated.updated_at = now[t]
    BY <2>1, UpdatedRow
  <2>3. flows' = [flows EXCEPT ![req[t].flow_id] = updated]
    BY <1>2 DEF StoreFlow
  <2> HIDE DEF updated
  <2> QED
    BY <2>1, <2>2, <2>3
<1>3. ASSUME NEW t \in Threads, DelFlow(t)
      PROVE  \/ UNCHANGED flows
             \/ \E id \in FlowIds : flows' = [flows EXCEPT ![id] = None]
  <2>1. req[t].flow_id \in FlowIds
    BY <1>3, RequestFields DEF DelFlow, TypeOK, HandlerInv
  <2> QED
    BY <1>3, <2>1 DEF DelFlow
<1>4. ASSUME NEW t \in Threads, Receive(t) \/ Handler(t),
             ~InsertFlow(t), ~StoreFlow(t), ~DelFlow(t)
      PROVE  UNCHANGED flows
  BY <1>4 DEF Handler, Receive, BuildFlow, Acquire, Release, Respond,
              ListFlows, CheckExists, ReadFlow, FetchFlow
<1>5. CASE Tick \/ UNCHANGED vars
  BY <1>5 DEF Tick, vars
<1> QED
  BY <1>1, <1>2, <1>3, <1>4, <1>5 DEF Next

(* An update that races a delete never brings the flow back, and no create *)
(* takes the id of a deleted flow.                                         *)
THEOREM NoResurrection == Spec => DeletedStaysDeleted
<1>1. IInv /\ [Next]_vars =>
        [\A id \in Used : flows[id] = None => flows'[id] = None]_vars
  BY FlowsStep DEF IInv, Control, TypeOK, Used
<1> QED
  BY <1>1, Invariance, PTL DEF Spec, DeletedStaysDeleted

(* created_at is fixed and updated_at never goes back while a flow lives.  *)
THEOREM TimestampsAdvance == Spec => UpdatedAtAdvances
<1>1. IInv /\ [Next]_vars =>
        [\A id \in FlowIds : flows[id] # None /\ flows'[id] # None =>
           /\ flows'[id].created_at = flows[id].created_at
           /\ flows'[id].updated_at >= flows[id].updated_at]_vars
  <2> SUFFICES ASSUME IInv, [Next]_vars, NEW id \in FlowIds,
                      flows[id] # None, flows'[id] # None
               PROVE  /\ flows'[id].created_at = flows[id].created_at
                      /\ flows'[id].updated_at >= flows[id].updated_at
    OBVIOUS
  <2>1. flows[id].updated_at \in Nat
    BY DEF IInv, Control, TypeOK, FlowResponse
  <2> QED
    BY FlowsStep, <2>1 DEF IInv, Control, TypeOK
<1> QED
  BY <1>1, Invariance, PTL DEF Spec, UpdatedAtAdvances

-----------------------------------------------------------------------------
(* The service implements the store                                        *)

(* An id comes into use when the row that carries it is inserted.          *)
LEMMA UsedStep ==
  ASSUME IInv, [Next]_vars
  PROVE  /\ Tick \/ UNCHANGED vars => Used' = Used
         /\ \A t \in Threads :
              /\ InsertFlow(t) => /\ row[t].id \notin Used
                                  /\ Used' = Used \cup {row[t].id}
              /\ (Receive(t) \/ Handler(t)) /\ ~InsertFlow(t) => Used' = Used
<1> USE NoneAssumption DEF IInv, Control, At, Goto, Held, KeyError, Raise
<1> DEFINE Carriers == {t \in Threads : Carries(t)}
<1>1. Unborn = {row[t].id : t \in Carriers}
  BY DEF Unborn, Carries
<1>2. ASSUME NEW t \in Threads, InsertFlow(t)
      PROVE  row[t].id \notin Used /\ Used' = Used \cup {row[t].id}
  <2>1. /\ pc[t] = "insert" /\ pc' = [pc EXCEPT ![t] = "release"]
        /\ UNCHANGED <<minted, req, row>>
    BY <1>2 DEF InsertFlow
  <2>2. Carries(t)
    BY <2>1 DEF Carries, HandlerInv
  <2>3. Carriers' = Carriers \ {t}
    BY <2>1, <2>2 DEF Carries, TypeOK
  <2>4. Unborn' = {row'[u].id : u \in Carriers'}
    BY DEF Unborn, Carries
  <2>5. \A u \in Carriers : u # t => row[u].id # row[t].id
    BY <2>2 DEF BirthInv
  <2>6. row[t].id \in minted
    BY <2>2 DEF BirthInv
  <2> QED
    BY <1>1, <2>1, <2>2, <2>3, <2>4, <2>5, <2>6 DEF Used
<1>3. ASSUME NEW t \in Threads, BuildFlow(t) PROVE Used' = Used
  <2>1. PICK id \in FlowIds \ minted :
          /\ minted' = minted \cup {id}
          /\ row' = [row EXCEPT ![t] = NewFlow(id, req[t], clock)]
    BY <1>3 DEF BuildFlow
  <2>2. /\ pc[t] = "build" /\ pc' = [pc EXCEPT ![t] = "acquire"]
        /\ req' = req /\ req[t].op = "create"
    BY <1>3 DEF BuildFlow, HandlerInv
  <2>3. Carriers' = Carriers \cup {t} /\ t \notin Carriers
    BY <2>2 DEF Carries, TypeOK
  <2>4. Unborn' = {row'[u].id : u \in Carriers'}
    BY DEF Unborn, Carries
  <2>5. row'[t].id = id /\ \A u \in Carriers : row'[u] = row[u]
    BY <2>1, <2>3 DEF TypeOK, NewFlow
  <2>6. Unborn' = Unborn \cup {id}
    BY <1>1, <2>3, <2>4, <2>5
  <2> QED
    BY <2>1, <2>6 DEF Used
<1>4. ASSUME NEW t \in Threads, Receive(t) \/ Handler(t),
             ~BuildFlow(t), ~InsertFlow(t)
      PROVE  Used' = Used
  <2>1. /\ minted' = minted
        /\ Carries(t)' <=> Carries(t)
        /\ Carries(t) => row'[t] = row[t]
    <3>1. CASE Receive(t)
      BY <3>1 DEF Receive, TypeOK, Carries
    <3>2. CASE Acquire(t)
      BY <3>2, RequestFields
         DEF Acquire, Entry, TypeOK, Carries, HandlerInv
    <3>3. CASE Release(t) \/ Respond(t) \/ ListFlows(t) \/ ReadFlow(t)
      BY <3>3 DEF Release, Respond, ListFlows, ReadFlow, TypeOK, Carries
    <3>4. CASE CheckExists(t)
      BY <3>4 DEF CheckExists, AfterExists, HandlerInv, TypeOK, Carries
    <3>5. CASE FetchFlow(t) \/ StoreFlow(t) \/ DelFlow(t)
      BY <3>5 DEF FetchFlow, StoreFlow, DelFlow, TypeOK, Carries
    <3> QED
      BY <1>4, <3>1, <3>2, <3>3, <3>4, <3>5 DEF Handler
  <2>2. \A u \in Threads \ {t} :
          pc'[u] = pc[u] /\ row'[u] = row[u] /\ req'[u] = req[u]
    BY <1>4, OwnStep
  <2>3. Carriers' = Carriers /\ \A u \in Carriers : row'[u] = row[u]
    BY <2>1, <2>2 DEF Carries
  <2>4. Unborn' = {row'[u].id : u \in Carriers'}
    BY DEF Unborn, Carries
  <2>5. Unborn' = Unborn
    BY <1>1, <2>3, <2>4
  <2> QED
    BY <2>1, <2>5 DEF Used
<1>5. ASSUME Tick \/ UNCHANGED vars PROVE Used' = Used
  <2>1. minted' = minted /\ pc' = pc /\ req' = req /\ row' = row
    BY <1>5 DEF Tick, vars
  <2>2. Unborn' = {row'[u].id : u \in Carriers'} /\ Carriers' = Carriers
    BY <2>1 DEF Unborn, Carries
  <2>3. Unborn' = Unborn
    BY <1>1, <2>1, <2>2
  <2> QED
    BY <2>1, <2>3 DEF Used
<1> QED
  BY <1>2, <1>3, <1>4, <1>5

(* The store's copies of the operators of FlowApi.                         *)
LEMMA StoreApi ==
  /\ Store!Requests = Requests
  /\ \A id, r, n : Store!NewFlow(id, r, n) = NewFlow(id, r, n)
BY DEF Store!Requests, Requests, Store!NewFlow, NewFlow

(* What the store says of a PATCH is what partial_update_dict and          *)
(* model_copy make of it.                                                  *)
LEMMA PatchedIsUpdated ==
  ASSUME NEW old \in FlowResponse, NEW r \in Requests, r.op = "update",
         NEW n \in Nat
  PROVE  Store!Patched(old, r.payload, n) = Updated(old, r, n)
<1> DEFINE data == PartialUpdateDict(r.payload, FlowFields)
           new == ModelCopy(old, data)
<1>1. /\ DOMAIN data = {f \in DOMAIN r.payload :
                          r.payload[f] # None \/ f = "description"}
      /\ \A f \in DOMAIN data : data[f] = r.payload[f]
  BY RequestFields, UpdateFields
<1>2. DOMAIN old = {"id", "name", "description", "status",
                    "created_at", "updated_at"}
  BY DEF FlowResponse
<1> HIDE DEF data
<1>3. new = [f \in DOMAIN old |->
               IF f \in DOMAIN r.payload /\ (r.payload[f] # None
                                             \/ f = "description")
                 THEN r.payload[f] ELSE old[f]]
  BY <1>1 DEF ModelCopy
<1> HIDE DEF new
<1>4. Updated(old, r, n) = [new EXCEPT !["updated_at"] = n]
  BY DEF new, data, Updated
<1> QED
  BY <1>2, <1>3, <1>4 DEF Store!Patched

(* The steps that settle a reply take effect in the store; the steps       *)
(* before and after them leave what the store shows as it is.              *)
LEMMA HandlerRefined ==
  ASSUME IInv, [Next]_vars, NEW t \in Threads
  PROVE  /\ Receive(t) => Store!Call(t)
         /\ Respond(t) => Store!Return(t)
         /\ BuildFlow(t) \/ Acquire(t) \/ Release(t) \/ FetchFlow(t) =>
              UNCHANGED Store!vars
         /\ CheckExists(t) =>
              \/ UNCHANGED Store!vars
              \/ /\ Store!Get(t) \/ Store!Update(t) \/ Store!Delete(t)
                 /\ res'[t].status = 404
         /\ ListFlows(t) => Store!List(t)
         /\ ReadFlow(t) => Store!Get(t)
         /\ InsertFlow(t) => Store!Create(t) /\ res'[t].status = 201
         /\ StoreFlow(t) => Store!Update(t) /\ res'[t].status = 200
         /\ DelFlow(t) => Store!Delete(t) /\ res'[t].status = 204
<1> USE NoneAssumption DEF IInv, Control, At, Goto, Held
<1>1. ASSUME Receive(t) PROVE Store!Call(t)
  <2>1. Used' = Used
    BY <1>1, UsedStep DEF Receive, InsertFlow
  <2> QED
    BY <1>1, <2>1, StoreApi
       DEF Receive, HandlerInv, TypeOK, Store!Call
<1>2. ASSUME Respond(t) PROVE Store!Return(t)
  <2>1. Used' = Used
    BY <1>2, UsedStep DEF Respond, InsertFlow, Handler
  <2> QED
    BY <1>2, <2>1 DEF Respond, ReplyInv, Answered, TypeOK, Store!Return
<1>3. ASSUME BuildFlow(t) \/ Acquire(t) \/ Release(t)
      PROVE  UNCHANGED Store!vars
  <2>1. Used' = Used
    BY <1>3, UsedStep DEF BuildFlow, Acquire, Release, InsertFlow, Handler
  <2> QED
    BY <1>3, <2>1 DEF BuildFlow, Acquire, Release, Store!vars
<1> USE DEF Reply, Raise, KeyError, Store!Pending, Store!Answer, Store!vars
<1>4. ASSUME ListFlows(t) PROVE Store!List(t)
  <2>1. Used' = Used
    BY <1>4, UsedStep DEF ListFlows, InsertFlow, Handler
  <2> QED
    BY <1>4, <2>1 DEF ListFlows, HandlerInv, ReplyInv, Answered, TypeOK,
       Store!List, Store!Live
<1>5. ASSUME InsertFlow(t)
      PROVE  Store!Create(t) /\ res'[t].status = 201
  <2>1. /\ req[t] \in Requests /\ req[t].op = "create" /\ res[t] = None
        /\ Carries(t) /\ req[t] # None
    BY <1>5 DEF InsertFlow, HandlerInv, ReplyInv, Answered, TypeOK, Carries
  <2>2. /\ row[t] \in FlowResponse /\ row[t].id \in FlowIds
        /\ row[t].created_at \in 0..clock
        /\ row[t] = NewFlow(row[t].id, req[t], row[t].created_at)
    BY <2>1 DEF BirthInv, TypeOK, FlowResponse
  <2>3. row[t].id \notin Used /\ Used' = Used \cup {row[t].id}
    BY <1>5, UsedStep
  <2>4. Store!Create(t)
    BY <1>5, <2>1, <2>2, <2>3, StoreApi
       DEF InsertFlow, TypeOK, Store!Create
  <2>5. res'[t].status = 201
    BY <1>5 DEF InsertFlow, TypeOK
  <2> QED
    BY <2>4, <2>5
<1>6. ASSUME CheckExists(t)
      PROVE  \/ UNCHANGED Store!vars
             \/ /\ Store!Get(t) \/ Store!Update(t) \/ Store!Delete(t)
                /\ res'[t].status = 404
  <2>1. Used' = Used
    BY <1>6, UsedStep DEF CheckExists, InsertFlow, Handler
  <2>2. /\ req[t] \in Requests /\ res[t] = None /\ req[t] # None
        /\ req[t].op \in {"get", "update", "delete"}
    BY <1>6 DEF CheckExists, HandlerInv, ReplyInv, Answered, TypeOK
  <2>3. CASE flows[req[t].flow_id] = None
    <3>1. req[t].flow_id \notin Store!Live
      BY <2>3 DEF Store!Live
    <3>2. Store!NotFound(t)
      BY <1>6, <2>1, <2>3, <3>1 DEF CheckExists, Store!NotFound
    <3> QED
      BY <1>6, <2>2, <2>3, <3>2
         DEF CheckExists, TypeOK, Store!Get, Store!Update, Store!Delete
  <2>4. CASE flows[req[t].flow_id] # None
    BY <1>6, <2>1, <2>4 DEF CheckExists
  <2> QED
    BY <2>3, <2>4
<1>7. ASSUME ReadFlow(t) PROVE Store!Get(t)
  <2>1. Used' = Used
    BY <1>7, UsedStep DEF ReadFlow, InsertFlow, Handler
  <2>2. /\ req[t] \in Requests /\ res[t] = None /\ req[t] # None
        /\ req[t].op = "get" /\ flows[req[t].flow_id] # None
    BY <1>7 DEF ReadFlow, HandlerInv, StoreInv, ReplyInv, Answered, TypeOK
  <2>3. req[t].flow_id \in Store!Live
    BY <2>2, RequestFields DEF Store!Live
  <2> QED
    BY <1>7, <2>1, <2>2, <2>3 DEF ReadFlow, Store!Get
<1>8. ASSUME FetchFlow(t) PROVE UNCHANGED Store!vars
  <2>1. Used' = Used
    BY <1>8, UsedStep DEF FetchFlow, InsertFlow, Handler
  <2> QED
    BY <1>8, <2>1 DEF FetchFlow, StoreInv
<1>9. ASSUME StoreFlow(t)
      PROVE  Store!Update(t) /\ res'[t].status = 200
  <2>1. Used' = Used
    BY <1>9, UsedStep DEF StoreFlow, InsertFlow, Handler
  <2>2. /\ req[t] \in Requests /\ res[t] = None /\ req[t] # None
        /\ req[t].op = "update" /\ flows[req[t].flow_id] = row[t]
        /\ row[t] \in FlowResponse /\ row[t] # None
    BY <1>9 DEF StoreFlow, HandlerInv, StoreInv, ReplyInv, Answered, TypeOK
  <2>3. req[t].flow_id \in Store!Live
    BY <2>2, RequestFields DEF Store!Live
  <2>4. now[t] \in flows[req[t].flow_id].updated_at..clock
    BY <1>9, <2>2 DEF StoreFlow, TimeInv, TypeOK, FlowResponse
  <2>5. Store!Patched(flows[req[t].flow_id], req[t].payload, now[t])
          = Updated(row[t], req[t], now[t])
    BY <2>2, PatchedIsUpdated DEF TypeOK
  <2> QED
    BY <1>9, <2>1, <2>2, <2>3, <2>4, <2>5 DEF StoreFlow, TypeOK,
                                               Store!Update
<1>10. ASSUME DelFlow(t)
      PROVE  Store!Delete(t) /\ res'[t].status = 204
  <2>1. Used' = Used
    BY <1>10, UsedStep DEF DelFlow, InsertFlow, Handler
  <2>2. /\ req[t] \in Requests /\ res[t] = None /\ req[t] # None
        /\ req[t].op = "delete" /\ flows[req[t].flow_id] # None
    BY <1>10 DEF DelFlow, HandlerInv, StoreInv, ReplyInv, Answered, TypeOK
  <2>3. req[t].flow_id \in Store!Live
    BY <2>2, RequestFields DEF Store!Live
  <2> QED
    BY <1>10, <2>1, <2>2, <2>3 DEF DelFlow, TypeOK, Store!Delete
<1> QED
  BY <1>1, <1>2, <1>3, <1>4, <1>5, <1>6, <1>7, <1>8, <1>9, <1>10

(* So every step of the service is one of the store, or none.              *)
LEMMA StoreRefined ==
  ASSUME IInv, [Next]_vars
  PROVE  [Store!Next]_(Store!vars)
<1>1. CASE Tick
  BY <1>1, UsedStep DEF Tick, Store!Next, Store!Tick
<1>2. CASE UNCHANGED vars
  BY <1>2, UsedStep DEF vars, Store!vars
<1>3. ASSUME NEW t \in Threads, Receive(t) \/ Handler(t)
      PROVE  Store!Next \/ UNCHANGED Store!vars
  BY <1>3, HandlerRefined DEF Handler, Store!Next
<1> QED
  BY <1>1, <1>2, <1>3 DEF Next

(* For any number of threads and flows, the service is linearizable: every *)
(* behaviour of it is one of the store of flows.                           *)
THEOREM Linearizable == Spec => ImplementsStore
<1>1. Init => Store!Init
  BY DEF Init, Store!Init, Used, Unborn
<1>2. IInv /\ [Next]_vars => [Store!Next]_(Store!vars)
  BY StoreRefined
<1> QED
  BY <1>1, <1>2, Invariance, PTL DEF Spec, Store!Spec, ImplementsStore

=============================================================================
