------------------------- MODULE FlowGatewayProofs -------------------------
(***************************************************************************)
(* The proof that FlowServiceClient and the flow service together do what  *)
(* RemoteFlows promises to each caller, for every number of calls, retries *)
(* and flows.  The invariant that carries it follows the attempts of a     *)
(* call: none is left that could have the effect of the call again.  The   *)
(* last sections put the service's threads in the place of its store.      *)
(***************************************************************************)
EXTENDS FlowSystem, TLAPS

(* The types of what the store and the client keep.                        *)
TypeInv ==
  /\ stored \in [FlowIds -> FlowResponse \cup {None}]
  /\ used \in SUBSET FlowIds
  /\ clock \in Nat
  /\ req \in [Attempts -> Requests \cup {None}]
  /\ res \in [Attempts -> Replies \cup {None}]
  /\ request \in [Calls -> Requests \cup {None}]
  /\ pc \in [Calls -> {"idle", "sending", "waiting", "backoff", "done"}]
  /\ attempt \in [Calls -> Nat]
  /\ reply \in [Calls -> Replies \cup {Timeout, Unavailable, None}]
  /\ effect \in [Calls -> BOOLEAN]

(* What the client knows of a call: only a get, a list or a delete comes   *)
(* to a second attempt, and a caller names no flow that never was.         *)
CallInv ==
  \A c \in Calls :
    /\ pc[c] = "idle" <=> request[c] = None
    /\ pc[c] # "idle" => attempt[c] \in 1..MaxRetries
    /\ pc[c] # "idle" /\ attempt[c] # 1 => Retries(request[c])
    /\ pc[c] = "backoff" => /\ Retries(request[c])
                            /\ attempt[c] < MaxRetries
    /\ pc[c] # "done" => reply[c] = None
    /\ pc[c] # "idle" /\ request[c].op \in {"get", "update", "delete"} =>
         request[c].flow_id \in used

(* What the service has of a call: attempts that were sent.                *)
SentInv ==
  \A a \in Attempts :
    /\ req[a] # None => /\ pc[a[1]] # "idle" /\ req[a] = request[a[1]]
                        /\ a[2] <= attempt[a[1]]
                        /\ a[2] = attempt[a[1]] => pc[a[1]] # "sending"
    /\ res[a] # None => req[a] # None

(* A call that has had its effect cannot have it again: a deleted flow     *)
(* stays deleted, and of a create or an update no attempt is left.         *)
EffectInv ==
  \A c \in Calls : effect[c] =>
    /\ pc[c] # "idle" /\ request[c].op \in {"create", "update", "delete"}
    /\ request[c].op = "delete" => stored[request[c].flow_id] = None
    /\ request[c].op # "delete" =>
         /\ pc[c] # "sending"
         /\ \A a \in Attempts : a[1] = c /\ req[a] # None => res[a] # None

IInv == TypeInv /\ CallInv /\ SentInv /\ EffectInv

-----------------------------------------------------------------------------
(* The operators of FlowApi                                                *)

(* Requests carry an operation and, but for list and create, an id.        *)
LEMMA RequestFields ==
  ASSUME NEW r \in Requests
  PROVE  /\ r.op \in {"list", "get", "create", "update", "delete"}
         /\ r.op \in {"get", "update", "delete"} => r.flow_id \in FlowIds
         /\ r.op = "update" => r.payload \in UpdatePayloads
  BY DEF Requests

(* A PATCH changes the fields its payload sets, but for a null name and a  *)
(* null status: of these fields only the description may be null.          *)
LEMMA UpdateFields ==
  ASSUME NEW p \in UpdatePayloads
  PROVE  /\ DOMAIN PartialUpdateDict(p, FlowFields)
              = {f \in DOMAIN p : p[f] # None \/ f = "description"}
         /\ \A f \in DOMAIN PartialUpdateDict(p, FlowFields) :
              /\ PartialUpdateDict(p, FlowFields)[f] = p[f]
              /\ f \in {"name", "description", "status"}
              /\ f = "name" => p[f] \in Names
              /\ f = "description" => p[f] \in Descriptions \cup {None}
              /\ f = "status" => p[f] \in Statuses
<1>1. IsFlowUpdate(p)
  BY PayloadAssumption
<1>2. \A f \in {"name", "description", "status"} :
        f \in TargetNullable(FlowFields) <=> f = "description"
  <2>1. /\ {"str", "None"} # {"None"} /\ "None" \notin {"str"}
        /\ "None" \in {"str", "None"}
    OBVIOUS
  <2> QED
    BY <2>1 DEF TargetNullable, IsOptional, FlowFields
<1> QED
  BY <1>1, <1>2 DEF PartialUpdateDict, Restrict, IsFlowUpdate

(* The row that an update stores: its creation time is the old one's.      *)
LEMMA UpdatedRow ==
  ASSUME NEW old \in FlowResponse, NEW r \in Requests, r.op = "update",
         NEW n \in Nat
  PROVE  /\ Updated(old, r, n) \in FlowResponse
         /\ Updated(old, r, n).created_at = old.created_at
         /\ Updated(old, r, n).updated_at = n
<1> DEFINE data == PartialUpdateDict(r.payload, FlowFields)
           new == ModelCopy(old, data)
<1>1. r.payload \in UpdatePayloads
  BY RequestFields
<1>2. /\ new \in FlowResponse
      /\ new.created_at = old.created_at
  BY <1>1, UpdateFields DEF ModelCopy, FlowResponse
<1>3. Updated(old, r, n) = [new EXCEPT !["updated_at"] = n]
  BY DEF Updated
<1> HIDE DEF new
<1> QED
  BY <1>2, <1>3 DEF FlowResponse

(* The row that a create builds.                                           *)
LEMMA NewRow ==
  ASSUME NEW r \in Requests, r.op = "create", NEW id \in FlowIds, NEW n \in Nat
  PROVE  /\ NewFlow(id, r, n) \in FlowResponse
         /\ NewFlow(id, r, n).id = id
         /\ NewFlow(id, r, n).created_at = n
         /\ NewFlow(id, r, n).updated_at = n
  BY CreatedAssumption DEF NewFlow, Requests, FlowResponse

(* The store's copies of the operators of FlowApi.                         *)
LEMMA StoreApi ==
  /\ Store!Requests = Requests
  /\ \A id, r, n : Store!NewFlow(id, r, n) = NewFlow(id, r, n)
BY DEF Store!Requests, Requests, Store!NewFlow, NewFlow

(* What the store says of a PATCH is what partial_update_dict and          *)
(* model_copy make of it.                                                  *)
LEMMA PatchedIsUpdated ==
  ASSUME NEW old \in FlowResponse, NEW r \in Requests, r.op = "update",
         NEW n \in Nat
  PROVE  Store!Patched(old, r.payload, n) = Updated(old, r, n)
<1> DEFINE data == PartialUpdateDict(r.payload, FlowFields)
           new == ModelCopy(old, data)
<1>1. /\ DOMAIN data = {f \in DOMAIN r.payload :
                          r.payload[f] # None \/ f = "description"}
      /\ \A f \in DOMAIN data : data[f] = r.payload[f]
  BY RequestFields, UpdateFields
<1>2. DOMAIN old = {"id", "name", "description", "status",
                    "created_at", "updated_at"}
  BY DEF FlowResponse
<1> HIDE DEF data
<1>3. new = [f \in DOMAIN old |->
               IF f \in DOMAIN r.payload /\ (r.payload[f] # None
                                             \/ f = "description")
                 THEN r.payload[f] ELSE old[f]]
  BY <1>1 DEF ModelCopy
<1> HIDE DEF new
<1>4. Updated(old, r, n) = [new EXCEPT !["updated_at"] = n]
  BY DEF new, data, Updated
<1> QED
  BY <1>2, <1>3, <1>4 DEF Store!Patched

(* An attempt is a call and a number.                                      *)
LEMMA AttemptParts ==
  /\ \A a \in Attempts : /\ a[1] \in Calls /\ a[2] \in 1..MaxRetries
                         /\ a = <<a[1], a[2]>>
  /\ \A c \in Calls, k \in 1..MaxRetries : <<c, k>> \in Attempts
BY DEF Attempts

-----------------------------------------------------------------------------
(* One attempt carried out                                                 *)

(* An answer that the store as it is has for request r.                    *)
Found(r, answer) ==
  \/ /\ r.op = "list"
     /\ answer = [status |-> 200,
                  rows |-> {stored[id] : id \in FlowIds} \ {None}]
  \/ /\ r.op \in {"get", "update", "delete"} /\ stored[r.flow_id] = None
     /\ answer = [status |-> 404, rows |-> {}]
  \/ /\ r.op = "get" /\ stored[r.flow_id] # None
     /\ answer = [status |-> 200, rows |-> {stored[r.flow_id]}]

(* The effect of request r on the store, and the answer to it.             *)
Created(r, answer) ==
  /\ r.op = "create"
  /\ \E id \in FlowIds \ used, now \in 0..clock :
       /\ stored' = [stored EXCEPT ![id] = NewFlow(id, r, now)]
       /\ used' = used \cup {id}
       /\ NewFlow(id, r, now) \in FlowResponse
       /\ answer = [status |-> 201, rows |-> {NewFlow(id, r, now)}]

Rewritten(r, answer) ==
  /\ r.op = "update" /\ stored[r.flow_id] # None /\ used' = used
  /\ \E now \in 0..clock :
       LET new == Updated(stored[r.flow_id], r, now)
       IN  /\ stored' = [stored EXCEPT ![r.flow_id] = new]
           /\ new \in FlowResponse
           /\ answer = [status |-> 200, rows |-> {new}]

Deleted(r, answer) ==
  /\ r.op = "delete" /\ stored[r.flow_id] # None /\ used' = used
  /\ stored' = [stored EXCEPT ![r.flow_id] = None]
  /\ answer = [status |-> 204, rows |-> {}]

Changed(r, answer) ==
  Created(r, answer) \/ Rewritten(r, answer) \/ Deleted(r, answer)

(* An attempt that is carried out gets an answer, and has the effect of    *)
(* its call unless the answer is a 404 or tells only what was found.       *)
LEMMA CarriedOut ==
  ASSUME IInv, NEW a \in Attempts, CarryOut(a)
  PROVE  /\ req[a] # None /\ req[a] = request[a[1]] /\ res[a] = None
         /\ UNCHANGED <<clock, req, caller>>
         /\ \E answer \in Replies :
              /\ res' = [res EXCEPT ![a] = answer]
              /\ \/ /\ Found(request[a[1]], answer)
                    /\ UNCHANGED <<stored, used, effect>>
                 \/ /\ Changed(request[a[1]], answer)
                    /\ effect' = [effect EXCEPT ![a[1]] = TRUE]
<1> DEFINE c == a[1]
           r == request[c]
           Outcome == \E answer \in Replies :
             /\ res' = [res EXCEPT ![a] = answer]
             /\ \/ Found(r, answer) /\ UNCHANGED <<stored, used, effect>>
                \/ /\ Changed(r, answer)
                   /\ effect' = [effect EXCEPT ![c] = TRUE]
<1> USE NoneAssumption DEF Store!Pending, Store!Answer
<1>1. /\ req[a] # None /\ res[a] = None /\ UNCHANGED <<clock, req, caller>>
      /\ effect' = [effect EXCEPT ![c] =
                      @ \/ /\ req[a].op \in {"create", "update", "delete"}
                           /\ res'[a].status # 404]
  BY DEF CarryOut, Store!List, Store!Get, Store!Create, Store!Update,
         Store!Delete, Store!NotFound
<1>2. /\ c \in Calls /\ req[a] = r /\ r \in Requests
      /\ effect[c] \in BOOLEAN
      /\ stored \in [FlowIds -> FlowResponse \cup {None}]
      /\ res \in [Attempts -> Replies \cup {None}]
      /\ effect \in [Calls -> BOOLEAN] /\ clock \in Nat
  BY <1>1, AttemptParts DEF IInv, TypeInv, SentInv
<1> DEFINE mutates == /\ req[a].op \in {"create", "update", "delete"}
                      /\ res'[a].status # 404
<1>3. effect' = IF mutates THEN [effect EXCEPT ![c] = TRUE] ELSE effect
  <2>1. effect' = [effect EXCEPT ![c] = effect[c] \/ mutates]
    BY <1>1
  <2> HIDE DEF mutates
  <2>2. CASE mutates
    <3>1. (effect[c] \/ mutates) = TRUE
      BY <2>2
    <3> QED
      BY <2>1, <2>2, <3>1
  <2>3. CASE ~mutates
    <3>1. (effect[c] \/ mutates) = effect[c]
      BY <1>2, <2>3
    <3>2. effect' = [effect EXCEPT ![c] = effect[c]]
      BY <2>1, <3>1
    <3> QED
      BY <1>2, <2>3, <3>2
  <2> QED
    BY <2>2, <2>3
<1>4. ASSUME Store!List(a) PROVE Outcome
  <2> DEFINE answer == [status |-> 200,
                        rows |-> {stored[id] : id \in FlowIds} \ {None}]
  <2>1. {stored[id] : id \in Store!Live}
          = {stored[id] : id \in FlowIds} \ {None}
    BY DEF Store!Live
  <2>2. r.op = "list" /\ Store!Answer(a, 200, answer.rows)
        /\ UNCHANGED <<stored, used>>
    BY <1>2, <1>4, <2>1 DEF Store!List
  <2>3. answer \in Replies
    BY <1>2 DEF Replies
  <2>4. res' = [res EXCEPT ![a] = answer] /\ Found(r, answer)
    BY <2>2 DEF Found
  <2>5. effect' = effect
    BY <1>2, <1>3, <2>2
  <2> HIDE DEF answer
  <2> QED
    BY <2>2, <2>3, <2>4, <2>5
<1>5. ASSUME Store!NotFound(a), r.op \in {"get", "update", "delete"}
      PROVE  Outcome
  <2>1. /\ stored[r.flow_id] = None /\ Store!Answer(a, 404, {})
        /\ UNCHANGED <<stored, used>>
    BY <1>2, <1>5, RequestFields DEF Store!NotFound, Store!Live
  <2>2. [status |-> 404, rows |-> {}] \in Replies
    BY DEF Replies
  <2> DEFINE answer == [status |-> 404, rows |-> {}]
  <2>3. res' = [res EXCEPT ![a] = answer] /\ Found(r, answer)
    BY <1>5, <2>1 DEF Found
  <2>4. effect' = effect
    <3>1. res'[a].status = 404
      BY <1>2, <2>3
    <3> QED
      BY <1>3, <3>1
  <2> HIDE DEF answer
  <2> QED
    BY <2>1, <2>2, <2>3, <2>4 DEF answer
<1>6. ASSUME Store!Get(a), ~Store!NotFound(a) PROVE Outcome
  <2> DEFINE answer == [status |-> 200, rows |-> {stored[r.flow_id]}]
  <2>1. /\ r.op = "get" /\ r.flow_id \in FlowIds /\ stored[r.flow_id] # None
        /\ Store!Answer(a, 200, answer.rows)
        /\ UNCHANGED <<stored, used>>
    BY <1>2, <1>6 DEF Store!Get, Store!Live
  <2>2. answer \in Replies
    BY <1>2, <2>1 DEF Replies
  <2>3. res' = [res EXCEPT ![a] = answer] /\ Found(r, answer)
    BY <2>1 DEF Found
  <2>4. effect' = effect
    BY <1>2, <1>3, <2>1
  <2> HIDE DEF answer
  <2> QED
    BY <2>1, <2>2, <2>3, <2>4
<1>7. ASSUME Store!Create(a) PROVE Outcome
  <2>1. r.op = "create"
    BY <1>2, <1>7 DEF Store!Create
  <2>2. PICK id \in FlowIds \ used, now \in 0..clock :
          /\ used' = used \cup {id}
          /\ stored' = [stored EXCEPT ![id] = NewFlow(id, r, now)]
          /\ Store!Answer(a, 201, {NewFlow(id, r, now)})
    BY <1>2, <1>7, StoreApi DEF Store!Create
  <2> DEFINE new == NewFlow(id, r, now)
  <2>3. new \in FlowResponse
    BY <1>2, <2>1, NewRow
  <2> DEFINE answer == [status |-> 201, rows |-> {new}]
  <2>4. Created(r, answer) /\ res' = [res EXCEPT ![a] = answer]
    BY <2>1, <2>2, <2>3 DEF Created
  <2> HIDE DEF new
  <2>5. answer \in Replies /\ answer.status = 201
    BY <2>3 DEF Replies
  <2> HIDE DEF answer
  <2>6. effect' = [effect EXCEPT ![c] = TRUE]
    BY <1>2, <1>3, <2>1, <2>4, <2>5
  <2> QED
    BY <2>4, <2>5, <2>6 DEF Changed
<1>8. ASSUME Store!Update(a), ~Store!NotFound(a) PROVE Outcome
  <2>1. /\ r.op = "update" /\ r.flow_id \in FlowIds /\ used' = used
        /\ stored[r.flow_id] # None
    BY <1>2, <1>8 DEF Store!Update, Store!Live
  <2>2. PICK now \in stored[r.flow_id].updated_at..clock :
          LET new == Store!Patched(stored[r.flow_id], r.payload, now)
          IN  /\ stored' = [stored EXCEPT ![r.flow_id] = new]
              /\ Store!Answer(a, 200, {new})
    BY <1>2, <1>8 DEF Store!Update
  <2>3. stored[r.flow_id] \in FlowResponse
    BY <1>2, <2>1
  <2>4. now \in 0..clock /\ now \in Nat
    BY <1>2, <2>3 DEF FlowResponse
  <2> DEFINE new == Updated(stored[r.flow_id], r, now)
  <2>5. /\ stored' = [stored EXCEPT ![r.flow_id] = new]
        /\ Store!Answer(a, 200, {new})
    BY <1>2, <2>1, <2>2, <2>3, <2>4, PatchedIsUpdated
  <2>6. new \in FlowResponse
    BY <1>2, <2>1, <2>3, <2>4, UpdatedRow
  <2> DEFINE answer == [status |-> 200, rows |-> {new}]
  <2>7. Rewritten(r, answer) /\ res' = [res EXCEPT ![a] = answer]
    BY <2>1, <2>4, <2>5, <2>6 DEF Rewritten
  <2> HIDE DEF new
  <2>8. answer \in Replies /\ answer.status = 200
    BY <2>6 DEF Replies
  <2> HIDE DEF answer
  <2>9. effect' = [effect EXCEPT ![c] = TRUE]
    BY <1>2, <1>3, <2>1, <2>7, <2>8
  <2> QED
    BY <2>7, <2>8, <2>9 DEF Changed
<1>9. ASSUME Store!Delete(a), ~Store!NotFound(a) PROVE Outcome
  <2>1. /\ r.op = "delete" /\ stored[r.flow_id] # None
        /\ stored' = [stored EXCEPT ![r.flow_id] = None]
        /\ Store!Answer(a, 204, {}) /\ used' = used
    BY <1>2, <1>9 DEF Store!Delete, Store!Live
  <2> DEFINE answer == [status |-> 204, rows |-> {}]
  <2>2. answer \in Replies /\ answer.status = 204
    BY DEF Replies
  <2>3. Deleted(r, answer) /\ res' = [res EXCEPT ![a] = answer]
    BY <2>1 DEF Deleted
  <2> HIDE DEF answer
  <2>4. effect' = [effect EXCEPT ![c] = TRUE]
    BY <1>2, <1>3, <2>1, <2>2, <2>3
  <2> QED
    BY <2>2, <2>3, <2>4 DEF Changed
<1>10. Outcome
  <2>1. CASE Store!NotFound(a)
    <3>1. CASE r.op \in {"get", "update", "delete"}
      BY <1>5, <2>1, <3>1
    <3>2. CASE r.op \notin {"get", "update", "delete"}
      BY <1>2, <1>4, <1>7, <3>2
         DEF CarryOut, Store!Get, Store!Update, Store!Delete
    <3> QED
      BY <3>1, <3>2
  <2>2. CASE ~Store!NotFound(a)
    BY <1>4, <1>6, <1>7, <1>8, <1>9, <2>2 DEF CarryOut
  <2> QED
    BY <2>1, <2>2
<1> QED
  BY <1>1, <1>2, <1>10

-----------------------------------------------------------------------------
(* The invariant is inductive                                              *)

(* A step of the client for one call leaves the others alone.              *)
LEMMA OwnStep ==
  ASSUME TypeInv, NEW c \in Calls,
         Start(c) \/ Send(c) \/ Fail(c) \/ Retry(c)
  PROVE  /\ UNCHANGED <<stored, used, clock, res, effect>>
         /\ \A d \in Calls \ {c} :
              /\ pc'[d] = pc[d] /\ request'[d] = request[d]
              /\ attempt'[d] = attempt[d] /\ reply'[d] = reply[d]
         /\ \A a \in Attempts : a[1] # c => req'[a] = req[a]
BY DEF TypeInv, Start, Send, Fail, Retry, service

(* A call is made.                                                         *)
LEMMA StartStep ==
  ASSUME IInv, NEW c \in Calls, Start(c)
  PROVE  IInv'
<1>1. PICK r \in Requests :
        /\ r.op \in {"get", "update", "delete"} => r.flow_id \in used
        /\ request' = [request EXCEPT ![c] = r]
  BY DEF Start
<1>2. /\ pc[c] = "idle" /\ pc' = [pc EXCEPT ![c] = "sending"]
      /\ attempt' = [attempt EXCEPT ![c] = 1]
      /\ UNCHANGED <<stored, used, clock, req, res, reply, effect>>
  BY DEF Start, service
<1>3. TypeInv'
  BY <1>1, <1>2 DEF IInv, TypeInv
<1>4. /\ pc'[c] = "sending" /\ request'[c] = r /\ attempt'[c] = 1 /\ r # None
  BY <1>1, <1>2, NoneAssumption DEF IInv, TypeInv
<1>5. ~effect[c] /\ \A a \in Attempts : a[1] = c => req[a] = None
  BY <1>2 DEF IInv, SentInv, EffectInv
<1>6. CallInv'
  BY <1>1, <1>2, <1>4, OwnStep, RetryAssumption DEF IInv, CallInv
<1>7. SentInv'
  BY <1>2, <1>5, OwnStep, AttemptParts DEF IInv, SentInv
<1>8. EffectInv'
  BY <1>2, <1>5, OwnStep DEF IInv, EffectInv
<1> QED
  BY <1>3, <1>6, <1>7, <1>8 DEF IInv

(* An attempt is sent: it has not been before.                             *)
LEMMA SendStep ==
  ASSUME IInv, NEW c \in Calls, Send(c)
  PROVE  IInv' /\ res[<<c, attempt[c]>>] = None
<1> DEFINE a == <<c, attempt[c]>>
<1>1. /\ pc[c] = "sending" /\ pc' = [pc EXCEPT ![c] = "waiting"]
      /\ req' = [req EXCEPT ![a] = request[c]]
      /\ UNCHANGED <<stored, used, clock, res, request, attempt, reply, effect>>
  BY DEF Send
<1>2. /\ a \in Attempts /\ a[1] = c /\ a[2] = attempt[c]
      /\ request[c] \in Requests /\ request[c] # None
      /\ \A b \in Attempts : b # a /\ b[1] = c => b[2] # attempt[c]
  BY <1>1, AttemptParts DEF IInv, TypeInv, CallInv
<1> HIDE DEF a
<1>3. req[a] = None /\ res[a] = None
  BY <1>1, <1>2 DEF IInv, SentInv
<1>4. /\ pc'[c] = "waiting" /\ req'[a] = request[c]
      /\ \A b \in Attempts : b # a => req'[b] = req[b]
  BY <1>1, <1>2 DEF IInv, TypeInv
<1>5. TypeInv'
  BY <1>1, <1>2 DEF IInv, TypeInv
<1>6. CallInv'
  BY <1>1, <1>4, OwnStep DEF IInv, CallInv
<1>7. SentInv'
  <2> SUFFICES ASSUME NEW b \in Attempts
               PROVE  /\ req'[b] # None =>
                           /\ pc'[b[1]] # "idle" /\ req'[b] = request'[b[1]]
                           /\ b[2] <= attempt'[b[1]]
                           /\ b[2] = attempt'[b[1]] => pc'[b[1]] # "sending"
                      /\ res'[b] # None => req'[b] # None
    BY DEF SentInv
  <2>1. CASE b = a
    <3>1. attempt[c] \in Nat /\ attempt' = attempt /\ request' = request
      BY <1>1 DEF IInv, TypeInv
    <3> QED
      BY <1>2, <1>3, <1>4, <2>1, <3>1
  <2>2. CASE b # a
    <3>1. b[1] \in Calls /\ (pc'[b[1]] = pc[b[1]] \/ b[1] = c)
      BY AttemptParts, OwnStep DEF IInv
    <3> QED
      BY <1>1, <1>4, <2>2, <3>1 DEF IInv, SentInv
  <2> QED
    BY <2>1, <2>2
<1>8. EffectInv'
  <2> SUFFICES ASSUME NEW d \in Calls, effect'[d]
               PROVE  /\ pc'[d] # "idle"
                      /\ request'[d].op \in {"create", "update", "delete"}
                      /\ request'[d].op = "delete" =>
                           stored'[request'[d].flow_id] = None
                      /\ request'[d].op # "delete" =>
                           /\ pc'[d] # "sending"
                           /\ \A b \in Attempts : b[1] = d /\ req'[b] # None
                                => res'[b] # None
    BY DEF EffectInv
  <2>1. effect[d]
    BY <1>1
  <2>2. d = c => request[d].op = "delete"
    BY <1>1, <2>1 DEF IInv, EffectInv
  <2>3. CASE d = c
    BY <1>1, <1>4, <2>1, <2>2, <2>3 DEF IInv, EffectInv
  <2>4. CASE d # c
    BY <1>1, <1>2, <1>4, <2>1, <2>4, OwnStep DEF IInv, EffectInv
  <2> QED
    BY <2>3, <2>4
<1> QED
  BY <1>3, <1>5, <1>6, <1>7, <1>8 DEF IInv, a

(* An attempt fails, and the call with it unless it is one that is retried. *)
LEMMA FailStep ==
  ASSUME IInv, NEW c \in Calls, Fail(c) \/ Retry(c)
  PROVE  IInv'
<1>1. /\ UNCHANGED <<stored, used, clock, req, res, request, effect>>
      /\ pc[c] \in {"sending", "waiting", "backoff"}
      /\ pc'[c] \in {"backoff", "done", "sending"}
      /\ pc' = [pc EXCEPT ![c] = pc'[c]]
      /\ request[c] # None /\ request[c] \in Requests
      /\ attempt[c] \in 1..MaxRetries
  BY DEF Fail, Retry, service, IInv, TypeInv, CallInv
<1>2. \/ /\ attempt' = attempt
         /\ \/ /\ pc'[c] = "backoff" /\ reply' = reply
               /\ Retries(request[c]) /\ attempt[c] < MaxRetries
            \/ /\ pc'[c] = "done"
               /\ \E e \in {Timeout, Unavailable} :
                    reply' = [reply EXCEPT ![c] = e]
      \/ /\ pc[c] = "backoff" /\ pc'[c] = "sending" /\ reply' = reply
         /\ attempt' = [attempt EXCEPT ![c] = attempt[c] + 1]
  <2>1. CASE Fail(c)
    BY <2>1 DEF Fail, MapTransportError, IInv, TypeInv
  <2>2. CASE Retry(c)
    BY <2>2 DEF Retry, IInv, TypeInv
  <2> QED
    BY <2>1, <2>2
<1>3. TypeInv'
  <2>1. /\ reply' \in [Calls -> Replies \cup {Timeout, Unavailable, None}]
        /\ attempt' \in [Calls -> Nat]
    BY <1>1, <1>2 DEF IInv, TypeInv
  <2> QED
    BY <1>1, <2>1 DEF IInv, TypeInv
<1>4. attempt'[c] = attempt[c] \/ /\ attempt'[c] = attempt[c] + 1
                                  /\ pc[c] = "backoff"
  BY <1>2 DEF IInv, TypeInv
<1>5. CallInv'
  <2>1. /\ attempt'[c] \in 1..MaxRetries
        /\ attempt'[c] # 1 => Retries(request[c])
    BY <1>1, <1>4, RetryAssumption DEF IInv, CallInv
  <2>2. pc'[c] # "done" => reply'[c] = None
    BY <1>1, <1>2 DEF IInv, CallInv
  <2>3. pc'[c] = "backoff" => /\ Retries(request[c])
                              /\ attempt'[c] < MaxRetries
    BY <1>1, <1>2
  <2> QED
    BY <1>1, <2>1, <2>2, <2>3, OwnStep DEF IInv, CallInv
<1>6. SentInv'
  <2> SUFFICES ASSUME NEW b \in Attempts, req[b] # None
               PROVE  /\ pc'[b[1]] # "idle" /\ req[b] = request[b[1]]
                      /\ b[2] <= attempt'[b[1]]
                      /\ b[2] = attempt'[b[1]] => pc'[b[1]] # "sending"
    BY <1>1 DEF IInv, SentInv
  <2>1. /\ b[1] \in Calls /\ b[2] \in 1..MaxRetries
        /\ attempt[b[1]] \in Nat /\ b[2] <= attempt[b[1]]
        /\ req[b] = request[b[1]] /\ pc[b[1]] # "idle"
    BY AttemptParts DEF IInv, TypeInv, SentInv
  <2>2. CASE b[1] = c
    BY <1>1, <1>2, <1>4, <2>1, <2>2, RetryAssumption DEF IInv, TypeInv
  <2>3. CASE b[1] # c
    BY <2>1, <2>3, OwnStep DEF IInv, SentInv
  <2> QED
    BY <2>2, <2>3
<1>7. EffectInv'
  <2>1. pc'[c] = "sending" => Retries(request[c])
    BY <1>2 DEF IInv, CallInv
  <2> QED
    BY <1>1, <2>1, OwnStep DEF IInv, EffectInv, Retries
<1> QED
  BY <1>3, <1>5, <1>6, <1>7 DEF IInv

(* An answer arrives, and the service is done with its attempt.            *)
LEMMA DeliverStep ==
  ASSUME IInv, NEW a \in Attempts, Deliver(a)
  PROVE  IInv'
<1>1. /\ req' = [req EXCEPT ![a] = None] /\ res' = [res EXCEPT ![a] = None]
      /\ res[a] # None /\ res[a] \in Replies
      /\ UNCHANGED <<stored, used, clock, request, attempt, effect>>
      /\ \/ /\ WaitsFor(a) /\ pc' = [pc EXCEPT ![a[1]] = "done"]
            /\ reply' = [reply EXCEPT ![a[1]] = res[a]]
         \/ UNCHANGED <<pc, reply>>
  BY DEF Deliver, Store!Return, IInv, TypeInv
<1>2. /\ \A b \in Attempts : b # a => req'[b] = req[b] /\ res'[b] = res[b]
      /\ req'[a] = None /\ res'[a] = None
      /\ a[1] \in Calls
  BY <1>1, AttemptParts DEF IInv, TypeInv
<1>3. TypeInv'
  BY <1>1, <1>2 DEF IInv, TypeInv
<1>4. \A d \in Calls :
        /\ pc'[d] = "idle" <=> pc[d] = "idle"
        /\ pc'[d] = "backoff" => pc[d] = "backoff"
        /\ pc'[d] = "sending" <=> pc[d] = "sending"
        /\ pc'[d] # "done" => pc[d] # "done" /\ reply'[d] = reply[d]
  BY <1>1, <1>2 DEF WaitsFor, IInv, TypeInv
<1>5. CallInv'
  BY <1>1, <1>4 DEF IInv, CallInv
<1>6. SentInv'
  BY <1>1, <1>2, <1>4, AttemptParts DEF IInv, SentInv
<1>7. EffectInv'
  BY <1>1, <1>2, <1>4 DEF IInv, EffectInv
<1> QED
  BY <1>3, <1>5, <1>6, <1>7 DEF IInv

(* A call has its effect once: what changes the store is an attempt of a   *)
(* call that has not.                                                      *)
LEMMA EffectOnce ==
  ASSUME IInv, NEW a \in Attempts, req[a] # None, res[a] = None,
         NEW answer, Changed(request[a[1]], answer)
  PROVE  ~effect[a[1]]
BY AttemptParts
   DEF IInv, SentInv, EffectInv, Changed, Created, Rewritten, Deleted

(* The store keeps its shape, an id in use stays in use, and a flow that   *)
(* was deleted is not stored again.                                        *)
LEMMA StoreKept ==
  ASSUME IInv, NEW r \in Requests, NEW answer, Changed(r, answer)
  PROVE  /\ stored' \in [FlowIds -> FlowResponse \cup {None}]
         /\ used' \in SUBSET FlowIds /\ used \subseteq used'
         /\ \A id \in used : stored[id] = None => stored'[id] = None
         /\ r.op \in {"create", "update", "delete"}
         /\ r.op = "delete" => stored'[r.flow_id] = None
<1>1. /\ stored \in [FlowIds -> FlowResponse \cup {None}]
      /\ used \in SUBSET FlowIds
  BY DEF IInv, TypeInv
<1>2. CASE Created(r, answer)
  BY <1>1, <1>2 DEF Created
<1>3. CASE Rewritten(r, answer)
  <2>1. /\ r.op = "update" /\ stored[r.flow_id] # None /\ used' = used
        /\ \E new \in FlowResponse :
             stored' = [stored EXCEPT ![r.flow_id] = new]
    BY <1>3 DEF Rewritten
  <2> QED
    BY <1>1, <2>1
<1>4. CASE Deleted(r, answer)
  BY <1>1, <1>4, RequestFields DEF Deleted
<1> QED
  BY <1>2, <1>3, <1>4 DEF Changed

(* An attempt is carried out.                                              *)
LEMMA CarryOutStep ==
  ASSUME IInv, NEW a \in Attempts, CarryOut(a)
  PROVE  IInv'
<1> DEFINE c == a[1]
           r == request[c]
<1>1. PICK answer \in Replies :
        /\ res' = [res EXCEPT ![a] = answer]
        /\ \/ Found(r, answer) /\ UNCHANGED <<stored, used, effect>>
           \/ Changed(r, answer) /\ effect' = [effect EXCEPT ![c] = TRUE]
  BY CarriedOut
<1>2. /\ req[a] # None /\ req[a] = r /\ res[a] = None
      /\ UNCHANGED <<clock, req, request, pc, attempt, reply>>
      /\ c \in Calls /\ a[2] \in 1..MaxRetries /\ r \in Requests
  BY CarriedOut, AttemptParts DEF caller, IInv, TypeInv
<1>3. /\ pc[c] # "idle" /\ a[2] <= attempt[c]
      /\ a[2] = attempt[c] => pc[c] # "sending"
  BY <1>2 DEF IInv, SentInv
<1>4. /\ stored' \in [FlowIds -> FlowResponse \cup {None}]
      /\ used' \in SUBSET FlowIds /\ used \subseteq used'
      /\ \A id \in used : stored[id] = None => stored'[id] = None
  BY <1>1, <1>2, StoreKept DEF IInv, TypeInv
<1>5. TypeInv'
  BY <1>1, <1>2, <1>4 DEF IInv, TypeInv
<1>6. CallInv'
  BY <1>2, <1>4 DEF IInv, CallInv
<1>7. res'[a] = answer /\ \A b \in Attempts : b # a => res'[b] = res[b]
  BY <1>1 DEF IInv, TypeInv
<1>8. SentInv'
  BY <1>2, <1>7 DEF IInv, SentInv
<1>9. EffectInv'
  <2> SUFFICES ASSUME NEW d \in Calls, effect'[d]
               PROVE  /\ pc[d] # "idle"
                      /\ request[d].op \in {"create", "update", "delete"}
                      /\ request[d].op = "delete" =>
                           stored'[request[d].flow_id] = None
                      /\ request[d].op # "delete" =>
                           /\ pc[d] # "sending"
                           /\ \A b \in Attempts :
                                b[1] = d /\ req[b] # None => res'[b] # None
    BY <1>2 DEF EffectInv
  <2>1. answer # None
    BY NoneAssumption
  <2>2. CASE effect[d]
    <3>1. request[d].op = "delete" => request[d].flow_id \in used
      BY <2>2 DEF IInv, CallInv, EffectInv
    <3> QED
      BY <1>4, <1>7, <2>1, <2>2, <3>1 DEF IInv, EffectInv
  <2>3. CASE ~effect[d]
    <3>1. d = c /\ Changed(r, answer)
      BY <1>1, <2>3 DEF IInv, TypeInv
    <3>2. /\ r.op \in {"create", "update", "delete"}
          /\ r.op = "delete" => stored'[r.flow_id] = None
      BY <1>2, <3>1, StoreKept
    <3>3. r.op # "delete" => attempt[c] = 1
      BY <1>2, <1>3, <3>2 DEF IInv, CallInv, Retries
    <3>4. r.op # "delete" => a[2] = 1 /\ pc[c] # "sending"
      BY <1>2, <1>3, <3>3
    <3>5. ASSUME NEW b \in Attempts, b[1] = c, req[b] # None,
                 r.op # "delete"
          PROVE  b = a
      <4>1. b[2] = 1
        BY <3>3, <3>5, AttemptParts DEF IInv, SentInv
      <4> QED
        BY <3>4, <3>5, <4>1, AttemptParts
    <3> QED
      BY <1>3, <1>7, <2>1, <3>1, <3>2, <3>4, <3>5
  <2> QED
    BY <2>2, <2>3
<1> QED
  BY <1>5, <1>6, <1>8, <1>9 DEF IInv

(* The inductive invariant holds in every reachable state.                 *)
THEOREM Invariance == Spec => []IInv
<1>1. Init => IInv
  BY NoneAssumption DEF Init, Store!Init, IInv, TypeInv, CallInv, SentInv,
     EffectInv, Attempts
<1>2. IInv /\ [Next]_vars => IInv'
  <2> SUFFICES ASSUME IInv, [Next]_vars PROVE IInv'
    OBVIOUS
  <2>1. CASE Tick
    BY <2>1 DEF Tick, Store!Tick, caller, IInv, TypeInv, CallInv, SentInv,
       EffectInv
  <2>2. CASE UNCHANGED vars
    BY <2>2 DEF vars, service, caller, IInv, TypeInv, CallInv, SentInv,
       EffectInv
  <2> QED
    BY <2>1, <2>2, StartStep, SendStep, FailStep, DeliverStep, CarryOutStep
       DEF Next
<1> QED
  BY <1>1, <1>2, PTL DEF Spec

(* The store keeps whole flows, the client asks for what requests may ask, *)
(* and returns what the service answered or the error of a lost attempt.   *)
THEOREM TypeCorrect == Spec => []TypeInv
<1>1. IInv => TypeInv
  BY DEF IInv
<1> QED
  BY <1>1, Invariance, PTL

(* A call that has had its effect cannot have it again, whatever attempts  *)
(* of it are still under way.                                              *)
THEOREM EffectsSettle == Spec => []EffectInv
<1>1. IInv => EffectInv
  BY DEF IInv
<1> QED
  BY <1>1, Invariance, PTL

-----------------------------------------------------------------------------
(* What a caller sees                                                      *)

(* The copies of the operators that RemoteFlows takes from FlowApi and     *)
(* ServiceErrors.                                                          *)
LEMMA RemoteApi ==
  /\ Remote!Requests = Requests
  /\ Remote!Timeout = Timeout /\ Remote!Unavailable = Unavailable
  /\ \A id, r, n : /\ Remote!NewFlow(id, r, n) = NewFlow(id, r, n)
                   /\ Remote!Updated(id, r, n) = Updated(id, r, n)
<1>1. \A p : Remote!PartialUpdateDict(p, Remote!FlowFields)
               = PartialUpdateDict(p, FlowFields)
  BY DEF Remote!PartialUpdateDict, PartialUpdateDict, Remote!FlowFields,
     FlowFields, Remote!TargetNullable, TargetNullable, Remote!IsOptional,
     IsOptional, Remote!Restrict, Restrict
<1>2. \A row, r, n : Remote!Updated(row, r, n) = Updated(row, r, n)
  <2>1. \A row, u : Remote!ModelCopy(row, u) = ModelCopy(row, u)
    BY DEF Remote!ModelCopy, ModelCopy
  <2> QED
    BY <1>1, <2>1, Zenon DEF Remote!Updated, Updated
<1>3. Remote!Requests = Requests
  BY DEF Remote!Requests, Requests
<1>4. \A id, r, n : Remote!NewFlow(id, r, n) = NewFlow(id, r, n)
  BY DEF Remote!NewFlow, NewFlow
<1>5. Remote!Timeout = Timeout /\ Remote!Unavailable = Unavailable
  BY DEF Remote!Timeout, Timeout, Remote!Unavailable, Unavailable,
     Remote!Error, Error
<1> QED
  BY <1>2, <1>3, <1>4, <1>5

(* The answer a call would get now.                                        *)
Outcome ==
  [c \in Calls |-> IF pc[c] = "waiting" THEN res[<<c, attempt[c]>>] ELSE None]

(* A step of a call changes the outcome of no other call.                  *)
LEMMA OutcomeStep ==
  ASSUME TypeInv, NEW c \in Calls,
         \A d \in Calls \ {c} :
           /\ pc'[d] = pc[d] /\ attempt'[d] = attempt[d]
           /\ res'[<<d, attempt[d]>>] = res[<<d, attempt[d]>>]
  PROVE  /\ Outcome'[c] = Outcome[c] => Outcome' = Outcome
         /\ Outcome' = [Outcome EXCEPT ![c] = Outcome'[c]]
BY DEF Outcome

(* Making a call, and sending an attempt of it.                            *)
LEMMA CallIsRemote ==
  ASSUME IInv, NEW c \in Calls, Start(c) \/ Send(c) \/ Retry(c)
  PROVE  Remote!Call(c) \/ UNCHANGED Remote!vars
<1>1. /\ UNCHANGED <<stored, used, clock, res, effect, reply>>
      /\ pc[c] # "waiting" /\ attempt \in [Calls -> Nat]
  BY DEF Start, Send, Retry, service, IInv, TypeInv
<1>2. Outcome' = Outcome
  <2>1. Outcome[c] = None
    BY <1>1 DEF Outcome
  <2>2. Outcome'[c] = None
    <3>1. CASE Send(c)
      BY <1>1, <3>1, SendStep DEF Send, Outcome
    <3>2. CASE Start(c) \/ Retry(c)
      <4>1. pc'[c] = "sending"
        BY <3>2 DEF Start, Retry, IInv, TypeInv
      <4> QED
        BY <4>1 DEF Outcome
    <3> QED
      BY <3>1, <3>2
  <2> QED
    BY <1>1, <2>1, <2>2, OwnStep, OutcomeStep DEF IInv
<1>3. CASE Start(c)
  <2>1. request[c] = None /\ \E r \in Requests :
                               request' = [request EXCEPT ![c] = r]
    BY <1>3 DEF Start, IInv, CallInv
  <2> QED
    BY <1>1, <1>2, <2>1, RemoteApi DEF Remote!Call, Outcome
<1>4. CASE Send(c) \/ Retry(c)
  <2>1. request' = request
    BY <1>4 DEF Send, Retry
  <2> QED
    BY <1>1, <1>2, <2>1 DEF Remote!vars, Outcome
<1> QED
  BY <1>3, <1>4

(* An attempt fails: its answer is lost, and an error returned if it was   *)
(* the last one.                                                           *)
LEMMA FailIsRemote ==
  ASSUME IInv, NEW c \in Calls, Fail(c)
  PROVE  Remote!Lose(c) \/ Remote!Return(c) \/ UNCHANGED Remote!vars
<1>1. /\ UNCHANGED <<stored, used, clock, res, request, effect>>
      /\ pc[c] \in {"sending", "waiting"} /\ pc'[c] \in {"backoff", "done"}
      /\ \/ pc'[c] = "backoff" /\ reply' = reply
         \/ \E e \in {Timeout, Unavailable} : reply' = [reply EXCEPT ![c] = e]
  BY DEF Fail, service, IInv, TypeInv, MapTransportError
<1>2. Outcome'[c] = None
  BY <1>1 DEF Outcome
<1>3. /\ Outcome' = [Outcome EXCEPT ![c] = None]
      /\ Outcome[c] = None => Outcome' = Outcome
  BY <1>1, <1>2, OwnStep, OutcomeStep DEF IInv
<1>4. request[c] # None /\ reply[c] = None
  BY <1>1 DEF IInv, CallInv
<1>5. CASE reply' = reply
  BY <1>1, <1>3, <1>5 DEF Remote!Lose, Remote!vars, Outcome
<1>6. CASE \E e \in {Timeout, Unavailable} : reply' = [reply EXCEPT ![c] = e]
  BY <1>1, <1>3, <1>4, <1>6, RemoteApi DEF Remote!Return, Remote!Open, Outcome
<1> QED
  BY <1>1, <1>5, <1>6

(* An answer arrives: at the call that waits for it, or nowhere.           *)
LEMMA DeliverIsRemote ==
  ASSUME IInv, NEW a \in Attempts, Deliver(a)
  PROVE  Remote!Return(a[1]) \/ UNCHANGED Remote!vars
<1> DEFINE c == a[1]
<1>1. /\ res[a] # None /\ res' = [res EXCEPT ![a] = None]
      /\ UNCHANGED <<stored, used, clock, request, attempt, effect>>
      /\ c \in Calls /\ a = <<c, a[2]>>
  BY AttemptParts DEF Deliver, Store!Return
<1>2. \A d \in Calls \ {c} :
        /\ pc'[d] = pc[d] /\ attempt'[d] = attempt[d]
        /\ res'[<<d, attempt[d]>>] = res[<<d, attempt[d]>>]
  <2> SUFFICES ASSUME NEW d \in Calls \ {c}
               PROVE  /\ pc'[d] = pc[d] /\ attempt'[d] = attempt[d]
                      /\ res'[<<d, attempt[d]>>] = res[<<d, attempt[d]>>]
    OBVIOUS
  <2>1. <<d, attempt[d]>> # a
    BY <1>1
  <2> QED
    BY <1>1, <2>1 DEF Deliver, IInv, TypeInv
<1>3. CASE WaitsFor(a)
  <2>1. /\ pc[c] = "waiting" /\ a = <<c, attempt[c]>>
        /\ pc'[c] = "done" /\ reply' = [reply EXCEPT ![c] = res[a]]
    BY <1>1, <1>3 DEF Deliver, WaitsFor, IInv, TypeInv
  <2>2. Outcome[c] = res[a] /\ Outcome'[c] = None
    BY <1>1, <2>1 DEF Outcome
  <2>3. Outcome' = [Outcome EXCEPT ![c] = None]
    BY <1>1, <1>2, <2>2, OutcomeStep DEF IInv
  <2>4. request[c] # None /\ reply[c] = None
    BY <1>1, <2>1 DEF IInv, CallInv
  <2> QED
    BY <1>1, <2>1, <2>2, <2>3, <2>4
       DEF Remote!Return, Remote!Open, Outcome
<1>4. CASE ~WaitsFor(a)
  <2>1. pc' = pc /\ reply' = reply
    BY <1>4 DEF Deliver
  <2>2. Outcome'[c] = Outcome[c]
    BY <1>1, <1>4, <2>1 DEF Outcome, WaitsFor, IInv, TypeInv
  <2>3. Outcome' = Outcome
    BY <1>1, <1>2, <2>2, OutcomeStep DEF IInv
  <2> QED
    BY <1>1, <2>1, <2>3 DEF Remote!vars, Outcome
<1> QED
  BY <1>3, <1>4

(* The service carries an attempt out: the instant at which the call reads *)
(* or writes the store, whether its caller still waits for it or not.      *)
LEMMA CarryOutIsRemote ==
  ASSUME IInv, NEW a \in Attempts, CarryOut(a)
  PROVE  Remote!Read(a[1]) \/ Remote!Write(a[1]) \/ UNCHANGED Remote!vars
<1> DEFINE c == a[1]
           r == request[c]
<1>1. /\ req[a] # None /\ req[a] = r /\ res[a] = None
      /\ UNCHANGED <<clock, req, request, pc, attempt, reply>>
      /\ c \in Calls /\ a = <<c, a[2]>> /\ r \in Requests /\ r # None
      /\ stored \in [FlowIds -> FlowResponse \cup {None}]
      /\ res \in [Attempts -> Replies \cup {None}]
  BY CarriedOut, AttemptParts DEF caller, IInv, TypeInv
<1>2. PICK answer \in Replies :
        /\ res' = [res EXCEPT ![a] = answer]
        /\ \/ Found(r, answer) /\ UNCHANGED <<stored, used, effect>>
           \/ Changed(r, answer) /\ effect' = [effect EXCEPT ![c] = TRUE]
  BY CarriedOut
<1>3. \A d \in Calls \ {c} : <<d, attempt[d]>> # a
  BY <1>1
<1>4. \A d \in Calls \ {c} :
        /\ pc'[d] = pc[d] /\ attempt'[d] = attempt[d]
        /\ res'[<<d, attempt[d]>>] = res[<<d, attempt[d]>>]
  BY <1>1, <1>2, <1>3
<1>5. WaitsFor(a) => /\ Outcome' = [Outcome EXCEPT ![c] = answer]
                     /\ request[c] # None /\ reply[c] = None
  <2> SUFFICES ASSUME WaitsFor(a)
               PROVE  /\ Outcome' = [Outcome EXCEPT ![c] = answer]
                      /\ request[c] # None /\ reply[c] = None
    OBVIOUS
  <2>1. pc[c] = "waiting" /\ a = <<c, attempt[c]>>
    BY <1>1 DEF WaitsFor
  <2>2. Outcome'[c] = answer
    BY <1>1, <1>2, <2>1 DEF Outcome
  <2> QED
    BY <1>1, <1>4, <2>1, <2>2, OutcomeStep DEF IInv, CallInv
<1>6. ~WaitsFor(a) => Outcome' = Outcome
  <2> SUFFICES ASSUME ~WaitsFor(a) PROVE Outcome' = Outcome
    OBVIOUS
  <2>1. pc[c] # "waiting" \/ <<c, attempt[c]>> # a
    BY <1>1 DEF WaitsFor
  <2>2. Outcome'[c] = Outcome[c]
    BY <1>1, <1>2, <2>1 DEF Outcome
  <2> QED
    BY <1>1, <1>4, <2>2, OutcomeStep DEF IInv
<1>7. CASE Found(r, answer) /\ UNCHANGED <<stored, used, effect>>
  <2>1. CASE WaitsFor(a)
    <3>1. \/ /\ r.op = "list"
             /\ Remote!Answers(c, [status |-> 200,
                            rows |-> {stored[id] : id \in FlowIds} \ {None}])
          \/ /\ r.op \in {"get", "update", "delete"} /\ stored[r.flow_id] = None
             /\ Remote!Answers(c, [status |-> 404, rows |-> {}])
          \/ /\ r.op = "get" /\ stored[r.flow_id] # None
             /\ Remote!Answers(c, [status |-> 200,
                                    rows |-> {stored[r.flow_id]}])
      BY <1>5, <1>7, <2>1 DEF Found, Remote!Answers, Outcome
    <3> QED
      BY <1>1, <1>5, <1>7, <2>1, <3>1 DEF Remote!Read, Remote!Open
  <2>2. CASE ~WaitsFor(a)
    BY <1>1, <1>6, <1>7, <2>2 DEF Remote!vars, Outcome
  <2> QED
    BY <2>1, <2>2
<1>8. CASE Changed(r, answer) /\ effect' = [effect EXCEPT ![c] = TRUE]
  <2>1. ~effect[c]
    BY <1>1, <1>2, <1>8, EffectOnce
  <2>2. \A status, rows :
          answer = [status |-> status, rows |-> rows] =>
            Remote!Affect(c, status, rows)
    BY <1>1, <1>5, <1>6, <1>8
       DEF Remote!Affect, Remote!Answers, Remote!Open, Outcome
  <2>3. CASE Created(r, answer)
    <3>1. PICK id \in FlowIds \ used, now \in 0..clock :
            /\ stored' = [stored EXCEPT ![id] = NewFlow(id, r, now)]
            /\ used' = used \cup {id}
            /\ answer = [status |-> 201, rows |-> {NewFlow(id, r, now)}]
      BY <2>3 DEF Created
    <3>2. Remote!Affect(c, 201, {NewFlow(id, r, now)})
      BY <2>2, <3>1
    <3>3. r.op = "create"
      BY <2>3 DEF Created
    <3> HIDE DEF r
    <3>4. Remote!Write(c)
      BY <1>1, <2>1, <3>1, <3>2, <3>3, RemoteApi DEF Remote!Write, r
    <3> QED
      BY <3>4
  <2>4. CASE Rewritten(r, answer)
    <3>1. PICK now \in 0..clock :
            LET new == Updated(stored[r.flow_id], r, now)
            IN  /\ stored' = [stored EXCEPT ![r.flow_id] = new]
                /\ answer = [status |-> 200, rows |-> {new}]
      BY <2>4 DEF Rewritten
    <3>2. Remote!Affect(c, 200, {Updated(stored[r.flow_id], r, now)})
      BY <2>2, <3>1
    <3>3. r.op = "update" /\ stored[r.flow_id] # None /\ used' = used
      BY <2>4 DEF Rewritten
    <3>4. Remote!Write(c)
      BY <1>1, <2>1, <3>1, <3>2, <3>3, RemoteApi DEF Remote!Write
    <3> QED
      BY <3>4
  <2>5. CASE Deleted(r, answer)
    <3>1. Remote!Affect(c, 204, {})
      BY <2>2, <2>5 DEF Deleted
    <3>2. Remote!Write(c)
      BY <1>1, <2>1, <2>5, <3>1 DEF Deleted, Remote!Write
    <3> QED
      BY <3>2
  <2> QED
    BY <1>8, <2>3, <2>4, <2>5 DEF Changed
<1> QED
  BY <1>2, <1>7, <1>8

(* FlowServiceClient and the flow service keep the promise of RemoteFlows: *)
(* each call has its effect once at most, whatever becomes of its          *)
(* attempts, and gets the answer of one of them or an error.               *)
THEOREM CallsAreRemote == Spec => ImplementsRemoteFlows
<1>1. Init => Remote!Init
  BY DEF Init, Store!Init, Remote!Init
<1>2. IInv /\ [Next]_vars => [Remote!Next]_(Remote!vars)
  <2> SUFFICES ASSUME IInv, [Next]_vars
               PROVE  Remote!Next \/ UNCHANGED Remote!vars
    OBVIOUS
  <2>1. CASE Tick
    BY <2>1 DEF Tick, Store!Tick, caller, Remote!Next, Remote!Tick
  <2>2. CASE UNCHANGED vars
    BY <2>2 DEF vars, service, caller, Remote!vars
  <2>3. ASSUME NEW c \in Calls, Start(c) \/ Send(c) \/ Fail(c) \/ Retry(c)
        PROVE  Remote!Next \/ UNCHANGED Remote!vars
    BY <2>3, CallIsRemote, FailIsRemote DEF Remote!Next
  <2>4. ASSUME NEW a \in Attempts, CarryOut(a) \/ Deliver(a)
        PROVE  Remote!Next \/ UNCHANGED Remote!vars
    <3>1. a[1] \in Calls
      BY AttemptParts
    <3> QED
      BY <2>4, <3>1, CarryOutIsRemote, DeliverIsRemote DEF Remote!Next
  <2> QED
    BY <2>1, <2>2, <2>3, <2>4 DEF Next
<1> QED
  BY <1>1, <1>2, Invariance, PTL DEF Spec, Remote!Spec, ImplementsRemoteFlows

-----------------------------------------------------------------------------
(* The service before its clients                                          *)

(* Where a call is, and which of its attempts is under way.                *)
ClientInv ==
  /\ pc \in [Calls -> {"idle", "sending", "waiting", "backoff", "done"}]
  /\ attempt \in [Calls -> Nat]
  /\ effect \in [Calls -> BOOLEAN]
  /\ \A c \in Calls :
       /\ pc[c] # "idle" => attempt[c] \in 1..MaxRetries
       /\ pc[c] = "backoff" => attempt[c] < MaxRetries

(* No call makes more attempts than MaxRetries, whatever its threads do.   *)
LEMMA ClientInvariance == SystemSpec => []ClientInv
<1> USE RetryAssumption DEF ClientInv, caller, Attempts
<1>1. SystemInit => ClientInv
  BY DEF SystemInit, Init
<1>2. ClientInv /\ [SystemNext]_systemVars => ClientInv'
  <2> SUFFICES ASSUME ClientInv, [SystemNext]_systemVars
               PROVE  ClientInv'
    OBVIOUS
  <2>1. ASSUME NEW c \in Calls, Start(c) PROVE ClientInv'
    BY <2>1 DEF Start
  <2>2. ASSUME NEW c \in Calls, Fail(c) PROVE ClientInv'
    BY <2>2 DEF Fail
  <2>3. ASSUME NEW c \in Calls, Retry(c) PROVE ClientInv'
    BY <2>3 DEF Retry
  <2>4. ASSUME NEW c \in Calls, Arrive(c) PROVE ClientInv'
    BY <2>4 DEF Arrive
  <2>5. ASSUME NEW a \in Attempts, Serve(a) PROVE ClientInv'
    BY <2>5 DEF Serve
  <2>6. ASSUME NEW a \in Attempts, Respond(a) PROVE ClientInv'
    BY <2>6 DEF Respond, WaitsFor
  <2>7. CASE UNCHANGED <<used, caller, effect>>
    BY <2>7
  <2>8. CASE UNCHANGED systemVars
    BY <2>8 DEF systemVars, vars, caller
  <2> QED
    BY <2>1, <2>2, <2>3, <2>4, <2>5, <2>6, <2>7, <2>8 DEF SystemNext, Client
<1> QED
  BY <1>1, <1>2, PTL DEF SystemSpec

(* FlowService with what is proved about it.                               *)
Proved == INSTANCE FlowServiceProofs WITH Threads <- Attempts,
            flows <- stored, pc <- point, row <- flow, now <- moment

(* The instances of FlowService are the same service.                      *)
LEMMA SameService ==
  /\ Proved!vars = Service!vars
  /\ Proved!Used = Service!Used
  /\ Proved!Init <=> Service!Init
  /\ Proved!Tick <=> Service!Tick
  /\ \A a : /\ Proved!Receive(a) <=> Service!Receive(a)
            /\ Proved!Respond(a) <=> Service!Respond(a)
            /\ Proved!Handler(a) <=> Service!Handler(a)
<1> USE DEF Proved!At, Service!At, Proved!Goto, Service!Goto, Proved!Held,
            Service!Held, Proved!Reply, Service!Reply, Proved!Raise,
            Service!Raise, Proved!KeyError, Service!KeyError
<1>1. Proved!vars = Service!vars
  BY DEF Proved!vars, Service!vars
<1>2. Proved!Used = Service!Used
  BY DEF Proved!Used, Service!Used, Proved!Unborn, Service!Unborn
<1>3. Proved!Init <=> Service!Init
  BY DEF Proved!Init, Service!Init
<1>4. Proved!Tick <=> Service!Tick
  BY DEF Proved!Tick, Service!Tick
<1>5. ASSUME NEW a
      PROVE  /\ Proved!Receive(a) <=> Service!Receive(a)
             /\ Proved!Respond(a) <=> Service!Respond(a)
             /\ Proved!Handler(a) <=> Service!Handler(a)
  <2>1. Proved!Requests = Service!Requests
    BY DEF Proved!Requests, Service!Requests
  <2>2. Proved!Receive(a) <=> Service!Receive(a)
    BY <2>1 DEF Proved!Receive, Service!Receive, Proved!IdBudget,
       Service!IdBudget, Proved!Cardinality, Service!Cardinality
  <2>3. Proved!BuildFlow(a) <=> Service!BuildFlow(a)
    BY DEF Proved!BuildFlow, Service!BuildFlow, Proved!NewFlow,
           Service!NewFlow
  <2>4. /\ Proved!Acquire(a) <=> Service!Acquire(a)
        /\ Proved!Release(a) <=> Service!Release(a)
        /\ Proved!Respond(a) <=> Service!Respond(a)
    BY DEF Proved!Acquire, Service!Acquire, Proved!Entry, Service!Entry,
           Proved!Release, Service!Release, Proved!Respond, Service!Respond
  <2>5. /\ Proved!ListFlows(a) <=> Service!ListFlows(a)
        /\ Proved!InsertFlow(a) <=> Service!InsertFlow(a)
        /\ Proved!CheckExists(a) <=> Service!CheckExists(a)
    BY DEF Proved!ListFlows, Service!ListFlows, Proved!InsertFlow,
           Service!InsertFlow, Proved!CheckExists, Service!CheckExists,
           Proved!AfterExists, Service!AfterExists
  <2>6. /\ Proved!ReadFlow(a) <=> Service!ReadFlow(a)
        /\ Proved!FetchFlow(a) <=> Service!FetchFlow(a)
        /\ Proved!DelFlow(a) <=> Service!DelFlow(a)
    BY DEF Proved!ReadFlow, Service!ReadFlow, Proved!FetchFlow,
           Service!FetchFlow, Proved!DelFlow, Service!DelFlow
  <2>7. Proved!StoreFlow(a) <=> Service!StoreFlow(a)
    BY DEF Proved!StoreFlow, Service!StoreFlow, Proved!Updated,
           Service!Updated, Proved!PartialUpdateDict,
           Service!PartialUpdateDict, Proved!ModelCopy, Service!ModelCopy,
           Proved!FlowFields, Service!FlowFields, Proved!TargetNullable,
           Service!TargetNullable, Proved!IsOptional, Service!IsOptional,
           Proved!Restrict, Service!Restrict
  <2> QED
    BY <2>2, <2>3, <2>4, <2>5, <2>6, <2>7 DEF Proved!Handler, Service!Handler
<1> QED
  BY <1>1, <1>2, <1>3, <1>4, <1>5

(* The service takes steps of its own only.                                *)
LEMMA ServiceStep ==
  ASSUME ClientInv, [SystemNext]_systemVars
  PROVE  [Proved!Next]_(Proved!vars)
<1>1. UNCHANGED vars /\ UNCHANGED threads => UNCHANGED Proved!vars
  BY DEF vars, service, threads, Proved!vars
<1>2. ASSUME NEW c \in Calls, Client(c) PROVE UNCHANGED Proved!vars
  BY <1>2 DEF Client, Start, Fail, Retry, service, threads, Proved!vars
<1>3. ASSUME NEW c \in Calls, Arrive(c) PROVE Proved!Next
  <2>1. <<c, attempt[c]>> \in Attempts
    BY <1>3 DEF Arrive, ClientInv, Attempts
  <2>2. Proved!Receive(<<c, attempt[c]>>)
    BY <1>3, SameService DEF Arrive
  <2> QED
    BY <2>1, <2>2 DEF Proved!Next
<1>4. ASSUME NEW a \in Attempts, Serve(a) \/ Respond(a) PROVE Proved!Next
  BY <1>4, SameService DEF Serve, Respond, Proved!Next, Proved!Handler
<1>5. CASE Service!Tick
  BY <1>5, SameService DEF Proved!Next
<1> QED
  BY <1>1, <1>2, <1>3, <1>4, <1>5 DEF SystemNext, systemVars

(* Its requests, replies and rows are those of the store.                  *)
LEMMA ServiceApi ==
  /\ Proved!FlowResponse = FlowResponse
  /\ Proved!Requests = Requests
  /\ Proved!Replies = Replies
  /\ \A p : Proved!IsFlowUpdate(p) <=> IsFlowUpdate(p)
BY DEF Proved!FlowResponse, FlowResponse, Proved!Requests, Requests,
       Proved!Replies, Replies, Proved!IsFlowUpdate, IsFlowUpdate

(* What FlowServiceProofs says of it.                                      *)
LEMMA ServiceInvariance == SystemSpec => []Proved!IInv
<1>1. SystemInit => Proved!Init
  BY SameService DEF SystemInit
<1>2. ClientInv /\ [SystemNext]_systemVars => [Proved!Next]_(Proved!vars)
  BY ServiceStep
<1>3. SystemSpec => Proved!Spec
  BY <1>1, <1>2, ClientInvariance, PTL DEF SystemSpec, Proved!Spec
<1>4. Proved!Spec => []Proved!IInv
  BY Proved!Invariance, ThreadAssumption, ServiceApi, NoneAssumption,
     CreatedAssumption, PayloadAssumption, TimeAssumption
<1> QED
  BY <1>3, <1>4, PTL

(* The steps of a handler, as steps of the store that the service          *)
(* implements.                                                             *)
LEMMA HandlerSteps ==
  ASSUME Proved!IInv, [Proved!Next]_(Proved!vars), NEW a \in Attempts
  PROVE  /\ Proved!Respond(a) => Proved!Store!Return(a)
         /\ Proved!BuildFlow(a) \/ Proved!Acquire(a) \/ Proved!Release(a)
              \/ Proved!FetchFlow(a) => UNCHANGED Proved!Store!vars
         /\ Proved!CheckExists(a) =>
              \/ UNCHANGED Proved!Store!vars
              \/ /\ \/ Proved!Store!Get(a) \/ Proved!Store!Update(a)
                    \/ Proved!Store!Delete(a)
                 /\ res'[a].status = 404
         /\ Proved!ListFlows(a) => Proved!Store!List(a)
         /\ Proved!ReadFlow(a) => Proved!Store!Get(a)
         /\ Proved!InsertFlow(a) =>
              Proved!Store!Create(a) /\ res'[a].status = 201
         /\ Proved!StoreFlow(a) =>
              Proved!Store!Update(a) /\ res'[a].status = 200
         /\ Proved!DelFlow(a) =>
              Proved!Store!Delete(a) /\ res'[a].status = 204
BY Proved!HandlerRefined, ThreadAssumption, ServiceApi, NoneAssumption,
   CreatedAssumption, PayloadAssumption, TimeAssumption

(* The ids that have come into use are those that the service has shown.   *)
LEMMA UsedIds ==
  ASSUME Proved!IInv, ClientInv, [SystemNext]_systemVars,
         used = Proved!Used
  PROVE  used' = Proved!Used'
<1>1. [Proved!Next]_(Proved!vars)
  BY ServiceStep
<1>2. /\ Proved!Tick \/ UNCHANGED Proved!vars => Proved!Used' = Proved!Used
      /\ \A a \in Attempts : Proved!Receive(a) \/ Proved!Respond(a) =>
           Proved!Used' = Proved!Used
  <2>1. /\ Proved!Tick \/ UNCHANGED Proved!vars => Proved!Used' = Proved!Used
        /\ \A a \in Attempts :
             (Proved!Receive(a) \/ Proved!Handler(a)) /\ ~Proved!InsertFlow(a)
               => Proved!Used' = Proved!Used
    BY <1>1, Proved!UsedStep, ThreadAssumption, ServiceApi, NoneAssumption,
       CreatedAssumption, PayloadAssumption, TimeAssumption
  <2> QED
    BY <2>1 DEF Proved!Receive, Proved!Respond, Proved!Handler,
                Proved!InsertFlow, Proved!At
<1>3. CASE UNCHANGED systemVars
  BY <1>2, <1>3 DEF systemVars, vars, service, threads, Proved!vars
<1>4. ASSUME NEW c \in Calls, Client(c) PROVE used' = Proved!Used'
  BY <1>2, <1>4 DEF Client, Start, Fail, Retry, service, threads, Proved!vars
<1>5. ASSUME NEW c \in Calls, Arrive(c) PROVE used' = Proved!Used'
  <2>1. <<c, attempt[c]>> \in Attempts
    BY <1>5 DEF Arrive, ClientInv, Attempts
  <2> QED
    BY <1>2, <1>5, <2>1, SameService DEF Arrive
<1>6. ASSUME NEW a \in Attempts, Serve(a) PROVE used' = Proved!Used'
  BY <1>6 DEF Serve, Proved!Used, Service!Used, Proved!Unborn, Service!Unborn
<1>7. ASSUME NEW a \in Attempts, Respond(a) PROVE used' = Proved!Used'
  BY <1>2, <1>7, SameService DEF Respond
<1>8. CASE Service!Tick /\ UNCHANGED <<used, caller, effect>>
  BY <1>2, <1>8, SameService
<1> QED
  BY <1>3, <1>4, <1>5, <1>6, <1>7, <1>8 DEF SystemNext

(* So the store that the service implements is the one of FlowGateway.     *)
LEMMA SameStore ==
  ASSUME used = Proved!Used, used' = Proved!Used', NEW a \in Attempts
  PROVE  /\ Proved!Store!Return(a) => Store!Return(a)
         /\ Proved!Store!List(a) => Store!List(a)
         /\ Proved!Store!Get(a) => Store!Get(a)
         /\ Proved!Store!Create(a) => Store!Create(a)
         /\ Proved!Store!Update(a) => Store!Update(a)
         /\ Proved!Store!Delete(a) => Store!Delete(a)
         /\ UNCHANGED Proved!Store!vars => UNCHANGED service
<1> USE DEF Proved!Store!Pending, Store!Pending, Proved!Store!Answer,
            Store!Answer, Proved!Store!Live, Store!Live,
            Proved!Store!NotFound, Store!NotFound
<1>1. Proved!Store!Return(a) => Store!Return(a)
  BY DEF Proved!Store!Return, Store!Return
<1>2. /\ Proved!Store!List(a) => Store!List(a)
      /\ Proved!Store!Get(a) => Store!Get(a)
      /\ Proved!Store!Delete(a) => Store!Delete(a)
  BY DEF Proved!Store!List, Store!List, Proved!Store!Get, Store!Get,
         Proved!Store!Delete, Store!Delete
<1>3. Proved!Store!Create(a) => Store!Create(a)
  BY DEF Proved!Store!Create, Store!Create, Proved!Store!NewFlow,
         Store!NewFlow
<1>4. Proved!Store!Update(a) => Store!Update(a)
  BY DEF Proved!Store!Update, Store!Update, Proved!Store!Patched,
         Store!Patched
<1>5. UNCHANGED Proved!Store!vars => UNCHANGED service
  BY DEF Proved!Store!vars, service
<1> QED
  BY <1>1, <1>2, <1>3, <1>4, <1>5

-----------------------------------------------------------------------------
(* The client and the service implement FlowGateway                        *)

(* What the client does by itself it does in FlowGateway too.              *)
LEMMA ClientIsGateway ==
  ASSUME NEW c \in Calls, Client(c)
  PROVE  Next
BY DEF Client, Next

(* An attempt is sent to the store when a thread receives it.              *)
LEMMA ArriveIsGateway ==
  ASSUME Proved!IInv, ClientInv, NEW c \in Calls, Arrive(c)
  PROVE  Send(c)
<1> DEFINE a == <<c, attempt[c]>>
<1>1. a \in Attempts
  BY DEF Arrive, ClientInv, Attempts
<1>2. Proved!Receive(a) /\ req'[a] = request[c]
  BY SameService DEF Arrive
<1> HIDE DEF a
<1>3. req' = [req EXCEPT ![a] = request[c]]
  BY <1>1, <1>2 DEF Proved!Receive, Proved!IInv, Proved!Control,
                    Proved!TypeOK
<1> QED
  BY <1>2, <1>3 DEF Arrive, Send, Proved!Receive, a

(* A thread carries the request out at one of its steps, and marks the     *)
(* call as one that has changed the store at the same one.                 *)
LEMMA ServeIsGateway ==
  ASSUME Proved!IInv, ClientInv, [Proved!Next]_(Proved!vars),
         used = Proved!Used, used' = Proved!Used',
         NEW a \in Attempts, Serve(a)
  PROVE  CarryOut(a) \/ UNCHANGED vars
<1> DEFINE called == a[1]
           marked == [effect EXCEPT ![called] = TRUE]
<1>1. called \in Calls
  BY DEF Attempts
<1>2. /\ UNCHANGED caller
      /\ effect' = [effect EXCEPT ![called] =
                      @ \/ /\ point[a] \in {"insert", "store", "del"}
                           /\ res'[a].status # 500]
  BY DEF Serve
<1>3. /\ [effect EXCEPT ![called] = @ \/ FALSE] = effect
      /\ [effect EXCEPT ![called] = @ \/ TRUE] = marked
  BY <1>1 DEF ClientInv
<1> HIDE DEF called, marked
<1>4. CASE Proved!BuildFlow(a) \/ Proved!Acquire(a) \/ Proved!Release(a)
             \/ Proved!FetchFlow(a)
  <2>1. UNCHANGED service
    BY <1>4, HandlerSteps, SameStore
  <2>2. point[a] \notin {"insert", "store", "del"}
    BY <1>4 DEF Proved!BuildFlow, Proved!Acquire, Proved!Release,
                Proved!FetchFlow, Proved!At
  <2>3. effect' = effect
    BY <1>2, <1>3, <2>2
  <2> QED
    BY <1>2, <2>1, <2>3 DEF vars
<1> DEFINE served == \/ Store!List(a)   \/ Store!Get(a)
                     \/ Store!Create(a) \/ Store!Update(a) \/ Store!Delete(a)
           wrote == /\ req[a].op \in {"create", "update", "delete"}
                    /\ res'[a].status # 404
<1>5. ASSUME served, effect' = [effect EXCEPT ![called] = @ \/ wrote]
      PROVE  CarryOut(a)
  <2>1. effect' = [effect EXCEPT ![a[1]] =
                     @ \/ /\ req[a].op \in {"create", "update", "delete"}
                          /\ res'[a].status # 404]
    BY <1>5, Zenon DEF called
  <2> QED
    BY <1>2, <1>5, <2>1, Zenon DEF CarryOut
<1> HIDE DEF served, wrote
<1>6. ASSUME served, ~wrote, point[a] \notin {"insert", "store", "del"}
      PROVE  CarryOut(a)
  <2>1. effect' = effect
    BY <1>2, <1>3, <1>6
  <2>2. [effect EXCEPT ![called] = @ \/ wrote] = effect
    BY <1>3, <1>6
  <2> QED
    BY <1>5, <1>6, <2>1, <2>2
<1>7. ASSUME served, wrote, point[a] \in {"insert", "store", "del"},
             res'[a].status # 500
      PROVE  CarryOut(a)
  <2>1. effect' = marked
    BY <1>2, <1>3, <1>7
  <2>2. [effect EXCEPT ![called] = @ \/ wrote] = marked
    BY <1>3, <1>7
  <2> QED
    BY <1>5, <1>7, <2>1, <2>2
<1> USE DEF Proved!IInv, Proved!Control, Proved!HandlerInv, Proved!At
<1>8. CASE Proved!ListFlows(a) \/ Proved!ReadFlow(a)
  <2>1. served
    BY <1>8, HandlerSteps, SameStore DEF served
  <2>2. point[a] \in {"list", "read"} /\ req[a].op \in {"list", "get"}
    BY <1>8 DEF Proved!ListFlows, Proved!ReadFlow
  <2>3. ~wrote
    BY <2>2 DEF wrote
  <2> QED
    BY <1>6, <2>1, <2>2, <2>3
<1>9. CASE Proved!CheckExists(a)
  <2>1. point[a] = "exists"
    BY <1>9 DEF Proved!CheckExists
  <2>2. CASE UNCHANGED service
    <3>1. effect' = effect
      BY <1>2, <1>3, <2>1
    <3> QED
      BY <1>2, <2>2, <3>1 DEF vars
  <2>3. CASE served /\ res'[a].status = 404
    BY <1>6, <2>1, <2>3 DEF wrote
  <2> QED
    BY <1>9, <2>2, <2>3, HandlerSteps, SameStore DEF served
<1>10. CASE Proved!InsertFlow(a) \/ Proved!StoreFlow(a) \/ Proved!DelFlow(a)
  <2>1. served /\ res'[a].status \in {200, 201, 204}
    BY <1>10, HandlerSteps, SameStore DEF served
  <2>2. /\ point[a] \in {"insert", "store", "del"}
        /\ req[a].op \in {"create", "update", "delete"}
    BY <1>10 DEF Proved!InsertFlow, Proved!StoreFlow, Proved!DelFlow
  <2>3. wrote
    BY <2>1, <2>2 DEF wrote
  <2> QED
    BY <1>7, <2>1, <2>2, <2>3
<1>11. Proved!Handler(a) /\ ~Proved!Respond(a)
  BY SameService DEF Serve, Proved!Respond
<1> QED
  BY <1>4, <1>8, <1>9, <1>10, <1>11 DEF Proved!Handler

(* An answer arrives, or finds its caller gone, as in FlowGateway.         *)
LEMMA RespondIsGateway ==
  ASSUME Proved!IInv, [Proved!Next]_(Proved!vars),
         used = Proved!Used, used' = Proved!Used',
         NEW a \in Attempts, Respond(a)
  PROVE  Deliver(a)
<1>1. Store!Return(a)
  BY HandlerSteps, SameStore, SameService DEF Respond
<1> QED
  BY <1>1 DEF Respond, Deliver

(* A step of client and service is one of FlowGateway, or none.            *)
LEMMA SystemStep ==
  ASSUME Proved!IInv, ClientInv, [SystemNext]_systemVars,
         used = Proved!Used, used' = Proved!Used'
  PROVE  [Next]_vars
<1>1. [Proved!Next]_(Proved!vars)
  BY ServiceStep
<1>2. ASSUME NEW c \in Calls, Client(c) \/ Arrive(c) PROVE Next
  BY <1>2, ClientIsGateway, ArriveIsGateway DEF Next
<1>3. ASSUME NEW a \in Attempts, Serve(a) \/ Respond(a)
      PROVE  Next \/ UNCHANGED vars
  BY <1>1, <1>3, ServeIsGateway, RespondIsGateway DEF Next
<1>4. CASE Service!Tick /\ UNCHANGED <<used, caller, effect>>
  BY <1>4 DEF Service!Tick, Next, Tick, Store!Tick
<1>5. CASE UNCHANGED systemVars
  BY <1>5 DEF systemVars
<1> QED
  BY <1>2, <1>3, <1>4, <1>5 DEF SystemNext

(* The client and the service together implement the client before the     *)
(* store: for it a route is one step, however its threads interleave.      *)
THEOREM GatewayImplemented == SystemSpec => Spec
<1>1. SystemInit => Init /\ used = Proved!Used
  BY DEF SystemInit, Init, Store!Init, Service!Init, Proved!Used,
         Proved!Unborn
<1>2. Proved!IInv /\ ClientInv /\ used = Proved!Used
        /\ [SystemNext]_systemVars => (used = Proved!Used)'
  BY UsedIds
<1>3. SystemSpec => [](used = Proved!Used)
  BY <1>1, <1>2, ServiceInvariance, ClientInvariance, PTL DEF SystemSpec
<1>4. Proved!IInv /\ ClientInv /\ used = Proved!Used
        /\ (used = Proved!Used)' /\ [SystemNext]_systemVars => [Next]_vars
  BY SystemStep
<1> QED
  BY <1>1, <1>3, <1>4, ServiceInvariance, ClientInvariance, PTL
     DEF SystemSpec, Spec

(* A call made through the client is for its caller one operation of a     *)
(* remote store at most, whatever the threads of its attempts and of       *)
(* others do to each other, and however often attempts are lost or late.   *)
THEOREM SystemIsRemote == SystemSpec => ImplementsRemoteFlows
BY GatewayImplemented, CallsAreRemote, PTL

=============================================================================
