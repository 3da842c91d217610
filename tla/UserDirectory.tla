--------------------------- MODULE UserDirectory ---------------------------
(***************************************************************************)
(* What the user service promises: a directory of users in which every     *)
(* request takes effect at one instant between its arrival and its answer, *)
(* and in which no two users have the same username.  There is no lock and *)
(* no username index here; apps/uc implements it with both (UcService).    *)
(***************************************************************************)
EXTENDS UserApi

CONSTANT Clients

VARIABLES dir,      \* the users: dir[id] is a row, or None
          minted,   \* the ids ever given out
          clock,    \* the wall clock
          req,      \* the request each client waits on, or None
          res       \* the reply that request will get, or None

vars == <<dir, minted, clock, req, res>>

Init == /\ dir = [id \in UserIds |-> None]
        /\ minted = {}
        /\ clock = 0
        /\ req = [c \in Clients |-> None]
        /\ res = [c \in Clients |-> None]

Live == {id \in UserIds : dir[id] # None}

Named(name) == {id \in Live : dir[id].username = name}

-----------------------------------------------------------------------------
Call(c) == /\ req[c] = None
           /\ \E r \in Requests : req' = [req EXCEPT ![c] = r]
           /\ UNCHANGED <<dir, minted, clock, res>>

Return(c) == /\ res[c] # None
             /\ req' = [req EXCEPT ![c] = None]
             /\ res' = [res EXCEPT ![c] = None]
             /\ UNCHANGED <<dir, minted, clock>>

Tick == /\ clock' = clock + 1
        /\ UNCHANGED <<dir, minted, req, res>>

(* c's request, of kind op, is carried out now.                            *)
Pending(c, op) == req[c] # None /\ req[c].op = op /\ res[c] = None

Answer(c, status, rows) ==
  /\ res' = [res EXCEPT ![c] = [status |-> status, rows |-> rows]]
  /\ UNCHANGED <<clock, req>>

Refuse(c, status) == Answer(c, status, {}) /\ UNCHANGED <<dir, minted>>

List(c) == /\ Pending(c, "list")
           /\ Answer(c, 200, {dir[id] : id \in Live})
           /\ UNCHANGED <<dir, minted>>

ByUsername(c) ==
  /\ Pending(c, "by_username")
  /\ \/ /\ Named(req[c].username) = {}
        /\ Refuse(c, 404)
     \/ \E id \in Named(req[c].username) :
          Answer(c, 200, {dir[id]}) /\ UNCHANGED <<dir, minted>>

Get(c) ==
  /\ Pending(c, "get")
  /\ IF req[c].user_id \in Live
       THEN Answer(c, 200, {dir[req[c].user_id]}) /\ UNCHANGED <<dir, minted>>
       ELSE Refuse(c, 404)

Create(c) ==
  /\ Pending(c, "create")
  /\ \/ /\ Named(req[c].username) # {}
        /\ Refuse(c, 409)
     \/ /\ Named(req[c].username) = {}
        /\ \E id \in UserIds \ minted, now \in 0..clock :
             /\ minted' = minted \cup {id}
             /\ dir' = [dir EXCEPT ![id] = NewUser(id, req[c], now)]
             /\ Answer(c, 201, {NewUser(id, req[c], now)})

(* A PATCH gives each field the value it names; a null means nothing.      *)
Patched(row, p, now) ==
  [f \in DOMAIN row |-> IF f = "updated_at" THEN now
                       ELSE IF f \in DOMAIN p /\ p[f] # None THEN p[f]
                                                             ELSE row[f]]

(* A user cannot take the name of another, and the time of its last change *)
(* never goes back.                                                        *)
Update(c) ==
  /\ Pending(c, "update")
  /\ LET id  == req[c].user_id
         new(now) == Patched(dir[id], req[c].payload, now)
         taken == Named(new(clock).username) \ {id} # {}
     IN \/ id \notin Live /\ Refuse(c, 404)
        \/ id \in Live /\ taken /\ Refuse(c, 409)
        \/ /\ id \in Live /\ ~taken
           /\ \E now \in dir[id].updated_at..clock :
                /\ dir' = [dir EXCEPT ![id] = new(now)]
                /\ Answer(c, 200, {new(now)})
           /\ UNCHANGED minted

Delete(c) ==
  /\ Pending(c, "delete")
  /\ \/ req[c].user_id \notin Live /\ Refuse(c, 404)
     \/ /\ req[c].user_id \in Live
        /\ dir' = [dir EXCEPT ![req[c].user_id] = None]
        /\ Answer(c, 204, {})
        /\ UNCHANGED minted

-----------------------------------------------------------------------------
Next == \/ Tick
        \/ \E c \in Clients : \/ Call(c) \/ Return(c)
                              \/ List(c) \/ ByUsername(c) \/ Get(c)
                              \/ Create(c) \/ Update(c) \/ Delete(c)

Spec == Init /\ [][Next]_vars

=============================================================================
