----------------------------- MODULE UcService -----------------------------
(***************************************************************************)
(* The routes of the UC service (apps/uc/.../api/routes.py).  FastAPI runs *)
(* the synchronous handlers on the threads of a pool: each handler is the  *)
(* sequence of its reads and writes of the shared store, one action each,  *)
(* and the threads interleave between any two of them.  A step that would  *)
(* raise KeyError in Python answers 500, so that the model shows whether   *)
(* the lock keeps it from happening.  Local computation is part of the     *)
(* step that reads its inputs.                                             *)
(***************************************************************************)
EXTENDS UserApi, FiniteSets

CONSTANTS Threads,    \* the threads of the pool
          MaxTime     \* bound: the clock stops here

ASSUME ThreadAssumption == None \notin Threads

ASSUME TimeAssumption == MaxTime \in Nat

VARIABLES
  users,            \* _USERS: id -> row, or None where the dict has no key
  usersByUsername,  \* _USERS_BY_USERNAME: username -> id, or None
  usersLock,        \* _USERS_LOCK: the thread that holds it, or None
  minted,           \* the ids uuid4 has returned: it returns none twice
  clock,            \* datetime.now(UTC)
  pc, req, res,     \* per thread: where it is, its request, its reply
  uid, row, now     \* per thread: the locals user_id, existing (user), now

store  == <<users, usersByUsername>>
locals == <<uid, row, now>>
vars   == <<users, usersByUsername, usersLock, minted, clock,
            pc, req, res, uid, row, now>>

Init == /\ users = [id \in UserIds |-> None]
        /\ usersByUsername = [n \in Usernames |-> None]
        /\ usersLock = None
        /\ minted = {}
        /\ clock = 0
        /\ pc  = [t \in Threads |-> "idle"]
        /\ req = [t \in Threads |-> None]
        /\ res = [t \in Threads |-> None]
        /\ uid = [t \in Threads |-> None]
        /\ row = [t \in Threads |-> None]
        /\ now = [t \in Threads |-> 0]

-----------------------------------------------------------------------------
At(t, point) == pc[t] = point

Goto(t, point) == pc' = [pc EXCEPT ![t] = point]

Set(var, t, value) == [var EXCEPT ![t] = value]

Reply(t, status, rows) ==
  res' = [res EXCEPT ![t] = [status |-> status, rows |-> rows]]

(* Mutant: acquire() and release() without a with block; an exception      *)
(* skips the release.                                                      *)
RaiseLocked(t, status) ==
  /\ Goto(t, "reply")
  /\ Reply(t, status, {})
  /\ UNCHANGED <<store, minted, locals>>

(* An exception leaves the with block: the lock is released next.          *)
Raise(t, status) ==
  /\ Goto(t, "release")
  /\ Reply(t, status, {})
  /\ UNCHANGED <<store, minted, locals>>

KeyError(t) == Raise(t, 500)

(* What a step that holds the lock never touches.                          *)
Held == UNCHANGED <<usersLock, clock, req>>

NewUsername(t) == UpdateData(req[t])["username"]

Tick == /\ clock < MaxTime
        /\ clock' = clock + 1
        /\ UNCHANGED <<store, usersLock, minted, pc, req, res, locals>>

-----------------------------------------------------------------------------
(* A request arrives.  Bound: a create is taken only while an id is left   *)
(* for it, since the model has finitely many.                              *)
Creating == {t \in Threads : pc[t] \in {"acquire", "unique", "insert"}
                               /\ req[t].op = "create"}

IdBudget(r) ==
  r.op = "create" =>
    Cardinality(minted) + Cardinality(Creating) < Cardinality(UserIds)

Receive(t) ==
  /\ At(t, "idle") /\ Goto(t, "acquire")
  /\ \E r \in Requests :
       /\ IdBudget(r)
       /\ req' = Set(req, t, r)
       /\ uid' = Set(uid, t, IF r.op \in {"get", "update", "delete"}
                               THEN r.user_id ELSE None)
  /\ UNCHANGED <<store, usersLock, minted, clock, res, row, now>>

(* with _USERS_LOCK: every handler begins by taking the lock.              *)
Entry(op) == CASE op = "list"        -> "list"
               [] op = "by_username" -> "owner"
               [] op = "create"      -> "unique"
               [] OTHER              -> "exists"

(* Mutant: no lock around the handler.                                     *)
AcquireNothing(t) ==
  /\ At(t, "acquire") /\ Goto(t, Entry(req[t].op))
  /\ usersLock' = t
  /\ UNCHANGED <<store, minted, clock, req, res, locals>>

Acquire(t) ==
  /\ At(t, "acquire")
  /\ usersLock = None
  /\ usersLock' = t
  /\ Goto(t, Entry(req[t].op))
  /\ UNCHANGED <<store, minted, clock, req, res, locals>>

(* The end of the with block, by return or by an exception.                *)
Release(t) ==
  /\ At(t, "release")
  /\ usersLock' = None
  /\ Goto(t, "reply")
  /\ UNCHANGED <<store, minted, clock, req, res, locals>>

Respond(t) ==
  /\ At(t, "reply") /\ Goto(t, "idle")
  /\ req' = Set(req, t, None)
  /\ res' = Set(res, t, None)
  /\ uid' = Set(uid, t, None)
  /\ row' = Set(row, t, None)
  /\ now' = Set(now, t, 0)
  /\ UNCHANGED <<store, usersLock, minted, clock>>

-----------------------------------------------------------------------------
ListUsers(t) ==
  /\ At(t, "list") /\ Goto(t, "release")
  /\ Reply(t, 200, {users[id] : id \in {i \in UserIds : users[i] # None}})
  /\ UNCHANGED <<store, minted, locals>> /\ Held

(* Mutant: the route calls another route, which takes the lock again.      *)
FindOwnerNested(t) ==
  /\ At(t, "owner") /\ Goto(t, "acquire")
  /\ UNCHANGED <<store, minted, res, locals>> /\ Held

(* get_user_by_username: first the index, then the row it points to.       *)
FindOwner(t) ==
  LET id == usersByUsername[req[t].username]
  IN /\ At(t, "owner")
     /\ \/ id = None /\ Raise(t, 404)
        \/ /\ id # None
           /\ Goto(t, "exists")
           /\ uid' = Set(uid, t, id)
           /\ UNCHANGED <<store, minted, res, row, now>>
     /\ Held

(* user_id not in _USERS, in the four handlers that name a user.           *)
AfterExists(op) == CASE op = "update" -> "fetch"
                     [] op = "delete" -> "pop"
                     [] OTHER         -> "read"

CheckExists(t) ==
  /\ At(t, "exists")
  /\ \/ users[uid[t]] = None /\ Raise(t, 404)
     \/ /\ users[uid[t]] # None
        /\ Goto(t, AfterExists(req[t].op))
        /\ UNCHANGED <<store, minted, res, locals>>
  /\ Held

ReadUser(t) ==
  /\ At(t, "read")
  /\ \/ users[uid[t]] = None /\ KeyError(t)
     \/ /\ users[uid[t]] # None
        /\ Goto(t, "release")
        /\ Reply(t, 200, {users[uid[t]]})
        /\ UNCHANGED <<store, minted, locals>>
  /\ Held

-----------------------------------------------------------------------------
(* create_user                                                             *)
CheckUnique(t) ==
  /\ At(t, "unique")
  /\ \/ usersByUsername[req[t].username] # None /\ Raise(t, 409)
     \/ /\ usersByUsername[req[t].username] = None
        /\ Goto(t, "insert")
        /\ now' = Set(now, t, clock)
        /\ UNCHANGED <<store, minted, res, uid, row>>
  /\ Held

(* Mutant: an id is the first that is free, as with len(_USERS) + 1.       *)
InsertReusingId(t) ==
  /\ At(t, "insert") /\ Goto(t, "insert_name")
  /\ \E id \in {i \in UserIds : users[i] = None} :
       LET user == NewUser(id, req[t], now[t])
       IN /\ minted' = minted \cup {id}
          /\ uid' = Set(uid, t, id)
          /\ users' = [users EXCEPT ![id] = user]
          /\ Reply(t, 201, {user})
  /\ UNCHANGED <<usersByUsername, row, now>> /\ Held

InsertUser(t) ==
  /\ At(t, "insert") /\ Goto(t, "insert_name")
  /\ \E id \in UserIds \ minted :
       LET user == NewUser(id, req[t], now[t])
       IN /\ minted' = minted \cup {id}
          /\ uid' = Set(uid, t, id)
          /\ users' = [users EXCEPT ![id] = user]
          /\ Reply(t, 201, {user})
  /\ UNCHANGED <<usersByUsername, row, now>> /\ Held

InsertName(t) ==
  /\ At(t, "insert_name") /\ Goto(t, "release")
  /\ usersByUsername' = [usersByUsername EXCEPT ![req[t].username] = uid[t]]
  /\ UNCHANGED <<users, minted, res, locals>> /\ Held

-----------------------------------------------------------------------------
(* update_user: a rename is checked against the index before anything is   *)
(* written, and the row is written before the index.                       *)
FetchUser(t) ==
  LET existing == users[uid[t]]
      renames  == Renames(req[t], existing)
  IN /\ At(t, "fetch")
     /\ \/ existing = None /\ KeyError(t)
        \/ /\ existing # None
           /\ Goto(t, IF renames THEN "conflict" ELSE "store")
           /\ row' = Set(row, t, existing)
           /\ now' = Set(now, t, IF renames THEN now[t] ELSE clock)
           /\ UNCHANGED <<store, minted, res, uid>>
     /\ Held

(* Mutant: a rename is not checked against the index.                      *)
CheckNoConflict(t) ==
  /\ At(t, "conflict") /\ Goto(t, "store")
  /\ now' = Set(now, t, clock)
  /\ UNCHANGED <<store, minted, res, uid, row>> /\ Held

CheckConflict(t) ==
  LET owner == usersByUsername[NewUsername(t)]
  IN /\ At(t, "conflict")
     /\ \/ /\ owner \notin {None, uid[t]}
           /\ Raise(t, 409)
        \/ /\ owner \in {None, uid[t]}
           /\ Goto(t, "store")
           /\ now' = Set(now, t, clock)
           /\ UNCHANGED <<store, minted, res, uid, row>>
     /\ Held

StoreUser(t) ==
  LET updated == Updated(row[t], req[t], now[t])
  IN /\ At(t, "store")
     /\ Goto(t, IF Renames(req[t], row[t]) THEN "drop_name" ELSE "release")
     /\ users' = [users EXCEPT ![uid[t]] = updated]
     /\ Reply(t, 200, {updated})
     /\ UNCHANGED <<usersByUsername, minted, locals>> /\ Held

(* Mutant: a rename leaves the old username in the index.                  *)
DropNoName(t) ==
  /\ At(t, "drop_name") /\ Goto(t, "set_name")
  /\ UNCHANGED <<store, minted, res, locals>> /\ Held

DropName(t) ==
  /\ At(t, "drop_name") /\ Goto(t, "set_name")
  /\ usersByUsername' = [usersByUsername EXCEPT ![row[t].username] = None]
  /\ UNCHANGED <<users, minted, res, locals>> /\ Held

SetName(t) ==
  /\ At(t, "set_name") /\ Goto(t, "release")
  /\ usersByUsername' = [usersByUsername EXCEPT ![NewUsername(t)] = uid[t]]
  /\ UNCHANGED <<users, minted, res, locals>> /\ Held

-----------------------------------------------------------------------------
(* delete_user                                                             *)
PopUser(t) ==
  /\ At(t, "pop")
  /\ \/ users[uid[t]] = None /\ KeyError(t)
     \/ /\ users[uid[t]] # None
        /\ Goto(t, "pop_name")
        /\ row' = Set(row, t, users[uid[t]])
        /\ users' = [users EXCEPT ![uid[t]] = None]
        /\ Reply(t, 204, {})
        /\ UNCHANGED <<usersByUsername, minted, uid, now>>
  /\ Held

PopName(t) ==
  /\ At(t, "pop_name") /\ Goto(t, "release")
  /\ usersByUsername' = [usersByUsername EXCEPT ![row[t].username] = None]
  /\ UNCHANGED <<users, minted, res, locals>> /\ Held

-----------------------------------------------------------------------------
(* A step of the handler that thread t runs once it has its request.       *)
Handler(t) ==
  \/ Acquire(t)     \/ Release(t)       \/ Respond(t)
  \/ ListUsers(t)   \/ FindOwner(t)     \/ CheckExists(t) \/ ReadUser(t)
  \/ CheckUnique(t) \/ InsertUser(t)    \/ InsertName(t)
  \/ FetchUser(t)   \/ CheckConflict(t) \/ StoreUser(t)
  \/ DropName(t)    \/ SetName(t)
  \/ PopUser(t)     \/ PopName(t)

Next == Tick \/ \E t \in Threads : Receive(t) \/ Handler(t)

Spec == Init /\ [][Next]_vars

(* A thread that can take a step takes one.  threading.Lock does not queue *)
(* its waiters, so a thread may wait forever while others take the lock.   *)
FairSpec == Spec /\ \A t \in Threads : WF_vars(Handler(t))

-----------------------------------------------------------------------------
(* Properties                                                              *)

Points == {"idle", "acquire", "list", "owner", "exists", "read", "unique",
           "insert", "insert_name", "fetch", "conflict", "store", "drop_name",
           "set_name", "pop", "pop_name", "release", "reply"}

Outside == {"idle", "acquire", "reply"}    \* points without the lock

(* The type invariant: the shared store, and the locals of each thread.    *)
TypeOK ==
  /\ users \in [UserIds -> UserResponse \cup {None}]
  /\ usersByUsername \in [Usernames -> UserIds \cup {None}]
  /\ usersLock \in Threads \cup {None}
  /\ minted \in SUBSET UserIds
  /\ clock \in Nat
  /\ pc  \in [Threads -> Points]
  /\ req \in [Threads -> Requests \cup {None}]
  /\ res \in [Threads -> Replies \cup {None}]
  /\ uid \in [Threads -> UserIds \cup {None}]
  /\ row \in [Threads -> UserResponse \cup {None}]
  /\ now \in [Threads -> Nat]

(* The index has exactly the usernames of the stored users, each with its  *)
(* user's id; so no username has two users.                                *)
Consistent(table, names) ==
  \A id \in UserIds, n \in Usernames :
    names[n] = id <=> table[id] # None /\ table[id].username = n

(* Whenever no handler is inside the lock, the store and the username      *)
(* index agree (routes.py:22-24): a create, a rename or a delete, each two *)
(* or three writes, a refused rename, or any interleaving of them, leaves  *)
(* no stale, missing or stolen username behind.                            *)
IndexConsistent == usersLock = None => Consistent(users, usersByUsername)

(* No request is ever answered 500: the row that a handler has checked to  *)
(* exist is still there when it subscripts or pops it.                     *)
NoServerError == \A t \in Threads : res[t] # None => res[t].status # 500

(* An id that was given out and is not in the store stays out of it: an    *)
(* update that races a delete does not bring the user back, and a create   *)
(* does not take the id again (routes.py:77-78).                           *)
DeletedStaysDeleted ==
  [][\A id \in minted : users[id] = None => users'[id] = None]_vars

(* As long as a user exists its created_at stays and its updated_at never  *)
(* goes back: of two updates of one user, the one that reads the clock     *)
(* later also writes later.                                                *)
UpdatedAtAdvances ==
  [][\A id \in UserIds : users[id] # None /\ users'[id] # None =>
       /\ users'[id].created_at = users[id].created_at
       /\ users'[id].updated_at >= users[id].updated_at]_vars

(* The service is linearizable: it implements the directory in which each  *)
(* request is one indivisible step.  The step is the handler's write of    *)
(* _USERS, or the read that decides its reply.                             *)
Directory == INSTANCE UserDirectory WITH Clients <- Threads, dir <- users
ImplementsDirectory == Directory!Spec

(* Every handler that takes the lock gives it back, by whatever return or  *)
(* exception it leaves, so the lock is free again and again.               *)
LockAlwaysFreed == []<>(usersLock = None)

(* A request whose handler has got the lock is eventually answered.        *)
AdmittedAnswered == \A t \in Threads : usersLock = t ~> pc[t] = "idle"

=============================================================================
