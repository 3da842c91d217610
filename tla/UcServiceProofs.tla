-------------------------- MODULE UcServiceProofs --------------------------
(***************************************************************************)
(* Proofs about UcService for every set of threads, ids, usernames and     *)
(* payloads.  The invariant that carries them says what the thread inside  *)
(* the lock has established so far, and that the username index is         *)
(* consistent once that thread's remaining index writes are counted in.    *)
(***************************************************************************)
EXTENDS UcService, TLAPS

(* The lock is held exactly by the thread inside the with block.           *)
LockInv == \A t \in Threads : usersLock = t <=> pc[t] \notin Outside

(* What a handler knows of its own request and locals.                     *)
HandlerInv ==
  \A t \in Threads :
    /\ pc[t] = "idle" <=> req[t] = None
    /\ pc[t] \in {"unique", "insert", "insert_name"} => req[t].op = "create"
    /\ pc[t] = "list" => req[t].op = "list"
    /\ pc[t] = "owner" => req[t].op = "by_username"
    /\ pc[t] \in {"fetch", "conflict", "store", "drop_name", "set_name"} =>
         req[t].op = "update"
    /\ pc[t] \in {"pop", "pop_name"} => req[t].op = "delete"
    /\ pc[t] = "read" => req[t].op \in {"get", "by_username"}
    /\ pc[t] = "exists" =>
         req[t].op \in {"get", "by_username", "update", "delete"}
    /\ pc[t] # "idle" /\ req[t].op \in {"get", "update", "delete"} =>
         uid[t] = req[t].user_id
    /\ pc[t] \in {"exists", "read", "fetch", "conflict", "store", "drop_name",
                  "set_name", "pop", "pop_name", "insert_name"} =>
         uid[t] # None
    /\ pc[t] \in {"conflict", "store", "drop_name", "set_name", "pop_name"} =>
         row[t] # None
    /\ pc[t] \in {"conflict", "drop_name", "set_name"} =>
         Renames(req[t], row[t])

(* What a handler knows of the store.                                      *)
StoreInv ==
  /\ \A id \in UserIds : users[id] # None => id \in minted
  /\ \A t \in Threads :
       /\ pc[t] \in {"read", "fetch", "pop"} => users[uid[t]] # None
       /\ pc[t] \in {"exists", "read"} /\ req[t].op = "by_username" =>
            usersByUsername[req[t].username] = uid[t]
       /\ pc[t] \in {"conflict", "store"} => users[uid[t]] = row[t]
       /\ pc[t] = "insert" => usersByUsername[req[t].username] = None
       /\ pc[t] = "store" /\ Renames(req[t], row[t]) =>
            usersByUsername[NewUsername(t)] \in {None, uid[t]}

(* The points at which the reply is settled.                               *)
Answered ==
  {"insert_name", "drop_name", "set_name", "pop_name", "release", "reply"}

ReplyInv == \A t \in Threads : pc[t] \in Answered <=> res[t] # None

(* The index as it will be when thread t leaves the lock.                  *)
Settled(t) ==
  CASE pc[t] = "insert_name" ->
         [usersByUsername EXCEPT ![req[t].username] = uid[t]]
    [] pc[t] = "drop_name" ->
         [usersByUsername EXCEPT ![row[t].username] = None,
                                 ![NewUsername(t)] = uid[t]]
    [] pc[t] = "set_name" ->
         [usersByUsername EXCEPT ![NewUsername(t)] = uid[t]]
    [] pc[t] = "pop_name" ->
         [usersByUsername EXCEPT ![row[t].username] = None]
    [] OTHER -> usersByUsername

IndexInv == /\ usersLock = None => Consistent(users, usersByUsername)
            /\ \A t \in Threads :
                 usersLock = t => Consistent(users, Settled(t))

(* Clock readings never run ahead of the clock.                            *)
TimeInv ==
  /\ \A id \in UserIds : users[id] # None => users[id].updated_at <= clock
  /\ \A t \in Threads :
       /\ now[t] <= clock
       /\ pc[t] = "store" => row[t].updated_at <= now[t]

IInv == /\ TypeOK /\ LockInv /\ HandlerInv
        /\ StoreInv /\ ReplyInv /\ IndexInv /\ TimeInv /\ NoServerError

-----------------------------------------------------------------------------
(* The operators of UserApi                                                *)

(* A PATCH changes the fields its payload sets to a value, and none other: *)
(* no field of a stored user is nullable, so every null is dropped.        *)
LEMMA UpdateDataFields ==
  ASSUME NEW r \in Requests, r.op = "update"
  PROVE  /\ DOMAIN UpdateData(r) \subseteq {"username", "email", "status"}
         /\ "username" \in DOMAIN UpdateData(r) =>
              UpdateData(r)["username"] \in Usernames
         /\ "email" \in DOMAIN UpdateData(r) =>
              UpdateData(r)["email"] \in Emails
         /\ "status" \in DOMAIN UpdateData(r) =>
              UpdateData(r)["status"] \in Statuses
<1>1. r.payload \in UpdatePayloads
  BY DEF Requests
<1>2. IsUserUpdate(r.payload)
  BY <1>1, PayloadAssumption
<1>3. \A f \in {"username", "email", "status"} : f \notin TargetNullable(UserFields)
  BY DEF TargetNullable, IsOptional, UserFields
<1> QED
  BY <1>2, <1>3 DEF UpdateData, PartialUpdateDict, Restrict, IsUserUpdate

(* The row that an update stores.                                          *)
LEMMA UpdatedRow ==
  ASSUME NEW old \in UserResponse, NEW r \in Requests, r.op = "update",
         NEW n \in Nat
  PROVE  /\ Updated(old, r, n) \in UserResponse
         /\ Updated(old, r, n).created_at = old.created_at
         /\ Updated(old, r, n).updated_at = n
         /\ Updated(old, r, n).username =
              IF Renames(r, old) THEN UpdateData(r)["username"] ELSE old.username
         /\ Renames(r, old) => /\ UpdateData(r)["username"] \in Usernames
                               /\ UpdateData(r)["username"] # old.username
<1> DEFINE new == ModelCopy(old, UpdateData(r))
<1>1. /\ new \in UserResponse
      /\ new.created_at = old.created_at
      /\ new.username = IF Renames(r, old) THEN UpdateData(r)["username"]
                                           ELSE old.username
  BY UpdateDataFields DEF ModelCopy, UserResponse, Renames
<1>2. Updated(old, r, n) = [new EXCEPT !["updated_at"] = n]
  BY DEF Updated
<1> HIDE DEF new
<1>3. /\ Updated(old, r, n) \in UserResponse
      /\ Updated(old, r, n).created_at = old.created_at
      /\ Updated(old, r, n).updated_at = n
      /\ Updated(old, r, n).username = new.username
  BY <1>1, <1>2 DEF UserResponse
<1> QED
  BY <1>1, <1>3, UpdateDataFields DEF Renames

(* The row that a create stores.                                           *)
LEMMA CreatedRow ==
  ASSUME NEW r \in Requests, r.op = "create", NEW id \in UserIds, NEW n \in Nat
  PROVE  /\ NewUser(id, r, n) \in UserResponse
         /\ r.username \in Usernames
         /\ NewUser(id, r, n).username = r.username
         /\ NewUser(id, r, n).updated_at = n
  BY ActiveAssumption DEF NewUser, Requests, UserResponse

(* The ids and names that requests carry are of their sets.                *)
LEMMA RequestFields ==
  ASSUME NEW r \in Requests
  PROVE  /\ r.op \in {"get", "update", "delete"} => r.user_id \in UserIds
         /\ r.op = "by_username" => r.username \in Usernames
         /\ r.op \in {"list", "by_username", "get", "create", "update", "delete"}
  BY DEF Requests

-----------------------------------------------------------------------------
(* The invariant is inductive                                             *)

Control == TypeOK /\ LockInv /\ HandlerInv

(* A reply of the right shape keeps the replies well typed.                *)
LEMMA ReplyType ==
  ASSUME TypeOK, NEW t \in Threads, NEW rows \in SUBSET UserResponse,
         NEW status \in {200, 201, 204, 404, 409, 500}, Reply(t, status, rows)
  PROVE  /\ res' \in [Threads -> Replies \cup {None}]
         /\ res'[t] # None
         /\ \A u \in Threads \ {t} : res'[u] = res[u]
BY NoneAssumption DEF TypeOK, Reply, Replies

(* The locals with which update_user checks and stores.                    *)
LEMMA UpdateLocals ==
  ASSUME TypeOK, HandlerInv, NEW t \in Threads,
         pc[t] \in {"conflict", "store", "drop_name", "set_name"}
  PROVE  /\ req[t] \in Requests /\ req[t].op = "update"
         /\ uid[t] \in UserIds /\ uid[t] = req[t].user_id
         /\ row[t] \in UserResponse /\ row[t] # None
         /\ now[t] \in Nat
BY NoneAssumption DEF TypeOK, HandlerInv

(* Types, the lock and the locals, action by action.                       *)
LEMMA ControlStep == Control /\ [Next]_vars => Control'
<1> SUFFICES ASSUME Control, [Next]_vars PROVE Control'
  OBVIOUS
<1> USE ThreadAssumption, NoneAssumption
     DEF Control, store, locals, At, Goto, Set, Held
<1>1. CASE Tick
  BY <1>1 DEF Tick, TypeOK, LockInv, HandlerInv
<1>2. ASSUME NEW t \in Threads, Receive(t) PROVE Control'
  <2>1. TypeOK'
    BY <1>2, RequestFields, ReplyType DEF Receive, IdBudget, TypeOK,
       HandlerInv, Points
  <2>2. LockInv'
    BY <1>2, RequestFields DEF Receive, IdBudget, TypeOK, LockInv,
       HandlerInv, Outside
  <2>3. HandlerInv'
    BY <1>2, RequestFields DEF Receive, IdBudget, TypeOK, HandlerInv,
       LockInv, Outside
  <2> QED
    BY <2>1, <2>2, <2>3
<1>3. ASSUME NEW t \in Threads, Acquire(t) PROVE Control'
  <2>1. TypeOK'
    BY <1>3, RequestFields, ReplyType DEF Acquire, Entry, TypeOK, HandlerInv,
       Points
  <2>2. LockInv'
    BY <1>3, RequestFields DEF Acquire, Entry, TypeOK, LockInv, HandlerInv,
       Outside
  <2>3. HandlerInv'
    BY <1>3, RequestFields DEF Acquire, Entry, TypeOK, HandlerInv, LockInv,
       Outside
  <2> QED
    BY <2>1, <2>2, <2>3
<1>4. ASSUME NEW t \in Threads, Release(t) PROVE Control'
  <2>1. TypeOK'
    BY <1>4, ReplyType DEF Release, TypeOK, HandlerInv, Points
  <2>2. LockInv'
    BY <1>4 DEF Release, TypeOK, LockInv, HandlerInv, Outside
  <2>3. HandlerInv'
    BY <1>4 DEF Release, TypeOK, HandlerInv, LockInv, Outside
  <2> QED
    BY <2>1, <2>2, <2>3
<1>5. ASSUME NEW t \in Threads, Respond(t) PROVE Control'
  <2>1. TypeOK'
    BY <1>5, ReplyType DEF Respond, TypeOK, HandlerInv, Points
  <2>2. LockInv'
    BY <1>5 DEF Respond, TypeOK, LockInv, HandlerInv, Outside
  <2>3. HandlerInv'
    BY <1>5 DEF Respond, TypeOK, HandlerInv, LockInv, Outside
  <2> QED
    BY <2>1, <2>2, <2>3
<1>6. ASSUME NEW t \in Threads, ListUsers(t) PROVE Control'
  <2>1. TypeOK'
    BY <1>6, ReplyType DEF ListUsers, TypeOK, HandlerInv, Points
  <2>2. LockInv'
    BY <1>6 DEF ListUsers, TypeOK, LockInv, HandlerInv, Outside
  <2>3. HandlerInv'
    BY <1>6 DEF ListUsers, TypeOK, HandlerInv, LockInv, Outside
  <2> QED
    BY <2>1, <2>2, <2>3
<1>7. ASSUME NEW t \in Threads, FindOwner(t) PROVE Control'
  <2>1. TypeOK'
    <3>1. CASE usersByUsername[req[t].username] = None
      BY <1>7, <3>1, ReplyType DEF FindOwner, Raise, KeyError, TypeOK, Points
    <3>2. CASE usersByUsername[req[t].username] # None
      BY <1>7, <3>2, RequestFields DEF FindOwner, Raise, KeyError, TypeOK,
         HandlerInv, Points
    <3> QED
      BY <3>1, <3>2
  <2>2. LockInv'
    BY <1>7, RequestFields DEF FindOwner, Raise, KeyError, TypeOK, LockInv,
       HandlerInv, Outside
  <2>3. HandlerInv'
    BY <1>7, RequestFields DEF FindOwner, Raise, KeyError, TypeOK,
       HandlerInv, LockInv, Outside
  <2> QED
    BY <2>1, <2>2, <2>3
<1>8. ASSUME NEW t \in Threads, CheckExists(t) PROVE Control'
  <2>1. TypeOK'
    BY <1>8, ReplyType DEF CheckExists, AfterExists, Raise, KeyError, TypeOK,
       HandlerInv, Points
  <2>2. LockInv'
    BY <1>8 DEF CheckExists, AfterExists, Raise, KeyError, TypeOK, LockInv,
       HandlerInv, Outside
  <2>3. HandlerInv'
    BY <1>8 DEF CheckExists, AfterExists, Raise, KeyError, TypeOK,
       HandlerInv, LockInv, Outside
  <2> QED
    BY <2>1, <2>2, <2>3
<1>9. ASSUME NEW t \in Threads, ReadUser(t) PROVE Control'
  <2>1. TypeOK'
    BY <1>9, ReplyType DEF ReadUser, Raise, KeyError, TypeOK, HandlerInv,
       Points
  <2>2. LockInv'
    BY <1>9 DEF ReadUser, Raise, KeyError, TypeOK, LockInv, HandlerInv, Outside
  <2>3. HandlerInv'
    BY <1>9 DEF ReadUser, Raise, KeyError, TypeOK, HandlerInv, LockInv, Outside
  <2> QED
    BY <2>1, <2>2, <2>3
<1>10. ASSUME NEW t \in Threads, CheckUnique(t) PROVE Control'
  <2>1. TypeOK'
    BY <1>10, ReplyType DEF CheckUnique, Raise, KeyError, TypeOK, HandlerInv,
       Points
  <2>2. LockInv'
    BY <1>10 DEF CheckUnique, Raise, KeyError, TypeOK, LockInv, HandlerInv,
       Outside
  <2>3. HandlerInv'
    BY <1>10 DEF CheckUnique, Raise, KeyError, TypeOK, HandlerInv, LockInv,
       Outside
  <2> QED
    BY <2>1, <2>2, <2>3
<1>11. ASSUME NEW t \in Threads, InsertUser(t) PROVE Control'
  <2>1. TypeOK'
    BY <1>11, CreatedRow, ReplyType DEF InsertUser, TypeOK, HandlerInv, Points
  <2>2. LockInv'
    BY <1>11, CreatedRow DEF InsertUser, TypeOK, LockInv, HandlerInv, Outside
  <2>3. HandlerInv'
    BY <1>11, CreatedRow DEF InsertUser, TypeOK, HandlerInv, LockInv, Outside
  <2> QED
    BY <2>1, <2>2, <2>3
<1>12. ASSUME NEW t \in Threads, InsertName(t) PROVE Control'
  <2>1. TypeOK'
    BY <1>12, ReplyType DEF InsertName, TypeOK, HandlerInv, Points
  <2>2. LockInv'
    BY <1>12 DEF InsertName, TypeOK, LockInv, HandlerInv, Outside
  <2>3. HandlerInv'
    BY <1>12 DEF InsertName, TypeOK, HandlerInv, LockInv, Outside
  <2> QED
    BY <2>1, <2>2, <2>3
<1>13. ASSUME NEW t \in Threads, FetchUser(t) PROVE Control'
  <2>1. TypeOK'
    BY <1>13, ReplyType DEF FetchUser, Raise, KeyError, TypeOK, HandlerInv,
       Points
  <2>2. LockInv'
    BY <1>13 DEF FetchUser, Raise, KeyError, TypeOK, LockInv, HandlerInv,
       Outside
  <2>3. HandlerInv'
    BY <1>13 DEF FetchUser, Raise, KeyError, TypeOK, HandlerInv, LockInv,
       Outside
  <2> QED
    BY <2>1, <2>2, <2>3
<1>14. ASSUME NEW t \in Threads, CheckConflict(t) PROVE Control'
  <2>1. TypeOK'
    <3>1. CASE usersByUsername[NewUsername(t)] \notin {None, uid[t]}
      BY <1>14, <3>1, ReplyType DEF CheckConflict, NewUsername, Raise,
         KeyError, TypeOK, Points
    <3>2. CASE usersByUsername[NewUsername(t)] \in {None, uid[t]}
      BY <1>14, <3>2 DEF CheckConflict, NewUsername, Raise, KeyError, TypeOK,
         Points
    <3> QED
      BY <3>1, <3>2
  <2>2. LockInv'
    BY <1>14 DEF CheckConflict, NewUsername, Raise, KeyError, TypeOK,
       LockInv, HandlerInv, Outside
  <2>3. HandlerInv'
    BY <1>14 DEF CheckConflict, NewUsername, Raise, KeyError, TypeOK,
       HandlerInv, LockInv, Outside
  <2> QED
    BY <2>1, <2>2, <2>3
<1>15. ASSUME NEW t \in Threads, StoreUser(t) PROVE Control'
  <2>1. TypeOK'
    <3>1. Updated(row[t], req[t], now[t]) \in UserResponse
      BY <1>15, UpdatedRow DEF StoreUser, TypeOK, HandlerInv
    <3>2. res' \in [Threads -> Replies \cup {None}]
      BY <1>15, <3>1, ReplyType DEF StoreUser
    <3> QED
      BY <1>15, <3>1, <3>2 DEF StoreUser, TypeOK, Points
  <2>2. LockInv'
    BY <1>15, UpdatedRow DEF StoreUser, TypeOK, LockInv, HandlerInv, Outside
  <2>3. HandlerInv'
    BY <1>15, UpdatedRow DEF StoreUser, TypeOK, HandlerInv, LockInv, Outside
  <2> QED
    BY <2>1, <2>2, <2>3
<1>16. ASSUME NEW t \in Threads, DropName(t) PROVE Control'
  <2>1. TypeOK'
    BY <1>16, ReplyType DEF DropName, TypeOK, HandlerInv, Points
  <2>2. LockInv'
    BY <1>16 DEF DropName, TypeOK, LockInv, HandlerInv, Outside
  <2>3. HandlerInv'
    BY <1>16 DEF DropName, TypeOK, HandlerInv, LockInv, Outside
  <2> QED
    BY <2>1, <2>2, <2>3
<1>17. ASSUME NEW t \in Threads, SetName(t) PROVE Control'
  <2>1. TypeOK'
    BY <1>17, ReplyType DEF SetName, NewUsername, TypeOK, HandlerInv, Points
  <2>2. LockInv'
    BY <1>17 DEF SetName, NewUsername, TypeOK, LockInv, HandlerInv, Outside
  <2>3. HandlerInv'
    BY <1>17 DEF SetName, NewUsername, TypeOK, HandlerInv, LockInv, Outside
  <2> QED
    BY <2>1, <2>2, <2>3
<1>18. ASSUME NEW t \in Threads, PopUser(t) PROVE Control'
  <2>1. TypeOK'
    <3>1. CASE users[uid[t]] = None
      BY <1>18, <3>1, ReplyType DEF PopUser, Raise, KeyError, TypeOK, Points
    <3>2. CASE users[uid[t]] # None
      BY <1>18, <3>2, ReplyType DEF PopUser, Raise, KeyError, TypeOK,
         HandlerInv, Points
    <3> QED
      BY <3>1, <3>2
  <2>2. LockInv'
    BY <1>18 DEF PopUser, Raise, KeyError, TypeOK, LockInv, HandlerInv, Outside
  <2>3. HandlerInv'
    BY <1>18 DEF PopUser, Raise, KeyError, TypeOK, HandlerInv, LockInv, Outside
  <2> QED
    BY <2>1, <2>2, <2>3
<1>19. ASSUME NEW t \in Threads, PopName(t) PROVE Control'
  <2>1. TypeOK'
    BY <1>19, ReplyType DEF PopName, TypeOK, HandlerInv, Points
  <2>2. LockInv'
    BY <1>19 DEF PopName, TypeOK, LockInv, HandlerInv, Outside
  <2>3. HandlerInv'
    BY <1>19 DEF PopName, TypeOK, HandlerInv, LockInv, Outside
  <2> QED
    BY <2>1, <2>2, <2>3
<1>20. CASE UNCHANGED vars
  BY <1>20 DEF vars, TypeOK, LockInv, HandlerInv
<1> QED
  BY <1>1, <1>2, <1>3, <1>4, <1>5, <1>6, <1>7, <1>8, <1>9, <1>10, <1>11,
     <1>12, <1>13, <1>14, <1>15, <1>16, <1>17, <1>18, <1>19, <1>20 DEF Next,
     Handler

(* What a handler has checked in the store still holds for it later. *)
LEMMA StoreStep == Control /\ StoreInv /\ IndexInv /\ [Next]_vars => StoreInv'
<1> SUFFICES ASSUME Control /\ StoreInv /\ IndexInv, [Next]_vars PROVE StoreInv'
  OBVIOUS
<1> USE ThreadAssumption, NoneAssumption
     DEF Control, store, locals, At, Goto, Set, Held
<1>1. CASE Tick
  BY <1>1 DEF Tick, TypeOK, LockInv, HandlerInv, Outside, StoreInv, NewUsername
<1>2. ASSUME NEW t \in Threads, Receive(t) PROVE StoreInv'
  BY <1>2, RequestFields DEF Receive, TypeOK, LockInv, HandlerInv, Outside,
     StoreInv, NewUsername
<1>3. ASSUME NEW t \in Threads, Acquire(t) PROVE StoreInv'
  BY <1>3 DEF Acquire, Entry, TypeOK, LockInv, HandlerInv, Outside, StoreInv,
     NewUsername
<1>4. ASSUME NEW t \in Threads, Release(t) PROVE StoreInv'
  BY <1>4 DEF Release, TypeOK, LockInv, HandlerInv, Outside, StoreInv,
     NewUsername
<1>5. ASSUME NEW t \in Threads, Respond(t) PROVE StoreInv'
  BY <1>5 DEF Respond, TypeOK, LockInv, HandlerInv, Outside, StoreInv,
     NewUsername
<1>6. ASSUME NEW t \in Threads, ListUsers(t) PROVE StoreInv'
  BY <1>6 DEF ListUsers, TypeOK, LockInv, HandlerInv, Outside, StoreInv,
     NewUsername
<1>7. ASSUME NEW t \in Threads, FindOwner(t) PROVE StoreInv'
  BY <1>7 DEF FindOwner, Raise, KeyError, TypeOK, LockInv, HandlerInv,
     Outside, StoreInv, NewUsername
<1>8. ASSUME NEW t \in Threads, CheckExists(t) PROVE StoreInv'
  BY <1>8 DEF CheckExists, AfterExists, Raise, KeyError, TypeOK, LockInv,
     HandlerInv, Outside, StoreInv, NewUsername
<1>9. ASSUME NEW t \in Threads, ReadUser(t) PROVE StoreInv'
  BY <1>9 DEF ReadUser, Raise, KeyError, TypeOK, LockInv, HandlerInv,
     Outside, StoreInv, NewUsername
<1>10. ASSUME NEW t \in Threads, CheckUnique(t) PROVE StoreInv'
  BY <1>10 DEF CheckUnique, Raise, KeyError, TypeOK, LockInv, HandlerInv,
     Outside, StoreInv, NewUsername
<1>11. ASSUME NEW t \in Threads, InsertUser(t) PROVE StoreInv'
  BY <1>11, CreatedRow DEF InsertUser, TypeOK, LockInv, HandlerInv, Outside,
     StoreInv, NewUsername
<1>12. ASSUME NEW t \in Threads, InsertName(t) PROVE StoreInv'
  BY <1>12 DEF InsertName, TypeOK, LockInv, HandlerInv, Outside, StoreInv,
     NewUsername
<1>13. ASSUME NEW t \in Threads, FetchUser(t) PROVE StoreInv'
  BY <1>13 DEF FetchUser, Raise, KeyError, TypeOK, LockInv, HandlerInv,
     Outside, StoreInv, NewUsername
<1>14. ASSUME NEW t \in Threads, CheckConflict(t) PROVE StoreInv'
  BY <1>14 DEF CheckConflict, NewUsername, Raise, KeyError, TypeOK, LockInv,
     HandlerInv, Outside, StoreInv
<1>15. ASSUME NEW t \in Threads, StoreUser(t) PROVE StoreInv'
  <2>1. Updated(row[t], req[t], now[t]) # None
    BY <1>15, UpdatedRow DEF StoreUser, TypeOK, HandlerInv
  <2>2. uid[t] \in minted
    BY <1>15 DEF StoreUser, TypeOK, HandlerInv, StoreInv
  <2> QED
    BY <1>15, <2>1, <2>2
       DEF StoreUser, TypeOK, LockInv, Outside, StoreInv, NewUsername
<1>16. ASSUME NEW t \in Threads, DropName(t) PROVE StoreInv'
  BY <1>16 DEF DropName, NewUsername, TypeOK, LockInv, HandlerInv, Outside,
     StoreInv
<1>17. ASSUME NEW t \in Threads, SetName(t) PROVE StoreInv'
  BY <1>17 DEF SetName, NewUsername, TypeOK, LockInv, HandlerInv, Outside,
     StoreInv
<1>18. ASSUME NEW t \in Threads, PopUser(t) PROVE StoreInv'
  BY <1>18 DEF PopUser, Raise, KeyError, TypeOK, LockInv, HandlerInv,
     Outside, StoreInv, NewUsername
<1>19. ASSUME NEW t \in Threads, PopName(t) PROVE StoreInv'
  BY <1>19 DEF PopName, TypeOK, LockInv, HandlerInv, Outside, StoreInv,
     NewUsername
<1>20. CASE UNCHANGED vars
  BY <1>20 DEF vars, TypeOK, LockInv, HandlerInv, Outside, StoreInv,
     NewUsername
<1> QED
  BY <1>1, <1>2, <1>3, <1>4, <1>5, <1>6, <1>7, <1>8, <1>9, <1>10, <1>11,
     <1>12, <1>13, <1>14, <1>15, <1>16, <1>17, <1>18, <1>19, <1>20 DEF Next,
     Handler

(* No clock reading runs ahead of the clock.                               *)
LEMMA TimeStep == Control /\ StoreInv /\ TimeInv /\ [Next]_vars => TimeInv'
<1> SUFFICES ASSUME Control /\ StoreInv /\ TimeInv, [Next]_vars PROVE TimeInv'
  OBVIOUS
<1> USE ThreadAssumption, NoneAssumption
     DEF Control, store, locals, At, Goto, Set, Held
<1>1. CASE Tick
  BY <1>1 DEF Tick, TypeOK, LockInv, HandlerInv, StoreInv, TimeInv,
     UserResponse
<1>2. ASSUME NEW t \in Threads, Receive(t) PROVE TimeInv'
  BY <1>2, RequestFields DEF Receive, TypeOK, LockInv, HandlerInv, StoreInv,
     TimeInv, UserResponse
<1>3. ASSUME NEW t \in Threads, Acquire(t) PROVE TimeInv'
  BY <1>3 DEF Acquire, Entry, TypeOK, LockInv, HandlerInv, StoreInv, TimeInv,
     UserResponse
<1>4. ASSUME NEW t \in Threads, Release(t) PROVE TimeInv'
  BY <1>4 DEF Release, TypeOK, LockInv, HandlerInv, StoreInv, TimeInv,
     UserResponse
<1>5. ASSUME NEW t \in Threads, Respond(t) PROVE TimeInv'
  BY <1>5 DEF Respond, TypeOK, LockInv, HandlerInv, StoreInv, TimeInv,
     UserResponse
<1>6. ASSUME NEW t \in Threads, ListUsers(t) PROVE TimeInv'
  BY <1>6 DEF ListUsers, TypeOK, LockInv, HandlerInv, StoreInv, TimeInv,
     UserResponse
<1>7. ASSUME NEW t \in Threads, FindOwner(t) PROVE TimeInv'
  BY <1>7 DEF FindOwner, Raise, KeyError, TypeOK, LockInv, HandlerInv,
     StoreInv, TimeInv, UserResponse
<1>8. ASSUME NEW t \in Threads, CheckExists(t) PROVE TimeInv'
  BY <1>8 DEF CheckExists, AfterExists, Raise, KeyError, TypeOK, LockInv,
     HandlerInv, StoreInv, TimeInv, UserResponse
<1>9. ASSUME NEW t \in Threads, ReadUser(t) PROVE TimeInv'
  BY <1>9 DEF ReadUser, Raise, KeyError, TypeOK, LockInv, HandlerInv,
     StoreInv, TimeInv, UserResponse
<1>10. ASSUME NEW t \in Threads, CheckUnique(t) PROVE TimeInv'
  BY <1>10 DEF CheckUnique, Raise, KeyError, TypeOK, LockInv, HandlerInv,
     StoreInv, TimeInv, UserResponse
<1>11. ASSUME NEW t \in Threads, InsertUser(t) PROVE TimeInv'
  BY <1>11, CreatedRow DEF InsertUser, TypeOK, LockInv, HandlerInv, StoreInv,
     TimeInv, UserResponse
<1>12. ASSUME NEW t \in Threads, InsertName(t) PROVE TimeInv'
  BY <1>12 DEF InsertName, TypeOK, LockInv, HandlerInv, StoreInv, TimeInv,
     UserResponse
<1>13. ASSUME NEW t \in Threads, FetchUser(t) PROVE TimeInv'
  BY <1>13 DEF FetchUser, Raise, KeyError, TypeOK, LockInv, HandlerInv,
     StoreInv, TimeInv, UserResponse
<1>14. ASSUME NEW t \in Threads, CheckConflict(t) PROVE TimeInv'
  BY <1>14 DEF CheckConflict, NewUsername, Raise, KeyError, TypeOK, LockInv,
     HandlerInv, StoreInv, TimeInv, UserResponse
<1>15. ASSUME NEW t \in Threads, StoreUser(t) PROVE TimeInv'
  BY <1>15, UpdatedRow DEF StoreUser, TypeOK, LockInv, HandlerInv, StoreInv,
     TimeInv, UserResponse
<1>16. ASSUME NEW t \in Threads, DropName(t) PROVE TimeInv'
  BY <1>16 DEF DropName, NewUsername, TypeOK, LockInv, HandlerInv, StoreInv,
     TimeInv, UserResponse
<1>17. ASSUME NEW t \in Threads, SetName(t) PROVE TimeInv'
  BY <1>17 DEF SetName, NewUsername, TypeOK, LockInv, HandlerInv, StoreInv,
     TimeInv, UserResponse
<1>18. ASSUME NEW t \in Threads, PopUser(t) PROVE TimeInv'
  BY <1>18 DEF PopUser, Raise, KeyError, TypeOK, LockInv, HandlerInv,
     StoreInv, TimeInv, UserResponse
<1>19. ASSUME NEW t \in Threads, PopName(t) PROVE TimeInv'
  BY <1>19 DEF PopName, TypeOK, LockInv, HandlerInv, StoreInv, TimeInv,
     UserResponse
<1>20. CASE UNCHANGED vars
  BY <1>20 DEF vars, TypeOK, LockInv, HandlerInv, StoreInv, TimeInv,
     UserResponse
<1> QED
  BY <1>1, <1>2, <1>3, <1>4, <1>5, <1>6, <1>7, <1>8, <1>9, <1>10, <1>11,
     <1>12, <1>13, <1>14, <1>15, <1>16, <1>17, <1>18, <1>19, <1>20 DEF Next,
     Handler

(* A handler has its reply from the step that settles it until it responds. *)
LEMMA ReplyStep == Control /\ ReplyInv /\ [Next]_vars => ReplyInv'
<1> SUFFICES ASSUME Control /\ ReplyInv, [Next]_vars PROVE ReplyInv'
  OBVIOUS
<1> USE ReplyType
     DEF Control, store, locals, At, Goto, Set, Held
<1>1. CASE Tick
  BY <1>1 DEF Tick, TypeOK, HandlerInv, ReplyInv, Answered
<1>2. ASSUME NEW t \in Threads, Receive(t) PROVE ReplyInv'
  BY <1>2, RequestFields DEF Receive, TypeOK, HandlerInv, ReplyInv, Answered
<1>3. ASSUME NEW t \in Threads, Acquire(t) PROVE ReplyInv'
  BY <1>3 DEF Acquire, Entry, TypeOK, HandlerInv, ReplyInv, Answered
<1>4. ASSUME NEW t \in Threads, Release(t) PROVE ReplyInv'
  BY <1>4 DEF Release, TypeOK, HandlerInv, ReplyInv, Answered
<1>5. ASSUME NEW t \in Threads, Respond(t) PROVE ReplyInv'
  BY <1>5 DEF Respond, TypeOK, HandlerInv, ReplyInv, Answered
<1>6. ASSUME NEW t \in Threads, ListUsers(t) PROVE ReplyInv'
  BY <1>6 DEF ListUsers, TypeOK, HandlerInv, ReplyInv, Answered
<1>7. ASSUME NEW t \in Threads, FindOwner(t) PROVE ReplyInv'
  BY <1>7 DEF FindOwner, Raise, KeyError, TypeOK, HandlerInv, ReplyInv,
     Answered
<1>8. ASSUME NEW t \in Threads, CheckExists(t) PROVE ReplyInv'
  BY <1>8 DEF CheckExists, AfterExists, Raise, KeyError, TypeOK, HandlerInv,
     ReplyInv, Answered
<1>9. ASSUME NEW t \in Threads, ReadUser(t) PROVE ReplyInv'
  BY <1>9 DEF ReadUser, Raise, KeyError, TypeOK, HandlerInv, ReplyInv, Answered
<1>10. ASSUME NEW t \in Threads, CheckUnique(t) PROVE ReplyInv'
  BY <1>10 DEF CheckUnique, Raise, KeyError, TypeOK, HandlerInv, ReplyInv,
     Answered
<1>11. ASSUME NEW t \in Threads, InsertUser(t) PROVE ReplyInv'
  BY <1>11, CreatedRow DEF InsertUser, TypeOK, HandlerInv, ReplyInv, Answered
<1>12. ASSUME NEW t \in Threads, InsertName(t) PROVE ReplyInv'
  BY <1>12 DEF InsertName, TypeOK, HandlerInv, ReplyInv, Answered
<1>13. ASSUME NEW t \in Threads, FetchUser(t) PROVE ReplyInv'
  BY <1>13 DEF FetchUser, Raise, KeyError, TypeOK, HandlerInv, ReplyInv,
     Answered
<1>14. ASSUME NEW t \in Threads, CheckConflict(t) PROVE ReplyInv'
  BY <1>14 DEF CheckConflict, NewUsername, Raise, KeyError, TypeOK,
     HandlerInv, ReplyInv, Answered
<1>15. ASSUME NEW t \in Threads, StoreUser(t) PROVE ReplyInv'
  <2>1. {Updated(row[t], req[t], now[t])} \in SUBSET UserResponse
    BY <1>15, UpdatedRow DEF StoreUser, TypeOK, HandlerInv
  <2> QED
    BY <1>15, <2>1 DEF StoreUser, TypeOK, ReplyInv, Answered
<1>16. ASSUME NEW t \in Threads, DropName(t) PROVE ReplyInv'
  BY <1>16 DEF DropName, NewUsername, TypeOK, HandlerInv, ReplyInv, Answered
<1>17. ASSUME NEW t \in Threads, SetName(t) PROVE ReplyInv'
  BY <1>17 DEF SetName, NewUsername, TypeOK, HandlerInv, ReplyInv, Answered
<1>18. ASSUME NEW t \in Threads, PopUser(t) PROVE ReplyInv'
  BY <1>18 DEF PopUser, Raise, KeyError, TypeOK, HandlerInv, ReplyInv, Answered
<1>19. ASSUME NEW t \in Threads, PopName(t) PROVE ReplyInv'
  BY <1>19 DEF PopName, TypeOK, HandlerInv, ReplyInv, Answered
<1>20. CASE UNCHANGED vars
  BY <1>20 DEF vars, TypeOK, HandlerInv, ReplyInv, Answered
<1> QED
  BY <1>1, <1>2, <1>3, <1>4, <1>5, <1>6, <1>7, <1>8, <1>9, <1>10, <1>11,
     <1>12, <1>13, <1>14, <1>15, <1>16, <1>17, <1>18, <1>19, <1>20 DEF Next,
     Handler

(* No step raises KeyError.                                                *)
LEMMA ErrorStep == Control /\ StoreInv /\ NoServerError /\ [Next]_vars => NoServerError'
<1> SUFFICES ASSUME Control /\ StoreInv /\ NoServerError, [Next]_vars PROVE NoServerError'
  OBVIOUS
<1> USE NoneAssumption
     DEF Control, store, locals, At, Goto, Set, Held
<1>1. CASE Tick
  BY <1>1 DEF Tick, TypeOK, StoreInv, NoServerError, Reply
<1>2. ASSUME NEW t \in Threads, Receive(t) PROVE NoServerError'
  BY <1>2, RequestFields DEF Receive, TypeOK, StoreInv, NoServerError, Reply
<1>3. ASSUME NEW t \in Threads, Acquire(t) PROVE NoServerError'
  BY <1>3 DEF Acquire, Entry, TypeOK, StoreInv, NoServerError, Reply
<1>4. ASSUME NEW t \in Threads, Release(t) PROVE NoServerError'
  BY <1>4 DEF Release, TypeOK, StoreInv, NoServerError, Reply
<1>5. ASSUME NEW t \in Threads, Respond(t) PROVE NoServerError'
  BY <1>5 DEF Respond, TypeOK, StoreInv, NoServerError, Reply
<1>6. ASSUME NEW t \in Threads, ListUsers(t) PROVE NoServerError'
  BY <1>6 DEF ListUsers, TypeOK, StoreInv, NoServerError, Reply
<1>7. ASSUME NEW t \in Threads, FindOwner(t) PROVE NoServerError'
  BY <1>7 DEF FindOwner, Raise, KeyError, TypeOK, StoreInv, NoServerError,
     Reply
<1>8. ASSUME NEW t \in Threads, CheckExists(t) PROVE NoServerError'
  BY <1>8 DEF CheckExists, AfterExists, Raise, KeyError, TypeOK, StoreInv,
     NoServerError, Reply
<1>9. ASSUME NEW t \in Threads, ReadUser(t) PROVE NoServerError'
  BY <1>9 DEF ReadUser, Raise, KeyError, TypeOK, StoreInv, NoServerError, Reply
<1>10. ASSUME NEW t \in Threads, CheckUnique(t) PROVE NoServerError'
  BY <1>10 DEF CheckUnique, Raise, KeyError, TypeOK, StoreInv, NoServerError,
     Reply
<1>11. ASSUME NEW t \in Threads, InsertUser(t) PROVE NoServerError'
  BY <1>11, CreatedRow DEF InsertUser, TypeOK, StoreInv, NoServerError, Reply
<1>12. ASSUME NEW t \in Threads, InsertName(t) PROVE NoServerError'
  BY <1>12 DEF InsertName, TypeOK, StoreInv, NoServerError, Reply
<1>13. ASSUME NEW t \in Threads, FetchUser(t) PROVE NoServerError'
  BY <1>13 DEF FetchUser, Raise, KeyError, TypeOK, StoreInv, NoServerError,
     Reply
<1>14. ASSUME NEW t \in Threads, CheckConflict(t) PROVE NoServerError'
  BY <1>14 DEF CheckConflict, NewUsername, Raise, KeyError, TypeOK, StoreInv,
     NoServerError, Reply
<1>15. ASSUME NEW t \in Threads, StoreUser(t) PROVE NoServerError'
  BY <1>15, UpdatedRow DEF StoreUser, TypeOK, StoreInv, NoServerError, Reply
<1>16. ASSUME NEW t \in Threads, DropName(t) PROVE NoServerError'
  BY <1>16 DEF DropName, NewUsername, TypeOK, StoreInv, NoServerError, Reply
<1>17. ASSUME NEW t \in Threads, SetName(t) PROVE NoServerError'
  BY <1>17 DEF SetName, NewUsername, TypeOK, StoreInv, NoServerError, Reply
<1>18. ASSUME NEW t \in Threads, PopUser(t) PROVE NoServerError'
  BY <1>18 DEF PopUser, Raise, KeyError, TypeOK, StoreInv, NoServerError, Reply
<1>19. ASSUME NEW t \in Threads, PopName(t) PROVE NoServerError'
  BY <1>19 DEF PopName, TypeOK, StoreInv, NoServerError, Reply
<1>20. CASE UNCHANGED vars
  BY <1>20 DEF vars, TypeOK, StoreInv, NoServerError, Reply
<1> QED
  BY <1>1, <1>2, <1>3, <1>4, <1>5, <1>6, <1>7, <1>8, <1>9, <1>10, <1>11,
     <1>12, <1>13, <1>14, <1>15, <1>16, <1>17, <1>18, <1>19, <1>20 DEF Next,
     Handler

-----------------------------------------------------------------------------
(* Consistency of the index under the writes of the three handlers         *)

(* A new user under a username that the index does not have.               *)
LEMMA AddName ==
  ASSUME NEW u \in [UserIds -> UserResponse \cup {None}],
         NEW i \in [Usernames -> UserIds \cup {None}],
         NEW id \in UserIds, NEW new \in UserResponse,
         Consistent(u, i), u[id] = None, i[new.username] = None
  PROVE  Consistent([u EXCEPT ![id] = new], [i EXCEPT ![new.username] = id])
BY NoneAssumption DEF Consistent, UserResponse

(* A rename to a username that no other user has.                          *)
LEMMA MoveName ==
  ASSUME NEW u \in [UserIds -> UserResponse \cup {None}],
         NEW i \in [Usernames -> UserIds \cup {None}],
         NEW id \in UserIds, NEW new \in UserResponse,
         Consistent(u, i), u[id] # None, new.username # u[id].username,
         i[new.username] \in {None, id}
  PROVE  Consistent([u EXCEPT ![id] = new],
                    [i EXCEPT ![u[id].username] = None, ![new.username] = id])
BY NoneAssumption DEF Consistent, UserResponse

(* An update that keeps the username.                                      *)
LEMMA KeepName ==
  ASSUME NEW u \in [UserIds -> UserResponse \cup {None}],
         NEW i \in [Usernames -> UserIds \cup {None}],
         NEW id \in UserIds, NEW new \in UserResponse,
         Consistent(u, i), u[id] # None, new.username = u[id].username
  PROVE  Consistent([u EXCEPT ![id] = new], i)
BY NoneAssumption DEF Consistent, UserResponse

(* A removal, from the store and from the index.                           *)
LEMMA RemoveName ==
  ASSUME NEW u \in [UserIds -> UserResponse \cup {None}],
         NEW i \in [Usernames -> UserIds \cup {None}],
         NEW id \in UserIds, Consistent(u, i), u[id] # None
  PROVE  Consistent([u EXCEPT ![id] = None],
                    [i EXCEPT ![u[id].username] = None])
BY NoneAssumption DEF Consistent, UserResponse

(* Once the thread inside the lock has finished its index writes, the     *)
(* index agrees with the store.                                            *)
LEMMA IndexStep == Control /\ StoreInv /\ IndexInv /\ [Next]_vars => IndexInv'
<1> SUFFICES ASSUME Control, StoreInv, IndexInv, [Next]_vars PROVE IndexInv'
  OBVIOUS
<1> USE ThreadAssumption, NoneAssumption DEF At, Goto, Set, Held, store, locals
<1>1. CASE Tick \/ UNCHANGED vars
  BY <1>1 DEF Tick, vars, IndexInv, Settled, Consistent, NewUsername
<1>2. ASSUME NEW t \in Threads, Receive(t) \/ Respond(t) PROVE IndexInv'
  <2>1. usersLock # t
    BY <1>2 DEF Receive, Respond, Control, LockInv, Outside, TypeOK
  <2>2. \A u \in Threads : usersLock = u => Settled(u)' = Settled(u)
    BY <1>2, <2>1 DEF Receive, Respond, Control, TypeOK, Settled, NewUsername
  <2> QED
    BY <1>2, <2>2 DEF Receive, Respond, IndexInv, Consistent
<1>3. ASSUME NEW t \in Threads, Acquire(t) PROVE IndexInv'
  <2>1. Settled(t)' = usersByUsername
    BY <1>3 DEF Acquire, Entry, Settled, Control, TypeOK
  <2> QED
    BY <1>3, <2>1 DEF Acquire, IndexInv, Consistent
<1>4. ASSUME NEW t \in Threads, Release(t) PROVE IndexInv'
  <2>1. Settled(t) = usersByUsername /\ usersLock = t
    BY <1>4 DEF Release, Settled, Control, LockInv, Outside
  <2> QED
    BY <1>4, <2>1 DEF Release, IndexInv, Consistent
(* Reads: the store is as before, and no index write is left to do.        *)
<1>5. ASSUME NEW t \in Threads,
             \/ ListUsers(t) \/ FindOwner(t) \/ CheckExists(t) \/ ReadUser(t)
             \/ CheckUnique(t) \/ FetchUser(t) \/ CheckConflict(t)
      PROVE  IndexInv'
  <2> USE DEF ListUsers, FindOwner, CheckExists, ReadUser, CheckUnique,
              FetchUser, CheckConflict, Raise, KeyError, AfterExists
  <2>1. usersLock = t /\ usersLock' = t
    BY <1>5 DEF Control, LockInv, Outside
  <2>2. Settled(t) = usersByUsername
    BY <1>5 DEF Settled
  <2>3. Settled(t)' = usersByUsername
    BY <1>5 DEF Settled, Control, TypeOK
  <2>4. UNCHANGED users
    BY <1>5
  <2> QED
    BY <2>1, <2>2, <2>3, <2>4 DEF IndexInv, Consistent
(* Index writes: they do what Settled has counted in already.              *)
<1>6. ASSUME NEW t \in Threads,
             InsertName(t) \/ DropName(t) \/ SetName(t) \/ PopName(t)
      PROVE  IndexInv'
  <2> USE DEF InsertName, DropName, SetName, PopName
  <2>1. usersLock = t /\ usersLock' = t
    BY <1>6 DEF Control, LockInv, Outside
  <2>2. Settled(t)' = Settled(t)
    BY <1>6 DEF Settled, Control, TypeOK, NewUsername
  <2> QED
    BY <1>6, <2>1, <2>2 DEF IndexInv, Consistent
<1>7. ASSUME NEW t \in Threads, InsertUser(t) PROVE IndexInv'
  <2>1. usersLock = t /\ usersLock' = t /\ Consistent(users, usersByUsername)
    BY <1>7 DEF InsertUser, Control, LockInv, Outside, IndexInv, Settled
  <2>2. PICK id \in UserIds \ minted :
          /\ users' = [users EXCEPT ![id] = NewUser(id, req[t], now[t])]
          /\ uid' = [uid EXCEPT ![t] = id]
    BY <1>7 DEF InsertUser
  <2> DEFINE new   == NewUser(id, req[t], now[t])
             table == [users EXCEPT ![id] = new]
             names == [usersByUsername EXCEPT ![new.username] = id]
  <2>3. /\ new \in UserResponse /\ new.username = req[t].username
        /\ users[id] = None /\ usersByUsername[new.username] = None
    BY <1>7, CreatedRow DEF InsertUser, Control, TypeOK, HandlerInv, StoreInv
  <2>4. users' = table /\ Settled(t)' = names
    BY <1>7, <2>2, <2>3 DEF InsertUser, Settled, Control, TypeOK
  <2>5. Consistent(table, names)
    <3> HIDE DEF new
    <3> QED
      BY <2>1, <2>3, AddName DEF Control, TypeOK
  <2> HIDE DEF table, names
  <2> QED
    BY <2>1, <2>4, <2>5 DEF IndexInv, Consistent
<1>8. ASSUME NEW t \in Threads, StoreUser(t) PROVE IndexInv'
  <2>1. usersLock = t /\ usersLock' = t /\ Consistent(users, usersByUsername)
    BY <1>8 DEF StoreUser, Control, LockInv, Outside, IndexInv, Settled
  <2> DEFINE new   == Updated(row[t], req[t], now[t])
             table == [users EXCEPT ![uid[t]] = new]
  <2>2. /\ new \in UserResponse /\ uid[t] \in UserIds
        /\ users[uid[t]] = row[t] /\ row[t] # None
        /\ users' = table
    BY <1>8, UpdateLocals, UpdatedRow DEF StoreUser, Control, StoreInv
  <2>3. CASE Renames(req[t], row[t])
    <3> DEFINE names == [usersByUsername EXCEPT ![row[t].username] = None,
                                                ![new.username] = uid[t]]
    <3>1. /\ new.username = NewUsername(t) /\ new.username # row[t].username
          /\ usersByUsername[new.username] \in {None, uid[t]}
      BY <1>8, <2>3, UpdateLocals, UpdatedRow
         DEF StoreUser, Control, StoreInv, NewUsername
    <3>2. Settled(t)' = names
      BY <1>8, <2>3, <3>1 DEF StoreUser, Settled, Control, TypeOK, NewUsername
    <3>3. Consistent(table, names)
      <4> HIDE DEF new
      <4> QED
        BY <2>1, <2>2, <3>1, MoveName DEF Control, TypeOK
    <3> HIDE DEF table, names
    <3> QED
      BY <2>1, <2>2, <3>2, <3>3 DEF IndexInv, Consistent
  <2>4. CASE ~Renames(req[t], row[t])
    <3>1. new.username = row[t].username
      BY <1>8, <2>4, UpdateLocals, UpdatedRow DEF StoreUser, Control
    <3>2. Settled(t)' = usersByUsername
      BY <1>8, <2>4 DEF StoreUser, Settled, Control, TypeOK
    <3>3. Consistent(table, usersByUsername)
      <4> HIDE DEF new
      <4> QED
        BY <2>1, <2>2, <3>1, KeepName DEF Control, TypeOK
    <3> HIDE DEF table
    <3> QED
      BY <2>1, <2>2, <3>2, <3>3 DEF IndexInv, Consistent
  <2> QED
    BY <2>3, <2>4
<1>9. ASSUME NEW t \in Threads, PopUser(t) PROVE IndexInv'
  <2>1. usersLock = t /\ usersLock' = t /\ Consistent(users, usersByUsername)
    BY <1>9 DEF PopUser, Control, LockInv, Outside, IndexInv, Settled
  <2> DEFINE table == [users EXCEPT ![uid[t]] = None]
             names == [usersByUsername EXCEPT ![users[uid[t]].username] = None]
  <2>2. /\ uid[t] \in UserIds /\ users[uid[t]] # None
        /\ users' = table
        /\ row'[t] = users[uid[t]]
    BY <1>9 DEF PopUser, Control, TypeOK, HandlerInv, StoreInv
  <2>3. Settled(t)' = names
    BY <1>9, <2>2 DEF PopUser, Settled, Control, TypeOK
  <2>4. Consistent(table, names)
    BY <2>1, <2>2, RemoveName DEF Control, TypeOK
  <2> HIDE DEF table, names
  <2> QED
    BY <2>1, <2>2, <2>3, <2>4 DEF IndexInv, Consistent
<1> QED
  BY <1>1, <1>2, <1>3, <1>4, <1>5, <1>6, <1>7, <1>8, <1>9 DEF Next, Handler

-----------------------------------------------------------------------------
(* The theorems                                                            *)

(* The empty store satisfies the invariant.                                *)
LEMMA InitIInv == Init => IInv
<1> SUFFICES ASSUME Init PROVE IInv
  OBVIOUS
<1> USE ThreadAssumption, NoneAssumption DEF Init
<1>1. TypeOK
  BY DEF TypeOK, Points
<1>2. LockInv /\ HandlerInv /\ StoreInv /\ ReplyInv /\ NoServerError
  BY DEF LockInv, Outside, HandlerInv, Answered, StoreInv, ReplyInv,
     NoServerError
<1>3. IndexInv /\ TimeInv
  BY DEF IndexInv, Consistent, TimeInv
<1> QED
  BY <1>1, <1>2, <1>3 DEF IInv

(* Every step preserves the invariant.                                     *)
LEMMA NextIInv == IInv /\ [Next]_vars => IInv'
BY ControlStep, StoreStep, IndexStep, TimeStep, ReplyStep,
   ErrorStep DEF IInv, Control

(* The inductive invariant holds in every reachable state.                 *)
THEOREM Invariance == Spec => []IInv
<1>1. Init => IInv
  BY InitIInv
<1>2. IInv /\ [Next]_vars => IInv'
  BY NextIInv
<1> QED
  BY <1>1, <1>2, PTL DEF Spec

(* The state of the service and of its handlers keeps its type.            *)
THEOREM TypeCorrect == Spec => []TypeOK
<1>1. IInv => TypeOK
  BY DEF IInv
<1> QED
  BY <1>1, Invariance, PTL

(* _USERS_LOCK does its work: two threads are never inside it together.    *)
THEOREM MutualExclusion ==
  Spec => [](\A t, u \in Threads :
               pc[t] \notin Outside /\ pc[u] \notin Outside => t = u)
<1>1. IInv => \A t, u \in Threads :
                pc[t] \notin Outside /\ pc[u] \notin Outside => t = u
  BY DEF IInv, LockInv
<1> QED
  BY <1>1, Invariance, PTL

(* For any number of threads and users, _USERS and _USERS_BY_USERNAME      *)
(* agree whenever the lock is free: usernames are unique and every stored  *)
(* user is found under its username, and under no other.                   *)
THEOREM IndexAlwaysConsistent == Spec => []IndexConsistent
<1>1. IInv => IndexConsistent
  BY DEF IInv, IndexInv, IndexConsistent
<1> QED
  BY <1>1, Invariance, PTL

(* No handler raises KeyError on a row it has checked to exist.            *)
THEOREM NeverServerError == Spec => []NoServerError
<1>1. IInv => NoServerError
  BY DEF IInv
<1> QED
  BY <1>1, Invariance, PTL

(* The writes of _USERS: a fresh id, an existing user, or a removal.       *)
LEMMA UsersStep ==
  ASSUME IInv, [Next]_vars
  PROVE  \/ UNCHANGED users
         \/ \E id \in UserIds \ minted, new \in UserResponse :
              users' = [users EXCEPT ![id] = new]
         \/ \E id \in UserIds, new \in UserResponse :
              /\ users[id] # None
              /\ new.created_at = users[id].created_at
              /\ new.updated_at >= users[id].updated_at
              /\ users' = [users EXCEPT ![id] = new]
         \/ \E id \in UserIds : users' = [users EXCEPT ![id] = None]
<1> USE DEF IInv, Held, store, locals
<1>1. ASSUME NEW t \in Threads, InsertUser(t)
      PROVE  \E id \in UserIds \ minted, new \in UserResponse :
               users' = [users EXCEPT ![id] = new]
  <2>1. PICK id \in UserIds \ minted :
          users' = [users EXCEPT ![id] = NewUser(id, req[t], now[t])]
    BY <1>1 DEF InsertUser
  <2>2. NewUser(id, req[t], now[t]) \in UserResponse
    BY <1>1, CreatedRow DEF InsertUser, At, TypeOK, HandlerInv
  <2> QED
    BY <2>1, <2>2
<1>2. ASSUME NEW t \in Threads, StoreUser(t)
      PROVE  \E id \in UserIds, new \in UserResponse :
               /\ users[id] # None
               /\ new.created_at = users[id].created_at
               /\ new.updated_at >= users[id].updated_at
               /\ users' = [users EXCEPT ![id] = new]
  <2> DEFINE new == Updated(row[t], req[t], now[t])
  <2>1. /\ new \in UserResponse /\ uid[t] \in UserIds
        /\ row[t] # None /\ users[uid[t]] = row[t]
        /\ new.created_at = row[t].created_at
        /\ new.updated_at = now[t] /\ now[t] >= row[t].updated_at
    BY <1>2, UpdatedRow, NoneAssumption
       DEF StoreUser, At, TypeOK, HandlerInv, StoreInv, TimeInv, UserResponse
  <2>2. users' = [users EXCEPT ![uid[t]] = new]
    BY <1>2 DEF StoreUser
  <2> HIDE DEF new
  <2> QED
    BY <2>1, <2>2
<1>3. ASSUME NEW t \in Threads, PopUser(t)
      PROVE  \/ UNCHANGED users
             \/ \E id \in UserIds : users' = [users EXCEPT ![id] = None]
  BY <1>3, NoneAssumption
     DEF PopUser, At, TypeOK, HandlerInv, KeyError, Raise
<1>4. ASSUME NEW t \in Threads, Receive(t) \/ Handler(t),
             ~InsertUser(t), ~StoreUser(t), ~PopUser(t)
      PROVE  UNCHANGED users
  BY <1>4 DEF Handler, Receive, Acquire, Release, Respond, ListUsers,
              FindOwner, CheckExists, ReadUser, CheckUnique, InsertName,
              FetchUser, CheckConflict, DropName, SetName, PopName,
              KeyError, Raise
<1>5. CASE Tick \/ UNCHANGED vars
  BY <1>5 DEF Tick, vars
<1> QED
  BY <1>1, <1>2, <1>3, <1>4, <1>5 DEF Next

(* An update or a create that races a delete never brings the user back.   *)
THEOREM NoResurrection == Spec => DeletedStaysDeleted
<1>1. IInv /\ [Next]_vars =>
        [\A id \in minted : users[id] = None => users'[id] = None]_vars
  BY UsersStep DEF IInv, TypeOK
<1> QED
  BY <1>1, Invariance, PTL DEF Spec, DeletedStaysDeleted

(* created_at is fixed and updated_at never goes back while a user lives.  *)
THEOREM TimestampsAdvance == Spec => UpdatedAtAdvances
<1>1. IInv /\ [Next]_vars =>
        [\A id \in UserIds : users[id] # None /\ users'[id] # None =>
           /\ users'[id].created_at = users[id].created_at
           /\ users'[id].updated_at >= users[id].updated_at]_vars
  <2> SUFFICES ASSUME IInv, [Next]_vars, NEW id \in UserIds,
                      users[id] # None, users'[id] # None
               PROVE  /\ users'[id].created_at = users[id].created_at
                      /\ users'[id].updated_at >= users[id].updated_at
    OBVIOUS
  <2>1. users[id].updated_at \in Nat /\ id \in minted
    BY DEF IInv, TypeOK, StoreInv, UserResponse
  <2> QED
    BY UsersStep, <2>1 DEF IInv, TypeOK
<1> QED
  BY <1>1, Invariance, PTL DEF Spec, UpdatedAtAdvances

-----------------------------------------------------------------------------
(* The service implements the directory                                    *)

(* The directory's copies of the operators of UserApi.                     *)
LEMMA DirectoryApi ==
  /\ Directory!Requests = Requests
  /\ \A id, r, n : Directory!NewUser(id, r, n) = NewUser(id, r, n)
BY DEF Directory!Requests, Requests, Directory!NewUser, NewUser

(* What the directory says of a PATCH is what partial_update_dict and      *)
(* model_copy make of it.                                                  *)
LEMMA PatchedIsUpdated ==
  ASSUME NEW old \in UserResponse, NEW r \in Requests, r.op = "update",
         NEW n \in Nat
  PROVE  Directory!Patched(old, r.payload, n) = Updated(old, r, n)
<1> DEFINE new == ModelCopy(old, UpdateData(r))
<1>1. IsUserUpdate(r.payload)
  BY PayloadAssumption DEF Requests
<1>2. \A f \in {"username", "email", "status"} :
        f \notin TargetNullable(UserFields)
  BY DEF TargetNullable, IsOptional, UserFields
<1>3. DOMAIN old = {"id", "username", "email", "status",
                    "created_at", "updated_at"}
  BY DEF UserResponse
<1>4. \A f : f \in DOMAIN UpdateData(r) <=>
               f \in DOMAIN r.payload /\ r.payload[f] # None
  BY <1>1, <1>2 DEF UpdateData, PartialUpdateDict, Restrict, IsUserUpdate
<1>5. \A f \in DOMAIN UpdateData(r) : UpdateData(r)[f] = r.payload[f]
  BY DEF UpdateData, PartialUpdateDict, Restrict
<1>6. new = [f \in DOMAIN old |->
               IF f \in DOMAIN r.payload /\ r.payload[f] # None
                 THEN r.payload[f] ELSE old[f]]
  BY <1>4, <1>5 DEF ModelCopy
<1> HIDE DEF new
<1>7. Updated(old, r, n) = [new EXCEPT !["updated_at"] = n]
  BY DEF new, Updated
<1> QED
  BY <1>3, <1>6, <1>7 DEF Directory!Patched

(* The steps that settle a reply take effect in the directory; the steps   *)
(* before and after them leave what the directory shows as it is.          *)
LEMMA DirectoryStep ==
  ASSUME IInv, [Next]_vars
  PROVE  [Directory!Next]_(Directory!vars)
<1> USE NoneAssumption, ThreadAssumption
    DEF IInv, At, Goto, Held, Set, store, locals
<1>1. CASE Tick
  BY <1>1 DEF Tick, Directory!Next, Directory!Tick
<1>2. ASSUME NEW t \in Threads, Receive(t) PROVE Directory!Call(t)
  BY <1>2, DirectoryApi DEF Receive, HandlerInv, TypeOK, Directory!Call
<1>3. ASSUME NEW t \in Threads, Respond(t) PROVE Directory!Return(t)
  BY <1>3 DEF Respond, ReplyInv, Answered, TypeOK, Directory!Return
<1>4. ASSUME NEW t \in Threads,
             \/ Acquire(t) \/ Release(t) \/ InsertName(t)
             \/ DropName(t) \/ SetName(t) \/ PopName(t)
      PROVE  UNCHANGED Directory!vars
  BY <1>4 DEF Acquire, Release, InsertName, DropName, SetName, PopName,
              Directory!vars
<1> DEFINE D(t) == UNCHANGED Directory!vars \/
  \/ Directory!List(t) \/ Directory!ByUsername(t) \/ Directory!Get(t)
  \/ Directory!Create(t) \/ Directory!Update(t) \/ Directory!Delete(t)
<1> USE DEF Reply, Raise, KeyError, Directory!Pending, Directory!Answer,
            Directory!Refuse, Directory!vars
<1>5. ASSUME NEW t \in Threads, ListUsers(t) PROVE Directory!List(t)
  BY <1>5 DEF ListUsers, HandlerInv, ReplyInv, Answered, TypeOK,
     Directory!List, Directory!Live
<1>6. ASSUME NEW t \in Threads, FindOwner(t) PROVE D(t)
  <2>1. /\ req[t] \in Requests /\ req[t].op = "by_username"
        /\ res[t] = None /\ usersLock = t
    BY <1>6 DEF FindOwner, HandlerInv, ReplyInv, Answered, TypeOK, LockInv,
       Outside
  <2>2. req[t].username \in Usernames /\ Consistent(users, usersByUsername)
    BY <1>6, <2>1, RequestFields DEF FindOwner, IndexInv, Settled
  <2>3. CASE usersByUsername[req[t].username] = None
    <3>1. Directory!Named(req[t].username) = {}
      BY <2>2, <2>3 DEF Directory!Named, Directory!Live, Consistent
    <3> QED
      BY <1>6, <2>1, <2>3, <3>1 DEF FindOwner, Directory!ByUsername
  <2>4. CASE usersByUsername[req[t].username] # None
    BY <1>6, <2>4 DEF FindOwner
  <2> QED
    BY <2>3, <2>4
<1>7. ASSUME NEW t \in Threads, CheckExists(t) PROVE D(t)
  <2>1. /\ req[t] \in Requests /\ res[t] = None /\ usersLock = t
        /\ req[t].op \in {"get", "by_username", "update", "delete"}
        /\ req[t].op # "by_username" => uid[t] = req[t].user_id
        /\ uid[t] \in UserIds
    BY <1>7 DEF CheckExists, HandlerInv, ReplyInv, Answered, TypeOK, LockInv,
       Outside
  <2>2. CASE users[uid[t]] = None
    <3>1. req[t].op # "by_username"
      <4> SUFFICES ASSUME req[t].op = "by_username" PROVE FALSE
        OBVIOUS
      <4>1. /\ usersByUsername[req[t].username] = uid[t]
            /\ req[t].username \in Usernames
        BY <1>7, <2>1, RequestFields DEF CheckExists, StoreInv
      <4>2. Consistent(users, usersByUsername)
        BY <1>7, <2>1 DEF CheckExists, IndexInv, Settled
      <4> QED
        BY <2>1, <2>2, <4>1, <4>2 DEF Consistent
    <3>2. req[t].user_id \notin Directory!Live
      BY <2>1, <2>2, <3>1 DEF Directory!Live
    <3> QED
      BY <1>7, <2>1, <2>2, <3>1, <3>2
         DEF CheckExists, Directory!Get, Directory!Update, Directory!Delete
  <2>3. CASE users[uid[t]] # None
    BY <1>7, <2>3 DEF CheckExists
  <2> QED
    BY <2>2, <2>3
<1>8. ASSUME NEW t \in Threads, ReadUser(t) PROVE D(t)
  <2>1. /\ req[t] \in Requests /\ res[t] = None /\ usersLock = t
        /\ req[t].op \in {"get", "by_username"}
        /\ req[t].op = "get" => uid[t] = req[t].user_id
        /\ uid[t] \in UserIds /\ users[uid[t]] # None
    BY <1>8 DEF ReadUser, HandlerInv, StoreInv, ReplyInv, Answered, TypeOK,
       LockInv, Outside
  <2>2. /\ res' = [res EXCEPT ![t] = [status |-> 200, rows |-> {users[uid[t]]}]]
        /\ UNCHANGED <<users, minted, clock, req>>
    BY <1>8, <2>1 DEF ReadUser
  <2>3. CASE req[t].op = "get"
    <3>1. req[t].user_id \in Directory!Live /\ users[req[t].user_id] = users[uid[t]]
      BY <2>1, <2>3 DEF Directory!Live
    <3>2. Directory!Get(t)
      BY <2>1, <2>2, <2>3, <3>1 DEF Directory!Get
    <3> QED
      BY <3>2
  <2>4. CASE req[t].op = "by_username"
    <3>1. /\ usersByUsername[req[t].username] = uid[t]
          /\ req[t].username \in Usernames
      BY <1>8, <2>1, <2>4, RequestFields DEF ReadUser, StoreInv
    <3>2. Consistent(users, usersByUsername)
      BY <1>8, <2>1 DEF ReadUser, IndexInv, Settled
    <3>3. uid[t] \in Directory!Named(req[t].username)
      BY <2>1, <3>1, <3>2 DEF Consistent, Directory!Named, Directory!Live
    <3> QED
      BY <2>1, <2>2, <2>4, <3>3 DEF Directory!ByUsername
  <2> QED
    BY <2>1, <2>3, <2>4
<1>9. ASSUME NEW t \in Threads, CheckUnique(t) PROVE D(t)
  <2>1. /\ req[t] \in Requests /\ req[t].op = "create"
        /\ res[t] = None /\ usersLock = t
    BY <1>9 DEF CheckUnique, HandlerInv, ReplyInv, Answered, TypeOK, LockInv,
       Outside
  <2>2. req[t].username \in Usernames /\ Consistent(users, usersByUsername)
    BY <1>9, <2>1, CreatedRow DEF CheckUnique, IndexInv, Settled, Requests
  <2>3. CASE usersByUsername[req[t].username] # None
    <3>1. Directory!Named(req[t].username) # {}
      BY <2>2, <2>3 DEF TypeOK, Directory!Named, Directory!Live, Consistent
    <3> QED
      BY <1>9, <2>1, <2>3, <3>1 DEF CheckUnique, Directory!Create
  <2>4. CASE usersByUsername[req[t].username] = None
    BY <1>9, <2>4 DEF CheckUnique
  <2> QED
    BY <2>3, <2>4
<1>10. ASSUME NEW t \in Threads, InsertUser(t) PROVE D(t)
  <2>1. /\ req[t] \in Requests /\ req[t].op = "create"
        /\ res[t] = None /\ usersLock = t
        /\ usersByUsername[req[t].username] = None
        /\ now[t] \in 0..clock
    BY <1>10 DEF InsertUser, HandlerInv, StoreInv, ReplyInv, Answered, TypeOK,
       LockInv, Outside, TimeInv
  <2>2. req[t].username \in Usernames /\ Consistent(users, usersByUsername)
    BY <1>10, <2>1, CreatedRow DEF InsertUser, IndexInv, Settled, Requests
  <2>3. Directory!Named(req[t].username) = {}
    BY <2>1, <2>2 DEF Directory!Named, Directory!Live, Consistent
  <2>4. Directory!Create(t)
    BY <1>10, <2>1, <2>3, DirectoryApi DEF InsertUser, Directory!Create
  <2> QED
    BY <2>4
<1>11. ASSUME NEW t \in Threads, FetchUser(t) PROVE D(t)
  BY <1>11 DEF FetchUser, StoreInv
<1>12. ASSUME NEW t \in Threads, CheckConflict(t) PROVE D(t)
  <2>1. /\ req[t] \in Requests /\ req[t].op = "update" /\ uid[t] = req[t].user_id
        /\ uid[t] \in UserIds /\ row[t] \in UserResponse /\ row[t] # None
        /\ users[uid[t]] = row[t] /\ Renames(req[t], row[t])
        /\ res[t] = None /\ usersLock = t
    BY <1>12, UpdateLocals DEF CheckConflict, HandlerInv, StoreInv, ReplyInv,
       Answered, LockInv, Outside
  <2>2. NewUsername(t) \in Usernames /\ Consistent(users, usersByUsername)
    BY <1>12, <2>1, UpdateDataFields
       DEF CheckConflict, IndexInv, Settled, NewUsername, Renames
  <2>3. CASE usersByUsername[NewUsername(t)] \notin {None, uid[t]}
    <3> DEFINE new == Directory!Patched(users[uid[t]], req[t].payload, clock)
    <3>1. new.username = NewUsername(t)
      BY <2>1, UpdatedRow, PatchedIsUpdated DEF TypeOK, NewUsername
    <3> HIDE DEF new
    <3>2. Directory!Named(new.username) \ {uid[t]} # {} /\ uid[t] \in Directory!Live
      BY <2>1, <2>2, <2>3, <3>1
         DEF TypeOK, Directory!Named, Directory!Live, Consistent
    <3>3. Directory!Update(t)
      BY <1>12, <2>1, <2>3, <3>2 DEF new, CheckConflict, Directory!Update
    <3> QED
      BY <3>3
  <2>4. CASE usersByUsername[NewUsername(t)] \in {None, uid[t]}
    BY <1>12, <2>4 DEF CheckConflict
  <2> QED
    BY <2>3, <2>4
<1>13. ASSUME NEW t \in Threads, StoreUser(t) PROVE D(t)
  <2>1. /\ req[t] \in Requests /\ req[t].op = "update" /\ uid[t] = req[t].user_id
        /\ uid[t] \in UserIds /\ row[t] \in UserResponse /\ row[t] # None
        /\ users[uid[t]] = row[t] /\ res[t] = None /\ usersLock = t
        /\ now[t] \in row[t].updated_at..clock
    <3>1. row[t] \in UserResponse /\ row[t].updated_at \in Nat
      BY <1>13, UpdateLocals DEF StoreUser, UserResponse
    <3> QED
      BY <1>13, <3>1, UpdateLocals DEF StoreUser, StoreInv, ReplyInv,
         Answered, LockInv, Outside, TimeInv, TypeOK
  <2>2. Consistent(users, usersByUsername)
    BY <1>13, <2>1 DEF StoreUser, IndexInv, Settled
  <2> DEFINE new(n) == Directory!Patched(users[uid[t]], req[t].payload, n)
  <2>3. /\ new(now[t]) = Updated(row[t], req[t], now[t])
        /\ new(clock) = Updated(row[t], req[t], clock)
    BY <2>1, PatchedIsUpdated DEF TypeOK
  <2>4. Directory!Named(new(clock).username) \ {uid[t]} = {}
    <3>1. CASE Renames(req[t], row[t])
      <4>1. /\ new(clock).username = NewUsername(t)
            /\ NewUsername(t) \in Usernames
            /\ usersByUsername[NewUsername(t)] \in {None, uid[t]}
        BY <1>13, <2>1, <2>3, <3>1, UpdatedRow
           DEF StoreUser, StoreInv, NewUsername, TypeOK
      <4> HIDE DEF new
      <4> QED
        BY <2>1, <2>2, <4>1 DEF Directory!Named, Directory!Live, Consistent
    <3>2. CASE ~Renames(req[t], row[t])
      <4>1. /\ new(clock).username = row[t].username
            /\ row[t].username \in Usernames
        BY <2>1, <2>3, <3>2, UpdatedRow DEF UserResponse, TypeOK
      <4> HIDE DEF new
      <4> QED
        BY <2>1, <2>2, <4>1 DEF Directory!Named, Directory!Live, Consistent
    <3> QED
      BY <3>1, <3>2
  <2>5. uid[t] \in Directory!Live
    BY <2>1 DEF Directory!Live
  <2>6. Directory!Update(t)
    BY <1>13, <2>1, <2>3, <2>4, <2>5 DEF StoreUser, Directory!Update
  <2> QED
    BY <2>6
<1>14. ASSUME NEW t \in Threads, PopUser(t) PROVE D(t)
  <2>1. /\ req[t] \in Requests /\ req[t].op = "delete" /\ uid[t] = req[t].user_id
        /\ uid[t] \in UserIds /\ users[uid[t]] # None /\ res[t] = None
    BY <1>14 DEF PopUser, HandlerInv, StoreInv, ReplyInv, Answered, TypeOK
  <2>2. uid[t] \in Directory!Live
    BY <2>1 DEF Directory!Live
  <2>3. Directory!Delete(t)
    BY <1>14, <2>1, <2>2 DEF PopUser, Directory!Delete
  <2> QED
    BY <2>3
<1>15. CASE UNCHANGED vars
  BY <1>15 DEF vars
<1> HIDE DEF Directory!vars
<1> QED
  BY <1>1, <1>2, <1>3, <1>4, <1>5, <1>6, <1>7, <1>8, <1>9, <1>10, <1>11,
     <1>12, <1>13, <1>14, <1>15 DEF Next, Handler, Directory!Next

(* For any number of threads and users, the service is linearizable: every *)
(* behaviour of it is one of the directory of users.                       *)
THEOREM Linearizable == Spec => ImplementsDirectory
<1>1. Init => Directory!Init
  BY DEF Init, Directory!Init
<1>2. IInv /\ [Next]_vars => [Directory!Next]_(Directory!vars)
  BY DirectoryStep
<1> QED
  BY <1>1, <1>2, Invariance, PTL DEF Spec, Directory!Spec, ImplementsDirectory

=============================================================================
