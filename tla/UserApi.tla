------------------------------ MODULE UserApi ------------------------------
(***************************************************************************)
(* The data of the user API (packages/uc-api, models.py and protocol.py):  *)
(* the stored row, the requests a client can make and the replies.  A      *)
(* password is accepted by the API and dropped by the service, so requests *)
(* do not carry one.                                                       *)
(***************************************************************************)
EXTENDS Integers, PartialUpdate

CONSTANTS UserIds,         \* the ids uuid4 can produce
          Usernames, Emails, Statuses,
          UpdatePayloads   \* the PATCH bodies clients send

UserFields == [f \in {"id", "username", "email", "status",
                      "created_at", "updated_at"} |->
                 IF f \in {"created_at", "updated_at"} THEN {"datetime"}
                                                       ELSE {"str"}]

UserResponse == [id : UserIds, username : Usernames, email : Emails,
                 status : Statuses, created_at : Nat, updated_at : Nat]

(* UserUpdate: every field may be absent, and may be null when present.    *)
IsUserUpdate(p) ==
  /\ DOMAIN p \subseteq {"username", "email", "status"}
  /\ ("username" \in DOMAIN p => p["username"] \in Usernames \cup {None})
  /\ ("email" \in DOMAIN p => p["email"] \in Emails \cup {None})
  /\ ("status" \in DOMAIN p => p["status"] \in Statuses \cup {None})

Requests ==
       [op : {"list"}]
  \cup [op : {"by_username"}, username : Usernames]
  \cup [op : {"get", "delete"}, user_id : UserIds]
  \cup [op : {"create"}, username : Usernames, email : Emails]
  \cup [op : {"update"}, user_id : UserIds, payload : UpdatePayloads]

(* The rows in a reply are a set: the one row, all of them for a list, or  *)
(* none at all (204, 404, 409, and the 500 of an unhandled exception).     *)
Replies == [status : {200, 201, 204, 404, 409, 500},
            rows : SUBSET UserResponse]

NewUser(id, r, now) ==
  [id |-> id, username |-> r.username, email |-> r.email,
   status |-> "active", created_at |-> now, updated_at |-> now]

(* The fields a PATCH request changes, and the row they make of a row.     *)
UpdateData(r) == PartialUpdateDict(r.payload, UserFields)

Renames(r, row) ==
  "username" \in DOMAIN UpdateData(r) /\ UpdateData(r)["username"] # row.username

(* Mutant: the payload is laid over the row as it came, nulls and all.     *)
UpdatedRaw(row, r, now) ==
  [ModelCopy(row, r.payload) EXCEPT !["updated_at"] = now]

Updated(row, r, now) ==
  [ModelCopy(row, UpdateData(r)) EXCEPT !["updated_at"] = now]

ASSUME ActiveAssumption == "active" \in Statuses

ASSUME PayloadAssumption == \A p \in UpdatePayloads : IsUserUpdate(p)

ASSUME NoneAssumption ==
  /\ None \notin UserIds /\ None \notin Usernames
  /\ None \notin Emails  /\ None \notin Statuses
  /\ None \notin UserResponse
  /\ None \notin Requests /\ None \notin Replies

=============================================================================
