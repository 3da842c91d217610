------------------------------ MODULE FlowApi ------------------------------
(***************************************************************************)
(* The data of the flow API (packages/flow-api, models.py and              *)
(* protocol.py): the stored row, the requests and the replies.             *)
(***************************************************************************)
EXTENDS Integers, PartialUpdate

CONSTANTS FlowIds,         \* the ids uuid4 can produce
          Names, Descriptions, Statuses,
          UpdatePayloads   \* the PATCH bodies clients send

FlowFields == [f \in {"id", "name", "description", "status",
                      "created_at", "updated_at"} |->
                 CASE f = "description" -> {"str", "None"}
                   [] f \in {"created_at", "updated_at"} -> {"datetime"}
                   [] OTHER -> {"str"}]

FlowResponse == [id : FlowIds, name : Names,
                 description : Descriptions \cup {None}, status : Statuses,
                 created_at : Nat, updated_at : Nat]

(* FlowUpdate: every field may be absent, and may be null when present.    *)
IsFlowUpdate(p) ==
  /\ DOMAIN p \subseteq {"name", "description", "status"}
  /\ ("name" \in DOMAIN p => p["name"] \in Names \cup {None})
  /\ ("description" \in DOMAIN p =>
        p["description"] \in Descriptions \cup {None})
  /\ ("status" \in DOMAIN p => p["status"] \in Statuses \cup {None})

Requests ==
       [op : {"list"}]
  \cup [op : {"get", "delete"}, flow_id : FlowIds]
  \cup [op : {"create"}, name : Names, description : Descriptions \cup {None}]
  \cup [op : {"update"}, flow_id : FlowIds, payload : UpdatePayloads]

Replies == [status : {200, 201, 204, 404, 500}, rows : SUBSET FlowResponse]

NewFlow(id, r, now) ==
  [id |-> id, name |-> r.name, description |-> r.description,
   status |-> "created", created_at |-> now, updated_at |-> now]

(* Mutant: nullability taken from the payload's model, where every field   *)
(* is optional, and not from the stored row's.                             *)
UpdatedFromPayload(row, r, now) ==
  [ModelCopy(row, PartialUpdateDict(r.payload,
                    [f \in DOMAIN r.payload |-> {"str", "None"}]))
     EXCEPT !["updated_at"] = now]

(* Mutant: nulls are dropped whatever the field, so none can be cleared.   *)
UpdatedNonNull(row, r, now) ==
  [ModelCopy(row, Restrict(r.payload,
                    {f \in DOMAIN r.payload : r.payload[f] # None}))
     EXCEPT !["updated_at"] = now]

Updated(row, r, now) ==
  [ModelCopy(row, PartialUpdateDict(r.payload, FlowFields))
     EXCEPT !["updated_at"] = now]

ASSUME CreatedAssumption == "created" \in Statuses

ASSUME PayloadAssumption == \A p \in UpdatePayloads : IsFlowUpdate(p)

ASSUME NoneAssumption ==
  /\ None \notin FlowIds /\ None \notin Names
  /\ None \notin Descriptions /\ None \notin Statuses
  /\ None \notin FlowResponse
  /\ None \notin Requests /\ None \notin Replies

=============================================================================
