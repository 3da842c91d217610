---------------------------- MODULE TypedClients ----------------------------
(***************************************************************************)
(* The typed clients and the services they call: FlowServiceClient and     *)
(* UcServiceClient (packages/flow-api and uc-api, client.py), the route    *)
(* tables of the services (apps/flow and apps/uc, routes.py), and the BFF  *)
(* whose own routes call the clients.  A call becomes a request, the       *)
(* request is routed, and the handler's body is read back by the client.   *)
(***************************************************************************)
EXTENDS FeignEndpoint

CONSTANTS Texts,       \* the texts given for ids and usernames
          Payloads(_)  \* per method, the payloads given

ASSUME TextAssumption == /\ Texts \subseteq Seq(Characters)
                         /\ None \notin Seq(Characters)

(* What has a meaning in a path may stand in a text like anything else.    *)
ASSUME CharacterAssumption ==
  {"/", "?", "%2F", ".", "flows", "users", "by-username", "with-owner"}
    \subseteq Characters

NoParams == [n \in {} |-> None]

Declare(method, path, params, returns) ==
  [method |-> method, path |-> path, params |-> params, returns |-> returns]

Flows == <<Segment("flows")>>
Flow == <<Segment("flows"), Placeholder("flow_id")>>
WithOwner == <<Segment("flows"), Placeholder("flow_id"), Segment("with-owner")>>
Users == <<Segment("users")>>
User == <<Segment("users"), Placeholder("user_id")>>
ByUsername == <<Segment("users"), Segment("by-username")>>
OfUsername ==
  <<Segment("users"), Segment("by-username"), Placeholder("username")>>

FlowServiceClient ==
  [get_flow    |-> Declare("GET", Flow, [flow_id |-> "str"], "model"),
   list_flows  |-> Declare("GET", Flows, NoParams, "list"),
   create_flow |-> Declare("POST", Flows, [payload |-> "model"], "model"),
   update_flow |-> Declare("PATCH", Flow,
                           [flow_id |-> "str", payload |-> "model"], "model"),
   delete_flow |-> Declare("DELETE", Flow, [flow_id |-> "str"], "none")]

UcServiceClient ==
  [get_user    |-> Declare("GET", User, [user_id |-> "str"], "model"),
   get_user_by_username |->
                   Declare("GET", ByUsername, [username |-> "str"], "model"),
   list_users  |-> Declare("GET", Users, NoParams, "list"),
   create_user |-> Declare("POST", Users, [payload |-> "model"], "model"),
   update_user |-> Declare("PATCH", User,
                           [user_id |-> "str", payload |-> "model"], "model"),
   delete_user |-> Declare("DELETE", User, [user_id |-> "str"], "none")]

Endpoints ==
  [method \in DOMAIN FlowServiceClient \cup DOMAIN UcServiceClient |->
     IF method \in DOMAIN FlowServiceClient THEN FlowServiceClient[method]
                                            ELSE UcServiceClient[method]]

(* A payload sets only fields that its model has.                          *)
ASSUME PayloadAssumption ==
  \A method \in DOMAIN Endpoints :
    "payload" \in DOMAIN Endpoints[method].params =>
      \A p \in Payloads(method) :
        /\ DOMAIN p.set \subseteq p.fields
        /\ \A exclude_unset \in BOOLEAN : ModelDump(p, exclude_unset) # None

-----------------------------------------------------------------------------
(* The routes of the services, in the order they are registered            *)

Serve(method, path, query, handler, body) ==
  [method |-> method, path |-> path, query |-> query, handler |-> handler,
   body |-> body]

FlowRoutes ==
  <<Serve("GET", Flows, {}, "list_flows", "list"),
    Serve("GET", Flow, {}, "get_flow", "model"),
    Serve("POST", Flows, {}, "create_flow", "model"),
    Serve("PATCH", Flow, {}, "update_flow", "model"),
    Serve("DELETE", Flow, {}, "delete_flow", "empty")>>

(* Mutant: /users/{user_id} is registered before /users/by-username.       *)
UcRoutesSwapped ==
  <<Serve("GET", Users, {}, "list_users", "list"),
    Serve("GET", User, {}, "get_user", "model"),
    Serve("GET", ByUsername, {"username"}, "get_user_by_username", "model"),
    Serve("POST", Users, {}, "create_user", "model"),
    Serve("PATCH", User, {}, "update_user", "model"),
    Serve("DELETE", User, {}, "delete_user", "empty")>>

UcRoutes ==
  <<Serve("GET", Users, {}, "list_users", "list"),
    Serve("GET", ByUsername, {"username"}, "get_user_by_username", "model"),
    Serve("GET", User, {}, "get_user", "model"),
    Serve("POST", Users, {}, "create_user", "model"),
    Serve("PATCH", User, {}, "update_user", "model"),
    Serve("DELETE", User, {}, "delete_user", "empty")>>

(* Mutant: the by-username route forwards to the method of the one above.  *)
BffRoutesCopied ==
  <<Serve("GET", Flows, {}, "list_flows", "list"),
    Serve("GET", Flow, {}, "get_flow", "model"),
    Serve("POST", Flows, {}, "create_flow", "model"),
    Serve("GET", User, {}, "get_user", "model"),
    Serve("GET", OfUsername, {}, "get_user", "model"),
    Serve("GET", WithOwner, {}, "get_flow", "model")>>

(* The BFF's routes; the handler of each is named for the client's method  *)
(* it forwards to, and with-owner reads the flow.                          *)
BffRoutes ==
  <<Serve("GET", Flows, {}, "list_flows", "list"),
    Serve("GET", Flow, {}, "get_flow", "model"),
    Serve("POST", Flows, {}, "create_flow", "model"),
    Serve("GET", User, {}, "get_user", "model"),
    Serve("GET", OfUsername, {}, "get_user_by_username", "model"),
    Serve("GET", WithOwner, {}, "get_flow", "model")>>

RoutesOf(method) ==
  IF method \in DOMAIN FlowServiceClient THEN FlowRoutes ELSE UcRoutes

-----------------------------------------------------------------------------
(* The way of a request                                                    *)

(* The path of a request as one text.                                      *)
Join(path) ==
  LET join[n \in 0..Len(path)] ==
        IF n = 0 THEN <<>>
        ELSE IF n = 1 THEN path[1] ELSE join[n - 1] \o <<"/">> \o path[n]
  IN  join[Len(path)]

Slashes(text) == {i \in DOMAIN text : text[i] = "/"}

(* The n-th least of a set of numbers.                                     *)
Nth(S, n) == CHOOSE i \in S : Cardinality({j \in S : j <= i}) = n

(* The segments of a path: what stands between its slashes.                *)
Split(text) ==
  LET cuts == Slashes(text) \cup {0, Len(text) + 1}
  IN  [n \in 1..(Cardinality(cuts) - 1) |->
         SubSeq(text, Nth(cuts, n) + 1, Nth(cuts, n + 1) - 1)]

(* What stands of a path after one more segment: a "." adds nothing, and a *)
(* ".." takes the segment before it away.                                  *)
Keep(before, segment) ==
  CASE segment = <<".">> -> before
    [] segment = <<".", ".">> -> SubSeq(before, 1, Len(before) - 1)
    [] OTHER -> Append(before, segment)

Undotted(segments) ==
  LET kept[n \in 0..Len(segments)] ==
        IF n = 0 THEN <<>> ELSE Keep(kept[n - 1], segments[n])
  IN  kept[Len(segments)]

(* The HTTP library normalizes a URL before it sends it.                   *)
Normalize(path) == Undotted(Split(Join(path)))

(* The server decodes a path before it looks for its segments.             *)
Decode(path) == Split(Unquote(Join(path)))

Matches(route, path) ==
  /\ Len(route.path) = Len(path)
  /\ \A i \in DOMAIN path : IF route.path[i].placeholder
                            THEN path[i] # <<>>
                            ELSE path[i] = <<route.path[i].name>>

Captured(route, path) ==
  [n \in Range(PathParams(route)) |->
     path[CHOOSE i \in DOMAIN path : route.path[i] = Placeholder(n)]]

(* The name of the one placeholder of a route.                             *)
ResourceKey(route) == CHOOSE n \in Range(PathParams(route)) : TRUE

(* The first route of the method that matches; else a refusal: 405 for a   *)
(* path of another method, 307 where only the last slash is too many.      *)
Dispatch(routes, method, path) ==
  LET known(p) == {i \in DOMAIN routes : Matches(routes[i], p)}
      full     == {i \in known(path) : routes[i].method = method}
      refused  == IF known(path) # {} THEN 405
                  ELSE IF /\ path # <<>> /\ path[Len(path)] = <<>>
                          /\ known(SubSeq(path, 1, Len(path) - 1)) # {}
                       THEN 307 ELSE 404
  IN  IF full # {}
      THEN [status |-> 200,
            route |-> routes[CHOOSE i \in full : \A j \in full : i <= j]]
      ELSE [status |-> refused, route |-> None]

-----------------------------------------------------------------------------
VARIABLES
  origin,    \* "client" or "bff": where the call is made
  at,        \* how far it is: start, sent, answered or returned
  asked,     \* the route and text asked of the BFF
  call,      \* the method and arguments of the call
  request,   \* the request it sends
  handled,   \* what the service ran: [handler, path, query, json]
  response,  \* the status and body
  returned   \* what the method returned

clientsVars ==
  <<origin, at, asked, call, request, handled, response, returned>>

ClientsInit ==
  /\ origin \in {"client", "bff"} /\ at = "start"
  /\ asked = None /\ call = None /\ request = None
  /\ handled = None /\ response = None /\ returned = None

Send(method, args) ==
  /\ at' = "sent"
  /\ call' = [method |-> method, args |-> args]
  /\ request' = Request(BuildSpec(Endpoints[method]), args)

ArgumentsOf(method) ==
  LET params == Endpoints[method].params
  IN  {[n \in DOMAIN params |-> IF n = "payload" THEN p ELSE t] :
         t \in Texts, p \in IF "payload" \in DOMAIN params
                            THEN Payloads(method) ELSE {None}}

(* A task calls a method of a typed client.                                *)
CallMethod ==
  /\ at = "start" /\ origin = "client"
  /\ \E method \in DOMAIN Endpoints : \E args \in ArgumentsOf(method) :
       Send(method, args)
  /\ UNCHANGED <<origin, asked, handled, response, returned>>

(* The path of a request for a route of the BFF, with a text in it.        *)
AskedPath(route, text) ==
  Decode([k \in DOMAIN route.path |->
            IF route.path[k].placeholder THEN Quote(text)
                                         ELSE <<route.path[k].name>>])

(* A request for a route of the BFF, with a text in its path: the handler  *)
(* that is run calls the client with what the path captured.               *)
CallBff ==
  /\ at = "start" /\ origin = "bff"
  /\ \E i \in DOMAIN BffRoutes, t \in Texts :
       LET path == AskedPath(BffRoutes[i], t)
           to   == Dispatch(BffRoutes, BffRoutes[i].method, path)
       IN  /\ to.status = 200
           /\ asked' = [route |-> BffRoutes[i], text |-> t]
           /\ IF to.route.method = "POST"
              THEN \E p \in Payloads(to.route.handler) :
                     Send(to.route.handler, [payload |-> p])
              ELSE Send(to.route.handler,
                        [n \in DOMAIN Endpoints[to.route.handler].params |->
                           Captured(to.route, path)[ResourceKey(to.route)]])
  /\ UNCHANGED <<origin, handled, response, returned>>

(* The service routes the request; a missing query parameter is a 422.     *)
Handle ==
  /\ at = "sent" /\ at' = "answered"
  /\ LET path == Decode(Normalize(request.path))
         to   == Dispatch(RoutesOf(call.method), request.method, path)
     IN  IF to.status = 200 /\ to.route.query \subseteq DOMAIN request.query
         THEN /\ response' = [status |-> 200, body |-> to.route.body]
              /\ handled' = [handler |-> to.route.handler,
                             path |-> Captured(to.route, path),
                             query |-> Restrict(request.query, to.route.query),
                             json |-> request.json]
         ELSE /\ response' = [status |-> IF to.status = 200 THEN 422
                                                            ELSE to.status,
                              body |-> "garbage"]
              /\ UNCHANGED handled
  /\ UNCHANGED <<origin, asked, call, request, returned>>

(* The client reads the response.                                          *)
Return ==
  /\ at = "answered" /\ at' = "returned"
  /\ returned' = IF response.status = 200
                 THEN Result(ReturnContract(Endpoints[call.method].returns),
                             response.body)
                 ELSE "ServiceCallError"
  /\ UNCHANGED <<origin, asked, call, request, handled, response>>

ClientsNext == CallMethod \/ CallBff \/ Handle \/ Return

ClientsSpec == ClientsInit /\ [][ClientsNext]_clientsVars

-----------------------------------------------------------------------------
(* Properties                                                              *)

Answered == at \in {"answered", "returned"}

(* The text of a call that is sent in its path, if any.                    *)
PathTexts == {call.args[n] : n \in Range(PathParams(Endpoints[call.method]))}

(* What a path cannot carry: nothing, a slash, the dot segments, and the   *)
(* name of the route that stands before the one of the user's id.          *)
Routable(text) ==
  /\ text # <<>> /\ "/" \notin Range(text)
  /\ text \notin {<<".">>, <<".", ".">>}
  /\ call.method = "get_user" => text # <<"by-username">>

(* The service ran the handler of the method, with the caller's texts, and *)
(* found set, in a PATCH, the fields that its caller set, else all.        *)
Delivered ==
  /\ response.status = 200 /\ handled.handler = call.method
  /\ "payload" \in DOMAIN call.args <=> handled.json # None
  /\ handled.json # None =>
       DOMAIN handled.json = IF request.method = "PATCH"
                             THEN DOMAIN call.args["payload"].set
                             ELSE call.args["payload"].fields
  /\ \A n \in DOMAIN call.args \ {"payload"} :
       \E given \in {handled.path, handled.query} :
         n \in DOMAIN given /\ given[n] = call.args[n]

(* A call reaches the handler of its own method, with the text and the     *)
(* fields its caller gave, for exactly the texts a path can carry; a query *)
(* carries any.                                                            *)
ReachesItsHandler ==
  Answered => (Delivered <=> \A t \in PathTexts : Routable(t))

(* Only a read can go astray, and it raises: no call changes or deletes a  *)
(* row its caller did not name.                                            *)
NoWriteGoesAstray ==
  Answered /\ response.status = 200 /\ ~Delivered =>
    /\ handled.handler \in {"list_flows", "list_users"}
    /\ at = "returned" => returned = "ServiceResponseError"

(* The resource that a route of the BFF names by its placeholder.          *)
Names(route) ==
  CASE ResourceKey(route) = "flow_id"  -> "get_flow"
    [] ResourceKey(route) = "user_id"  -> "get_user"
    [] ResourceKey(route) = "username" -> "get_user_by_username"

(* What the BFF is asked for by a text in its path is asked of the service *)
(* by the same text; a username, then sent in a query, may be any text     *)
(* that a path carried to the BFF.                                         *)
ForwardedAsAsked ==
  Answered /\ origin = "bff" /\ Range(PathParams(asked.route)) # {} =>
    ((/\ Delivered /\ call.method = Names(asked.route)
      /\ asked.text \in Range(call.args))
     <=> /\ asked.text # <<>> /\ "/" \notin Range(asked.text)
         /\ Names(asked.route) # "get_user_by_username" =>
              Routable(asked.text))

=============================================================================
