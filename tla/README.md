# Formal models of the novon platform backend

TLA+ models of the services in this repository, the configurations that check
them with TLC, and proofs that TLAPS checks. The models follow the source
statement by statement where threads or messages can interleave; `PROJECT.json`
maps each definition to the lines it stands for. Paths below are relative to
the repository.

## The system

| Part | Source | State | Operations | What can go wrong |
|---|---|---|---|---|
| UC service | `apps/uc/.../api/routes.py` | `_USERS`, the index `_USERS_BY_USERNAME`, one lock | list, get, get by username, create, patch, delete | handlers run on a thread pool; two or three writes per operation must look like one; index and store must agree |
| Flow service | `apps/flow/.../api/routes.py` | `_FLOWS`, one lock | list, get, create, patch, delete | as above; a create runs partly outside the lock |
| API models | `packages/uc-api`, `packages/flow-api` | none | rows, payloads, `UcApi`/`FlowApi` protocols | which PATCH field may be null |
| Partial updates | `packages/core/.../model_utils.py`, `http/typehints.py` | none | `unwrap_optional`, `partial_update_dict` | an explicit null reaching a required field |
| Service client | `packages/core/.../http/base_client.py` | attempt counter per call, HTTP connection pool | `request`, `_request_once`, `_request_with_retry`, `aclose` | timeouts and retries while the first attempt is still carried out; answers that come late |
| Service errors | `packages/core/.../errors.py`, `service_error_handlers.py` | none | mapping of statuses and exceptions, and back to a response | a status in the wrong class; two statuses in one response |
| Feign decorators | `packages/core/.../http/feign.py` | cached return contract per endpoint | decoration checks, parameter binding | a signature that only fails when called; an argument in the wrong place of a request |
| Typed clients | `packages/flow-api`, `packages/uc-api` (`client.py`) | none | eleven endpoints | texts that a path cannot carry; routes that shadow each other |
| Request context, middleware | `packages/core/.../http/context.py`, `middleware.py` | request state | `from_request`, `to_headers`, `dispatch` | ids lost or mixed over two hops; where the edge is |
| BFF | `apps/bff/...` | two shared clients | proxy routes, lifespan | shutdown against running calls; one client closed and not the other |
| Auth | `packages/auth` | none | placeholder | - |
| Mock router | `packages/test-utils` | routes, call logs, iterators of side effects | `route`, `_handle`, `reset`, `clear` | a stale iterator, a call that is not recorded |
| Deployment | `compose.yaml`, `Dockerfile`, `scripts/dev-all.sh` | processes | start, health check, stop | drain windows; a service left behind |

The BFF receives a request, builds a `RequestContext`, and awaits a method of
a typed client, which the Feign decorators turn into
`BaseServiceClient.request`. That call crosses the network to the UC or Flow
service, whose synchronous handlers run on threads and share a store behind a
lock. Errors come back as `ServiceCallError`s and become the BFF's response in
`service_error_handlers.py`.

## What each part must guarantee

* UC and Flow: every request takes effect at one instant (linearizability);
  a username belongs to one user; a deleted row stays deleted; no check-then-use
  ends in a `KeyError`; `updated_at` never goes back; the lock is always freed.
* Partial updates: a null clears a nullable field and means nothing for others.
* Client: a write happens at most once per call; success is reported only for
  a write that happened; "not found" stays true; a call makes the configured
  number of attempts; every call ends.
* Errors: retried exactly when transient; the response is consistent.
* Context: whatever a browser sends, every hop of a request carries the ids it
  has at the BFF, and nothing a browser supplies becomes a trace or an identity.
* Feign and the typed clients: each argument is in one place of the request; a
  call reaches the handler of its own method with the texts its caller gave, or
  fails without touching anything else; a method returns what it is annotated with.
* Client and service together: a call is one operation on the remote store, or
  an error that leaves open whether it took place.
* BFF lifecycle: no call meets a missing or closed client; a request's time is
  bounded whatever the others do; a stop ends, and answers every request that has less
  left than the graceful window.
* Mock router: every call is recorded, a script is played in order, and the side effect
  that is set is the one that is used.

## Modules

| Module | Models | Kind |
|---|---|---|
| `PartialUpdate` | `model_utils.py`, `typehints.py`, `model_copy` | operators |
| `UserApi`, `FlowApi` | rows, requests and replies, and the row a create or a PATCH makes | operators |
| `UserDirectory` | the abstract UC service: each request is one step | abstract specification |
| `UcService` | the UC routes, one action per read or write of the shared store | detailed specification |
| `UcServiceProofs` | theorems about `UcService` | proofs |
| `FlowStore`, `FlowService` | the same pair for the Flow service | abstract, detailed |
| `FlowServiceProofs` | theorems about `FlowService` | proofs |
| `ServiceErrors` | error classes and mappings | operators |
| `ServiceClient` | calls, attempts, answers and the downstream's effects | specification |
| `ServiceClientProofs` | theorems about `ServiceClient` | proofs |
| `Bff` | a request through the middleware, the context and the attempts of the BFF's call, to the middleware of a service | specification |
| `BffProofs` | theorems about `Bff` | proofs |
| `BffLifecycle` | the BFF's process in time: clients, pools, waits, a stop | specification |
| `BffLifecycleProofs` | theorems about `BffLifecycle` | proofs |
| `FeignEndpoint` | declarations, requests and results of an endpoint | operators |
| `Feign` | one endpoint, decorated and called concurrently | specification, over `FeignEndpoint` |
| `FeignProofs` | theorems about `Feign` and `TypedClients` | proofs |
| `TypedClients` | both clients' declarations, the three route tables, a call from its arguments to its result | composition, over `FeignEndpoint` |
| `RemoteFlows` | a store of flows behind a network | abstract specification |
| `FlowGateway` | the flow client and `FlowStore` behind it | composition that implements `RemoteFlows` |
| `FlowGatewayProofs` | theorems about `FlowGateway` and `FlowSystem` | proofs |
| `FlowSystem` | the flow client before the threads of `FlowService` | composition that implements `FlowGateway` |
| `MockRouter` | the mock transport of the tests | specification |
| `MockRouterProofs` | theorems about `MockRouter` | proofs |
| `MC...` | instances for TLC | |

### UcService and FlowService

State. `users`/`flows` is the dict as a function from ids to rows, `None` where
there is no key. `usersByUsername` is the index. `usersLock`/`flowsLock` names
the thread inside the `with` block. Each thread has a program counter `pc`, its
request and reply, and the locals of the handler that outlive a statement
(`uid`, `row`, `now`). `clock` is the wall clock, `minted` the ids `uuid4` has
returned.

Steps. Each action is one access to shared state with the local computation
around it: `CheckUnique`, `InsertUser`, `InsertName` are lines 73, 88 and 89 of
`create_user`. `Acquire` and `Release` are the ends of the `with` block. A
`KeyError` is modelled: the step answers 500, and `NoServerError` says that this
never happens. The lock is thus no assumption of the model: with `Acquire`
replaced by an acquire that does not wait, the properties fail.

`FlowService` has one more point, `build`: `create_flow` draws its id, reads the
clock and builds the row before it asks for the lock, so another thread can
insert, patch or delete in between. `Unborn` are the ids drawn and not yet in
the store.

Refinement. `UserDirectory` and `FlowStore` describe a service in which `Call`,
one step that does everything, and `Return` follow each other. The mapping sends
threads to clients and keeps the store, the clock, the request and the reply; a
handler's first write of the store (or the read that fixes its reply) is the
abstract step, and the writes of the index are stutters. The abstract modules
state what a PATCH means independently of the code: `Patched` gives each field
the value the payload names, and says outright which nulls count, while the code
derives that from annotations (`PartialUpdateDict`).

The clock is taken to be monotonic and `uuid4` never to repeat; the code relies
on both. An NTP step backwards would break `UpdatedAtAdvances`.

### ServiceClient

`Start` is a call of `request`. An attempt is `<<call, attempt number>>`: `Send`
puts it on the network, the downstream answers it in `CarryOut` (the handler
ran, and may still fail after its effect) or `TurnAway` (no effect: refused,
overloaded, redirected), and `Deliver` classifies the answer. `SendFails` is an
attempt that never left; `GiveUp` one that timed out or broke, which stays in
`requests` and may be carried out at any later time or never. `Failed` is the
end of an attempt in the retry loop: a transient error of an idempotent method
with attempts left leads to `backoff`, anything else ends the call. The delays
themselves have no length in the model.

The downstream is reduced to the ids that exist: what the properties need is
whether an attempt created, changed or removed something, counted in `effects`.
A client only names an item that already exists or existed, since ids are
random. GET, POST, PATCH and DELETE are the methods the typed clients use.
`Restart` is a downstream process that dies and starts again with an empty store:
every row is gone, the attempts it was serving are not answered, later ones meet
the new process. What has been promised to callers holds through it.

An answer whose body cannot be decoded raises inside `client.request`, where
only `TransportError` is caught; `Undecodable` is that outcome.

### Bff

`Arrive` is the middleware before the route, `BuildContext` the dependency that builds the
`RequestContext`, `SendAttempt` and `RetryAttempt` the client's attempts, `ServiceDispatch`
the middleware of a service. A request ends in one of three ways: `Reject` (422) and
`Respond` return a response through `call_next`, which line 77 of `middleware.py` marks;
`Crash` is an exception that nothing maps, `Undecodable` for one: `call_next` raises, and
the 500 has no id. A browser may send again any id that it was echoed.

### BffLifecycle

One action per step of the lifespan, per wait of a request and per step of a
stop; `Tick` is one unit of time, and waits have lengths. The timeout of a client
is one number that bounds each wait of an attempt by itself: for a connection of
the pool (`acquire`), for connecting (`connect`) and for the answer (`read`). The
answer is taken to be sent and read in one piece: one that trickles in would
restart that wait. `Connections` counts what a client's pool has given out; each
client has a pool of its own. `Tick` waits for what is due: a timeout, a pool
with a free connection and the server's own timer are prompt. The server stops
accepting at SIGTERM, waits for its requests, cancels the rest after
`--timeout-graceful-shutdown`, and only then runs the end of the lifespan; the
container is killed `stop_grace_period` after SIGTERM. `Calls` are what the routes ask of
the services: there is no create of a user. `due` is a variable of history, which no guard
reads: the requests whose calls could not take the whole window any more (`Rest`, the sum of
the waits, attempts and delays that are left) when the stop began.

### Feign, TypedClients

A declaration is a record: method, template, annotations. Annotations are classes
of types (`str`, `model`, `optional_model`, `unresolvable`), texts are sequences
of characters of which only those that matter in a path are told apart.
`PathParams` gives each placeholder's name at its place in the template, which
keeps the order of `path_params`.
`Declarable` is when decoration raises no `TypeError`; `Request` is what a call
puts on the wire; `ParseResponse` and `Result` are what it returns. `Feign` runs
these with two tasks that share the cached contract.

`TypedClients` takes the declarations of both clients and the route tables of the
three services and follows a call: from the BFF's own routes or from a task,
through quoting, the HTTP library's removal of dot segments, the server's
decoding, the first matching route of a method in registration order, to the
handler's body and back. That a server decodes `%2F` before it matches and that
dot segments are removed from a URL are behaviours of libraries that the model
takes as external. Its result: `Routable` is exactly the set of texts that reach
their handler; a call with any other raises, either because no route or another
one refuses it, or because the list that it reads is no row.

### FlowGateway

Each attempt of a call is a client of `FlowStore`, the abstract store that
`FlowService` implements, so the three modules compose: client, network, store.
An attempt that was given up stays in the service's hands and is carried out at
any later time. `RemoteFlows` says what the caller can rely on.

### FlowSystem

`FlowSystem` extends `FlowGateway` and puts `FlowService`, with its threads and its
lock, in the place of the store (the instance `Service`). A thread is known by the
attempt that it serves. `Arrive` is the sending of an attempt and its receipt by a
thread, `Serve` a step of the handler, and `Respond` the end of both: the caller reads
the answer, or has gone. The client's own steps are those of `FlowGateway` (`Client`).
A late attempt can thus run between the steps of another attempt of the same call.
`used`, the ids that have been in the store and that a caller may know, follows the
service's own `Used`. The store of `FlowGateway` is left to the proof; the run checks the
promise of `RemoteFlows` with the threads.

### MockRouter

One action per call of its interface. `log` is an independent record of what each
request met: the side effect that was set, and the outcome. `Played` are the
requests of a log that were answered from a script. If they all met the same one, the
n-th must get its n-th item (`ScriptInOrder`); and whatever was assigned when, a call must
get an item of the list that is set (`SideEffectIsUsed`, which does not hold: see below).

## Runs

| Run | Instance | States | Shows |
|---|---|---|---|
| `uc_service` | 2 threads, 2 ids, 2 usernames, one clock tick | 549 176 | types, index consistency, no 500, no resurrection, timestamps, refinement of `UserDirectory`; the lock is freed, a handler with the lock answers |
| `flow_safety` | 2 threads, 2 ids, null and non-null payloads, one tick | 543 532 | the same properties for flows, refinement of `FlowStore` |
| `service_client` | 2 calls, 2 items, 3 attempts | 602 153 | effects at most once, truth of what callers are told, attempts; every call ends |
| `bff_ids` | 2 requests, 2 attempts, a safe and an unsafe token | 905 665 | hops join, traces stay apart, an echoed id finds the hops |
| `bff_lifecycle` | 2 requests, 1 connection per client, 2 attempts, ticks of 10 s: timeouts of 3 and 1, windows of 3 and 4 | 410 942 | clients outlive calls, time bounds, who waits for whom, what a stop cuts off; requests and a stop end |
| `feign` | 17 shapes of declaration, 2 calls, 4 texts, 4 models, 5 bodies | 38 130 | arguments in one place, bodies by method, results as declared |
| `typed_clients` | 11 methods, 6 routes of the BFF, 13 texts, all subsets of the optional fields | 1 043 | calls reach their handlers, writes never go astray |
| `flow_system` | 3 calls, 2 attempts, 1 id, one tick, a PATCH of a status | 1 066 014 | client and threads together refine `RemoteFlows` |
| `mock_router` | 1 route, 5 side effects, 3 calls between resets | 28 105 | calls recorded, scripts in order |
| `client_body_status` | 1 call | stops at a violation | the body of an error response may carry another status than the response |
| `bff_drain` | as `bff_lifecycle`, 3 attempts | stops at a violation | a stop cancels a request under way |
| `mock_stale_script` | as `mock_router` | stops at a violation | a list assigned while another is played is ignored |

Bounds. Two threads: every hazard of these handlers is a race of two; a third
only waits for the lock, and the proofs cover any number. Two ids let two users compete
for a name, and one be renamed to what a delete of the other has freed; two usernames make
every rename either free, taken or its own. One tick separates "before" from "after".
The payloads contain a value, a null for a required field, a null for a nullable
field, and a body with several fields. `IdBudget` in `Receive` and the guard in
`Start` keep creates within the finite set of ids, and `MaxTime` stops the clock;
nothing else is bounded. For the client two calls are enough for one to observe
the other's late effect, and three attempts give a first, a middle and a last.
For the lifecycle one connection and two requests make one wait for the other. A tick is
ten seconds and the rest are the deployed values, rounded up: 30 s and 10 s of timeout, a
delay of at most 2 s, windows of 30 s and 35 s. A second attempt stands for the second and
the third in `bff_lifecycle`, which checks liveness too; `bff_drain` has the three. When a
stop begins, a request may have anything from nothing to more than six windows left, so both
kinds, those that must be answered and those that may be cancelled, exist for reads and for
creates. In
`flow_system` two calls and their late attempts race inside the service while a third
observes; there is one id, since creates race in `flow_safety` and the proof is for any
set of them, and no PATCH of a description, which `flow_safety` has too. A route of the
mock router is independent of the others, so one is enough; three calls exceed the
longest script by one. The calls of `Feign` and `TypedClients` are made of all
combinations of the listed texts, models and bodies.

The runs of `UcService` and `FlowService` check for deadlock: threads serve
requests for ever. The others turn it off, since calls and processes may have come
to their end.

Symmetry is used in runs without liveness properties only, over sets of model values that
no definition distinguishes.

Fairness. `UcService!FairSpec` assumes only that a thread which can take a step
takes one. `threading.Lock` does not queue its waiters, so nothing is promised to
a thread that waits for the lock: the liveness properties are that the lock is
freed again and again, and that whoever has it answers.
`ServiceClient!FairSpec` assumes that the coroutine of a call runs when it can:
the client has a timeout on every wait, so `GiveUp` stays possible while it waits.
A downstream that keeps sending a body byte by byte would defeat such a timeout
and is not considered. Nothing is assumed of the downstream otherwise.
`BffLifecycle!FairSpec` assumes that something happens as long as anything can:
the event loop goes on and time passes, and since every wait has a length, a
request cannot be put off by time alone.

Each property of a passing run has a mutant in `PROJECT.json`, a definition
marked "Mutant" in its module, which breaks it under the same configuration.

## Findings

`client_body_status`: `service_error_handlers.py:89` puts `exc.status_code` in
the body while the response carries `map_service_error_to_status(exc)`. For a
redirect answer, which `_map_http_error` turns into a plain `ServiceCallError`,
they differ (502 and 307). `apps/bff/tests/test_context_boundary.py:94` calls
their equality an "invariant kept by every error type".

`bff_drain`: `docs/docker.md:74-76` says that with the two windows `docker compose down`
"drains in-flight requests before SIGKILL", and the comment at `Dockerfile:44` repeats it.
A call of the BFF may take three attempts of up to three 30-second waits, and uvicorn
cancels what is under way after 30 s, so `DrainsInFlight` fails for a read that has only
begun. SIGKILL itself meets nothing (`NothingCutByKill`). What a stop does guarantee is
`DueRequestsDrain`: a request with less left than the window is answered, for instance a
create that has its connection, or a read in its last attempt that has.

`mock_stale_script`: `mock_router.py:84` says "if `side_effect` is set, use it". The
iterator made at line 142 is dropped by `reset` alone, so a list that is assigned after a
call has been answered from another one is not looked at: the next call gets an item of
the old list (`SideEffectIsUsed`). `ScriptInOrder` says what a test may rely on: a
script that was alone since a reset.

The models contain other behaviour that the code's own words do not suggest. No run
is spent on these; the properties say what holds instead.

* `middleware.py:41` says that the request id is "also set on the response so callers can
  correlate logs and traces"; an exception that nothing maps passes line 77, and the 500 is made outside
  the middleware without it (`Crash` in `Bff`). `EchoFindsRequest` is about the responses
  that the middleware gets.
* `base_client.py:254` promises that a body that cannot be decoded is "surfaced to
  callers as a mapped service error, not a raw 500"; one with a broken content
  encoding raises at line 236, past line 243 (`Undecodable` in `ServiceErrors`).
* `feign.py:8` promises that declarations fail at decoration; a template that
  repeats a placeholder fails at every call, with `KeyError` (`BindError`).
* `feign.py:4` says that the model argument becomes the body; one annotated
  `Model | None` becomes a query parameter (`QueryParams`).
* `mock_router.py:70` lists `httpx2.Response` among the types that `side_effect`
  accepts; it raises `TypeError` (`ResolveResponse`).

## Proofs

`UcServiceProofs` proves, for every set of threads, ids, usernames, e-mails and
statuses, and every set of PATCH bodies allowed by `IsUserUpdate`:

* `TypeCorrect`: `Spec => []TypeOK`
* `MutualExclusion`: no two threads are inside `_USERS_LOCK`
* `IndexAlwaysConsistent`: `Spec => []IndexConsistent`
* `NeverServerError`: `Spec => []NoServerError`
* `NoResurrection`: `Spec => DeletedStaysDeleted`
* `TimestampsAdvance`: `Spec => UpdatedAtAdvances`
* `Linearizable`: `Spec => ImplementsDirectory`

None of these is inductive alone. The invariant `IInv` adds: the lock is held by
`t` exactly when `t`'s program counter is inside the block (`LockInv`); at each
point of each handler, what the handler has already checked is still so
(`HandlerInv`); rows are stored under their own ids, and only minted ids are in
the store (`StoreInv`); a reply exists exactly where a handler has one to give
(`ReplyInv`); at each point the index and the store differ by exactly the writes
that are still missing (`IndexInv`); no timestamp is ahead of the clock
(`TimeInv`). Each action has a lemma, and `Invariance` puts them together. The
action properties and the refinement follow from `IInv` and one step. The
assumptions are those named in `PartialUpdate`, `UserApi` and `UcService`:
chiefly that `None` is none of the values it stands beside; every run evaluates
them.

`ServiceClientProofs` proves, for any number of calls, items and `MaxRetries`:

* `TypeCorrect`: `Spec => []TypeOK`
* `AtMostOneEffect`: `Spec => []EffectAtMostOnce`
* `SuccessesAreReal`: `Spec => []SuccessIsReal`
* `NotFoundIsFinal`: `Spec => []NotFoundMeansGone`
* `AttemptsAreCounted`: `Spec => []AttemptsUsed`
* `OutcomesAreSettled`: `Spec => OutcomeIsSettled`

Its `IInv` follows an attempt from the network to the caller: attempts under way
are numbered within those the call has made (`NetInv`); a call that is sent once
has no effect while its attempt is under way (`OnceInv`), and a DELETE that had
its effect leaves nothing for a repetition, since ids do not come back
(`DeleteInv`); an answer tells the truth from the moment it is sent, delivered
(`ResultInv`) or not (`AnswerInv`). A late attempt is thus harmless for one of two
reasons: the method is sent once, or the effect is already there. The assumptions
are `RetryAssumption` and `MethodAssumption`.

`FlowServiceProofs` proves of `FlowService`, for every set of threads, ids, names,
descriptions, statuses and PATCH bodies, what `UcServiceProofs` proves of its twin:
`TypeCorrect`, `MutualExclusion`, `NeverServerError`, `NoResurrection`,
`TimestampsAdvance` and `Linearizable` (`Spec => ImplementsStore`). Its `IInv` has
the same parts but for the index, and `BirthInv`: a create carries a row under an
id that it alone has drawn and that has never been in the store. Without it the
insert, which `create_flow` makes with a row built before the lock, could bring
a deleted flow back or overwrite another one.

`FlowGatewayProofs` proves `CallsAreRemote` (`Spec => ImplementsRemoteFlows`) for any
number of calls, flows and `MaxRetries`. `IInv` consists of the types (`TypeCorrect`),
what the client knows of a call (`CallInv`: only a get, a list or a delete comes to
a second attempt), what the service has of it (`SentInv`: attempts that were sent,
with the request of their call) and `EffectInv` (`EffectsSettle`): once a call has
had its effect, no attempt of it is left that could have it again, because a create
or an update has one attempt only and the id of a deleted flow stays unused.
`CarriedOut` splits an attempt that the store carries out into what it finds and what
it changes; the refinement then maps the first to `Read`, the second to `Write`, and an
attempt that its caller has given up to a `Write` without an outcome or to a stutter.
`Store` in it is the abstract specification that `Linearizable` of `FlowServiceProofs`
shows the service to implement.

It goes on to `FlowSystem`, if no attempt is `None` (`ThreadAssumption`):

* `GatewayImplemented`: `SystemSpec => Spec`, the client before the threads is the client
  before the store
* `SystemIsRemote`: `SystemSpec => ImplementsRemoteFlows`

The service's own invariant comes from an instance of `FlowServiceProofs` (`Proved`): no
step of `FlowSystem` does anything to the service that it could not do alone
(`ServiceStep`), so its `IInv` holds here too (`ServiceInvariance`); `SameService` shows
that the instance says what `Service` says. `HandlerSteps` says which step of a handler is
which step of the store, with the status it answers. What remains is that the mark of a
call's effect is set by that very step (`ServeIsGateway`), that `used` changes with it
(`UsedIds`), and that the attempt which is sent is one of those that have a thread
(`ClientInv`).

`BffProofs` proves `TypeCorrect`, `OneRequestOneTrace` (`HopsJoin`), `NoSharedTrace`
(`TracesStayApart`) and `ResponseIdFindsAll` (`EchoFindsRequest`) for any number of
requests and attempts and any safe and unsafe tokens. Inductive they become with: the
context and the ids that each point of a request has (`HandlerInv`); every attempt,
under way or arrived, carries those ids (`HopInv`); a UUID in use has been drawn
(`DrawnInv`); and a trace is no id that a browser may have learnt (`ApartInv`). A request that crashes
keeps its ids at the services and echoes none.

`BffLifecycleProofs` proves `TypeCorrect`, `ClientsOutliveCalls` (`CallsHaveClients`),
`CallsAreBounded` (`AnsweredInTime`), `PoolsAreApart` (`AloneNeverWaits`), `StopDrains`
(`DueRequestsDrain`) and `KillMeetsNoRequest` (`NothingCutByKill`), for every number of
requests, services, connections and attempts and every length of timeouts, delays and
windows that `LengthAssumption` admits. The time bound is no invariant by itself; what is
inductive is a budget: the age of a request and `Rest`, the ticks its remaining waits and
attempts can take, never exceed `Longest` (`BudgetInv`). The
same `Rest` carries the drain: a tick of a stop takes one from it and no step of a request
adds to it, so what was due within the window stays due within what is left of it
(`DueInv`) and is over when the window is. The theorems need no fairness: they are about `Spec`.

`FeignProofs` proves `ResultsAsDeclared`, `BodiesAsTheMethodsSay` and
`ArgumentsAreSentOnce` for every declaration that `DeclarationAssumption` describes, all
arguments that fit its annotations (`ArgumentAssumption`) and any number of calls. `IInv`
says that a bound wrapper has the spec of its declaration, that the cached contract is the
declaration's whichever call cached it, and that a request on the wire is the one of its
call's arguments. The lemmas are about the operators: `QuotedText` (quoting loses nothing
of a text), `SpecParts` (a parameter is a placeholder's, the body or a part of the query,
and only one of these), `RequestParts`, `ResultFromBody`. `DeclarationAssumption` restricts
placeholders to parameters that are texts, as all declared endpoints have them, and
`Characters` excludes the escapes that only quoting makes, since a text of the model tells
no more characters apart.

It proves of `TypedClients` `CallsReachTheirHandler` (`ReachesItsHandler`),
`WritesStayOnCourse` (`NoWriteGoesAstray`) and `BffForwardsAsAsked` (`ForwardedAsAsked`)
for every set of texts and payloads. `ClientsInv` has four parts: a request is the one of
its call (`Sending`); the BFF hands on the text of its path, or, if a slash splits it,
another one (`Relaying`); a service answers and runs for any call what its text permits
(`Answering`); a method returns what its contract makes of the body (`Returning`).
`Answering` is the work, and follows the path. No path has more than three segments before
a text is put into it, so what is joined, normalized and split again is followed without
an induction: `Split` is defined by the positions of the slashes, and the lemmas say what
it gives for none, one, two (`SplitAtNone` to `SplitAtTwo`) and for more only how many
pieces there are, since a path of more segments than any route matches nothing.
`PathArrives` and `NamesArrive` put these together: `.` takes itself away, `..` the
segment before it as well, and any other text arrives, cut only by slashes of its own.
`FlowDispatch`, `UcDispatch` and `BffDispatch` go through the route tables; `FlowMisses`
and `UcMisses` say that what a slash, a `..` or an empty text makes of a path is no route
at all, so that `.` alone is left to lead a call elsewhere, to the list. Three assumptions
enter: texts are sequences of characters (`TextAssumption`), what has a meaning in a path
is a character (`CharacterAssumption`), payloads set fields of their models
(`PayloadAssumption`).

`MockRouterProofs` proves `CallsAreRecorded` and `ScriptsInOrder` for any routes, requests
and scripts of any length. `IterInv` ties the iterator to the log: it exists exactly when a
script has been played since the reset, and what it still has is the script without as many
items as the log has played (`Rest`). `OrderInv` follows what the router really does, also
with a list that another one has replaced: all items come from the script that was played
first. `ScriptInOrder` is the case in which there is no other, and `LeastNumber` says that
there is a first. `SideEffectAssumption` says that no side effect yields
a `TypeError`, which in the log stands for the router's own.

TLC has also checked every `IInv`, `ClientsInv` and `ClientInv` on small instances, mostly
those of the runs; the runs check the properties themselves and evaluate every assumption.

Only model-checked: the liveness properties (`LockAlwaysFreed`, `AdmittedAnswered`,
`CallEnds`, `RequestEnds`), which are beyond the prover. Every other property of the
passing runs is the statement of a theorem.

## Plan

1. Done: all components in the table above and their runs, proofs of every safety property
   and refinement of every specification, and `FlowSystem`, which joins client and service.
2. Left: a refinement between `ServiceClient`, which has statuses, body errors and restarts,
   and `RemoteFlows`, whose calls only have transport errors.

## Not modelled

Validation of strings, JSON, logging and OpenAPI; `/healthz` and `/me`; the
authentication placeholder, which returns a constant; the parsing of settings; the
client constructor's check that `pool=` and the single limits are not both given;
container start-up and health checks; `scripts/dev-all.sh`, a supervisor for
development; a lifespan whose constructors or `aclose`
raise; generators as side effects of the mock router, and its URL normalization;
the construction of test responses (`helpers.py`). A restart is modelled where it
has an observer, at the client; the services themselves have no recovery code.
The library behaviour the models rely on is that a synchronous route runs on a
thread of a pool, that an uncaught exception is a 500, that `raise_for_status`
refuses everything but a 2xx, that a decoding error is no `TransportError`, that a
timeout bounds each wait by itself, how URLs are normalized and matched, and how
the server shuts down.
