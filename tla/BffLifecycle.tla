---------------------------- MODULE BffLifecycle ----------------------------
(***************************************************************************)
(* The process of the BFF: lifespan (apps/bff, main.py) builds the clients *)
(* that all requests share and closes them at the end; each request makes  *)
(* one call through its service's client, whose attempts compete for the   *)
(* client's connections (base_client.py); and a stop drains the requests   *)
(* within the windows that the Dockerfile and compose.yaml set.  Time      *)
(* passes in ticks, and every wait has its length.  The timeout bounds     *)
(* each wait of an attempt: for a connection of the pool, for connecting   *)
(* it, and for the answer, which is sent and read in one piece.            *)
(***************************************************************************)
EXTENDS ServiceErrors, FiniteSets

CONSTANTS Requests,        \* the requests made of the BFF
          MaxConnections,  \* max_connections of each client
          MaxRetries,      \* max_retries of each client
          Timeouts,        \* flow_timeout and uc_timeout, in ticks
          Backoff,         \* the longest delay between two attempts
          Grace,           \* --timeout-graceful-shutdown
          KillAfter,       \* stop_grace_period
          None

Services == {"flow", "uc"}

ASSUME LengthAssumption ==
  /\ Timeouts \in [Services -> Nat \ {0}]
  /\ {MaxRetries, Backoff, Grace, KillAfter} \subseteq Nat
  /\ MaxConnections \in Nat \ {0}
  /\ Grace < KillAfter

ASSUME NoneAssumption == None \notin Services \cup {"open", "closed"}

VARIABLES
  phase,     \* starting, serving, draining, closing, stopped or killed
  client,    \* per service: None, "open" or "closed"
  stopping,  \* ticks since the stop began
  due,       \* of history: the requests that had to end within the window
             \* when the stop began
  pc,        \* per request: idle, acquire, connect, read, backoff or its end
  service,   \* per request: the service its route calls, or None
  method,    \* per request: the method of that call, or None
  attempt,   \* per request: attempt_number of the retry loop
  timer,     \* per request: ticks until its present wait is over
  age        \* per request: ticks it has been served

process == <<phase, client, stopping, due>>
vars == <<process, pc, service, method, attempt, timer, age>>

Init == /\ phase = "starting"
        /\ client = [s \in Services |-> None]
        /\ stopping = 0
        /\ due = {}
        /\ pc = [r \in Requests |-> "idle"]
        /\ service = [r \in Requests |-> None]
        /\ method = [r \in Requests |-> None]
        /\ attempt = [r \in Requests |-> 0]
        /\ timer = [r \in Requests |-> 0]
        /\ age = [r \in Requests |-> 0]

InFlight == {r \in Requests : pc[r] \in {"acquire", "connect", "read", "backoff"}}

Goto(r, point, wait) == /\ pc' = [pc EXCEPT ![r] = point]
                        /\ timer' = [timer EXCEPT ![r] = wait]

-----------------------------------------------------------------------------
(* lifespan                                                                *)

BuildClient(s) ==
  /\ phase = "starting" /\ client[s] = None
  /\ s = "uc" => client["flow"] = "open"
  /\ client' = [client EXCEPT ![s] = "open"]
  /\ phase' = IF s = "uc" THEN "serving" ELSE phase
  /\ UNCHANGED <<stopping, due, pc, service, method, attempt, timer, age>>

CloseClient(s) ==
  /\ phase = "closing" /\ client[s] = "open"
  /\ s = "uc" => client["flow"] = "closed"
  /\ client' = [client EXCEPT ![s] = "closed"]
  /\ phase' = IF s = "uc" THEN "stopped" ELSE phase
  /\ UNCHANGED <<stopping, due, pc, service, method, attempt, timer, age>>

-----------------------------------------------------------------------------
(* A request and the attempts of its call                                  *)

(* What the routes of the BFF call: they read and create flows, and read   *)
(* users.                                                                  *)
Calls == {<<"flow", "GET">>, <<"flow", "POST">>, <<"uc", "GET">>}

Receive(r) ==
  /\ phase = "serving" /\ pc[r] = "idle"
  /\ \E call \in Calls : /\ service' = [service EXCEPT ![r] = call[1]]
                         /\ method' = [method EXCEPT ![r] = call[2]]
                         /\ Goto(r, "acquire", Timeouts[call[1]])
  /\ attempt' = [attempt EXCEPT ![r] = 1]
  /\ UNCHANGED <<process, age>>

(* Mutant: one transport, and so one pool, passed to both clients.         *)
ConnectionsOfAll(s) == {r \in Requests : pc[r] \in {"connect", "read"}}

Connections(s) == {r \in Requests : service[r] = s /\ pc[r] \in {"connect", "read"}}

HasConnection(r) == Cardinality(Connections(service[r])) < MaxConnections

(* The pool gives the attempt a new connection or one kept alive.          *)
Acquire(r) ==
  /\ pc[r] = "acquire" /\ HasConnection(r)
  /\ \E point \in {"connect", "read"} : Goto(r, point, Timeouts[service[r]])
  /\ UNCHANGED <<process, service, method, attempt, age>>

Connect(r) ==
  /\ pc[r] = "connect" /\ Goto(r, "read", Timeouts[service[r]])
  /\ UNCHANGED <<process, service, method, attempt, age>>

(* An answer that ends the call, with a value or an error.                 *)
Answer(r) ==
  /\ pc[r] = "read" /\ Goto(r, "answered", 0)
  /\ UNCHANGED <<process, service, method, attempt, age>>

Attempts(r) == IF method[r] = "GET" /\ MaxRetries > 0 THEN MaxRetries ELSE 1

(* Mutant: max_retries taken for the retries after the first attempt.      *)
FailedOnceMore(r) ==
  IF attempt[r] <= Attempts(r) THEN Goto(r, "backoff", Backoff)
                               ELSE Goto(r, "answered", 0)

(* The attempt failed in a way that is retried.                            *)
Failed(r) ==
  IF attempt[r] < Attempts(r) THEN Goto(r, "backoff", Backoff)
                              ELSE Goto(r, "answered", 0)

(* A wait for the pool, for the connection or for the answer ends in a     *)
(* TimeoutException; the service cannot be reached, or answers 5xx.        *)
Fail(r) ==
  /\ pc[r] \in {"acquire", "connect", "read"}
  /\ pc[r] = "acquire" => timer[r] = 0 /\ ~HasConnection(r)
  /\ Failed(r)
  /\ UNCHANGED <<process, service, method, attempt, age>>

(* Mutant: no attempt starts once the process is to stop.                  *)
RetryServing(r) ==
  /\ pc[r] = "backoff" /\ phase = "serving"
  /\ Goto(r, "acquire", Timeouts[service[r]])
  /\ attempt' = [attempt EXCEPT ![r] = @ + 1]
  /\ UNCHANGED <<process, service, method, age>>

Retry(r) ==
  /\ pc[r] = "backoff"
  /\ Goto(r, "acquire", Timeouts[service[r]])
  /\ attempt' = [attempt EXCEPT ![r] = @ + 1]
  /\ UNCHANGED <<process, service, method, age>>

-----------------------------------------------------------------------------
(* The end of the process                                                  *)

Wait(r) == Timeouts[service[r]]

(* What n more attempts can take whose waits are of w ticks, each with its *)
(* delay.                                                                  *)
More(w, n) == n * (3 * w + Backoff)

(* The ticks that the call of r can still take.                            *)
Rest(r) ==
  CASE pc[r] = "acquire" -> timer[r] + 2 * Wait(r)
                                     + More(Wait(r), Attempts(r) - attempt[r])
    [] pc[r] = "connect" -> timer[r] + Wait(r)
                                     + More(Wait(r), Attempts(r) - attempt[r])
    [] pc[r] = "read"    -> timer[r] + More(Wait(r), Attempts(r) - attempt[r])
    [] pc[r] = "backoff" -> timer[r] + 3 * Wait(r)
                                     + More(Wait(r), Attempts(r) - attempt[r] - 1)
    [] OTHER             -> 0

(* SIGTERM: the server takes no more requests.                             *)
Terminate ==
  /\ phase = "serving" /\ phase' = "draining"
  /\ due' = {r \in InFlight : Rest(r) < Grace}
  /\ UNCHANGED <<client, stopping, pc, service, method, attempt, timer, age>>

(* Mutant: the server is started without --timeout-graceful-shutdown.      *)
NeverOver == FALSE

GraceOver == stopping >= Grace

(* Every request has been answered in time.                                *)
Drained ==
  /\ phase = "draining" /\ InFlight = {} /\ phase' = "closing"
  /\ UNCHANGED <<client, stopping, due, pc, service, method, attempt, timer, age>>

(* Mutant: requests under way are not waited for.                          *)
CancelAtOnce ==
  /\ phase = "draining" /\ InFlight # {} /\ phase' = "closing"
  /\ pc' = [r \in Requests |-> IF r \in InFlight THEN "cancelled" ELSE pc[r]]
  /\ UNCHANGED <<client, stopping, due, service, method, attempt, timer, age>>

(* Mutant: the clients are closed under the requests that are left.        *)
CloseWithoutCancel ==
  /\ phase = "draining" /\ GraceOver /\ phase' = "closing"
  /\ UNCHANGED <<client, stopping, due, pc, service, method, attempt, timer, age>>

(* The graceful-shutdown window is over: what is left is cancelled.        *)
Cancel ==
  /\ phase = "draining" /\ InFlight # {} /\ GraceOver
  /\ phase' = "closing"
  /\ pc' = [r \in Requests |-> IF r \in InFlight THEN "cancelled" ELSE pc[r]]
  /\ UNCHANGED <<client, stopping, due, service, method, attempt, timer, age>>

(* SIGKILL, when the container is given up.                                *)
Kill ==
  /\ phase \in {"draining", "closing"} /\ stopping = KillAfter
  /\ phase' = "killed"
  /\ pc' = [r \in Requests |-> IF r \in InFlight THEN "cut" ELSE pc[r]]
  /\ UNCHANGED <<client, stopping, due, service, method, attempt, timer, age>>

-----------------------------------------------------------------------------
(* Mutant: a wait that is over does not end at once.                       *)
TickLate ==
  /\ phase \in {"serving", "draining", "closing"}
  /\ phase = "serving" => InFlight # {}
  /\ phase = "draining" => InFlight # {} /\ ~GraceOver
  /\ stopping < KillAfter
  /\ \A r \in InFlight : pc[r] = "acquire" => ~HasConnection(r)
  /\ timer' = [r \in Requests |-> IF r \in InFlight THEN timer[r] - 1 ELSE timer[r]]
  /\ age' = [r \in Requests |-> IF r \in InFlight THEN age[r] + 1 ELSE age[r]]
  /\ stopping' = IF phase = "serving" THEN 0 ELSE stopping + 1
  /\ UNCHANGED <<phase, client, due, pc, service, method, attempt>>

(* A tick passes: timeouts, the pool and the server's own timer are prompt. *)
Tick ==
  /\ phase \in {"serving", "draining", "closing"}
  /\ phase = "serving" => InFlight # {}
  /\ phase = "draining" => InFlight # {} /\ ~GraceOver
  /\ stopping < KillAfter
  /\ \A r \in InFlight : timer[r] > 0 /\ (pc[r] = "acquire" => ~HasConnection(r))
  /\ timer' = [r \in Requests |-> IF r \in InFlight THEN timer[r] - 1 ELSE timer[r]]
  /\ age' = [r \in Requests |-> IF r \in InFlight THEN age[r] + 1 ELSE age[r]]
  /\ stopping' = IF phase = "serving" THEN 0 ELSE stopping + 1
  /\ UNCHANGED <<phase, client, due, pc, service, method, attempt>>

Next == \/ \E s \in Services : BuildClient(s) \/ CloseClient(s)
        \/ \E r \in Requests : \/ Receive(r) \/ Acquire(r) \/ Connect(r)
                               \/ Answer(r) \/ Fail(r) \/ Retry(r)
        \/ Terminate \/ Drained \/ Cancel \/ Kill \/ Tick

Spec == Init /\ [][Next]_vars

(* The event loop goes on and time passes.  No request needs to come.      *)
FairSpec == Spec /\ WF_vars(Next)

-----------------------------------------------------------------------------
(* Properties                                                              *)

Points == {"idle", "acquire", "connect", "read", "backoff",
           "answered", "cancelled", "cut"}

(* The type invariant.                                                     *)
TypeOK ==
  /\ phase \in {"starting", "serving", "draining", "closing", "stopped", "killed"}
  /\ client \in [Services -> {None, "open", "closed"}]
  /\ stopping \in 0..KillAfter
  /\ due \subseteq Requests
  /\ pc \in [Requests -> Points]
  /\ service \in [Requests -> Services \cup {None}]
  /\ method \in [Requests -> {"GET", "POST", None}]
  /\ attempt \in [Requests -> Nat]
  /\ timer \in [Requests -> Nat]
  /\ age \in [Requests -> Nat]

(* No attempt is made through a client that is not built yet or closed     *)
(* already: the HTTP library would raise an error that nothing maps.       *)
CallsHaveClients == \A r \in InFlight : client[service[r]] = "open"

(* Three waits for each attempt, and the delays between them.              *)
Longest(r) == Attempts(r) * 3 * Timeouts[service[r]] + (Attempts(r) - 1) * Backoff

(* A timeout bounds one wait, not a call: this is how long a request can   *)
(* take, waiting for the pool included, whatever the other requests do.    *)
AnsweredInTime == \A r \in Requests : pc[r] # "idle" => age[r] <= Longest(r)

(* A request waits for a connection only because of others to its service: *)
(* the clients share the pool's settings, not the pool.                    *)
AloneNeverWaits ==
  \A r \in Requests : pc[r] = "acquire" /\ timer[r] < Timeouts[service[r]] =>
    \E q \in Requests \ {r} : service[q] = service[r]

(* A stop cancels only what could still take the whole graceful window     *)
(* when it began: a request with less left, be it in its last attempt, is  *)
(* answered, however long it has been served before.                       *)
DueRequestsDrain == \A r \in due : pc[r] # "cancelled"

(* docs/docker.md:76: "`docker compose down` drains in-flight requests     *)
(* before SIGKILL", each of them.                                          *)
DrainsInFlight == \A r \in Requests : pc[r] \notin {"cancelled", "cut"}

(* compose.yaml:17: the drain window is longer than the server's own, so   *)
(* SIGKILL never meets a request.                                          *)
NothingCutByKill == \A r \in Requests : pc[r] # "cut"

(* Every request comes to an end, and a stop too.                          *)
RequestEnds ==
  /\ \A r \in Requests : pc[r] = "acquire" ~> r \notin InFlight
  /\ phase = "draining" ~> phase \in {"stopped", "killed"}

=============================================================================
