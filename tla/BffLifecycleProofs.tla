------------------------- MODULE BffLifecycleProofs -------------------------
(***************************************************************************)
(* Proofs about BffLifecycle for every set of requests, every length of    *)
(* the timeouts, the backoff and the windows of the shutdown, and every    *)
(* number of connections and attempts.  The invariant that carries them    *)
(* gives each request a budget of ticks: what its call may still take,     *)
(* with what it has taken, is never more than the longest call.            *)
(***************************************************************************)
EXTENDS BffLifecycle, FiniteSetTheorems, TLAPS

(* The clients are open while there are requests, and requests are under   *)
(* way only while the server runs.  A stop lasts no longer than the        *)
(* graceful window before the clients are closed.                          *)
ProcessInv ==
  /\ phase \in {"serving", "draining"} => \A s \in Services : client[s] = "open"
  /\ phase \notin {"serving", "draining"} => InFlight = {}
  /\ phase \in {"starting", "serving"} => stopping = 0
  /\ phase = "draining" => stopping <= Grace

(* A request that has come has a service, and makes its attempts in turn.  *)
RequestInv ==
  \A r \in Requests :
    /\ pc[r] = "idle" => service[r] = None /\ age[r] = 0
    /\ pc[r] # "idle" => service[r] \in Services
    /\ r \in InFlight => attempt[r] \in 1..Attempts(r)
    /\ pc[r] = "backoff" => attempt[r] < Attempts(r)

BudgetInv ==
  \A r \in Requests : pc[r] # "idle" => age[r] + Rest(r) <= Longest(r)

(* A request that had to end within the graceful window still has to.      *)
DueInv ==
  phase = "draining" => \A r \in due \cap InFlight : stopping + Rest(r) < Grace

IInv == /\ TypeOK /\ ProcessInv /\ RequestInv /\ BudgetInv /\ DueInv
        /\ AloneNeverWaits /\ DueRequestsDrain /\ NothingCutByKill

-----------------------------------------------------------------------------
(* Lengths                                                                 *)

(* Each request makes one attempt at least.                                *)
LEMMA AttemptsPositive == \A r : Attempts(r) \in Nat \ {0}
BY LengthAssumption DEF Attempts

(* The waits are numbers of ticks.                                         *)
LEMMA WaitType ==
  ASSUME NEW r \in Requests, service[r] \in Services
  PROVE  Wait(r) \in Nat \ {0}
BY LengthAssumption DEF Wait

(* One more attempt takes a wait for the pool, one for the connection, one *)
(* for the answer, and a delay.                                            *)
LEMMA MoreStep ==
  ASSUME NEW w \in Nat, NEW n \in Nat
  PROVE  /\ More(w, n) \in Nat
         /\ More(w, n + 1) = More(w, n) + 3 * w + Backoff
<1>1. Backoff \in Nat
  BY LengthAssumption
<1>2. 3 * w + Backoff \in Nat
  BY <1>1
<1>3. \A k, round \in Nat : /\ k * round \in Nat
                            /\ (k + 1) * round = k * round + round
  OBVIOUS
<1> QED
  BY <1>1, <1>2, <1>3 DEF More

(* The longest call is an attempt and all those that may follow it.        *)
LEMMA LongestIsBudget ==
  ASSUME NEW w \in Nat, NEW a \in Nat \ {0}
  PROVE  /\ a * 3 * w + (a - 1) * Backoff = 3 * w + More(w, a - 1)
         /\ a * 3 * w + (a - 1) * Backoff \in Nat
<1>1. Backoff \in Nat
  BY LengthAssumption
<1> DEFINE n == a - 1
<1>2. n \in Nat /\ a = n + 1
  OBVIOUS
<1> HIDE DEF n
<1>3. /\ (n + 1) * 3 * w + n * Backoff = 3 * w + n * (3 * w + Backoff)
      /\ (n + 1) * 3 * w + n * Backoff \in Nat
  BY <1>1, <1>2
<1> QED
  BY <1>2, <1>3 DEF n, More


-----------------------------------------------------------------------------
(* The invariant is inductive                                              *)

(* The budget of a request is a number of ticks at every point.            *)
LEMMA RestType ==
  ASSUME IInv, NEW r \in Requests, pc[r] # "idle"
  PROVE  /\ Rest(r) \in Nat /\ Longest(r) \in Nat
         /\ age[r] \in Nat /\ timer[r] \in Nat
         /\ Wait(r) \in Nat
         /\ r \in InFlight => Attempts(r) - attempt[r] \in Nat
<1>1. /\ service[r] \in Services /\ timer[r] \in Nat /\ age[r] \in Nat
      /\ attempt[r] \in Nat /\ Attempts(r) \in Nat
      /\ r \in InFlight => attempt[r] \in 1..Attempts(r)
      /\ pc[r] = "backoff" => attempt[r] < Attempts(r)
  BY AttemptsPositive DEF IInv, TypeOK, RequestInv
<1>2. Wait(r) \in Nat /\ Longest(r) \in Nat
  BY <1>1, WaitType, AttemptsPositive, LongestIsBudget DEF Longest, Wait
<1>3. /\ r \in InFlight => More(Wait(r), Attempts(r) - attempt[r]) \in Nat
      /\ pc[r] = "backoff" => More(Wait(r), Attempts(r) - attempt[r] - 1) \in Nat
  <2>1. CASE r \in InFlight
    <3>1. Attempts(r) - attempt[r] \in Nat
      BY <1>1, <2>1
    <3>2. pc[r] = "backoff" => Attempts(r) - attempt[r] - 1 \in Nat
      BY <1>1
    <3> QED
      BY <1>1, <1>2, <3>1, <3>2, MoreStep
  <2>2. CASE r \notin InFlight
    BY <2>2 DEF InFlight
  <2> QED
    BY <2>1, <2>2
<1>4. Rest(r) \in Nat
  BY <1>1, <1>2, <1>3 DEF Rest, InFlight
<1> QED
  BY <1>1, <1>2, <1>4

(* A step of one request keeps the invariant if that request stays within  *)
(* its budget, keeps to a client that is open and is answered, if it is at *)
(* all.                                                                    *)
LEMMA RequestStep ==
  ASSUME IInv, TypeOK', NEW r \in Requests, UNCHANGED <<process, age>>,
         \A q \in Requests \ {r} :
           /\ pc'[q] = pc[q] /\ service'[q] = service[q]
           /\ method'[q] = method[q] /\ attempt'[q] = attempt[q]
           /\ timer'[q] = timer[q],
         \/ phase = "serving"
         \/ r \in InFlight /\ Rest(r)' \in Nat /\ Rest(r)' <= Rest(r),
         pc'[r] \notin {"idle", "cancelled", "cut"},
         service'[r] \in Services,
         pc[r] = "idle" \/ service'[r] = service[r],
         pc'[r] = "acquire" => timer'[r] = Wait(r)',
         r \in InFlight' => attempt'[r] \in 1..Attempts(r)',
         pc'[r] = "backoff" => attempt'[r] < Attempts(r)',
         age[r] + Rest(r)' <= Longest(r)'
  PROVE  IInv'
<1>1. \A q \in Requests \ {r} :
        /\ Attempts(q)' = Attempts(q) /\ Wait(q)' = Wait(q)
        /\ Rest(q)' = Rest(q) /\ Longest(q)' = Longest(q)
  BY DEF Attempts, Wait, Rest, More, Longest
<1>2. \A q \in Requests \ {r} : q \in InFlight' <=> q \in InFlight
  BY DEF InFlight
<1>3. InFlight' \subseteq Requests
  BY DEF InFlight
<1>4. ProcessInv'
  <2>1. phase \in {"serving", "draining"}
    BY DEF IInv, ProcessInv
  <2>2. UNCHANGED <<phase, client, stopping, age>>
    BY DEF process
  <2> QED
    BY <1>2, <1>3, <2>1, <2>2 DEF IInv, ProcessInv
<1>5. RequestInv'
  BY <1>1, <1>2 DEF IInv, RequestInv
<1>6. BudgetInv'
  BY <1>1 DEF IInv, BudgetInv
<1>7. AloneNeverWaits'
  <2> SUFFICES ASSUME NEW q \in Requests, pc'[q] = "acquire",
                      timer'[q] < Wait(q)'
               PROVE  \E p \in Requests \ {q} : service'[p] = service'[q]
    BY DEF AloneNeverWaits, Wait
  <2>1. q # r
    BY WaitType, LengthAssumption DEF Wait
  <2>2. PICK p \in Requests \ {q} : service[p] = service[q]
    BY <1>1, <2>1 DEF IInv, AloneNeverWaits, Wait
  <2>3. service[q] \in Services
    BY <2>1 DEF IInv, RequestInv
  <2>4. service'[p] = service[p]
    BY <2>2, <2>3, NoneAssumption DEF IInv, RequestInv
  <2> QED
    BY <2>1, <2>2, <2>4
<1>8. DueInv'
  <2> SUFFICES ASSUME phase = "draining", NEW q \in due, q \in InFlight'
               PROVE  stopping + Rest(q)' < Grace
    <3>1. UNCHANGED <<phase, stopping, due>>
      BY DEF process
    <3> QED
      BY <3>1 DEF DueInv
  <2>1. q \in Requests /\ pc'[q] # "idle"
    BY DEF InFlight
  <2>2. CASE q # r
    <3>1. Rest(q)' = Rest(q) /\ q \in InFlight
      BY <1>1, <1>2, <2>1, <2>2
    <3> QED
      BY <3>1 DEF IInv, DueInv
  <2>3. CASE q = r
    <3>1. /\ r \in InFlight /\ Rest(r)' \in Nat /\ Rest(r)' <= Rest(r)
          /\ pc[r] # "idle"
      BY DEF InFlight
    <3>2. stopping + Rest(r) < Grace
      BY <2>3, <3>1 DEF IInv, DueInv
    <3>3. stopping \in Nat /\ Grace \in Nat /\ Rest(r) \in Nat
      BY <3>1, RestType, LengthAssumption DEF IInv, TypeOK
    <3> QED
      BY <2>3, <3>1, <3>2, <3>3
  <2> QED
    BY <2>2, <2>3
<1>9. DueRequestsDrain' /\ NothingCutByKill'
  <2>1. due' = due
    BY DEF process
  <2> QED
    BY <1>1, <2>1 DEF IInv, TypeOK, DueRequestsDrain, NothingCutByKill
<1> QED
  BY <1>4, <1>5, <1>6, <1>7, <1>8, <1>9 DEF IInv

(* A request comes to a serving BFF, with the longest budget.              *)
LEMMA ReceiveStep ==
  ASSUME IInv, NEW r \in Requests, Receive(r)
  PROVE  IInv'
<1>1. PICK s \in Services, m \in {"GET", "POST"} :
        /\ service' = [service EXCEPT ![r] = s]
        /\ method' = [method EXCEPT ![r] = m]
        /\ Goto(r, "acquire", Timeouts[s])
  <2>1. PICK call \in Calls :
          /\ service' = [service EXCEPT ![r] = call[1]]
          /\ method' = [method EXCEPT ![r] = call[2]]
          /\ Goto(r, "acquire", Timeouts[call[1]])
    BY DEF Receive
  <2>2. call[1] \in Services /\ call[2] \in {"GET", "POST"}
    BY DEF Calls, Services
  <2> QED
    BY <2>1, <2>2
<1>2. /\ phase = "serving" /\ pc[r] = "idle" /\ age[r] = 0
      /\ attempt' = [attempt EXCEPT ![r] = 1]
      /\ UNCHANGED <<process, age>>
  BY DEF Receive, IInv, RequestInv
<1>3. /\ pc' = [pc EXCEPT ![r] = "acquire"]
      /\ timer' = [timer EXCEPT ![r] = Timeouts[s]]
      /\ Timeouts[s] \in Nat \ {0}
  BY <1>1, LengthAssumption DEF Goto
<1>4. TypeOK'
  BY <1>1, <1>2, <1>3 DEF IInv, TypeOK, Points, process
<1>5. /\ pc'[r] = "acquire" /\ service'[r] = s /\ timer'[r] = Timeouts[s]
      /\ attempt'[r] = 1 /\ Wait(r)' = Timeouts[s]
  BY <1>1, <1>2, <1>3 DEF IInv, TypeOK, Wait
<1>6. Attempts(r)' \in Nat \ {0}
  BY LengthAssumption DEF Attempts
<1> DEFINE w == Timeouts[s]
           more == More(w, Attempts(r)' - 1)
<1>7. more \in Nat /\ Longest(r)' = 3 * w + more
  <2>1. Attempts(r)' - 1 \in Nat
    BY <1>6
  <2> QED
    BY <1>3, <1>5, <1>6, <2>1, MoreStep, LongestIsBudget DEF Longest, Wait
<1>8. Rest(r)' = 3 * w + more
  <2>1. Rest(r)' = timer'[r] + 2 * Wait(r)' + More(Wait(r)', Attempts(r)' - 1)
    BY <1>5 DEF Rest
  <2>2. Rest(r)' = w + 2 * w + more
    BY <1>5, <2>1
  <2> HIDE DEF w, more
  <2> QED
    BY <1>3, <1>7, <2>2 DEF w
<1>9. age[r] + Rest(r)' <= Longest(r)'
  <2> HIDE DEF w, more
  <2> QED
    BY <1>2, <1>3, <1>7, <1>8 DEF w
<1>10. \A q \in Requests \ {r} :
         /\ pc'[q] = pc[q] /\ service'[q] = service[q]
         /\ method'[q] = method[q] /\ attempt'[q] = attempt[q]
         /\ timer'[q] = timer[q]
  BY <1>1, <1>2, <1>3 DEF IInv, TypeOK
<1> QED
  BY <1>2, <1>4, <1>5, <1>6, <1>9, <1>10, RequestStep

(* A step of a call keeps the invariant if it takes nothing from the       *)
(* budget that was not there.                                              *)
LEMMA CallStep ==
  ASSUME IInv, NEW r \in Requests, r \in InFlight,
         UNCHANGED <<process, service, method, age>>,
         NEW point \in {"acquire", "connect", "read", "backoff", "answered"},
         NEW wait \in Nat, Goto(r, point, wait),
         NEW k \in 1..Attempts(r), attempt' = [attempt EXCEPT ![r] = k],
         point = "backoff" => k < Attempts(r),
         point = "acquire" => wait = Wait(r),
         Rest(r)' \in Nat, Rest(r)' <= Rest(r)
  PROVE  IInv'
<1>1. /\ pc[r] # "idle" /\ service[r] \in Services
      /\ Attempts(r)' = Attempts(r) /\ Wait(r)' = Wait(r)
      /\ Longest(r)' = Longest(r)
  BY DEF InFlight, IInv, RequestInv, Attempts, Wait, Longest
<1>2. /\ pc' = [pc EXCEPT ![r] = point] /\ timer' = [timer EXCEPT ![r] = wait]
      /\ k \in Nat
  BY AttemptsPositive DEF Goto
<1>3. TypeOK'
  BY <1>2 DEF IInv, TypeOK, Points, process
<1>4. /\ pc'[r] = point /\ timer'[r] = wait /\ attempt'[r] = k
      /\ service'[r] = service[r]
  BY <1>2 DEF IInv, TypeOK
<1>5. \A q \in Requests \ {r} :
        /\ pc'[q] = pc[q] /\ service'[q] = service[q]
        /\ method'[q] = method[q] /\ attempt'[q] = attempt[q]
        /\ timer'[q] = timer[q]
  BY <1>2 DEF IInv, TypeOK
<1>6. age[r] + Rest(r)' <= Longest(r)'
  <2>1. age[r] + Rest(r) <= Longest(r)
    BY <1>1 DEF IInv, BudgetInv
  <2> QED
    BY <1>1, <2>1, RestType
<1> QED
  BY <1>1, <1>3, <1>4, <1>5, <1>6, RequestStep

(* Each step of a call leaves as much of the budget as what is to come     *)
(* needs.                                                                  *)
LEMMA CallSteps ==
  ASSUME IInv, NEW r \in Requests,
         Acquire(r) \/ Connect(r) \/ Answer(r) \/ Fail(r) \/ Retry(r)
  PROVE  IInv'
<1> DEFINE w == Wait(r)
           n == Attempts(r) - attempt[r]
<1>1. /\ r \in InFlight /\ pc[r] # "idle"
      /\ UNCHANGED <<process, service, method, age>>
  BY DEF Acquire, Connect, Answer, Fail, Retry, InFlight
<1>2. /\ w \in Nat /\ n \in Nat /\ timer[r] \in Nat /\ Rest(r) \in Nat
      /\ Backoff \in Nat /\ w = Timeouts[service[r]]
  BY <1>1, RestType, LengthAssumption DEF Wait
<1>3. attempt[r] \in 1..Attempts(r) /\ Attempts(r) \in Nat
  BY <1>1, AttemptsPositive DEF IInv, RequestInv
<1>4. Attempts(r)' = Attempts(r) /\ Wait(r)' = w
  BY <1>1 DEF Attempts, Wait
<1>5. More(w, n) \in Nat
  BY <1>2, MoreStep
<1>6. attempt = [attempt EXCEPT ![r] = attempt[r]]
  BY DEF IInv, TypeOK
<1>7. ASSUME NEW point \in {"connect", "read"}, Acquire(r),
             Goto(r, point, Timeouts[service[r]])
      PROVE  IInv'
  <2>1. /\ pc[r] = "acquire" /\ attempt' = attempt
        /\ pc'[r] = point /\ timer'[r] = w
    BY <1>2, <1>7 DEF Acquire, Goto, IInv, TypeOK
  <2>2. /\ Rest(r) = timer[r] + 2 * w + More(w, n)
        /\ \/ Rest(r)' = w + w + More(w, n)
           \/ Rest(r)' = w + More(w, n)
    BY <1>4, <2>1 DEF Rest
  <2>3. Rest(r)' \in Nat /\ Rest(r)' <= Rest(r)
    <3> HIDE DEF w, n
    <3> QED
      BY <1>2, <1>5, <2>2
  <2> QED
    BY <1>1, <1>2, <1>3, <1>6, <1>7, <2>1, <2>3, CallStep
<1>8. CASE Connect(r)
  <2>1. /\ pc[r] = "connect" /\ attempt' = attempt
        /\ Goto(r, "read", w) /\ pc'[r] = "read" /\ timer'[r] = w
    BY <1>2, <1>8 DEF Connect, Goto, IInv, TypeOK
  <2>2. /\ Rest(r) = timer[r] + w + More(w, n)
        /\ Rest(r)' = w + More(w, n)
    BY <1>4, <2>1 DEF Rest
  <2>3. Rest(r)' \in Nat /\ Rest(r)' <= Rest(r)
    <3> HIDE DEF w, n
    <3> QED
      BY <1>2, <1>5, <2>2
  <2> QED
    BY <1>1, <1>2, <1>3, <1>6, <2>1, <2>3, CallStep
<1>9. ASSUME Answer(r) \/ Fail(r), Goto(r, "answered", 0)
      PROVE  IInv'
  <2>1. attempt' = attempt /\ pc'[r] = "answered"
    BY <1>9 DEF Answer, Fail, Goto, IInv, TypeOK
  <2>2. Rest(r)' = 0
    BY <2>1 DEF Rest
  <2> QED
    BY <1>1, <1>2, <1>3, <1>6, <1>9, <2>1, <2>2, CallStep
<1>10. ASSUME Fail(r), attempt[r] < Attempts(r), Goto(r, "backoff", Backoff)
       PROVE  IInv'
  <2>1. /\ pc[r] \in {"acquire", "connect", "read"} /\ attempt' = attempt
        /\ pc'[r] = "backoff" /\ timer'[r] = Backoff
    BY <1>10 DEF Fail, Goto, IInv, TypeOK
  <2>2. /\ n - 1 \in Nat
        /\ n = (n - 1) + 1
    BY <1>3, <1>10
  <2>3. /\ More(w, n - 1) \in Nat
        /\ More(w, n) = More(w, n - 1) + 3 * w + Backoff
    <3> HIDE DEF w, n
    <3> QED
      BY <1>2, <2>2, MoreStep
  <2>4. /\ \/ Rest(r) = timer[r] + 2 * w + More(w, n)
           \/ Rest(r) = timer[r] + w + More(w, n)
           \/ Rest(r) = timer[r] + More(w, n)
        /\ Rest(r)' = Backoff + 3 * w + More(w, n - 1)
    BY <1>4, <2>1 DEF Rest
  <2>5. Rest(r)' \in Nat /\ Rest(r)' <= Rest(r)
    <3> HIDE DEF w, n
    <3> QED
      BY <1>2, <1>5, <2>3, <2>4
  <2> QED
    BY <1>1, <1>2, <1>3, <1>6, <1>10, <2>1, <2>5, CallStep
<1>11. CASE Retry(r)
  <2>1. /\ pc[r] = "backoff" /\ attempt' = [attempt EXCEPT ![r] = attempt[r] + 1]
        /\ Goto(r, "acquire", w) /\ attempt'[r] = attempt[r] + 1
        /\ pc'[r] = "acquire" /\ timer'[r] = w
    BY <1>2, <1>11 DEF Retry, Goto, IInv, TypeOK
  <2>2. attempt[r] + 1 \in 1..Attempts(r)
    BY <1>3, <2>1 DEF IInv, RequestInv
  <2>3. /\ Attempts(r) - (attempt[r] + 1) = n - 1
        /\ n - 1 \in Nat
    BY <1>3, <2>2
  <2>4. More(w, n - 1) \in Nat
    <3> HIDE DEF w, n
    <3> QED
      BY <1>2, <2>3, MoreStep
  <2>5. /\ Rest(r) = timer[r] + 3 * w + More(w, n - 1)
        /\ Rest(r)' = w + 2 * w + More(w, n - 1)
    BY <1>4, <2>1, <2>3 DEF Rest
  <2>6. Rest(r)' \in Nat /\ Rest(r)' <= Rest(r)
    <3> HIDE DEF w, n
    <3> QED
      BY <1>2, <2>4, <2>5
  <2> QED
    BY <1>1, <1>2, <2>1, <2>2, <2>6, CallStep
<1> QED
  BY <1>7, <1>8, <1>9, <1>10, <1>11 DEF Acquire, Answer, Fail, Failed

(* While the clients are built and closed, and when a stop begins, nothing *)
(* happens to the requests.                                                *)
LEMMA ProcessSteps ==
  ASSUME IInv,
         \/ \E s \in Services : BuildClient(s) \/ CloseClient(s)
         \/ Terminate \/ Drained \/ UNCHANGED vars
  PROVE  IInv'
<1>1. UNCHANGED <<stopping, pc, service, method, attempt, timer, age>>
  BY DEF BuildClient, CloseClient, Terminate, Drained, vars, process
<1>2. InFlight' = InFlight
  BY <1>1 DEF InFlight
<1>3. TypeOK'
  <2>1. /\ phase' \in {"starting", "serving", "draining", "closing",
                       "stopped", "killed"}
        /\ client' \in [Services -> {None, "open", "closed"}]
    BY DEF BuildClient, CloseClient, Terminate, Drained, vars, process,
           IInv, TypeOK
  <2>2. due' \subseteq Requests
    BY DEF BuildClient, CloseClient, Terminate, Drained, vars, process,
           IInv, TypeOK, InFlight
  <2> QED
    BY <1>1, <2>1, <2>2 DEF IInv, TypeOK
<1>4. ProcessInv'
  <2>1. CASE \E s \in Services : BuildClient(s)
    <3>1. PICK s \in Services : BuildClient(s)
      BY <2>1
    <3>2. client' = [client EXCEPT ![s] = "open"] /\ phase = "starting"
      BY <3>1 DEF BuildClient
    <3>3. /\ s = "uc" => client["flow"] = "open" /\ phase' = "serving"
          /\ s # "uc" => phase' = "starting"
      BY <3>1, <3>2 DEF BuildClient
    <3>4. phase' = "serving" => \A q \in Services : client'[q] = "open"
      BY <3>2, <3>3 DEF IInv, TypeOK, Services
    <3>5. stopping = 0 /\ InFlight = {}
      BY <3>2 DEF IInv, ProcessInv
    <3> QED
      BY <1>1, <1>2, <3>3, <3>4, <3>5 DEF ProcessInv
  <2>2. CASE \E s \in Services : CloseClient(s)
    BY <1>1, <1>2, <2>2 DEF CloseClient, IInv, ProcessInv
  <2>3. CASE Terminate
    <3>1. 0 <= Grace
      BY LengthAssumption
    <3> QED
      BY <1>1, <1>2, <2>3, <3>1 DEF Terminate, IInv, ProcessInv, InFlight
  <2>4. CASE Drained
    BY <1>1, <1>2, <2>4 DEF Drained, IInv, ProcessInv
  <2>5. CASE UNCHANGED vars
    BY <1>1, <1>2, <2>5 DEF vars, process, IInv, ProcessInv
  <2> QED
    BY <2>1, <2>2, <2>3, <2>4, <2>5
<1>5. \A r : /\ Attempts(r)' = Attempts(r) /\ Wait(r)' = Wait(r)
             /\ Longest(r)' = Longest(r) /\ Rest(r)' = Rest(r)
  BY <1>1 DEF Attempts, Wait, Longest, Rest, More
<1>6. RequestInv' /\ BudgetInv'
  BY <1>1, <1>2, <1>5 DEF IInv, RequestInv, BudgetInv
<1>7. AloneNeverWaits' /\ NothingCutByKill'
  BY <1>1, <1>5 DEF IInv, AloneNeverWaits, NothingCutByKill
<1>8. DueInv' /\ DueRequestsDrain'
  <2>1. CASE Terminate
    <3>1. /\ phase = "serving" /\ due' = {r \in InFlight : Rest(r) < Grace}
      BY <2>1 DEF Terminate
    <3>2. stopping = 0 /\ \A r \in InFlight : Rest(r) \in Nat
      BY <3>1, RestType DEF IInv, ProcessInv, InFlight
    <3>3. DueInv'
      BY <1>1, <1>2, <1>5, <3>1, <3>2 DEF DueInv
    <3>4. DueRequestsDrain'
      BY <1>1, <3>1 DEF DueRequestsDrain, InFlight
    <3> QED
      BY <3>3, <3>4
  <2>2. CASE ~Terminate
    <3>1. due' = due
      BY <2>2 DEF BuildClient, CloseClient, Drained, vars, process
    <3>2. phase' = "draining" => phase = "draining"
      BY <2>2 DEF BuildClient, CloseClient, Drained, vars, process, Services
    <3> QED
      BY <1>1, <1>2, <1>5, <3>1, <3>2 DEF IInv, DueInv, DueRequestsDrain
  <2> QED
    BY <2>1, <2>2
<1> QED
  BY <1>3, <1>4, <1>6, <1>7, <1>8 DEF IInv

(* What the end of the graceful window cancels was not due to end within   *)
(* it.                                                                     *)
LEMMA CancelStep ==
  ASSUME IInv, Cancel
  PROVE  IInv'
<1>1. /\ phase = "draining" /\ phase' = "closing" /\ stopping >= Grace
      /\ pc' = [r \in Requests |-> IF r \in InFlight THEN "cancelled"
                                                     ELSE pc[r]]
      /\ UNCHANGED <<client, stopping, due, service, method, attempt, timer, age>>
  BY DEF Cancel, GraceOver
<1>2. InFlight' = {}
  BY <1>1 DEF InFlight
<1>3. \A r \in Requests :
        /\ pc'[r] = IF r \in InFlight THEN "cancelled" ELSE pc[r]
        /\ Attempts(r)' = Attempts(r) /\ Longest(r)' = Longest(r)
  BY <1>1 DEF Attempts, Longest
<1>4. TypeOK'
  BY <1>1, <1>3 DEF IInv, TypeOK, Points
<1>5. ProcessInv'
  BY <1>1, <1>2 DEF ProcessInv
<1>6. RequestInv'
  BY <1>1, <1>2, <1>3 DEF IInv, RequestInv, InFlight
<1>7. \A r \in InFlight : /\ r \notin due
                          /\ age[r] <= Longest(r)
  <2> SUFFICES ASSUME NEW r \in InFlight
               PROVE  r \notin due /\ age[r] <= Longest(r)
    OBVIOUS
  <2>1. r \in Requests /\ pc[r] # "idle"
    BY DEF InFlight
  <2>2. /\ age[r] + Rest(r) <= Longest(r)
        /\ r \in due => stopping + Rest(r) < Grace
    BY <1>1, <2>1 DEF IInv, BudgetInv, DueInv
  <2>3. /\ age[r] \in Nat /\ Rest(r) \in Nat /\ Longest(r) \in Nat
        /\ stopping \in Nat /\ Grace \in Nat
    BY <2>1, RestType, LengthAssumption DEF IInv, TypeOK
  <2> QED
    BY <1>1, <2>2, <2>3
<1>8. BudgetInv'
  <2> SUFFICES ASSUME NEW r \in Requests, pc'[r] # "idle"
               PROVE  age'[r] + Rest(r)' <= Longest(r)'
    BY DEF BudgetInv
  <2>1. CASE r \in InFlight
    <3>1. Rest(r)' = 0 /\ age[r] \in Nat
      BY <1>3, <2>1 DEF Rest, IInv, TypeOK
    <3> QED
      BY <1>1, <1>3, <1>7, <2>1, <3>1
  <2>2. CASE r \notin InFlight
    <3>1. Rest(r)' = Rest(r) /\ pc[r] # "idle"
      BY <1>3, <2>2 DEF Rest, InFlight
    <3> QED
      BY <1>1, <1>3, <3>1 DEF IInv, BudgetInv
  <2> QED
    BY <2>1, <2>2
<1>9. AloneNeverWaits'
  BY <1>2 DEF AloneNeverWaits, InFlight
<1>10. DueInv' /\ DueRequestsDrain' /\ NothingCutByKill'
  BY <1>1, <1>3, <1>7
     DEF IInv, TypeOK, DueInv, DueRequestsDrain, NothingCutByKill
<1> QED
  BY <1>4, <1>5, <1>6, <1>8, <1>9, <1>10 DEF IInv

(* SIGKILL comes later than the graceful window: nothing is under way.     *)
LEMMA KillStep ==
  ASSUME IInv, Kill
  PROVE  IInv'
<1>1. InFlight = {}
  <2>1. phase # "draining"
    BY LengthAssumption DEF Kill, IInv, ProcessInv
  <2> QED
    BY <2>1 DEF Kill, IInv, ProcessInv
<1>2. /\ phase' = "killed"
      /\ UNCHANGED <<client, stopping, due, service, method, attempt, timer, age>>
      /\ pc' = pc
  BY <1>1 DEF Kill, IInv, TypeOK
<1>3. InFlight' = {}
  BY <1>1, <1>2 DEF InFlight
<1>4. \A r : /\ Attempts(r)' = Attempts(r) /\ Wait(r)' = Wait(r)
             /\ Longest(r)' = Longest(r) /\ Rest(r)' = Rest(r)
  BY <1>2 DEF Attempts, Wait, Longest, Rest, More
<1>5. TypeOK' /\ ProcessInv'
  BY <1>2, <1>3 DEF IInv, TypeOK, ProcessInv
<1>6. RequestInv' /\ BudgetInv'
  BY <1>1, <1>2, <1>3, <1>4 DEF IInv, RequestInv, BudgetInv
<1>7. AloneNeverWaits' /\ NothingCutByKill'
  BY <1>2, <1>4 DEF IInv, AloneNeverWaits, NothingCutByKill
<1>8. DueInv' /\ DueRequestsDrain'
  BY <1>2 DEF IInv, DueInv, DueRequestsDrain
<1> QED
  BY <1>5, <1>6, <1>7, <1>8 DEF IInv

(* A tick takes as much from the budget of a request as it adds to its age; *)
(* what waits for the pool meets others there.                             *)
LEMMA TickStep ==
  ASSUME IInv, Tick
  PROVE  IInv'
<1>1. /\ phase \in {"serving", "draining", "closing"}
      /\ phase = "draining" => stopping < Grace
      /\ stopping < KillAfter
      /\ \A r \in InFlight : /\ timer[r] > 0
                             /\ pc[r] = "acquire" => ~HasConnection(r)
      /\ timer' = [r \in Requests |-> IF r \in InFlight THEN timer[r] - 1
                                                        ELSE timer[r]]
      /\ age' = [r \in Requests |-> IF r \in InFlight THEN age[r] + 1
                                                      ELSE age[r]]
      /\ stopping' = IF phase = "serving" THEN 0 ELSE stopping + 1
      /\ UNCHANGED <<phase, client, due, pc, service, method, attempt>>
  <2>1. stopping \in Nat /\ Grace \in Nat
    BY LengthAssumption DEF IInv, TypeOK
  <2> QED
    BY <2>1 DEF Tick, GraceOver
<1>2. InFlight' = InFlight /\ InFlight \subseteq Requests
  BY <1>1 DEF InFlight
<1>3. \A r : Attempts(r)' = Attempts(r) /\ Wait(r)' = Wait(r)
             /\ Longest(r)' = Longest(r)
  BY <1>1 DEF Attempts, Wait, Longest
<1>4. TypeOK'
  BY <1>1, LengthAssumption DEF IInv, TypeOK
<1>5. ProcessInv'
  <2>1. stopping \in Nat /\ Grace \in Nat
    BY LengthAssumption DEF IInv, TypeOK
  <2>2. phase = "draining" => stopping' = stopping + 1 /\ stopping' <= Grace
    BY <1>1, <2>1
  <2> QED
    BY <1>1, <1>2, <2>2 DEF IInv, ProcessInv
<1>6. RequestInv'
  BY <1>1, <1>2, <1>3 DEF IInv, RequestInv, InFlight
<1>7. \A r \in InFlight : Rest(r) \in Nat /\ Rest(r)' = Rest(r) - 1
  <2> SUFFICES ASSUME NEW r \in InFlight
               PROVE  Rest(r) \in Nat /\ Rest(r)' = Rest(r) - 1
    OBVIOUS
  <2> DEFINE w == Wait(r)
             more == More(w, Attempts(r) - attempt[r])
             fewer == More(w, Attempts(r) - attempt[r] - 1)
  <2>1. r \in Requests /\ pc[r] # "idle"
    BY DEF InFlight
  <2>2. timer'[r] = timer[r] - 1 /\ timer[r] \in Nat
    BY <1>1, <2>1 DEF IInv, TypeOK
  <2>3. /\ Wait(r)' = w /\ attempt' = attempt /\ pc' = pc
        /\ More(Wait(r), Attempts(r) - attempt[r])' = more
        /\ More(Wait(r), Attempts(r) - attempt[r] - 1)' = fewer
    BY <1>1, <1>3 DEF More
  <2>4. /\ w \in Nat /\ Rest(r) \in Nat
        /\ more \in Nat
        /\ pc[r] = "backoff" => fewer \in Nat
    <3>1. /\ w \in Nat /\ Rest(r) \in Nat
          /\ Attempts(r) - attempt[r] \in Nat
      BY <2>1, RestType
    <3>2. pc[r] = "backoff" => Attempts(r) - attempt[r] - 1 \in Nat
      BY <2>1, <3>1, AttemptsPositive DEF IInv, RequestInv
    <3> QED
      BY <3>1, <3>2, MoreStep
  <2>5. \/ /\ Rest(r) = timer[r] + 2 * w + more
           /\ Rest(r)' = timer'[r] + 2 * w + more
        \/ /\ Rest(r) = timer[r] + w + more
           /\ Rest(r)' = timer'[r] + w + more
        \/ /\ Rest(r) = timer[r] + more
           /\ Rest(r)' = timer'[r] + more
        \/ /\ Rest(r) = timer[r] + 3 * w + fewer
           /\ Rest(r)' = timer'[r] + 3 * w + fewer
           /\ fewer \in Nat
    BY <2>3, <2>4 DEF Rest, InFlight
  <2> HIDE DEF w, more, fewer
  <2> QED
    BY <2>2, <2>4, <2>5
<1>8. BudgetInv'
  <2> SUFFICES ASSUME NEW r \in Requests, pc[r] # "idle"
               PROVE  age'[r] + Rest(r)' <= Longest(r)
    BY <1>1, <1>3 DEF BudgetInv
  <2>1. /\ age[r] + Rest(r) <= Longest(r) /\ age[r] \in Nat
        /\ Longest(r) \in Nat
    BY RestType DEF IInv, TypeOK, BudgetInv
  <2>2. CASE r \in InFlight
    BY <1>1, <1>7, <2>1, <2>2
  <2>3. CASE r \notin InFlight
    <3>1. Rest(r)' = 0 /\ Rest(r) = 0
      BY <1>1, <2>3 DEF Rest, InFlight
    <3> QED
      BY <1>1, <2>1, <2>3, <3>1
  <2> QED
    BY <2>2, <2>3
<1>9. DueInv'
  <2>1. stopping \in Nat /\ Grace \in Nat
    BY LengthAssumption DEF IInv, TypeOK
  <2> SUFFICES ASSUME phase = "draining", NEW r \in due \cap InFlight
               PROVE  stopping' + Rest(r)' < Grace
    BY <1>1, <1>2 DEF DueInv
  <2>2. stopping + Rest(r) < Grace /\ stopping' = stopping + 1
    BY <1>1 DEF IInv, DueInv
  <2> QED
    BY <1>7, <2>1, <2>2
<1>10. AloneNeverWaits'
  <2> SUFFICES ASSUME NEW r \in Requests, pc[r] = "acquire"
               PROVE  \E q \in Requests \ {r} : service[q] = service[r]
    BY <1>1 DEF AloneNeverWaits
  <2>1. ~(Cardinality(Connections(service[r])) < MaxConnections)
    BY <1>1 DEF InFlight, HasConnection
  <2>2. Connections(service[r]) # {}
    BY <2>1, FS_EmptySet, LengthAssumption
  <2> QED
    BY <2>2 DEF Connections
<1>11. DueRequestsDrain' /\ NothingCutByKill'
  BY <1>1 DEF IInv, DueRequestsDrain, NothingCutByKill
<1> QED
  BY <1>4, <1>5, <1>6, <1>8, <1>9, <1>10, <1>11 DEF IInv

(* The inductive invariant holds in every reachable state.                 *)
THEOREM Invariance == Spec => []IInv
<1>1. Init => IInv
  <2> SUFFICES ASSUME Init PROVE IInv
    OBVIOUS
  <2>1. InFlight = {}
    BY DEF Init, InFlight
  <2>2. TypeOK
    BY LengthAssumption DEF Init, TypeOK, Points
  <2>3. ProcessInv /\ RequestInv /\ BudgetInv /\ DueInv
    BY <2>1 DEF Init, ProcessInv, RequestInv, BudgetInv, DueInv
  <2>4. AloneNeverWaits /\ DueRequestsDrain /\ NothingCutByKill
    BY DEF Init, AloneNeverWaits, DueRequestsDrain, NothingCutByKill
  <2> QED
    BY <2>2, <2>3, <2>4 DEF IInv
<1>2. IInv /\ [Next]_vars => IInv'
  BY ReceiveStep, CallSteps, ProcessSteps, CancelStep, KillStep, TickStep
     DEF Next
<1> QED
  BY <1>1, <1>2, PTL DEF Spec

(* In every reachable state each variable has a value of its type: no wait *)
(* is overrun, and a stop never takes longer than the kill window.         *)
THEOREM TypeCorrect == Spec => []TypeOK
<1>1. IInv => TypeOK
  BY DEF IInv
<1> QED
  BY <1>1, Invariance, PTL

(* No attempt is made before lifespan has built its client, nor after it   *)
(* has closed it.                                                          *)
THEOREM ClientsOutliveCalls == Spec => []CallsHaveClients
<1>1. IInv => CallsHaveClients
  <2> SUFFICES ASSUME IInv, NEW r \in InFlight
               PROVE  client[service[r]] = "open"
    BY DEF CallsHaveClients
  <2>1. r \in Requests /\ pc[r] # "idle"
    BY DEF InFlight
  <2> QED
    BY <2>1 DEF IInv, ProcessInv, RequestInv
<1> QED
  BY <1>1, Invariance, PTL

(* Whatever the other requests do, none takes longer than its attempts and *)
(* the delays between them allow, the waits for the pool included.         *)
THEOREM CallsAreBounded == Spec => []AnsweredInTime
<1>1. IInv => AnsweredInTime
  <2> SUFFICES ASSUME IInv, NEW r \in Requests, pc[r] # "idle"
               PROVE  age[r] <= Longest(r)
    BY DEF AnsweredInTime
  <2>1. age[r] + Rest(r) <= Longest(r)
    BY DEF IInv, BudgetInv
  <2> QED
    BY <2>1, RestType
<1> QED
  BY <1>1, Invariance, PTL

(* Only a request to the same service can make a request wait for a        *)
(* connection: the pools are apart.                                        *)
THEOREM PoolsAreApart == Spec => []AloneNeverWaits
<1>1. IInv => AloneNeverWaits
  BY DEF IInv
<1> QED
  BY <1>1, Invariance, PTL

(* A stop cancels no request that had less left, when it began, than the   *)
(* graceful window.                                                        *)
THEOREM StopDrains == Spec => []DueRequestsDrain
<1>1. IInv => DueRequestsDrain
  BY DEF IInv
<1> QED
  BY <1>1, Invariance, PTL

(* The kill window is longer than the graceful one: SIGKILL meets no       *)
(* request.                                                                *)
THEOREM KillMeetsNoRequest == Spec => []NothingCutByKill
<1>1. IInv => NothingCutByKill
  BY DEF IInv
<1> QED
  BY <1>1, Invariance, PTL

=============================================================================
