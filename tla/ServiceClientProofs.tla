------------------------ MODULE ServiceClientProofs ------------------------
(***************************************************************************)
(* Proofs about ServiceClient for any number of calls, items and retries.  *)
(* The invariant follows an attempt: what may still be under way for a     *)
(* call, what it has done downstream so far, and what an answer that has   *)
(* not been delivered yet says truly.                                      *)
(***************************************************************************)
EXTENDS ServiceClient, TLAPS

Statuses == {200, 201, 204, 307, 404, 409, 500, 503}

(* A call that has started: its method and path, and its attempts.         *)
CallInv ==
  \A c \in Calls :
    /\ pc[c] = "idle" => effects[c] = 0
    /\ pc[c] # "idle" =>
         /\ method[c] \in Methods
         /\ method[c] # "POST" => item[c] \in created
         /\ attempt[c] \in 1..MaxAttempts(method[c])
    /\ pc[c] = "backoff" => ShouldRetry(method[c]) /\ attempt[c] < MaxRetries
    /\ pc[c] = "done" /\ Transient(result[c]) =>
         attempt[c] = MaxAttempts(method[c])

(* The attempts under way were sent by calls that have started.            *)
NetInv ==
  /\ \A a \in requests : /\ pc[a[1]] # "idle" /\ a[2] \in 1..attempt[a[1]]
                         /\ pc[a[1]] = "sending" => a[2] < attempt[a[1]]
  /\ \A r \in responses : pc[r.to[1]] # "idle" /\ r.status \in Statuses

(* What a call has done downstream.  A delete that had its effect finds    *)
(* nothing more to do.                                                     *)
DeleteInv == \A c \in Calls :
  method[c] = "DELETE" /\ effects[c] # 0 =>
    effects[c] = 1 /\ item[c] \notin items

(* A call that is sent only once has no effect before it is sent, nor      *)
(* while its attempt is under way.                                         *)
OnceInv == \A c \in Calls :
  method[c] \in {"POST", "PATCH"} =>
    /\ effects[c] <= 1
    /\ pc[c] = "sending" => effects[c] = 0
    /\ <<c, 1>> \in requests => effects[c] = 0

EffectInv == /\ DeleteInv /\ OnceInv
             /\ \A c \in Calls : method[c] = "GET" => effects[c] = 0

(* Answers, delivered or not, are true and stay so.                        *)
AnswerInv ==
  \A r \in responses :
    /\ r.status \in 200..299 => \/ method[r.to[1]] = "GET"
                                \/ effects[r.to[1]] = 1
    /\ r.status = 404 => method[r.to[1]] # "POST" /\ item[r.to[1]] \notin items

ResultInv ==
  \A c \in Calls :
    pc[c] = "done" =>
      /\ result[c].type = "ok" => method[c] = "GET" \/ effects[c] = 1
      /\ result[c].type = "not_found" =>
           method[c] # "POST" /\ item[c] \notin items

IInv == TypeOK /\ CallInv /\ NetInv /\ EffectInv /\ AnswerInv /\ ResultInv

-----------------------------------------------------------------------------
(* The operators of ServiceErrors                                          *)

(* Every answer of the downstream has a meaning, and only a 2xx is taken   *)
(* for success, only a 404 for an absent item.                             *)
LEMMA OutcomeTypes ==
  ASSUME NEW m, NEW status \in Statuses, NEW e \in Outcomes(m, status)
  PROVE  /\ e \in Results \cup Errors \cup {Undecodable}
         /\ e.type = "ok" => status \in 200..299
         /\ e.type = "not_found" => status = 404
<1>0. CASE e = Undecodable
  BY <1>0 DEF Undecodable, Error
<1>1. CASE e # Undecodable /\ status \in 200..299
  <2>1. e \in {Success(status), Unreadable}
    BY <1>1 DEF Outcomes
  <2> QED
    BY <1>1, <2>1 DEF Success, Unreadable, Error, Results, Errors
<1>2. CASE e # Undecodable /\ status \notin 200..299
  <2>1. e = MapHttpError(status)
    BY <1>2 DEF Outcomes
  <2>2. status \in {307, 404, 409, 500, 503}
    BY <1>2 DEF Statuses
  <2>3. CASE status = 404
    BY <2>1, <2>3 DEF MapHttpError, NotFound, Error, Errors
  <2>4. CASE status = 409
    <3>1. e = Error("bad_request", 409) /\ 409 \in 400..499 \ {404}
      BY <2>1, <2>4 DEF MapHttpError
    <3> QED
      BY <3>1, <2>4 DEF Error, Errors
  <2>5. CASE status = 307
    <3>1. e = Error("call_error", 307) /\ 307 \in 100..399 \ 200..299
      BY <2>1, <2>5 DEF MapHttpError
    <3> QED
      BY <3>1, <2>5 DEF Error, Errors
  <2>6. CASE status \in {500, 503}
    <3>1. e = Unavailable
      BY <2>1, <2>6 DEF MapHttpError
    <3> QED
      BY <3>1 DEF Unavailable, Error, Errors
  <2> QED
    BY <2>2, <2>3, <2>4, <2>5, <2>6
<1> QED
  BY <1>0, <1>1, <1>2

(* A transport failure is transient, and one of the errors.                *)
LEMMA TransportTypes ==
  ASSUME NEW exc
  PROVE  /\ MapTransportError(exc) \in Errors
         /\ MapTransportError(exc).type \notin {"ok", "not_found"}
BY DEF MapTransportError, Timeout, Unavailable, Error, Errors

(* A method has one attempt or all of max_retries.                         *)
LEMMA Attempts ==
  ASSUME NEW m
  PROVE  /\ MaxAttempts(m) \in Nat /\ MaxAttempts(m) >= 1
         /\ ShouldRetry(m) => MaxAttempts(m) = MaxRetries
         /\ ~ShouldRetry(m) => MaxAttempts(m) = 1
         /\ m \in {"POST", "PATCH"} => ~ShouldRetry(m)
BY RetryAssumption DEF MaxAttempts, ShouldRetry, IdempotentMethods

-----------------------------------------------------------------------------
(* No call has started: nothing is under way and nothing has an effect.    *)
LEMMA InitInv == Init => IInv
<1> SUFFICES ASSUME Init PROVE IInv
  OBVIOUS
<1>1. items \subseteq Items /\ created = items
  BY DEF Init
<1>2. TypeOK
  BY <1>1 DEF Init, TypeOK
<1>3. CallInv /\ NetInv /\ EffectInv /\ AnswerInv /\ ResultInv
  BY DEF Init, CallInv, NetInv, EffectInv, DeleteInv, OnceInv, AnswerInv,
         ResultInv
<1> QED
  BY <1>2, <1>3 DEF IInv

(* A call of request begins on an item that exists or existed.             *)
LEMMA StartInv ==
  ASSUME IInv, NEW c \in Calls, Start(c)
  PROVE  IInv'
<1> USE DEF IInv
<1>1. PICK m \in Methods, i \in created \cup {None} :
        /\ m = "POST" <=> i = None
        /\ method' = [method EXCEPT ![c] = m]
        /\ item' = [item EXCEPT ![c] = i]
  BY DEF Start
<1>2. TypeOK'
  BY <1>1 DEF Start, TypeOK, network, downstream
<1>3. CallInv'
  BY <1>1, Attempts DEF Start, TypeOK, CallInv, network, downstream
<1>4. NetInv'
  BY DEF Start, TypeOK, NetInv, network
<1>5. EffectInv'
  <2>1. <<c, 1>> \notin requests
    BY DEF Start, NetInv
  <2> QED
    BY <1>1, <2>1 DEF Start, TypeOK, CallInv, EffectInv, DeleteInv, OnceInv,
     network, downstream
<1>6. AnswerInv' /\ ResultInv'
  BY <1>1 DEF Start, TypeOK, NetInv, AnswerInv, ResultInv, network, downstream
<1> QED
  BY <1>2, <1>3, <1>4, <1>5, <1>6

(* One more attempt goes on the network, and nothing else changes.         *)
LEMMA SendInv ==
  ASSUME IInv, NEW c \in Calls, Send(c)
  PROVE  IInv'
<1> USE DEF IInv
<1>1. TypeOK'
  BY DEF Send, TypeOK, downstream
<1>2. CallInv'
  BY DEF Send, TypeOK, CallInv, downstream
<1>3. NetInv'
  BY Attempts DEF Send, TypeOK, CallInv, NetInv, downstream
<1>4. EffectInv'
  BY DEF Send, TypeOK, EffectInv, DeleteInv, OnceInv, downstream
<1>5. AnswerInv' /\ ResultInv'
  BY DEF Send, TypeOK, NetInv, AnswerInv, ResultInv, downstream
<1> QED
  BY <1>1, <1>2, <1>3, <1>4, <1>5

(* The end of an attempt, whatever ended it.                               *)
LEMMA FailedInv ==
  ASSUME IInv, NEW c \in Calls, pc[c] \in {"sending", "waiting"},
         NEW e \in Results \cup Errors \cup {Undecodable}, Failed(c, e),
         requests' = requests, responses' \subseteq responses,
         e.type = "ok" => method[c] = "GET" \/ effects[c] = 1,
         e.type = "not_found" => method[c] # "POST" /\ item[c] \notin items
  PROVE  IInv'
<1> USE DEF IInv
<1>1. TypeOK'
  BY DEF Failed, TypeOK, downstream
<1>2. CallInv'
  BY Attempts DEF Failed, TypeOK, CallInv, downstream
<1>3. NetInv'
  BY DEF Failed, TypeOK, NetInv
<1>4. EffectInv'
  BY DEF Failed, TypeOK, EffectInv, DeleteInv, OnceInv, downstream
<1>5. AnswerInv'
  BY DEF Failed, AnswerInv, downstream
<1>6. ResultInv'
  BY DEF Failed, TypeOK, ResultInv, downstream
<1> QED
  BY <1>1, <1>2, <1>3, <1>4, <1>5, <1>6

(* The retry loop comes back for its next attempt.                         *)
LEMMA RetryInv ==
  ASSUME IInv, NEW c \in Calls, Retry(c)
  PROVE  IInv'
<1> USE DEF IInv
<1>1. TypeOK'
  BY DEF Retry, TypeOK, network, downstream
<1>2. CallInv'
  BY Attempts, RetryAssumption
     DEF Retry, TypeOK, CallInv, network, downstream
<1>3. NetInv'
  BY DEF Retry, TypeOK, NetInv, network
<1>4. EffectInv'
  <2>1. method[c] \notin {"POST", "PATCH"}
    BY Attempts DEF Retry, CallInv
  <2> QED
    BY <2>1 DEF Retry, TypeOK, EffectInv, DeleteInv, OnceInv,
     network, downstream
<1>5. AnswerInv' /\ ResultInv'
  BY DEF Retry, TypeOK, AnswerInv, ResultInv, network, downstream
<1> QED
  BY <1>1, <1>2, <1>3, <1>4, <1>5

-----------------------------------------------------------------------------
(* A step of the downstream answers one attempt, and changes nothing else  *)
(* but what the attempt does.                                              *)
LEMMA AnswerStep ==
  ASSUME IInv, NEW a \in requests, NEW s \in Statuses, Answer(a, s),
         items' \subseteq created', created \subseteq created',
         created' \subseteq Items,
         items' \cap created \subseteq items,
         \/ effects' = effects
         \/ /\ Affect(a[1]) /\ method[a[1]] # "GET"
            /\ method[a[1]] = "DELETE" =>
                 effects[a[1]] = 0 /\ item[a[1]] \notin items',
         s \in 200..299 => method[a[1]] = "GET" \/ Affect(a[1]),
         s = 404 => method[a[1]] # "POST" /\ item[a[1]] \notin items
  PROVE  IInv'
<1> DEFINE c == a[1]
<1> USE DEF IInv
<1>1. /\ c \in Calls /\ a = <<c, a[2]>> /\ a[2] \in 1..attempt[c]
      /\ pc[c] # "idle" /\ method[c] \in Methods
      /\ method[c] # "POST" => item[c] \in created
  BY DEF TypeOK, NetInv, CallInv
<1>affect. Affect(c) =>
             /\ method[c] # "GET"
             /\ method[c] = "DELETE" => effects[c] = 0 /\ item[c] \notin items'
  <2>1. Affect(c) => effects' # effects
    BY <1>1 DEF TypeOK, Affect
  <2> QED
    BY <2>1
<1>2. TypeOK'
  <2>1. responses' \subseteq responses \cup {[to |-> a, status |-> s]}
    BY DEF Answer
  <2>2. [to |-> a, status |-> s] \in [to : Calls \X Nat, status : Nat]
    BY <1>1 DEF TypeOK, Statuses
  <2> QED
    BY <1>1, <2>1, <2>2 DEF TypeOK, Answer, Affect
<1>3. CallInv'
  BY <1>1 DEF TypeOK, CallInv, Answer, Affect
<1>4. NetInv'
  BY <1>1 DEF TypeOK, NetInv, Answer
<1>5. method[c] \in {"POST", "PATCH"} =>
        effects[c] = 0 /\ a = <<c, 1>> /\ pc[c] # "sending"
  <2>1. method[c] \in {"POST", "PATCH"} => attempt[c] = 1
    BY <1>1, Attempts DEF TypeOK, CallInv
  <2> QED
    BY <1>1, <2>1 DEF TypeOK, EffectInv, DeleteInv, OnceInv, NetInv
<1>6. EffectInv'
  <2>1. /\ method' = method /\ item' = item /\ pc' = pc
        /\ requests' = requests \ {a}
    BY DEF Answer
  <2>2. \A d \in Calls : effects'[d] # effects[d] =>
          d = c /\ effects'[d] = effects[d] + 1 /\ Affect(c)
    BY <1>1 DEF TypeOK, Affect
  <2>3. DeleteInv'
    <3> SUFFICES ASSUME NEW d \in Calls, method[d] = "DELETE", effects'[d] # 0
                 PROVE  effects'[d] = 1 /\ item[d] \notin items'
      BY <2>1 DEF DeleteInv
    <3>1. CASE effects'[d] = effects[d]
      BY <1>1, <3>1 DEF EffectInv, DeleteInv, TypeOK, CallInv
    <3>2. CASE effects'[d] # effects[d]
      BY <1>affect, <2>2, <3>2
    <3> QED
      BY <3>1, <3>2
  <2>4. OnceInv'
    <3> SUFFICES ASSUME NEW d \in Calls, method[d] \in {"POST", "PATCH"}
                 PROVE  /\ effects'[d] <= 1
                        /\ pc[d] = "sending" => effects'[d] = 0
                        /\ <<d, 1>> \in requests' => effects'[d] = 0
      BY <2>1 DEF OnceInv
    <3>1. CASE effects'[d] = effects[d]
      BY <2>1, <3>1 DEF EffectInv, OnceInv
    <3>2. CASE effects'[d] # effects[d]
      BY <1>affect, <1>5, <2>1, <2>2, <3>2
    <3> QED
      BY <3>1, <3>2
  <2>5. \A d \in Calls : method'[d] = "GET" => effects'[d] = 0
    BY <1>affect, <2>1, <2>2 DEF EffectInv
  <2> QED
    BY <2>3, <2>4, <2>5 DEF EffectInv
<1>7. \A d \in Calls : effects[d] = 1 => effects'[d] = 1
  <2> SUFFICES ASSUME NEW d \in Calls, effects[d] = 1, effects'[d] # 1
               PROVE  FALSE
    OBVIOUS
  <2>1. d = c /\ Affect(c)
    BY <1>1 DEF TypeOK, Affect
  <2> QED
    BY <1>1, <1>affect, <1>5, <2>1, MethodAssumption
<1>once. Affect(c) => effects'[c] = 1
  <2>1. Affect(c) => effects'[c] = effects[c] + 1
    BY <1>1 DEF TypeOK, Affect
  <2>2. CASE method[c] = "GET"
    BY <1>affect, <2>2
  <2>3. CASE method[c] = "DELETE"
    BY <1>affect, <2>1, <2>3
  <2>4. CASE method[c] \in {"POST", "PATCH"}
    BY <1>5, <2>1, <2>4
  <2> QED
    BY <1>1, <2>2, <2>3, <2>4, MethodAssumption
<1>8. AnswerInv'
  <2>1. /\ responses' \subseteq responses \cup {[to |-> a, status |-> s]}
        /\ method' = method /\ item' = item
    BY DEF Answer
  <2> SUFFICES ASSUME NEW r \in responses'
               PROVE  /\ r.status \in 200..299 => \/ method[r.to[1]] = "GET"
                                                  \/ effects'[r.to[1]] = 1
                      /\ r.status = 404 => /\ method[r.to[1]] # "POST"
                                           /\ item[r.to[1]] \notin items'
    BY <2>1 DEF AnswerInv
  <2>2. CASE r \in responses
    <3>1. /\ r.to[1] \in Calls
          /\ method[r.to[1]] # "POST" => item[r.to[1]] \in created
      BY <2>2 DEF TypeOK, NetInv, CallInv
    <3> QED
      BY <1>7, <2>2, <3>1 DEF AnswerInv
  <2>3. CASE r = [to |-> a, status |-> s]
    <3>3. item[c] \notin items /\ method[c] # "POST" => item[c] \notin items'
      BY <1>1
    <3> QED
      BY <1>once, <2>3, <3>3
  <2> QED
    BY <2>1, <2>2, <2>3
<1>9. ResultInv'
  BY <1>1, <1>7 DEF TypeOK, ResultInv, CallInv, Answer
<1> QED
  BY <1>2, <1>3, <1>4, <1>6, <1>8, <1>9

(* The downstream's handler runs, however late the attempt arrives.        *)
LEMMA CarryOutInv ==
  ASSUME IInv, NEW a \in requests, CarryOut(a)
  PROVE  IInv'
<1> DEFINE c == a[1]
<1>1. /\ c \in Calls /\ method[c] \in Methods
      /\ items \subseteq created /\ created \subseteq Items
      /\ method[c] # "POST" => item[c] \in created
      /\ effects \in [Calls -> Nat]
  BY DEF IInv, TypeOK, NetInv, CallInv
<1>2. CASE /\ method[c] = "POST" /\ Create(c)
           /\ \E s \in {201, 500} : Answer(a, s)
  <2>1. PICK s \in {201, 500} : Answer(a, s)
    BY <1>2
  <2>2. s \in Statuses /\ s # 404
    BY DEF Statuses
  <2>3. Affect(c)
    BY <1>2 DEF Create
  <2>4. /\ items' \subseteq created' /\ created \subseteq created'
        /\ created' \subseteq Items /\ items' \cap created \subseteq items
    BY <1>1, <1>2 DEF Create
  <2>5. method[c] = "POST"
    BY <1>2
  <2> QED
    BY <2>1, <2>2, <2>3, <2>4, <2>5, AnswerStep
<1>3. CASE /\ method[c] = "DELETE" /\ item[c] \in items /\ Remove(c)
           /\ \E s \in {204, 500} : Answer(a, s)
  <2>1. PICK s \in {204, 500} : Answer(a, s)
    BY <1>3
  <2>2. s \in Statuses /\ s # 404
    BY DEF Statuses
  <2>3. Affect(c)
    BY <1>3 DEF Remove
  <2>4. /\ items' \subseteq created' /\ created' = created
        /\ items' \subseteq items /\ item[c] \notin items'
    BY <1>1, <1>3 DEF Remove
  <2>5. method[c] = "DELETE" /\ effects[c] = 0
    BY <1>1, <1>3 DEF IInv, EffectInv, DeleteInv
  <2> QED
    BY <1>1, <2>1, <2>2, <2>3, <2>4, <2>5, AnswerStep
<1>4. CASE /\ method[c] = "PATCH" /\ item[c] \in items
           /\ Affect(c) /\ UNCHANGED <<items, created>>
           /\ \E s \in {200, 500} : Answer(a, s)
  <2>1. PICK s \in {200, 500} : Answer(a, s)
    BY <1>4
  <2>2. s \in Statuses /\ s # 404
    BY DEF Statuses
  <2>3. Affect(c)
    BY <1>4
  <2>4. method[c] = "PATCH" /\ items' = items /\ created' = created
    BY <1>4
  <2> QED
    BY <1>1, <2>1, <2>2, <2>3, <2>4, AnswerStep
<1>5. CASE /\ method[c] = "GET" /\ item[c] \in items
           /\ UNCHANGED downstream /\ Answer(a, 200)
  <2>1. /\ items' = items /\ created' = created /\ effects' = effects
        /\ 200 \in Statuses
    BY <1>5 DEF downstream, Statuses
  <2> QED
    BY <1>1, <1>5, <2>1, AnswerStep
<1>6. CASE /\ method[c] # "POST" /\ item[c] \notin items
           /\ UNCHANGED downstream /\ Answer(a, 404)
  <2>1. /\ items' = items /\ created' = created /\ effects' = effects
        /\ 404 \in Statuses /\ 404 \notin 200..299
    BY <1>6 DEF downstream, Statuses
  <2> QED
    BY <1>1, <1>6, <2>1, AnswerStep
<1> QED
  BY <1>2, <1>3, <1>4, <1>5, <1>6 DEF CarryOut

(* An answer from something that did not run the handler.                  *)
LEMMA TurnAwayInv ==
  ASSUME IInv, NEW a \in requests, TurnAway(a)
  PROVE  IInv'
<1>1. PICK s \in {307, 409, 503} : Answer(a, s)
  BY DEF TurnAway
<1>2. s \in Statuses /\ s \notin 200..299 /\ s # 404
  BY DEF Statuses
<1>3. items \subseteq created /\ created \subseteq Items
  BY DEF IInv, TypeOK
<1>4. items' = items /\ created' = created /\ effects' = effects
  BY DEF TurnAway, downstream
<1> QED
  BY <1>1, <1>2, <1>3, <1>4, AnswerStep

-----------------------------------------------------------------------------
(* What a call does while it waits, sends or ends an attempt.              *)
LEMMA ClientInv ==
  ASSUME IInv, NEW c \in Calls, Client(c)
  PROVE  IInv'
<1>1. CASE SendFails(c)
  <2>1. PICK exc \in {"timeout", "connect"} : Failed(c, MapTransportError(exc))
    BY <1>1 DEF SendFails
  <2> QED
    BY <1>1, <2>1, TransportTypes, FailedInv DEF SendFails, network
<1>2. CASE GiveUp(c)
  <2>1. PICK exc \in {"timeout", "read"} : Failed(c, MapTransportError(exc))
    BY <1>2 DEF GiveUp
  <2>2. responses' \subseteq responses /\ requests' = requests
        /\ pc[c] = "waiting"
    BY <1>2 DEF GiveUp
  <2> QED
    BY <2>1, <2>2, TransportTypes, FailedInv
<1>3. CASE Deliver(c)
  <2>1. PICK r \in responses :
          /\ r.to = <<c, attempt[c]>>
          /\ responses' = responses \ {r}
          /\ \E e \in Outcomes(method[c], r.status) : Failed(c, e)
    BY <1>3 DEF Deliver
  <2>2. PICK e \in Outcomes(method[c], r.status) : Failed(c, e)
    BY <2>1
  <2>3. /\ r.status \in Statuses /\ r.to[1] = c
        /\ pc[c] = "waiting" /\ requests' = requests
    BY <1>3, <2>1 DEF Deliver, IInv, NetInv
  <2>4. /\ e \in Results \cup Errors \cup {Undecodable}
        /\ e.type = "ok" => r.status \in 200..299
        /\ e.type = "not_found" => r.status = 404
    BY <2>3, OutcomeTypes
  <2>5. /\ e.type = "ok" => method[c] = "GET" \/ effects[c] = 1
        /\ e.type = "not_found" => method[c] # "POST" /\ item[c] \notin items
    BY <2>3, <2>4 DEF IInv, AnswerInv
  <2> QED
    BY <2>1, <2>2, <2>3, <2>4, <2>5, FailedInv
<1> QED
  BY <1>1, <1>2, <1>3, SendInv, RetryInv DEF Client

(* A restart takes items away, and nothing else.                           *)
LEMMA RestartInv ==
  ASSUME IInv, Restart
  PROVE  IInv'
BY DEF IInv, Restart, TypeOK, network, CallInv, NetInv, EffectInv, DeleteInv,
       OnceInv, AnswerInv, ResultInv

(* Every step keeps the invariant.                                         *)
LEMMA StepInv == IInv /\ [Next]_vars => IInv'
<1> SUFFICES ASSUME IInv, [Next]_vars PROVE IInv'
  OBVIOUS
<1>1. CASE UNCHANGED vars
  BY <1>1 DEF vars, IInv, TypeOK, CallInv, NetInv, EffectInv, DeleteInv,
         OnceInv, AnswerInv, ResultInv
<1> QED
  BY <1>1, StartInv, ClientInv, CarryOutInv, TurnAwayInv, RestartInv DEF Next

(* The inductive invariant holds in every state the client can reach.      *)
THEOREM Invariance == Spec => []IInv
BY InitInv, StepInv, PTL DEF Spec

(* Every variable keeps its type, and a call ends with a value or with one *)
(* of the error classes.                                                   *)
THEOREM TypeCorrect == Spec => []TypeOK
BY Invariance, PTL DEF IInv

(* A call never has more than one effect downstream.                       *)
THEOREM AtMostOneEffect == Spec => []EffectAtMostOnce
<1>1. IInv => EffectAtMostOnce
  <2> SUFFICES ASSUME IInv, NEW c \in Calls PROVE effects[c] <= 1
    BY DEF EffectAtMostOnce
  <2>1. CASE pc[c] = "idle"
    BY <2>1 DEF IInv, CallInv
  <2>2. CASE pc[c] # "idle"
    <3>1. method[c] \in {"GET", "POST", "PATCH", "DELETE"}
      BY <2>2, MethodAssumption DEF IInv, CallInv
    <3>2. effects[c] \in Nat
      BY DEF IInv, TypeOK
    <3>3. CASE method[c] \in {"GET", "DELETE"}
      BY <3>2, <3>3 DEF IInv, EffectInv, DeleteInv, OnceInv
    <3>4. CASE method[c] \in {"POST", "PATCH"}
      BY <3>4 DEF IInv, EffectInv, DeleteInv, OnceInv
    <3> QED
      BY <3>1, <3>3, <3>4
  <2> QED
    BY <2>1, <2>2
<1> QED
  BY <1>1, Invariance, PTL

(* What a caller is told of a write is so.                                 *)
THEOREM SuccessesAreReal == Spec => []SuccessIsReal
<1>1. IInv => SuccessIsReal
  BY DEF IInv, ResultInv, SuccessIsReal
<1> QED
  BY <1>1, Invariance, PTL

(* An item reported absent is absent for ever.                             *)
THEOREM NotFoundIsFinal == Spec => []NotFoundMeansGone
<1>1. IInv => NotFoundMeansGone
  BY DEF IInv, ResultInv, NotFoundMeansGone
<1> QED
  BY <1>1, Invariance, PTL

(* max_retries is the number of attempts, for every max_retries.           *)
THEOREM AttemptsAreCounted == Spec => []AttemptsUsed
<1>1. IInv => AttemptsUsed
  BY DEF IInv, CallInv, AttemptsUsed
<1> QED
  BY <1>1, Invariance, PTL

(* A call that has ended with a success or a 404 has no later effect.      *)
THEOREM OutcomesAreSettled == Spec => OutcomeIsSettled
<1> DEFINE Settled == \A c \in Calls :
             pc[c] = "done" /\ result[c].type \in {"ok", "not_found"} =>
               effects'[c] = effects[c]
<1>1. IInv /\ [Next]_vars => [Settled]_vars
  <2> SUFFICES ASSUME IInv, Next, NEW c \in Calls, pc[c] = "done",
                      result[c].type \in {"ok", "not_found"}
               PROVE  effects'[c] = effects[c]
    OBVIOUS
  <2>1. /\ method[c] \in {"GET", "POST", "PATCH", "DELETE"}
        /\ method[c] # "POST" => item[c] \in created
        /\ effects \in [Calls -> Nat]
    BY MethodAssumption DEF IInv, TypeOK, CallInv
  <2>2. CASE \E d \in Calls : Start(d) \/ Client(d)
    BY <2>2 DEF Start, Client, Send, SendFails, GiveUp, Retry, Deliver, Failed,
       downstream
  <2>3. CASE \E a \in requests : TurnAway(a)
    BY <2>3 DEF TurnAway, downstream
  <2>5. CASE Restart
    BY <2>5 DEF Restart
  <2>4. ASSUME NEW a \in requests, CarryOut(a) PROVE effects'[c] = effects[c]
    <3>1. CASE a[1] # c
      BY <2>1, <2>4, <3>1 DEF CarryOut, Create, Remove, Affect, downstream
    <3>2. CASE a[1] = c
      <4>1. a \in Calls \X Nat /\ a[2] \in 1..attempt[c]
        BY <3>2 DEF IInv, TypeOK, NetInv
      <4>2. method[c] \in {"POST", "PATCH"} => a = <<c, 1>>
        BY <3>2, <4>1, Attempts DEF IInv, TypeOK, CallInv
      <4>3. method[c] \in {"POST", "PATCH"} => effects[c] = 0
        BY <4>2 DEF IInv, EffectInv, DeleteInv, OnceInv
      <4>4. CASE result[c].type = "ok"
        <5>1. method[c] = "GET" \/ effects[c] = 1
          BY <4>4 DEF IInv, ResultInv
        <5>2. method[c] \notin {"POST", "PATCH"}
          BY <4>3, <5>1
        <5>3. method[c] = "DELETE" => item[c] \notin items
          BY <5>1 DEF IInv, EffectInv, DeleteInv, OnceInv
        <5> QED
          BY <2>4, <3>2, <5>2, <5>3 DEF CarryOut, downstream
      <4>5. CASE result[c].type = "not_found"
        BY <2>1, <2>4, <3>2, <4>5
           DEF IInv, ResultInv, CarryOut, downstream
      <4> QED
        BY <4>4, <4>5
    <3> QED
      BY <3>1, <3>2
  <2> QED
    BY <2>2, <2>3, <2>4, <2>5 DEF Next
<1> QED
  BY <1>1, Invariance, PTL DEF Spec, OutcomeIsSettled

=============================================================================
