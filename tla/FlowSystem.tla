----------------------------- MODULE FlowSystem -----------------------------
(***************************************************************************)
(* FlowServiceClient before the threads of the flow service: FlowGateway   *)
(* with FlowService in the place of its store.  An attempt that arrives is *)
(* served by a thread of its own, and keeps it until its answer has been   *)
(* sent, whether its caller still waits for it or not.                     *)
(***************************************************************************)
EXTENDS FlowGateway

ASSUME ThreadAssumption == None \notin Attempts

VARIABLES flowsLock, minted,    \* as in FlowService
          point, flow, moment   \* per thread: pc, row and now of FlowService

threads == <<flowsLock, minted, point, flow, moment>>
systemVars == <<vars, threads>>

(* A thread is known by the attempt that it serves.                        *)
Service == INSTANCE FlowService WITH Threads <- Attempts, flows <- stored,
                                     pc <- point, row <- flow, now <- moment

SystemInit == Init /\ Service!Init

-----------------------------------------------------------------------------
(* What the client does by itself.                                         *)
Client(c) == (Start(c) \/ Fail(c) \/ Retry(c)) /\ UNCHANGED threads

(* A thread receives an attempt.                                           *)
Arrive(c) ==
  LET a == <<c, attempt[c]>>
  IN  /\ pc[c] = "sending"
      /\ pc' = [pc EXCEPT ![c] = "waiting"]
      /\ Service!Receive(a) /\ req'[a] = request[c]
      /\ UNCHANGED <<used, request, attempt, reply, effect>>

(* A thread serves it: a step of the handler.                              *)
Serve(a) ==
  /\ point[a] \notin {"idle", "reply"} /\ Service!Handler(a)
  /\ used' = Service!Used'
  /\ effect' = [effect EXCEPT ![a[1]] =
                  @ \/ /\ point[a] \in {"insert", "store", "del"}
                       /\ res'[a].status # 500]
  /\ UNCHANGED caller

(* It answers: its caller reads the answer, or has gone.                   *)
Respond(a) ==
  /\ Service!Respond(a)
  /\ IF WaitsFor(a)
     THEN /\ pc' = [pc EXCEPT ![a[1]] = "done"]
          /\ reply' = [reply EXCEPT ![a[1]] = res[a]]
     ELSE UNCHANGED <<pc, reply>>
  /\ UNCHANGED <<used, request, attempt, effect>>

SystemNext == \/ \E c \in Calls : Client(c) \/ Arrive(c)
              \/ \E a \in Attempts : Serve(a) \/ Respond(a)
              \/ Service!Tick /\ UNCHANGED <<used, caller, effect>>

SystemSpec == SystemInit /\ [][SystemNext]_systemVars

=============================================================================
