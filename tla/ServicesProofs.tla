---------------------------- MODULE ServicesProofs ----------------------------
(***************************************************************************)
(* What holds of the queue of jobs, of the route of a request, of the logs *)
(* and of the startup, for every value of their constants.                 *)
(***************************************************************************)
EXTENDS JobQueue, HttpRoute, LogFile, LogArchive, StartupLog, SequenceTheorems, FiniteSetTheorems,
        WellFoundedInduction, TLAPS

-----------------------------------------------------------------------------
(* JobQueue: a message is taken off only when the result of its job has     *)
(* been written.                                                            *)

HandlingSteps == {"loading", "marking", "executing", "succeeding", "failing", "calling",
                  "acking", "nacking"}

QueueVarsOK ==
    /\ TypeOK
    /\ \A k \in Consumers :
          cons[k] \in [pc : {"free"}, m : {None}] \cup [pc : HandlingSteps, m : Messages]
    /\ DOMAIN cons = Consumers

(* A consumer has a message it listens for; from when it calls the callback *)
(* or acknowledges, the result is written, unless the job is of a class it  *)
(* does not execute.                                                        *)
HandlesOwn ==
    \A k \in Consumers : cons[k].pc # "free" =>
        /\ Matches(k, cons[k].m)
        /\ cons[k].pc \in {"calling", "acking"} =>
              Id(k) \in recorded \/ Listens[k].class # Class[cons[k].m.j]

(* The row of a job is there before its message, and for good.              *)
RowFirst ==
    /\ \A m \in Messages : msg[m] # "none" => row[IdOf(m)] # None
    /\ \A j \in Jobs : emit[j].pc = "publish" => row[EmitTo(j)] # None

QueueInv == QueueVarsOK /\ HandlesOwn /\ RowFirst /\ AckedIsRecorded

(* A message names the row of its job on its connection.                    *)
LEMMA IdsOfJobs ==
    /\ \A m \in Messages : IdOf(m) \in JobIds
    /\ TypeOK => \A j \in Jobs : EmitTo(j) \in JobIds
<1>1. \A m \in Messages : IdOf(m) \in JobIds
  BY DEF Messages, IdOf, JobIds
<1>2. TypeOK => \A j \in Jobs : EmitTo(j) \in JobIds
  BY DEF TypeOK, EmitTo, JobIds
<1> QED
  BY <1>1, <1>2

(* Nothing is emitted at first.                                             *)
LEMMA QueueInvInit == Init => QueueInv
<1> SUFFICES ASSUME Init
             PROVE  QueueInv
  OBVIOUS
<1>1. 1 \in DOMAIN Conns
  BY QueueAssumption
<1>2. TypeOK
  BY <1>1 DEF Init, TypeOK, Places
<1>3. QueueVarsOK
  BY <1>2 DEF Init, QueueVarsOK, Free
<1>4. HandlesOwn /\ RowFirst /\ AckedIsRecorded
  BY DEF Init, HandlesOwn, RowFirst, AckedIsRecorded, Free
<1> QED
  BY <1>3, <1>4 DEF QueueInv

(* The steps of emit(): the row first, then the message, on one connection  *)
(* after the other.                                                         *)
LEMMA EmittingKeeps ==
    ASSUME QueueInv, NEW j \in Jobs, Emitting(j)
    PROVE  QueueInv'
<1>0. QueueVarsOK /\ TypeOK /\ HandlesOwn /\ RowFirst /\ AckedIsRecorded
  BY DEF QueueInv, QueueVarsOK
<1>1. UNCHANGED <<delivered, live, cons, subscribed, lost, recorded>>
  BY DEF Emitting, Emit, InsertRow, Publish, PublishTo, EmitFails, brokerVars
<1>2. EmitTo(j) \in JobIds /\ \A m \in Messages : IdOf(m) \in JobIds
  BY <1>0, IdsOfJobs
<1>3. CASE Emit(j) \/ EmitFails(j)
  <2>1. /\ UNCHANGED <<row, msg>>
        /\ \E pc \in {"insert", "failed"} : emit' = [emit EXCEPT ![j].pc = pc]
    BY <1>3 DEF Emit, EmitFails, brokerVars
  <2>2. TypeOK'
    BY <1>0, <1>1, <2>1 DEF TypeOK
  <2>3. RowFirst'
    BY <1>0, <2>1 DEF RowFirst, TypeOK, EmitTo
  <2> QED
    BY <1>0, <1>1, <2>1, <2>2, <2>3
       DEF QueueInv, QueueVarsOK, HandlesOwn, AckedIsRecorded, Id
<1>4. CASE InsertRow(j)
  <2>1. /\ row' = [row EXCEPT ![EmitTo(j)] = "created"]
        /\ emit' = [emit EXCEPT ![j].pc = "publish"]
        /\ UNCHANGED msg
    BY <1>4 DEF InsertRow, brokerVars
  <2>2. TypeOK'
    BY <1>0, <1>1, <1>2, <2>1 DEF TypeOK, Statuses
  <2>3. \A id \in JobIds : row[id] # None \/ id = EmitTo(j) => row'[id] # None
    BY <1>0, <1>2, <2>1, QueueAssumption DEF TypeOK, Statuses
  <2>4. \A i \in Jobs : /\ EmitTo(i)' = EmitTo(i) /\ EmitTo(i) \in JobIds
                        /\ emit'[i].pc = "publish" => i = j \/ emit[i].pc = "publish"
    BY <1>0, <2>1, IdsOfJobs DEF TypeOK, EmitTo
  <2>5. RowFirst'
    BY <1>0, <1>2, <2>1, <2>3, <2>4 DEF RowFirst
  <2>6. AckedIsRecorded'
    BY <1>0, <1>1, <1>2, <2>1, <2>3 DEF AckedIsRecorded
  <2> QED
    BY <1>0, <1>1, <2>2, <2>5, <2>6 DEF QueueInv, QueueVarsOK, HandlesOwn, Id
<1>5. CASE Publish(j)
  <2>1. /\ emit[j].pc = "publish" /\ UNCHANGED row
        /\ emit' = [emit EXCEPT ![j] =
              IF @.n < Len(Conns) THEN [n |-> @.n + 1, pc |-> "insert"] ELSE [@ EXCEPT !.pc = "done"]]
    BY <1>5 DEF Publish, PublishTo
  <2>2. msg' = [m \in Messages |->
              IF IdOf(m) = EmitTo(j) /\ m.ch \in Channels[m.c] THEN "queued" ELSE msg[m]]
    BY <1>5 DEF Publish, PublishTo
  <2>3. TypeOK'
    <3>1. emit[j].n < Len(Conns) => emit[j].n + 1 \in DOMAIN Conns
      BY <1>0, QueueAssumption DEF TypeOK
    <3>2. emit' \in [Jobs -> [n : DOMAIN Conns,
                             pc : {"idle", "insert", "publish", "done", "failed"}]]
      BY <1>0, <2>1, <3>1 DEF TypeOK
    <3>3. msg' \in [Messages -> Places \cup Consumers]
      BY <1>0, <2>2 DEF TypeOK, Places
    <3> QED
      BY <1>0, <1>1, <2>1, <3>2, <3>3 DEF TypeOK
  <2>4. \A m \in Messages : msg'[m] = msg[m] \/ (msg'[m] = "queued" /\ IdOf(m) = EmitTo(j))
    BY <2>2
  <2>5. \A i \in Jobs : emit'[i].pc = "publish" => i # j /\ emit[i] = emit'[i]
    BY <1>0, <2>1 DEF TypeOK
  <2>6. RowFirst'
    BY <1>0, <2>1, <2>4, <2>5 DEF RowFirst, EmitTo
  <2>7. AckedIsRecorded'
    BY <1>0, <1>1, <2>1, <2>4 DEF AckedIsRecorded, RowFirst
  <2> QED
    BY <1>0, <1>1, <2>3, <2>6, <2>7 DEF QueueInv, QueueVarsOK, HandlesOwn, Id
<1> QED
  BY <1>3, <1>4, <1>5 DEF Emitting

(* A message that is on the queue, handed out, taken back or buried changes *)
(* neither rows nor results, and none is taken off.                         *)
LEMMA BrokerKeeps ==
    /\ QueueInv /\ TypeOK' /\ UNCHANGED <<emit, row, recorded>>
    /\ \A m \in Messages : msg'[m] = msg[m] \/ (msg[m] # "none" /\ msg'[m] # "acked")
    /\ \A q \in Consumers : cons'[q] = cons[q] \/ cons'[q] = Free
    /\ DOMAIN cons' = Consumers
    => QueueInv'
<1> SUFFICES ASSUME QueueInv, TypeOK', UNCHANGED <<emit, row, recorded>>,
                    \A m \in Messages : msg'[m] = msg[m] \/ (msg[m] # "none" /\ msg'[m] # "acked"),
                    \A q \in Consumers : cons'[q] = cons[q] \/ cons'[q] = Free,
                    DOMAIN cons' = Consumers
             PROVE  QueueInv'
  OBVIOUS
<1>0. QueueVarsOK /\ TypeOK /\ HandlesOwn /\ RowFirst /\ AckedIsRecorded
  BY DEF QueueInv, QueueVarsOK
<1>3. QueueVarsOK'
  BY <1>0 DEF QueueVarsOK, Free
<1>4. HandlesOwn'
  BY <1>0 DEF HandlesOwn, Free, Id
<1>5. RowFirst' /\ AckedIsRecorded'
  BY <1>0 DEF RowFirst, AckedIsRecorded, EmitTo
<1> QED
  BY <1>3, <1>4, <1>5 DEF QueueInv

(* A consumer comes, goes, loses its connection or dies with its process.   *)
LEMMA SubscriptionKeeps ==
    ASSUME QueueInv, NEW k \in Consumers,
           Subscribe(k) \/ Unsubscribe(k) \/ ConnectionLost(k) \/ Crash(k)
    PROVE  QueueInv'
<1>0. QueueVarsOK /\ TypeOK
  BY DEF QueueInv, QueueVarsOK
<1>1. /\ UNCHANGED <<emit, row, recorded>>
      /\ msg' = msg \/ msg' = Returned(k)
      /\ cons' = cons \/ cons' = [cons EXCEPT ![k] = Free]
      /\ subscribed' \in {subscribed \cup {k}, subscribed \ {k}, subscribed}
      /\ live' \subseteq subscribed'
  BY <1>0 DEF Subscribe, Unsubscribe, ConnectionLost, Crash, emitVars, TypeOK
<1>2. \A m \in Messages : msg'[m] = msg[m] \/ (msg[m] = k /\ msg'[m] = "queued")
  BY <1>1 DEF Returned
<1>3. k \notin Places
  BY QueueAssumption
<1>4. TypeOK'
  <2>1. msg' \in [Messages -> Places \cup Consumers]
    BY <1>0, <1>1 DEF Returned, TypeOK, Places
  <2> QED
    BY <1>0, <1>1, <2>1 DEF TypeOK
<1> QED
  <2>1. \A m \in Messages : msg'[m] = msg[m] \/ (msg[m] # "none" /\ msg'[m] # "acked")
    BY <1>2, <1>3 DEF Places
  <2>2. (\A q \in Consumers : cons'[q] = cons[q] \/ cons'[q] = Free) /\ DOMAIN cons' = Consumers
    BY <1>0, <1>1 DEF QueueVarsOK
  <2>3. UNCHANGED <<emit, row, recorded>>
    BY <1>1
  <2> QED
    BY <1>4, <2>1, <2>2, <2>3, BrokerKeeps

(* A consumer is handed a message it listens for, and acknowledges at once  *)
(* only what is of another class.                                           *)
LEMMA DeliverKeeps ==
    ASSUME QueueInv, NEW k \in Consumers, NEW m \in Messages, Deliver(k, m)
    PROVE  QueueInv'
<1>0. QueueVarsOK /\ TypeOK /\ HandlesOwn /\ RowFirst /\ AckedIsRecorded
  BY DEF QueueInv, QueueVarsOK
<1>1. /\ msg[m] = "queued" /\ msg' = [msg EXCEPT ![m] = k]
      /\ cons' = [cons EXCEPT ![k] =
            [pc |-> IF Class[m.j] = Listens[k].class THEN "loading" ELSE "acking", m |-> m]]
      /\ Matches(k, m)
      /\ UNCHANGED <<emit, row, live, subscribed, recorded>>
  BY DEF Deliver, emitVars
<1>2. k # "acked"
  BY QueueAssumption DEF Places
<1>3. \A l \in Messages : msg'[l] = msg[l] \/ (l = m /\ msg'[l] = k /\ msg[l] = "queued")
  BY <1>0, <1>1 DEF TypeOK
<1>4. TypeOK'
  BY <1>0, <1>1 DEF TypeOK
<1>5. /\ cons'[k] = [pc |-> IF Class[m.j] = Listens[k].class THEN "loading" ELSE "acking", m |-> m]
      /\ \A q \in Consumers \ {k} : cons'[q] = cons[q]
  BY <1>0, <1>1 DEF QueueVarsOK
<1>6. DOMAIN cons' = Consumers
  BY <1>0, <1>1 DEF QueueVarsOK
<1>7. QueueVarsOK'
  BY <1>0, <1>4, <1>5, <1>6 DEF QueueVarsOK, HandlingSteps
<1>8. HandlesOwn'
  BY <1>0, <1>1, <1>5 DEF HandlesOwn, Id, Matches
<1>9. RowFirst' /\ AckedIsRecorded'
  BY <1>0, <1>1, <1>2, <1>3 DEF RowFirst, AckedIsRecorded, EmitTo
<1> QED
  BY <1>7, <1>8, <1>9 DEF QueueInv

(* Loading, executing and recording: a consumer reaches the callback and    *)
(* the acknowledgement only by writing the result.                          *)
LEMMA ExecutingKeeps ==
    ASSUME QueueInv, NEW k \in Consumers,
           \/ Load(k) \/ Mark(k) \/ MarkFails(k) \/ Succeeds(k) \/ Fails(k)
           \/ Record(k) \/ RecordFails(k) \/ Calls(k) \/ CallbackRejects(k)
    PROVE  QueueInv'
<1>0. QueueVarsOK /\ TypeOK /\ HandlesOwn /\ RowFirst /\ AckedIsRecorded
  BY DEF QueueInv, QueueVarsOK
<1>1. UNCHANGED <<emit, msg, delivered, live, subscribed, lost>>
  BY DEF Load, Mark, MarkFails, Succeeds, Fails, Record, RecordFails, Calls, CallbackRejects,
         Sames, brokerVars
<1>2. cons[k].pc # "free" /\ cons[k] \in [pc : HandlingSteps, m : Messages] /\ Id(k) \in JobIds
  BY <1>0, IdsOfJobs
     DEF Load, Mark, MarkFails, Succeeds, Fails, Record, RecordFails, Calls, CallbackRejects, At,
         QueueVarsOK, Id
<1>3. \E pc \in HandlingSteps :
         /\ cons' = [cons EXCEPT ![k].pc = pc]
         /\ pc \in {"calling", "acking"} => Id(k) \in recorded' \/ cons[k].pc = "calling"
  BY <1>0, <1>2
     DEF Load, Mark, MarkFails, Succeeds, Fails, Record, RecordFails, Calls, CallbackRejects, At,
         Goto, HandlingSteps
<1>4. PICK pc \in HandlingSteps :
         /\ cons' = [cons EXCEPT ![k].pc = pc]
         /\ pc \in {"calling", "acking"} => Id(k) \in recorded' \/ cons[k].pc = "calling"
  BY <1>3
<1>5. /\ recorded \subseteq recorded' /\ recorded' \subseteq JobIds
      /\ row' = row \/ \E status \in Statuses : row' = [row EXCEPT ![Id(k)] = status]
  BY <1>0, <1>2
     DEF Load, Mark, MarkFails, Succeeds, Fails, Record, RecordFails, Calls, CallbackRejects,
         Statuses, TypeOK
<1>6. row' \in [JobIds -> Statuses \cup {None}]
  BY <1>0, <1>2, <1>5 DEF TypeOK
<1>7. \A id \in JobIds : row[id] # None => row'[id] # None
  BY <1>0, <1>2, <1>5, QueueAssumption DEF TypeOK
<1>8. TypeOK'
  BY <1>0, <1>1, <1>5, <1>6 DEF TypeOK
<1>9. /\ cons'[k].pc = pc /\ cons'[k].m = cons[k].m /\ cons'[k] \in [pc : HandlingSteps, m : Messages]
      /\ DOMAIN cons' = Consumers
      /\ \A q \in Consumers \ {k} : cons'[q] = cons[q]
  BY <1>0, <1>2, <1>4 DEF QueueVarsOK
<1>10. QueueVarsOK'
  BY <1>0, <1>8, <1>9 DEF QueueVarsOK
<1>11. HandlesOwn'
  BY <1>0, <1>2, <1>4, <1>5, <1>9 DEF HandlesOwn, Id, Matches
<1>12. RowFirst'
  BY <1>0, <1>1, <1>7, IdsOfJobs DEF RowFirst, EmitTo
<1>13. AckedIsRecorded'
  BY <1>0, <1>1, <1>5, <1>7, IdsOfJobs DEF AckedIsRecorded
<1> QED
  BY <1>10, <1>11, <1>12, <1>13 DEF QueueInv

(* Acknowledging takes off what is recorded or was never meant for it, and  *)
(* refusing gives the message back.                                         *)
LEMMA AnswerKeeps ==
    ASSUME QueueInv, NEW k \in Consumers, Ack(k) \/ Nack(k)
    PROVE  QueueInv'
<1>0. QueueVarsOK /\ TypeOK /\ HandlesOwn /\ RowFirst /\ AckedIsRecorded
  BY DEF QueueInv, QueueVarsOK
<1>1. /\ cons' = [cons EXCEPT ![k] = Free]
      /\ UNCHANGED <<emit, row, delivered, live, subscribed, lost, recorded>>
  BY DEF Ack, Nack, emitVars
<1>2. k \notin Places
  BY QueueAssumption
<1>3. CASE Nack(k)
  <2>1. msg' = [m \in Messages |-> IF msg[m] = k /\ m = cons[k].m THEN "queued" ELSE msg[m]]
    BY <1>3 DEF Nack
  <2>2. TypeOK'
    BY <1>0, <1>1, <2>1 DEF TypeOK, Places
  <2>3. \A m \in Messages : msg'[m] = msg[m] \/ (msg[m] # "none" /\ msg'[m] # "acked")
    BY <1>2, <2>1 DEF Places
  <2>4. (\A q \in Consumers : cons'[q] = cons[q] \/ cons'[q] = Free) /\ DOMAIN cons' = Consumers
    BY <1>0, <1>1 DEF QueueVarsOK
  <2>5. UNCHANGED <<emit, row, recorded>>
    BY <1>1
  <2> QED
    BY <2>2, <2>3, <2>4, <2>5, BrokerKeeps
<1>4. CASE Ack(k)
  <2>1. msg' = [m \in Messages |-> IF msg[m] = k /\ m = cons[k].m THEN "acked" ELSE msg[m]]
    BY <1>4 DEF Ack
  <2>2. /\ Matches(k, cons[k].m)
        /\ IdOf(cons[k].m) \in recorded \/ Listens[k].class # Class[cons[k].m.j]
    BY <1>0, <1>4 DEF Ack, At, HandlesOwn, Id
  <2>3. TypeOK'
    BY <1>0, <1>1, <2>1 DEF TypeOK, Places
  <2>4. \A q \in Consumers : cons'[q] = cons[q] \/ cons'[q] = Free
    BY <1>0, <1>1 DEF QueueVarsOK
  <2>5. DOMAIN cons' = Consumers
    BY <1>0, <1>1 DEF QueueVarsOK
  <2>6. QueueVarsOK'
    BY <1>0, <2>3, <2>4, <2>5 DEF QueueVarsOK, Free
  <2>7. HandlesOwn'
    BY <1>0, <1>1, <2>4 DEF HandlesOwn, Free, Id
  <2>8. RowFirst'
    BY <1>0, <1>1, <1>2, <2>1 DEF RowFirst, EmitTo, Places
  <2>9. AckedIsRecorded'
    BY <1>0, <1>1, <1>2, <2>1, <2>2 DEF AckedIsRecorded, Places
  <2> QED
    BY <2>6, <2>7, <2>8, <2>9 DEF QueueInv
<1> QED
  BY <1>3, <1>4

(* Every step of the queue keeps the invariant.                             *)
LEMMA QueueInductive == QueueInv /\ [Next]_vars => QueueInv'
<1> SUFFICES ASSUME QueueInv, [Next]_vars
             PROVE  QueueInv'
  OBVIOUS
<1>1. ASSUME NEW k \in Consumers, Handling(k)
      PROVE  QueueInv'
  BY <1>1, ExecutingKeeps, AnswerKeeps DEF Handling
<1>2. ASSUME NEW m \in Messages, Bury(m)
      PROVE  QueueInv'
  <2>0. TypeOK
    BY DEF QueueInv, QueueVarsOK
  <2>1. /\ msg[m] = "queued" /\ msg' = [msg EXCEPT ![m] = "dead"]
        /\ UNCHANGED <<emit, row, live, cons, subscribed, recorded>>
    BY <1>2 DEF Bury, emitVars
  <2>2. TypeOK'
    BY <2>0, <2>1 DEF TypeOK, Places
  <2>3. \A l \in Messages : msg'[l] = msg[l] \/ (msg[l] # "none" /\ msg'[l] # "acked")
    BY <2>0, <2>1 DEF TypeOK
  <2>4. (\A q \in Consumers : cons'[q] = cons[q] \/ cons'[q] = Free) /\ DOMAIN cons' = Consumers
    BY <2>1 DEF QueueInv, QueueVarsOK
  <2>5. UNCHANGED <<emit, row, recorded>>
    BY <2>1
  <2> QED
    BY <2>2, <2>3, <2>4, <2>5, BrokerKeeps
<1>3. CASE UNCHANGED vars
  <2>1. UNCHANGED <<emit, row, msg, live, cons, subscribed, recorded>>
    BY <1>3 DEF vars, emitVars, brokerVars
  <2> QED
    BY <2>1 DEF QueueInv, QueueVarsOK, TypeOK, HandlesOwn, RowFirst, AckedIsRecorded, Id, EmitTo
<1>4. CASE Next
  BY <1>1, <1>2, <1>4, EmittingKeeps, DeliverKeeps, SubscriptionKeeps DEF Next
<1> QED
  BY <1>3, <1>4

(* The variables keep their types.                                          *)
THEOREM QueueTypeCorrect == Spec => []TypeOK
<1>1. QueueInv => TypeOK
  BY DEF QueueInv, QueueVarsOK
<1> QED
  BY <1>1, QueueInvInit, QueueInductive, PTL DEF Spec

(* However many consumers share a channel, connections drop, processes die, *)
(* queries fail and callbacks throw: a message that was taken off belongs   *)
(* to a job whose result is written, or met a consumer of another class,    *)
(* and no message is ahead of its row.                                      *)
THEOREM QueueAcksRecorded == FairSpec => []AckedIsRecorded
<1>1. QueueInv => AckedIsRecorded
  BY DEF QueueInv
<1> QED
  BY <1>1, QueueInvInit, QueueInductive, PTL DEF FairSpec, Spec

-----------------------------------------------------------------------------
(* HttpRoute.                                                               *)

Pages == {"template", "rendering", "error page", "second page", "plain page", "last page"}

(* Which handler waits for what, and what has been passed before it.        *)
HandlersInTurn ==
    /\ at \in Nat /\ 1 <= at /\ at <= ErrorAt
    /\ passed \subseteq Nat
    /\ at <= ResponseAt => \A n \in Nat : n \in passed <=> 1 <= n /\ n < at
    /\ \A n \in passed : n < ResponseAt
    /\ doing \in {"idle", "called", "policies", "body", "silence", "sent"} \cup Pages
    /\ doing \in {"idle", "policies"} => at = 1
    /\ doing = "body" => at = ActionAt
    /\ doing \in Pages \cup {"silence", "sent"} => at >= ResponseAt
    /\ answer \in {"none", "ok", "error"}
    /\ good \in {"ok", "error"}

(* Verdicts are those of enabled policies, and what goes past the first     *)
(* handler of a route with policies goes with one that was fulfilled.       *)
PoliciesAsked ==
    /\ verdict \in [Policies -> {"none", "pending", "fulfilled", "rejected"}]
    /\ route \in Routes
    /\ doing = "idle" => \A p \in Policies : verdict[p] = "none"
    /\ \A p \in Policies : verdict[p] # "none" => p \in route.enabled
    /\ ActionAt \in passed => 1 \in passed
    /\ 1 \in passed => route.declared = {} \/ \E p \in route.enabled : verdict[p] = "fulfilled"

(* What the handler of errors shows is an error.                            *)
ErrorsShown == at = ErrorAt => answer # "ok" /\ (doing \in Pages => good = "error")

(* An answer of ok is that of the handler of responses.                     *)
HttpInv ==
    /\ HandlersInTurn /\ PoliciesAsked /\ ErrorsShown
    /\ answer # "none" => doing = "sent"

(* The numbers of the handlers, in their order.                             *)
LEMMA HandlersOrdered ==
    /\ ActionAt \in Nat /\ ResponseAt \in Nat /\ ErrorAt \in Nat
    /\ 1 < ActionAt /\ ActionAt < ResponseAt /\ ErrorAt = ResponseAt + 1
  BY HttpAssumption DEF ActionAt, ResponseAt, ErrorAt

(* Before the request nothing was asked, passed or sent.                    *)
LEMMA HttpInvInit == HttpInit => HttpInv
<1> SUFFICES ASSUME HttpInit
             PROVE  HttpInv
  OBVIOUS
<1>1. HandlersInTurn
  BY HandlersOrdered DEF HttpInit, HandlersInTurn, Pages
<1>2. PoliciesAsked
  BY DEF HttpInit, PoliciesAsked, Routes
<1>3. ErrorsShown
  BY HandlersOrdered DEF HttpInit, ErrorsShown
<1> QED
  BY <1>1, <1>2, <1>3 DEF HttpInv, HttpInit

(* A handler passes the request on, or to the handler of errors.            *)
LEMMA HandingOnKeeps ==
    ASSUME HttpInv, Continue \/ Fail, doing \in {"called", "policies"}, at < ResponseAt,
           UNCHANGED <<route, verdict, good, answer>>,
           at = 1 /\ Continue => route.declared = {} \/ \E p \in route.enabled : verdict[p] = "fulfilled",
           NEW x
    PROVE  HttpInv'
<1>0. HandlersInTurn /\ PoliciesAsked /\ ErrorsShown /\ answer = "none"
  BY DEF HttpInv
<1> USE HandlersOrdered
<1>1. CASE Continue
  <2>1. passed' = passed \cup {at} /\ at' = at + 1 /\ doing' = "called"
    BY <1>1 DEF Continue
  <2>2. /\ passed \subseteq Nat /\ at \in Nat /\ 1 <= at
        /\ \A n \in Nat : n \in passed <=> 1 <= n /\ n < at
    BY <1>0 DEF HandlersInTurn
  <2>3. /\ passed' \subseteq Nat /\ \A n \in passed' : n < ResponseAt
        /\ \A n \in Nat : n \in passed' <=> 1 <= n /\ n < at'
    <3>1. passed' \subseteq Nat
      BY <2>1, <2>2
    <3>2. \A n \in passed' : n < ResponseAt
      BY <2>1, <2>2
    <3>3. ASSUME NEW n \in Nat
          PROVE  n \in passed' <=> 1 <= n /\ n < at'
      <4>1. n < at + 1 <=> n < at \/ n = at
        BY <2>2
      <4>2. n \in passed' <=> n \in passed \/ n = at
        BY <2>1
      <4> QED
        BY <2>1, <2>2, <4>1, <4>2
    <3> QED
      BY <3>1, <3>2, <3>3
  <2>4. HandlersInTurn'
    <3>1. at' \in Nat /\ 1 <= at' /\ at' <= ErrorAt
      BY <2>1, <2>2
    <3>2. answer' \in {"none", "ok", "error"} /\ good' \in {"ok", "error"}
      BY <1>0 DEF HandlersInTurn
    <3> QED
      BY <2>1, <2>3, <3>1, <3>2 DEF HandlersInTurn, Pages
  <2>5. 1 \in passed'
    BY <2>1, <2>2
  <2>6. at # 1 => 1 \in passed
    BY <2>2
  <2>7. PoliciesAsked'
    BY <1>0, <1>1, <2>1, <2>5, <2>6 DEF PoliciesAsked
  <2>8. ErrorsShown'
    BY <2>1, <2>2 DEF ErrorsShown
  <2> QED
    BY <1>0, <2>4, <2>7, <2>8 DEF HttpInv
<1>2. CASE Fail
  <2>1. passed' = passed /\ at' = ErrorAt /\ doing' = "called"
    BY <1>2 DEF Fail
  <2>2. /\ at' \in Nat /\ 1 <= at' /\ at' <= ErrorAt /\ ~(at' <= ResponseAt)
        /\ at' >= ResponseAt
    BY <2>1
  <2>3. HandlersInTurn'
    BY <1>0, <2>1, <2>2 DEF HandlersInTurn, Pages
  <2>4. PoliciesAsked' /\ ErrorsShown'
    BY <1>0, <2>1 DEF PoliciesAsked, ErrorsShown, Pages
  <2> QED
    BY <1>0, <2>3, <2>4 DEF HttpInv
<1> QED
  BY <1>1, <1>2

(* A page goes on to another stage, is sent or is not: the handler of       *)
(* errors has none that is ok.                                              *)
LEMMA PageKeeps ==
    ASSUME HttpInv, at >= ResponseAt, doing \in {"called"} \cup Pages, NEW g \in {"ok", "error"},
           at = ErrorAt => g = "error",
           UNCHANGED <<route, verdict>>,
           \/ Send(g)
           \/ \E what \in Pages : Await(what, g)
           \/ Await("silence", good) \/ Await("silence", g)
           \/ at = ResponseAt /\ Fail /\ UNCHANGED <<good, answer>>
    PROVE  HttpInv'
<1>0. HandlersInTurn /\ PoliciesAsked /\ ErrorsShown /\ answer = "none"
  BY DEF HttpInv, Pages
<1>1. /\ UNCHANGED passed
      /\ \/ at' = at /\ doing' = "sent" /\ answer' = g /\ good' = good
         \/ at' = at /\ doing' \in Pages /\ answer' = answer /\ good' = g
         \/ at' = at /\ doing' = "silence" /\ answer' = answer /\ good' \in {good, g}
         \/ at' = ErrorAt /\ doing' = "called" /\ answer' = answer /\ good' = good
  BY DEF Send, Await, Fail
<1> USE HandlersOrdered
<1>2. HandlersInTurn'
  <2>1. CASE at' = at
    BY <1>0, <1>1, <2>1 DEF HandlersInTurn, Pages
  <2>2. CASE at' = ErrorAt /\ doing' = "called" /\ answer' = answer /\ good' = good
    <3>1. at' \in Nat /\ 1 <= at' /\ at' <= ErrorAt /\ ~(at' <= ResponseAt)
      BY <2>2
    <3> QED
      BY <1>0, <1>1, <2>2, <3>1 DEF HandlersInTurn, Pages
  <2> QED
    BY <1>1, <2>1, <2>2
<1>3. PoliciesAsked'
  BY <1>0, <1>1 DEF PoliciesAsked, Pages
<1>4. ErrorsShown'
  BY <1>0, <1>1 DEF ErrorsShown, Pages, HandlersInTurn
<1>5. answer' # "none" => doing' = "sent"
  BY <1>0, <1>1
<1> QED
  BY <1>2, <1>3, <1>4, <1>5 DEF HttpInv

(* The handler of responses answers with a page that is ok or an error, ... *)
LEMMA ResponseKeeps ==
    ASSUME HttpInv, HandleResponse
    PROVE  HttpInv'
<1> USE HandlersOrdered
<1>1. at = ResponseAt /\ at # ErrorAt /\ at >= ResponseAt /\ doing = "called" /\ UNCHANGED <<route, verdict>>
  BY DEF HandleResponse
<1>2. \E g \in {"ok", "error"} :
         \/ Send(g)
         \/ \E what \in Pages : Await(what, g)
         \/ Await("silence", g)
         \/ Fail /\ UNCHANGED <<good, answer>>
  <2>1. CASE Throws
    BY <1>1, <2>1 DEF Throws
  <2>2. CASE SendDefault("ok")
    BY <1>1, <2>2 DEF SendDefault, Throws, Pages
  <2>3. CASE SendHtml("ok")
    BY <1>1, <2>3 DEF SendHtml, Throws, Pages
  <2>4. CASE Send("ok")
    BY <2>4
  <2> QED
    BY <2>1, <2>2, <2>3, <2>4 DEF HandleResponse, Execute
<1> QED
  BY <1>1, <1>2, PageKeeps

(* ... and that of errors with one that is an error.                        *)
LEMMA ErrorKeeps ==
    ASSUME HttpInv, HandleError
    PROVE  HttpInv'
<1> USE HandlersOrdered
<1>1. at = ErrorAt /\ at # ResponseAt /\ at >= ResponseAt /\ doing = "called" /\ UNCHANGED <<route, verdict>>
  BY DEF HandleError
<1>2. \/ Send("error")
      \/ \E what \in Pages : Await(what, "error")
      \/ Await("silence", good) \/ Await("silence", "error")
  <2>1. SendDefault("error")
    BY DEF HandleError
  <2>2. Throws => Send("error") \/ Await("silence", good)
    BY <1>1 DEF Throws, LastResort
  <2>3. "template" \in Pages
    BY DEF Pages
  <2> QED
    BY <2>1, <2>2, <2>3 DEF SendDefault
<1> QED
  BY <1>1, <1>2, PageKeeps

(* Every step of a request keeps the invariant.                             *)
LEMMA HttpInductive == HttpInv /\ [HttpNext]_httpVars => HttpInv'
<1> SUFFICES ASSUME HttpInv, [HttpNext]_httpVars
             PROVE  HttpInv'
  OBVIOUS
<1>0. HandlersInTurn /\ PoliciesAsked /\ ErrorsShown
  BY DEF HttpInv
<1> USE HandlersOrdered
<1>1. CASE Request
  <2>1. /\ doing = "idle" /\ at = 1 /\ route' \in Routes /\ doing' = "called"
        /\ UNCHANGED <<at, verdict, passed, good, answer>>
    BY <1>0, <1>1 DEF Request, pageVars, HandlersInTurn
  <2>2. \A n \in Nat : n \notin passed
    BY <1>0, <2>1 DEF HandlersInTurn
  <2>3. HandlersInTurn'
    BY <1>0, <2>1 DEF HandlersInTurn, Pages
  <2>4. PoliciesAsked'
    BY <1>0, <2>1, <2>2 DEF PoliciesAsked
  <2>5. ErrorsShown'
    BY <2>1 DEF ErrorsShown
  <2> QED
    BY <2>1, <2>3, <2>4, <2>5 DEF HttpInv
<1>2. CASE ExecutePolicies
  <2>1. at = 1 /\ at < ResponseAt /\ doing = "called" /\ UNCHANGED <<route, good, answer>>
    BY <1>2 DEF ExecutePolicies, pageVars
  <2>2. CASE route.declared = {} /\ Continue /\ UNCHANGED verdict
    BY <2>1, <2>2, HandingOnKeeps
  <2>3. CASE doing' = "policies"
    <3>1. /\ verdict' = [p \in Policies |-> IF p \in route.enabled THEN "pending" ELSE "none"]
          /\ UNCHANGED <<at, passed>>
      BY <1>2, <2>3 DEF ExecutePolicies, Continue
    <3>2. 1 \notin passed
      BY <1>0, <2>1 DEF HandlersInTurn
    <3>3. HandlersInTurn'
      BY <1>0, <2>1, <2>3, <3>1 DEF HandlersInTurn, Pages
    <3>4. PoliciesAsked'
      BY <1>0, <2>1, <2>3, <3>1, <3>2 DEF PoliciesAsked
    <3>5. ErrorsShown' /\ answer = "none"
      BY <2>1, <3>1 DEF ErrorsShown, HttpInv
    <3> QED
      BY <2>1, <3>3, <3>4, <3>5 DEF HttpInv
  <2> QED
    BY <1>2, <2>2, <2>3 DEF ExecutePolicies
<1>3. ASSUME NEW p \in Policies, PolicySettles(p)
      PROVE  HttpInv'
  <2>1. /\ verdict[p] = "pending"
        /\ \E v \in {"fulfilled", "rejected"} : verdict' = [verdict EXCEPT ![p] = v]
        /\ UNCHANGED <<route, at, doing, passed, good, answer>>
    BY <1>3 DEF PolicySettles, pageVars
  <2>2. /\ verdict' \in [Policies -> {"none", "pending", "fulfilled", "rejected"}]
        /\ \A q \in Policies \ {p} : verdict'[q] = verdict[q]
    BY <1>0, <2>1 DEF PoliciesAsked
  <2>3. HandlersInTurn' /\ ErrorsShown'
    BY <1>0, <2>1 DEF HandlersInTurn, ErrorsShown
  <2>4. PoliciesAsked'
    <3>1. route.enabled \subseteq Policies
      BY <1>0 DEF PoliciesAsked, Routes
    <3> QED
      BY <1>0, <2>1, <2>2, <3>1 DEF PoliciesAsked
  <2> QED
    BY <2>1, <2>3, <2>4 DEF HttpInv
<1>4. CASE AllPoliciesSettled
  <2>1. /\ doing = "policies" /\ at = 1 /\ at < ResponseAt /\ UNCHANGED <<route, verdict, good, answer>>
        /\ (Settled("fulfilled") /\ Continue) \/ Fail
    BY <1>0, <1>4 DEF AllPoliciesSettled, pageVars, HandlersInTurn
  <2>2. Settled("fulfilled") => \E p \in route.enabled : verdict[p] = "fulfilled"
    BY <1>0 DEF Settled, PoliciesAsked
  <2>3. Fail => ~Continue
    BY <1>0 DEF Fail, Continue, HandlersInTurn
  <2> QED
    BY <2>1, <2>2, <2>3, HandingOnKeeps
<1>5. CASE InvokeMiddleware
  <2>1. at # 1 /\ at # ActionAt /\ at < ResponseAt /\ UNCHANGED <<route, verdict, good, answer>>
    BY <1>0, <1>5 DEF InvokeMiddleware, pageVars, HandlersInTurn
  <2>2. doing = "called"
    BY <1>0, <2>1 DEF HandlersInTurn
  <2>3. Continue \/ Fail
    BY <1>5 DEF InvokeMiddleware
  <2> QED
    BY <2>1, <2>2, <2>3, HandingOnKeeps
<1>6. ASSUME NEW t, ExtractArg(t)
      PROVE  HttpInv'
  <2>1. /\ at = ActionAt /\ at # 1 /\ at < ResponseAt /\ doing = "called"
        /\ UNCHANGED <<route, verdict, good, answer>>
    BY <1>6 DEF ExtractArg, pageVars
  <2>2. CASE Fail
    BY <2>1, <2>2, HandingOnKeeps
  <2>3. CASE doing' \in {"called", "body"} /\ UNCHANGED <<at, passed>>
    <3>1. HandlersInTurn' /\ PoliciesAsked' /\ ErrorsShown'
      BY <1>0, <2>1, <2>3 DEF HandlersInTurn, PoliciesAsked, ErrorsShown, Pages
    <3> QED
      BY <2>1, <3>1 DEF HttpInv
  <2> QED
    BY <1>6, <2>1, <2>2, <2>3 DEF ExtractArg
<1>7. CASE CallAction
  <2>1. /\ at = ActionAt /\ at # 1 /\ at < ResponseAt /\ doing = "called"
        /\ UNCHANGED <<route, verdict, good, answer>>
        /\ Continue \/ Fail
    BY <1>7 DEF CallAction
  <2> QED
    BY <2>1, HandingOnKeeps
<1>8. CASE Template \/ Render \/ FetchErrorPage \/ RenderLast
  <2>1. /\ doing \in Pages /\ at >= ResponseAt /\ (at = ErrorAt => good = "error")
        /\ good \in {"ok", "error"} /\ UNCHANGED <<route, verdict>>
    BY <1>0, <1>8
       DEF Template, Render, FetchErrorPage, RenderLast, Pages, HandlersInTurn, ErrorsShown
  <2>2. \E g \in {good, "error"} : Send(g) \/ \E what \in Pages : Await(what, g)
    <3>1. CASE Template
      BY <3>1 DEF Template, Pages
    <3>2. CASE Render
      BY <3>2 DEF Render, Pages
    <3>3. CASE FetchErrorPage
      BY <3>3 DEF FetchErrorPage, Pages
    <3>4. CASE RenderLast
      BY <3>4 DEF RenderLast
    <3> QED
      BY <1>8, <3>1, <3>2, <3>3, <3>4
  <2> QED
    BY <2>1, <2>2, PageKeeps
<1>9. CASE UNCHANGED httpVars
  BY <1>0, <1>9 DEF httpVars, HttpInv, HandlersInTurn, PoliciesAsked, ErrorsShown
<1>10. CASE HttpProgress
  BY <1>2, <1>3, <1>4, <1>5, <1>6, <1>7, <1>8, <1>10, ResponseKeeps, ErrorKeeps DEF HttpProgress
<1> QED
  BY <1>1, <1>9, <1>10 DEF HttpNext

(* However policies, middlewares, parsers and pages fail, the action runs   *)
(* only if the policies allow it, and the client is told ok only when every *)
(* handler before the response has done its part: for any number of         *)
(* policies and middlewares.                                                *)
THEOREM HttpOkIsEarned == HttpSpec => []OkIsEarned
<1>1. HttpInv => OkIsEarned
  <2> SUFFICES ASSUME HttpInv
               PROVE  OkIsEarned
    OBVIOUS
  <2>0. HandlersInTurn /\ PoliciesAsked /\ ErrorsShown
    BY DEF HttpInv
  <2>1. at = ActionAt => 1 \in passed
    BY <2>0, HandlersOrdered DEF HandlersInTurn
  <2>2. ASSUME answer = "ok"
        PROVE  passed = 1..ResponseAt - 1
    <3>1. at = ResponseAt
      <4>1. doing = "sent" /\ at # ErrorAt
        BY <2>0, <2>2 DEF HttpInv, ErrorsShown
      <4> QED
        BY <2>0, <4>1, HandlersOrdered DEF HandlersInTurn
    <3>2. /\ passed \subseteq Nat
          /\ \A n \in Nat : n \in passed <=> 1 <= n /\ n < ResponseAt
      BY <2>0, <3>1, HandlersOrdered DEF HandlersInTurn
    <3>3. \A n \in Nat : n \in 1..ResponseAt - 1 <=> 1 <= n /\ n < ResponseAt
      BY HandlersOrdered
    <3>4. 1..ResponseAt - 1 \subseteq Nat
      OBVIOUS
    <3> QED
      BY <3>2, <3>3, <3>4
  <2> QED
    BY <2>0, <2>1, <2>2 DEF OkIsEarned, PoliciesAsked
<1> QED
  BY <1>1, HttpInvInit, HttpInductive, PTL DEF HttpSpec

-----------------------------------------------------------------------------
(* LogFile.                                                                 *)

FileVarsOK ==
    /\ Buffer \in Seq(Nat) /\ WriteBuffer \in Seq(Nat) /\ stored \in Seq(Nat)
    /\ appends \in Seq(Seq(Nat))
    /\ flushes \in Nat /\ logged \in Nat
    /\ refused \subseteq Nat

(* Without overlap a flush waits or a write runs but not both, the write    *)
(* has the write buffer, and a buffer that is not empty has one of them.    *)
OneFlush ==
    ~overlapped =>
        /\ flushes + Len(appends) <= 1
        /\ Len(appends) = 1 => appends[1] = WriteBuffer
        /\ flushes + Len(appends) = 0 => WriteBuffer = <<>>
        /\ \A n \in refused : n <= logged

FileInv == FileVarsOK /\ OneFlush /\ InOrderUnlessOverlapped

(* One more entry, of a number above all of them, keeps the order.          *)
LEMMA RisingAppend ==
    ASSUME NEW s \in Seq(Nat), Rising(s), NEW n \in Nat, \A x \in ToSet(s) : x < n
    PROVE  Rising(Append(s, n)) /\ ToSet(Append(s, n)) = ToSet(s) \cup {n}
<1> DEFINE t == Append(s, n)
<1>1. /\ t \in Seq(Nat) /\ Len(t) = Len(s) + 1 /\ Len(s) \in Nat
      /\ \A i \in 1..Len(s) : t[i] = s[i]
      /\ t[Len(s) + 1] = n
  OBVIOUS
<1>2. DOMAIN s = 1..Len(s) /\ DOMAIN t = 1..Len(s) + 1
  BY <1>1
<1> HIDE DEF t
<1>3. \A i \in 1..Len(s) : s[i] < n
  BY <1>2 DEF ToSet
<1>4. Rising(t)
  <2> SUFFICES ASSUME NEW i \in DOMAIN t, NEW k \in DOMAIN t, i < k
               PROVE  t[i] < t[k]
    BY DEF Rising
  <2>1. i \in DOMAIN s /\ t[i] = s[i]
    BY <1>1, <1>2
  <2>2. CASE k = Len(s) + 1
    BY <1>1, <1>2, <1>3, <2>1, <2>2
  <2>3. CASE k # Len(s) + 1
    <3>1. k \in DOMAIN s /\ t[k] = s[k]
      BY <1>1, <1>2, <2>3
    <3> QED
      BY <2>1, <3>1 DEF Rising
  <2> QED
    BY <2>2, <2>3
<1>5. ToSet(t) = ToSet(s) \cup {n}
  <2>1. \A i \in DOMAIN t : t[i] \in ToSet(s) \cup {n}
    BY <1>1, <1>2 DEF ToSet
  <2>2. \A i \in DOMAIN s : s[i] \in ToSet(t)
    BY <1>1, <1>2 DEF ToSet
  <2>3. n \in ToSet(t)
    BY <1>1, <1>2 DEF ToSet
  <2>4. ToSet(t) \subseteq ToSet(s) \cup {n}
    BY <2>1 DEF ToSet
  <2>5. ToSet(s) \subseteq ToSet(t)
    BY <2>2 DEF ToSet
  <2> QED
    BY <2>3, <2>4, <2>5
<1> QED
  BY <1>4, <1>5 DEF t

(* The two facts about concatenation, as predicates the provers need not    *)
(* look into.                                                               *)
Joins(s, w, b) == (s \o w) \o b = s \o (w \o b)
Blunt(s) == s \o << >> = s

(* Concatenation is associative, whatever the elements are.                 *)
LEMMA ConcatJoins == \A S : \A x, y, z \in Seq(S) : Joins(x, y, z)
  BY ConcatAssociative, Zenon DEF Joins

(* So it is on sequences of numbers.                                        *)
LEMMA NatJoins == \A x, y, z \in Seq(Nat) : Joins(x, y, z)
  BY ConcatJoins, Zenon

(* The empty sequence adds nothing.                                         *)
LEMMA NatBlunt == \A x \in Seq(Nat) : Blunt(x)
  BY ConcatEmptySeq, Zenon DEF Blunt

(* A concatenation of sequences of numbers is one.                          *)
LEMMA NatConcatType == \A x, y \in Seq(Nat) : x \o y \in Seq(Nat)
  OBVIOUS

(* An appended number is a concatenated sequence of one.                    *)
LEMMA NatAppend == \A x \in Seq(Nat), n \in Nat : Append(x, n) = x \o <<n>>
  BY AppendIsConcat, Zenon

(* Sequences of numbers put together.                                       *)
LEMMA NatConcat ==
    ASSUME NEW s \in Seq(Nat), NEW w \in Seq(Nat), NEW b \in Seq(Nat)
    PROVE  /\ s \o w \in Seq(Nat) /\ s \o << >> = s
           /\ (s \o w) \o b = s \o (w \o b)
           /\ (s \o w) \o << >> \o b = s \o w \o b
           /\ s \o << >> \o b = s \o b
<1>1. s \o w \in Seq(Nat)
  BY NatConcatType, Zenon
<1>2. Blunt(s) /\ Blunt(s \o w) /\ Joins(s, w, b)
  BY <1>1, NatBlunt, NatJoins, Zenon
<1> QED
  BY <1>1, <1>2, Zenon DEF Blunt, Joins

(* What moves from one part to the part before it stays in its place.       *)
Stays(s, w, b) == s \o (w \o b) \o << >> = s \o w \o b
LEMMA MovedConcat == \A s, w, b \in Seq(Nat) : Stays(s, w, b)
<1> SUFFICES ASSUME NEW s \in Seq(Nat), NEW w \in Seq(Nat), NEW b \in Seq(Nat)
             PROVE  Stays(s, w, b)
  OBVIOUS
<1>1. s \o (w \o b) \in Seq(Nat)
  BY NatConcatType, Zenon
<1>2. Blunt(s \o (w \o b)) /\ Joins(s, w, b)
  BY <1>1, NatBlunt, NatJoins, Zenon
<1> QED
  BY <1>2, Zenon DEF Blunt, Joins, Stays

(* Appending to the end of a concatenation appends to its last part.        *)
Lands(s, b, n) == s \o Append(b, n) = Append(s \o b, n)
LEMMA AppendOfConcat == \A s, b \in Seq(Nat), n \in Nat : Lands(s, b, n)
<1> SUFFICES ASSUME NEW s \in Seq(Nat), NEW b \in Seq(Nat), NEW n \in Nat
             PROVE  Lands(s, b, n)
  OBVIOUS
<1>1. <<n>> \in Seq(Nat) /\ s \o b \in Seq(Nat)
  BY NatConcatType
<1>2. Append(b, n) = b \o <<n>>
  BY NatAppend, Zenon
<1>3. Append(s \o b, n) = (s \o b) \o <<n>>
  BY <1>1, NatAppend, Zenon
<1>4. Joins(s, b, <<n>>)
  BY <1>1, NatJoins, Zenon
<1> QED
  BY <1>2, <1>3, <1>4, Zenon DEF Joins, Lands

(* What a sequence in order loses in its middle leaves it in order.         *)
LEMMA RisingWithout ==
    ASSUME NEW s \in Seq(Nat), NEW w \in Seq(Nat), NEW b \in Seq(Nat), Rising(s \o w \o b)
    PROVE  /\ Rising(s \o b) /\ ToSet(s \o b) = ToSet(s \o w \o b) \ ToSet(w)
           /\ ToSet(w) \subseteq ToSet(s \o w \o b)
<1> DEFINE long == s \o w \o b
           short == s \o b
<1>1. /\ Len(s) \in Nat /\ Len(w) \in Nat /\ Len(b) \in Nat
      /\ DOMAIN s = 1..Len(s) /\ DOMAIN w = 1..Len(w) /\ DOMAIN b = 1..Len(b)
  OBVIOUS
<1>2. /\ long \in Seq(Nat)
      /\ DOMAIN long = 1..(Len(s) + Len(w) + Len(b))
      /\ \A i \in 1..Len(s) : long[i] = s[i]
      /\ \A i \in 1..Len(w) : long[Len(s) + i] = w[i]
      /\ \A i \in 1..Len(b) : long[Len(s) + Len(w) + i] = b[i]
  OBVIOUS
<1>3. /\ DOMAIN short = 1..(Len(s) + Len(b))
      /\ \A i \in 1..Len(s) : short[i] = s[i]
      /\ \A i \in 1..Len(b) : short[Len(s) + i] = b[i]
  OBVIOUS
<1> HIDE DEF long, short
<1>4. ASSUME NEW i \in DOMAIN short
      PROVE  \/ i \in 1..Len(s) /\ short[i] = long[i] /\ i \in DOMAIN long
             \/ /\ i \notin 1..Len(s) /\ i + Len(w) \in DOMAIN long
                /\ short[i] = long[i + Len(w)]
  <2>1. CASE i \in 1..Len(s)
    BY <1>1, <1>2, <1>3, <2>1
  <2>2. CASE i \notin 1..Len(s)
    <3>1. i - Len(s) \in 1..Len(b) /\ i = Len(s) + (i - Len(s))
      BY <1>1, <1>3, <2>2
    <3>2. short[i] = b[i - Len(s)] /\ long[Len(s) + Len(w) + (i - Len(s))] = b[i - Len(s)]
      BY <1>2, <1>3, <3>1
    <3>3. Len(s) + Len(w) + (i - Len(s)) = i + Len(w)
      BY <1>1, <3>1
    <3>4. i + Len(w) \in 1..Len(s) + Len(w) + Len(b)
      BY <1>1, <3>1
    <3>5. short[i] = long[i + Len(w)]
      BY <3>2, <3>3, Zenon
    <3> QED
      BY <1>2, <2>2, <3>4, <3>5, Zenon
  <2> QED
    BY <2>1, <2>2
<1>5. Rising(short)
  <2> SUFFICES ASSUME NEW i \in DOMAIN short, NEW k \in DOMAIN short, i < k
               PROVE  short[i] < short[k]
    BY DEF Rising
  <2>0. i \in Nat /\ k \in Nat /\ 1 <= i /\ 1 <= k
    BY <1>1, <1>3
  <2>1. PICK m \in {i, i + Len(w)} : m \in DOMAIN long /\ short[i] = long[m] /\ (m = i \/ i > Len(s))
    BY <1>1, <1>4, <2>0
  <2>2. PICK n \in {k, k + Len(w)} : n \in DOMAIN long /\ short[k] = long[n] /\ (n = k => k <= Len(s) \/ Len(w) = 0)
    BY <1>1, <1>4, <2>0
  <2>3. m < n
    BY <1>1, <2>0, <2>1, <2>2
  <2> QED
    BY <2>1, <2>2, <2>3 DEF Rising, long
<1>6. ToSet(short) \subseteq ToSet(long) \ ToSet(w)
  <2> SUFFICES ASSUME NEW i \in DOMAIN short
               PROVE  short[i] \in ToSet(long) /\ short[i] \notin ToSet(w)
    BY DEF ToSet
  <2>1. short[i] \in ToSet(long)
    BY <1>4 DEF ToSet
  <2>2. ASSUME NEW j \in 1..Len(w), w[j] = short[i]
        PROVE  FALSE
    <3>1. Len(s) + j \in DOMAIN long /\ long[Len(s) + j] = short[i]
      BY <1>1, <1>2, <2>2
    <3>2. i \in Nat /\ 1 <= i /\ j \in Nat /\ 1 <= j /\ j <= Len(w)
      BY <1>1, <1>3
    <3>3. PICK m \in DOMAIN long : m # Len(s) + j /\ short[i] = long[m]
      <4>1. CASE i \in 1..Len(s)
        BY <1>1, <1>4, <3>2, <4>1
      <4>2. CASE i \notin 1..Len(s)
        <5>1. i + Len(w) # Len(s) + j
          BY <1>1, <3>2, <4>2
        <5> QED
          BY <1>4, <4>2, <5>1
      <4> QED
        BY <4>1, <4>2
    <3>4. m < Len(s) + j \/ Len(s) + j < m
      <4>1. m \in Nat
        BY <1>1, <1>2, <3>3
      <4>2. Len(s) + j \in Nat
        BY <1>1, <3>2
      <4>3. \A x, y \in Nat : x # y => x < y \/ y < x
        OBVIOUS
      <4> QED
        BY <3>3, <4>1, <4>2, <4>3
    <3>5. long[m] < long[Len(s) + j] \/ long[Len(s) + j] < long[m]
      BY <3>1, <3>3, <3>4 DEF Rising, long
    <3>6. \A l \in Seq(Nat) : \A n \in DOMAIN l : l[n] \in Nat
      OBVIOUS
    <3>7. long[m] \in Nat
      BY <1>2, <3>3, <3>6, Zenon
    <3>8. \A x \in Nat : ~(x < x)
      OBVIOUS
    <3> QED
      BY <3>1, <3>3, <3>5, <3>7, <3>8, Zenon
  <2> QED
    BY <1>1, <2>1, <2>2 DEF ToSet
<1>7. ToSet(long) \ ToSet(w) \subseteq ToSet(short)
  <2> SUFFICES ASSUME NEW i \in DOMAIN long, long[i] \notin ToSet(w)
               PROVE  long[i] \in ToSet(short)
    BY DEF ToSet
  <2>1. CASE i \in 1..Len(s)
    BY <1>1, <1>2, <1>3, <2>1 DEF ToSet
  <2>2. CASE i - Len(s) \in 1..Len(w)
    <3>1. i = Len(s) + (i - Len(s))
      BY <1>1, <1>2
    <3> QED
      BY <1>1, <1>2, <2>2, <3>1 DEF ToSet
  <2>3. CASE i - (Len(s) + Len(w)) \in 1..Len(b)
    <3> DEFINE j == i - (Len(s) + Len(w))
    <3>0. i \in Nat /\ j \in Nat /\ 1 <= j /\ j <= Len(b)
      BY <1>1, <1>2, <2>3
    <3>1. i = Len(s) + Len(w) + j
      BY <1>1, <3>0
    <3> HIDE DEF j
    <3>2. j \in 1..Len(b) /\ Len(s) + j \in 1..Len(s) + Len(b)
      BY <1>1, <3>0
    <3>3. long[i] = b[j]
      BY <1>2, <3>1, <3>2, Zenon
    <3>4. short[Len(s) + j] = b[j] /\ Len(s) + j \in DOMAIN short
      BY <1>3, <3>2, Zenon
    <3> QED
      BY <3>3, <3>4 DEF ToSet
  <2>4. i \in 1..Len(s) \/ i - Len(s) \in 1..Len(w) \/ i - (Len(s) + Len(w)) \in 1..Len(b)
    <3>1. i \in 1..Len(s) + Len(w) + Len(b)
      BY <1>2, Zenon
    <3> QED
      BY <1>1, <3>1
  <2> QED
    BY <2>1, <2>2, <2>3, <2>4, Zenon
<1>8. ToSet(w) \subseteq ToSet(long)
  <2> SUFFICES ASSUME NEW j \in 1..Len(w)
               PROVE  w[j] \in ToSet(long)
    BY <1>1 DEF ToSet
  <2>1. Len(s) + j \in DOMAIN long /\ long[Len(s) + j] = w[j]
    BY <1>1, <1>2
  <2> QED
    BY <2>1 DEF ToSet
<1> QED
  BY <1>5, <1>6, <1>7, <1>8 DEF long, short

(* Nothing is logged at first.                                              *)
LEMMA FileInvInit == FileInit => FileInv
<1> SUFFICES ASSUME FileInit
             PROVE  FileInv
  OBVIOUS
<1>1. FileVarsOK
  BY DEF FileInit, FileVarsOK
<1>4. OneFlush
  BY DEF FileInit, OneFlush
<1>2. LogSoFar = << >>
  BY DEF FileInit, LogSoFar
<1>3. Rising(LogSoFar) /\ ToSet(LogSoFar) = {} /\ (1..logged) \ refused = {}
  BY <1>2 DEF FileInit, Rising, ToSet
<1> QED
  BY <1>1, <1>3, <1>4 DEF FileInv, InOrderUnlessOverlapped

(* An entry goes to the end of the buffer, or with it to the write buffer.  *)
LEMMA WriteKeepsOrder ==
    ASSUME FileInv, Write
    PROVE  FileInv'
<1>0. FileVarsOK /\ OneFlush /\ InOrderUnlessOverlapped
  BY DEF FileInv
<1>1. logged' = logged + 1 /\ UNCHANGED <<appends, stored, refused, fileDisposed>>
  BY DEF Write, historyVars
<1>2. WriteOnly \/ WriteAndSchedule
  BY DEF Write
<1>3. Append(Buffer, logged + 1) \in Seq(Nat)
  BY <1>0 DEF FileVarsOK
<1>4. FileVarsOK'
  <2>1. logged' \in Nat /\ flushes' \in Nat
    BY <1>0, <1>1, <1>2 DEF FileVarsOK, WriteOnly, WriteAndSchedule
  <2>2. Buffer' \in Seq(Nat) /\ WriteBuffer' \in Seq(Nat)
    <3>1. << >> \in Seq(Nat) /\ WriteBuffer \o Append(Buffer, logged + 1) \in Seq(Nat)
      BY <1>0, <1>3 DEF FileVarsOK
    <3> QED
      BY <1>0, <1>2, <1>3, <3>1 DEF FileVarsOK, WriteOnly, WriteAndSchedule
  <2> QED
    BY <1>0, <1>1, <2>1, <2>2 DEF FileVarsOK
<1>5. ASSUME ~overlapped'
      PROVE  /\ ~overlapped /\ ~fileDisposed
             /\ LogSoFar' = Append(LogSoFar, logged + 1)
  <2>1. CASE WriteOnly
    <3>1. ~overlapped /\ ~fileDisposed /\ Buffer' = Append(Buffer, logged + 1) /\ UNCHANGED WriteBuffer
      BY <1>0, <1>5, <2>1 DEF WriteOnly, FileVarsOK
    <3>2. /\ LogSoFar = stored \o WriteBuffer \o Buffer
          /\ LogSoFar' = stored \o WriteBuffer \o Append(Buffer, logged + 1)
      BY <1>1, <3>1 DEF LogSoFar
    <3>3. stored \o WriteBuffer \in Seq(Nat) /\ Buffer \in Seq(Nat) /\ logged + 1 \in Nat
      BY <1>0 DEF FileVarsOK
    <3>4. Lands(stored \o WriteBuffer, Buffer, logged + 1)
      BY <3>3, AppendOfConcat, Zenon
    <3> QED
      BY <3>1, <3>2, <3>4, Zenon DEF Lands
  <2>2. CASE WriteAndSchedule
    <3>1. /\ ~overlapped /\ ~fileDisposed /\ Buffer' = << >>
          /\ WriteBuffer' = WriteBuffer \o Append(Buffer, logged + 1)
      BY <1>0, <1>5, <2>2 DEF WriteAndSchedule, FileVarsOK, Busy
    <3>2. /\ LogSoFar = stored \o WriteBuffer \o Buffer
          /\ LogSoFar' = stored \o (WriteBuffer \o Append(Buffer, logged + 1)) \o << >>
      BY <1>1, <3>1 DEF LogSoFar
    <3>3. /\ stored \in Seq(Nat) /\ WriteBuffer \in Seq(Nat) /\ stored \o WriteBuffer \in Seq(Nat)
          /\ Buffer \in Seq(Nat) /\ logged + 1 \in Nat
      BY <1>0 DEF FileVarsOK
    <3>4. stored \o (WriteBuffer \o Append(Buffer, logged + 1)) \o << >>
            = (stored \o WriteBuffer) \o Append(Buffer, logged + 1)
      <4>1. Stays(stored, WriteBuffer, Append(Buffer, logged + 1))
        BY <1>3, <3>3, MovedConcat, Zenon
      <4> QED
        BY <4>1, Zenon DEF Stays
    <3>5. LogSoFar' = (stored \o WriteBuffer) \o Append(Buffer, logged + 1)
      BY <3>2, <3>4, Zenon
    <3>6. Lands(stored \o WriteBuffer, Buffer, logged + 1)
      BY <3>3, AppendOfConcat, Zenon
    <3> QED
      BY <3>1, <3>2, <3>5, <3>6, Zenon DEF Lands
  <2> QED
    BY <1>2, <2>1, <2>2
<1>6. OneFlush'
  <2> SUFFICES ASSUME ~overlapped'
               PROVE  /\ flushes' + Len(appends') <= 1
                      /\ Len(appends') = 1 => appends'[1] = WriteBuffer'
                      /\ flushes' + Len(appends') = 0 => WriteBuffer' = << >>
                      /\ \A n \in refused' : n <= logged'
    BY DEF OneFlush
  <2>1. \A n \in refused' : n <= logged'
    BY <1>0, <1>1, <1>5 DEF OneFlush, FileVarsOK
  <2>2. CASE WriteOnly
    BY <1>0, <1>1, <1>5, <2>1, <2>2 DEF OneFlush, WriteOnly
  <2>3. CASE WriteAndSchedule
    <3>0. flushes \in Nat /\ Len(appends) \in Nat
      BY <1>0 DEF FileVarsOK
    <3>1. ~(flushes + Len(appends) > 0)
      BY <1>5, <2>3 DEF WriteAndSchedule, Busy
    <3>2. flushes' = 1 /\ Len(appends') = 0
      BY <1>1, <2>3, <3>0, <3>1 DEF WriteAndSchedule
    <3> QED
      BY <2>1, <3>2
  <2> QED
    BY <1>2, <2>2, <2>3
<1>7. InOrderUnlessOverlapped'
  <2> SUFFICES ASSUME ~overlapped'
               PROVE  Rising(LogSoFar') /\ ToSet(LogSoFar') = (1..logged') \ refused'
    BY DEF InOrderUnlessOverlapped, Rising, ToSet
  <2>1. Rising(LogSoFar) /\ ToSet(LogSoFar) = (1..logged) \ refused
    BY <1>0, <1>5 DEF InOrderUnlessOverlapped
  <2>2. LogSoFar \in Seq(Nat) /\ logged \in Nat /\ \A n \in refused : n <= logged
    BY <1>0, <1>5 DEF FileVarsOK, LogSoFar, OneFlush
  <2>3. \A x \in ToSet(LogSoFar) : x < logged + 1
    BY <2>1, <2>2
  <2>4. /\ Rising(Append(LogSoFar, logged + 1))
        /\ ToSet(Append(LogSoFar, logged + 1)) = ((1..logged) \ refused) \cup {logged + 1}
    BY <2>1, <2>2, <2>3, RisingAppend
  <2>5. ((1..logged) \ refused) \cup {logged + 1} = (1..logged + 1) \ refused
    <3>1. \A n \in Nat : n \in 1..logged + 1 <=> n \in 1..logged \/ n = logged + 1
      BY <2>2
    <3>2. logged + 1 \notin refused
      BY <2>2
    <3> QED
      BY <2>2, <3>1, <3>2
  <2> QED
    BY <1>1, <1>5, <2>4, <2>5
<1> QED
  BY <1>4, <1>6, <1>7 DEF FileInv

(* A flush that is scheduled, or rushed by dispose(), puts the buffer into  *)
(* the write buffer, a write that ends well puts that into the file: the    *)
(* entries stay the same.                                                   *)
LEMMA MovingKeepsOrder ==
    ASSUME FileInv, FlushTimer \/ Flush \/ DisposeFile
    PROVE  FileInv'
<1>0. FileVarsOK /\ OneFlush /\ InOrderUnlessOverlapped
  BY DEF FileInv
<1>1. /\ stored \in Seq(Nat) /\ WriteBuffer \in Seq(Nat) /\ Buffer \in Seq(Nat)
      /\ << >> \in Seq(Nat) /\ WriteBuffer \o Buffer \in Seq(Nat)
      /\ flushes \in Nat /\ Len(appends) \in Nat
  BY <1>0 DEF FileVarsOK
<1>2. UNCHANGED <<stored, refused, logged>>
  BY DEF FlushTimer, Flush, DisposeFile, historyVars
<1>6. ~overlapped' => ~overlapped
  BY DEF FlushTimer, Flush, DisposeFile
<1>3. CASE FlushTimer
  <2>1. /\ ~fileDisposed /\ WriteBuffer' = WriteBuffer \o Buffer /\ Buffer' = << >>
        /\ flushes' = flushes + 1 /\ UNCHANGED <<appends, fileDisposed>>
        /\ overlapped' = (overlapped \/ Busy)
    BY <1>3 DEF FlushTimer
  <2>2. FileVarsOK'
    BY <1>0, <1>1, <1>2, <2>1 DEF FileVarsOK
  <2>3. OneFlush'
    <3> SUFFICES ASSUME ~overlapped'
                 PROVE  OneFlush'
      BY DEF OneFlush
    <3>1. ~overlapped /\ ~Busy
      BY <2>1
    <3>2. flushes' + Len(appends') = 1 /\ Len(appends') = 0
      BY <1>1, <2>1, <3>1 DEF Busy
    <3> QED
      BY <1>0, <1>2, <3>1, <3>2 DEF OneFlush
  <2>4. LogSoFar' = LogSoFar
    <3>1. /\ LogSoFar = stored \o WriteBuffer \o Buffer
          /\ LogSoFar' = stored \o (WriteBuffer \o Buffer) \o << >>
      BY <1>2, <2>1 DEF LogSoFar
    <3>2. Stays(stored, WriteBuffer, Buffer)
      BY <1>1, MovedConcat, Zenon
    <3> QED
      BY <3>1, <3>2, Zenon DEF Stays
  <2> QED
    BY <1>0, <1>2, <1>6, <2>2, <2>3, <2>4 DEF FileInv, InOrderUnlessOverlapped
<1>4. CASE Flush
  <2>1. /\ flushes > 0 /\ flushes' = flushes - 1
        /\ \/ WriteBuffer = << >> /\ UNCHANGED appends
           \/ WriteBuffer # << >> /\ appends' = Append(appends, WriteBuffer)
        /\ UNCHANGED <<Buffer, WriteBuffer, fileDisposed, overlapped>>
    BY <1>4 DEF Flush, FlushOf
  <2>2. FileVarsOK'
    <3>1. flushes' \in Nat
      BY <1>1, <2>1
    <3>2. appends' \in Seq(Seq(Nat))
      <4>1. appends \in Seq(Seq(Nat)) /\ Append(appends, WriteBuffer) \in Seq(Seq(Nat))
        BY <1>0, <1>1, AppendProperties DEF FileVarsOK
      <4> QED
        BY <2>1, <4>1
    <3> QED
      BY <1>0, <1>2, <2>1, <3>1, <3>2 DEF FileVarsOK
  <2>3. OneFlush'
    <3>1. CASE UNCHANGED appends
      BY <1>0, <1>1, <1>2, <2>1, <3>1 DEF OneFlush
    <3>2. CASE appends' = Append(appends, WriteBuffer)
      <4>1. /\ Len(appends') = Len(appends) + 1
            /\ Len(appends) = 0 => appends'[1] = WriteBuffer
        BY <1>0, <1>1, <3>2 DEF FileVarsOK
      <4> QED
        BY <1>0, <1>1, <1>2, <2>1, <4>1 DEF OneFlush
    <3> QED
      BY <2>1, <3>1, <3>2
  <2>4. LogSoFar' = LogSoFar
    BY <1>2, <2>1 DEF LogSoFar
  <2> QED
    BY <1>0, <1>2, <2>1, <2>2, <2>3, <2>4 DEF FileInv, InOrderUnlessOverlapped
<1>5. CASE DisposeFile
  <2>1. /\ ~fileDisposed /\ fileDisposed' /\ WriteBuffer' = WriteBuffer \o Buffer
        /\ \/ WriteBuffer' = << >> /\ UNCHANGED appends
           \/ appends' = Append(appends, WriteBuffer')
        /\ UNCHANGED <<Buffer, flushes>>
        /\ overlapped' = (overlapped \/ Busy)
    BY <1>5 DEF DisposeFile, FlushOf
  <2>2. FileVarsOK'
    <3>1. appends' \in Seq(Seq(Nat))
      <4>1. appends \in Seq(Seq(Nat)) /\ Append(appends, WriteBuffer \o Buffer) \in Seq(Seq(Nat))
        BY <1>0, <1>1, AppendProperties DEF FileVarsOK
      <4> QED
        BY <2>1, <4>1
    <3> QED
      BY <1>0, <1>1, <1>2, <2>1, <3>1 DEF FileVarsOK
  <2>3. OneFlush'
    <3> SUFFICES ASSUME ~overlapped'
                 PROVE  OneFlush'
      BY DEF OneFlush
    <3>0. ~overlapped /\ ~Busy
      BY <2>1
    <3>1. flushes = 0 /\ Len(appends) = 0 /\ ~overlapped
      BY <1>1, <3>0 DEF Busy
    <3>2. CASE UNCHANGED appends /\ WriteBuffer' = << >>
      BY <1>0, <1>2, <2>1, <3>1, <3>2 DEF OneFlush
    <3>3. CASE appends' = Append(appends, WriteBuffer')
      <4>1. Len(appends') = 1 /\ appends'[1] = WriteBuffer'
        BY <1>0, <1>1, <2>1, <3>1, <3>3 DEF FileVarsOK
      <4> QED
        BY <1>0, <1>2, <2>1, <3>1, <4>1 DEF OneFlush
    <3> QED
      BY <2>1, <3>2, <3>3
  <2>4. LogSoFar' = LogSoFar
    <3>1. /\ LogSoFar = stored \o WriteBuffer \o Buffer
          /\ LogSoFar' = stored \o (WriteBuffer \o Buffer) \o << >>
      BY <1>2, <2>1 DEF LogSoFar
    <3>2. Stays(stored, WriteBuffer, Buffer)
      BY <1>1, MovedConcat, Zenon
    <3> QED
      BY <3>1, <3>2, Zenon DEF Stays
  <2> QED
    BY <1>0, <1>2, <1>6, <2>2, <2>3, <2>4 DEF FileInv, InOrderUnlessOverlapped
<1> QED
  BY <1>3, <1>4, <1>5

(* A write ends: what it had is in the file, or is refused.                 *)
LEMMA AppendKeepsOrder ==
    ASSUME FileInv, NEW k \in DOMAIN appends, AppendSucceeds(k) \/ AppendFails(k)
    PROVE  FileInv'
<1>0. FileVarsOK /\ OneFlush /\ InOrderUnlessOverlapped
  BY DEF FileInv
<1>1. /\ WriteBuffer' = << >> /\ appends' = RemoveAt(appends, k)
      /\ UNCHANGED <<Buffer, flushes, logged, fileDisposed, overlapped>>
  BY DEF AppendSucceeds, AppendFails, AppendEnds, Written
<1>2. /\ stored \in Seq(Nat) /\ WriteBuffer \in Seq(Nat) /\ Buffer \in Seq(Nat)
      /\ << >> \in Seq(Nat) /\ appends[k] \in Seq(Nat)
      /\ flushes \in Nat /\ Len(appends) \in Nat /\ k \in 1..Len(appends)
  BY <1>0 DEF FileVarsOK
<1>3. /\ RemoveAt(appends, k) \in Seq(Seq(Nat))
      /\ Len(RemoveAt(appends, k)) = Len(appends) - 1
  <2> DEFINE before == SubSeq(appends, 1, k - 1)
             after == SubSeq(appends, k + 1, Len(appends))
  <2>0. \A i \in 1..Len(appends) : appends[i] \in Seq(Nat)
    BY <1>0, ElementOfSeq DEF FileVarsOK
  <2>1. before \in Seq(Seq(Nat)) /\ Len(before) = k - 1
    <3>1. 1 \in Int /\ k - 1 \in Int /\ \A i \in 1..k - 1 : appends[i] \in Seq(Nat)
      BY <1>2, <2>0
    <3>2. before \in Seq(Seq(Nat)) /\ Len(before) = IF 1 <= k - 1 THEN k - 1 - 1 + 1 ELSE 0
      BY <3>1, SubSeqProperties
    <3> QED
      BY <1>2, <3>2
  <2>2. after \in Seq(Seq(Nat)) /\ Len(after) = Len(appends) - k
    <3>1. k + 1 \in Int /\ Len(appends) \in Int /\ \A i \in k + 1..Len(appends) : appends[i] \in Seq(Nat)
      BY <1>2, <2>0
    <3>2. /\ after \in Seq(Seq(Nat))
          /\ Len(after) = IF k + 1 <= Len(appends) THEN Len(appends) - (k + 1) + 1 ELSE 0
      BY <3>1, SubSeqProperties
    <3> QED
      BY <1>2, <3>2
  <2> HIDE DEF before, after
  <2>3. before \o after \in Seq(Seq(Nat)) /\ Len(before \o after) = Len(before) + Len(after)
    BY <2>1, <2>2, ConcatProperties
  <2>4. RemoveAt(appends, k) = before \o after
    BY DEF RemoveAt, before, after
  <2>5. k \in Nat /\ (k - 1) + (Len(appends) - k) = Len(appends) - 1
    BY <1>2
  <2>6. Len(before \o after) = Len(appends) - 1
    BY <2>1, <2>2, <2>3, <2>5
  <2> QED
    BY <2>3, <2>4, <2>6, Zenon
<1>4. FileVarsOK'
  <2>1. stored' \in Seq(Nat)
    <3>1. stored \o appends[k] \in Seq(Nat)
      BY <1>2, NatConcat
    <3> QED
      BY <1>2, <3>1 DEF AppendSucceeds, AppendFails
  <2>2. refused' \subseteq Nat
    <3>1. ToSet(appends[k]) \subseteq Nat
      BY <1>2, ElementOfSeq DEF ToSet
    <3> QED
      BY <1>0, <3>1 DEF AppendSucceeds, AppendFails, FileVarsOK
  <2> QED
    BY <1>0, <1>1, <1>2, <1>3, <2>1, <2>2 DEF FileVarsOK
<1>5. ASSUME ~overlapped
      PROVE  flushes = 0 /\ Len(appends) = 1 /\ appends[k] = WriteBuffer
  <2>1. flushes + Len(appends) <= 1 /\ (Len(appends) = 1 => appends[1] = WriteBuffer)
    BY <1>0, <1>5 DEF OneFlush
  <2>2. /\ flushes \in Nat /\ Len(appends) \in Nat /\ flushes + Len(appends) <= 1
        /\ k \in Nat /\ 1 <= k /\ k <= Len(appends)
    BY <1>2, <2>1
  <2>3. \A f, n, j \in Nat : f + n <= 1 /\ 1 <= j /\ j <= n => n = 1 /\ f = 0 /\ j = 1
    OBVIOUS
  <2>4. Len(appends) = 1 /\ flushes = 0 /\ k = 1
    BY <2>2, <2>3, Zenon
  <2> QED
    BY <2>1, <2>4
<1>6. ASSUME ~overlapped
      PROVE  /\ Rising(LogSoFar') /\ ToSet(LogSoFar') = (1..logged') \ refused'
             /\ \A n \in refused' : n <= logged'
  <2> DEFINE b == IF fileDisposed THEN << >> ELSE Buffer
  <2>1. b \in Seq(Nat) /\ LogSoFar = stored \o WriteBuffer \o b
    BY <1>2 DEF LogSoFar
  <2>2. /\ Rising(LogSoFar) /\ ToSet(LogSoFar) = (1..logged) \ refused
        /\ \A n \in refused : n <= logged
    BY <1>0, <1>6 DEF InOrderUnlessOverlapped, OneFlush
  <2>3. LogSoFar' = stored' \o << >> \o b
    BY <1>1 DEF LogSoFar
  <2> HIDE DEF b
  <2>4. CASE AppendSucceeds(k)
    <3>1. stored' = stored \o WriteBuffer /\ UNCHANGED refused
      BY <1>5, <1>6, <2>4 DEF AppendSucceeds
    <3>2. LogSoFar' = LogSoFar
      <4>1. (stored \o WriteBuffer) \o << >> \o b = stored \o WriteBuffer \o b
        BY <1>2, <2>1, NatConcat, Zenon
      <4> QED
        BY <2>1, <2>3, <3>1, <4>1, Zenon
    <3> QED
      BY <1>1, <2>2, <3>1, <3>2
  <2>5. CASE AppendFails(k)
    <3>1. stored' = stored /\ refused' = refused \cup ToSet(WriteBuffer)
      BY <1>5, <1>6, <2>5 DEF AppendFails
    <3>2. LogSoFar' = stored \o b
      <4>1. stored \o << >> \o b = stored \o b
        BY <1>2, <2>1, NatConcat, Zenon
      <4> QED
        BY <2>3, <3>1, <4>1, Zenon
    <3>3. Rising(stored \o b) /\ ToSet(stored \o b) = ToSet(LogSoFar) \ ToSet(WriteBuffer)
      BY <1>2, <2>1, <2>2, RisingWithout
    <3>4. ToSet(WriteBuffer) \subseteq ToSet(LogSoFar)
      BY <1>2, <2>1, <2>2, RisingWithout
    <3> QED
      BY <1>1, <2>2, <3>1, <3>2, <3>3, <3>4
  <2> QED
    BY <2>4, <2>5
<1>7. OneFlush'
  BY <1>0, <1>1, <1>2, <1>3, <1>5, <1>6 DEF OneFlush
<1> QED
  BY <1>1, <1>4, <1>6, <1>7 DEF FileInv, InOrderUnlessOverlapped

(* The archive timer and its renames touch neither buffers nor writes.      *)
LEMMA FileInvStep == FileInv /\ [FileNext]_fileVars => FileInv'
<1> SUFFICES ASSUME FileInv, [FileNext]_fileVars
             PROVE  FileInv'
  OBVIOUS
<1>1. CASE Write
  BY <1>1, WriteKeepsOrder
<1>2. CASE FlushTimer \/ Flush \/ DisposeFile
  BY <1>2, MovingKeepsOrder
<1>3. CASE AppendStep
  BY <1>3, AppendKeepsOrder DEF AppendStep
<1>4. CASE ArchiveTimer \/ ArchiveNothing \/ ArchiveStarts \/ Archived \/ UNCHANGED fileVars
  <2>1. UNCHANGED <<Buffer, WriteBuffer, flushes, appends, logged, stored, refused,
                    fileDisposed, overlapped>>
    BY <1>4 DEF ArchiveTimer, ArchiveNothing, ArchiveStarts, Archived, fileVars, historyVars
  <2>2. UNCHANGED LogSoFar
    BY <2>1 DEF LogSoFar
  <2> QED
    BY <2>1, <2>2 DEF FileInv, FileVarsOK, OneFlush, InOrderUnlessOverlapped, Rising, ToSet
<1> QED
  BY <1>1, <1>2, <1>3, <1>4 DEF FileNext

(* As long as no two flushes overlap, FileTarget loses, repeats and         *)
(* reorders no entry, whatever the buffer size, and whatever writes fail.   *)
THEOREM LogInOrder == FileSpec => []InOrderUnlessOverlapped
<1>1. FileInv => InOrderUnlessOverlapped
  BY DEF FileInv
<1> QED
  BY <1>1, FileInvInit, FileInvStep, PTL DEF FileSpec

-----------------------------------------------------------------------------
(* LogArchive.                                                              *)

ArchiveRecords == [num : Nat, zip : BOOLEAN, of : Nat, whole : BOOLEAN]

(* The numbers have a bound, so that there is a last one.                   *)
ArchivesTyped ==
    /\ archived \subseteq ArchiveRecords
    /\ IsFiniteSet(archived)
    /\ \E b \in Nat : \A f \in archived : f.num <= b

ArchiveVarsOK ==
    /\ ArchivesTyped
    /\ compress \in BOOLEAN
    /\ filled \in Nat /\ logFile \in {0, filled}
    /\ \A m \in moving : /\ m = [stage |-> m.stage, num |-> m.num, zip |-> m.zip]
                         /\ m.num \in Nat /\ m.zip \in Nat
    /\ \A m, k \in moving : m = k

(* Without compression a log file gets a number above those in use.         *)
PlainNumbered ==
    ~compress =>
        /\ \A f \in archived : ~f.zip
        /\ \A m \in moving :
             m.stage = "renaming" /\ logFile # 0 /\ \A f \in archived : f.num < m.num
        /\ \A u \in unlinks : u.why = "limit"

Count == Cardinality(archived)

(* With it, the compressed archives are numbered by the count of archives:  *)
(* how that count and the numbers relate at each stage of archive() ...     *)
Numbered(m) ==
    \/ /\ m.stage = "renaming" /\ logFile # 0
       /\ m.zip = Count + 1
       /\ \A f \in archived : f.num < m.num
    \/ /\ m.stage = "renamed"
       /\ m.zip = Count
       /\ \A f \in archived : f.zip => f.num < m.zip
    \/ /\ m.stage = "zipping"
       /\ m.zip = Count - 1
       /\ \E p, z \in archived :
            /\ ~p.zip /\ p.num = m.num
            /\ z.zip /\ z.num = m.zip /\ z.of = p.of /\ z.whole = FALSE
            /\ \A f \in archived : f.zip /\ f # z => f.num < m.zip

(* ... and for the file that its end deletes, which holds nothing that is   *)
(* not in another one.                                                      *)
Spare(d) ==
    /\ d \in archived
    /\ d.zip => ~d.whole
    /\ ~d.zip => \E z \in archived : z.zip /\ z.of = d.of /\ z.whole
    /\ \A f \in archived : f.zip /\ f # d => f.num < Count

(* It goes well until the limit deletes an archive for the first time.      *)
ZipNumbered ==
    compress /\ deleted = {} =>
        /\ \A f, g \in archived : SameName(f, g) => f = g
        /\ \A f \in archived : (f.zip => f.num <= Count) /\ (~f.zip => f.whole)
        /\ \A m \in moving : Numbered(m)
        /\ \A u \in unlinks : u.why # "limit" =>
             Spare(u.file) /\ moving = {} /\ \A v \in unlinks : v.why # "limit" => v = u

ArchiveInv == ArchiveVarsOK /\ (counted => PlainNumbered /\ ZipNumbered /\ ArchivesKept)

(* With an extension that is not counted there is one number for all, and   *)
(* what holds is about the last log file: the plain archive that has it,    *)
(* while archive() is at work, and a name no deletion of its end is for.    *)
HasLast(f) == f \in archived /\ f.of = filled /\ f.whole

PlainOf(m, f) == ~f.zip /\ f.num = m.num

LastInMove(m) ==
    \/ m.stage = "renaming"
    \/ m.stage = "renamed" /\ \E f \in archived : HasLast(f) /\ PlainOf(m, f)
    \/ /\ m.stage = "zipping" /\ \E f \in archived : HasLast(f) /\ PlainOf(m, f)
       /\ \E z \in archived : z.zip /\ z.num = m.zip /\ z.of = filled

LastArchived ==
    /\ \E f \in archived : HasLast(f) /\ \A u \in unlinks : u.why = "limit" \/ ~SameName(f, u.file)
    /\ \A m \in moving : LastInMove(m)

Undisturbed == ~(compress /\ deleted # {})

LastKept ==
    /\ \A f, g \in archived : SameName(f, g) => f = g
    /\ \A m \in moving : m.stage = "renaming" => logFile # 0
    /\ moving # {} => \A u \in unlinks : u.why = "limit"
    /\ ~compress => \A m \in moving : m.stage = "renaming"
    /\ Undisturbed /\ logFile # filled /\ filled \notin deleted => LastArchived

(* A set of numbers that has a bound has a greatest element.                *)
LEMMA BoundedHasMax ==
    ASSUME NEW S \in SUBSET Nat, S # {}, NEW b \in Nat, \A x \in S : x <= b
    PROVE  Max(S) \in S /\ \A x \in S : x <= Max(S)
<1> DEFINE gaps == {b - x : x \in S}
<1>1. gaps \in SUBSET Nat /\ gaps # {}
  <2>1. \A x \in S : b - x \in Nat
    OBVIOUS
  <2> QED
    BY <2>1
<1>2. PICK k \in gaps : \A l \in gaps : <<l, k>> \notin OpToRel(<, Nat)
  BY <1>1, WFMin, NatLessThanWellFounded, Zenon
<1>3. \A l \in gaps : ~ (l < k)
  BY <1>1, <1>2, Zenon DEF OpToRel
<1>4. PICK m \in S : k = b - m
  BY <1>2
<1>5. \A x \in S : m >= x
  <2> SUFFICES ASSUME NEW x \in S
               PROVE  m >= x
    OBVIOUS
  <2>1. ~ (b - x < b - m)
    BY <1>3, <1>4
  <2>2. x \in Nat /\ m \in Nat
    OBVIOUS
  <2> QED
    BY <2>1, <2>2
<1>6. Max(S) \in S /\ \A x \in S : Max(S) >= x
  BY <1>5 DEF Max
<1> QED
  BY <1>6

(* No archive has a number above the last one.                              *)
LEMMA LastIsLast ==
    ArchiveVarsOK => /\ LastNumber \in Nat
                     /\ counted => \A f \in archived : f.num <= LastNumber
<1> SUFFICES ASSUME ArchiveVarsOK
             PROVE  /\ LastNumber \in Nat
                    /\ counted => \A f \in archived : f.num <= LastNumber
  OBVIOUS
<1> DEFINE S == {0} \cup {f.num : f \in {g \in archived : counted}}
<1>1. PICK b \in Nat : \A f \in archived : f.num <= b
  BY DEF ArchiveVarsOK, ArchivesTyped, ArchiveRecords
<1>2. S \in SUBSET Nat /\ S # {}
  BY DEF ArchiveVarsOK, ArchivesTyped, ArchiveRecords
<1>3. \A x \in S : x <= b
  BY <1>1
<1>4. Max(S) \in S /\ \A x \in S : x <= Max(S)
  <2> HIDE DEF S
  <2> QED
    BY <1>2, <1>3, BoundedHasMax
<1> QED
  BY <1>2, <1>4 DEF LastNumber

(* With no archive there is nothing to show.                                *)
LEMMA ArchiveInvInit == ArchiveInit => ArchiveInv
<1> SUFFICES ASSUME ArchiveInit
             PROVE  ArchiveInv
  OBVIOUS
<1>1. compress \in BOOLEAN /\ filled = 0 /\ logFile = 0
      /\ archived = {} /\ moving = {} /\ unlinks = {} /\ deleted = {}
  BY DEF ArchiveInit
<1>2. ArchiveVarsOK
  BY <1>1, FS_EmptySet DEF ArchiveVarsOK, ArchivesTyped, ArchiveRecords
<1>3. PlainNumbered
  BY <1>1 DEF PlainNumbered
<1>4. ZipNumbered
  BY <1>1 DEF ZipNumbered
<1>5. ArchivesKept
  BY <1>1 DEF ArchivesKept
<1> QED
  BY <1>2, <1>3, <1>4, <1>5 DEF ArchiveInv

(* Filling a log file, starting archive(), a failed rename and a restart    *)
(* leave the archives alone.                                                *)
LEMMA ArchivesUntouched ==
    ASSUME ArchiveInv, LogFills \/ ArchiveLog \/ ArchiverRestarts
                       \/ \E m \in moving : RenameFails(m)
    PROVE  ArchiveInv'
<1>0. ArchiveVarsOK /\ (counted => PlainNumbered /\ ZipNumbered /\ ArchivesKept)
  BY DEF ArchiveInv
<1>1. UNCHANGED <<compress, counted, archived, deleted>> /\ UNCHANGED Count
  BY DEF LogFills, ArchiveLog, ArchiverRestarts, RenameFails, Count
<1>2. CASE LogFills
  <2>1. logFile = 0 /\ filled' = filled + 1 /\ logFile' = filled + 1 /\ UNCHANGED <<moving, unlinks>>
    BY <1>2 DEF LogFills
  <2>2. ArchiveVarsOK'
    BY <1>0, <1>1, <2>1 DEF ArchiveVarsOK, ArchivesTyped, ArchiveRecords
  <2> SUFFICES ASSUME counted
               PROVE  ArchiveInv'
    BY <1>1, <2>2 DEF ArchiveInv
  <2>3. PlainNumbered'
    BY <1>0, <1>1, <2>1 DEF PlainNumbered
  <2>4. ZipNumbered'
    BY <1>0, <1>1, <2>1 DEF ZipNumbered, Numbered, Spare, SameName
  <2>5. ArchivesKept'
    <3> SUFFICES ASSUME NEW n \in 1..filled + 1
                 PROVE  \/ n = logFile'
                        \/ \E f \in archived : f.of = n /\ f.whole
                        \/ n \in deleted
                        \/ compress /\ deleted # {}
      BY <1>1, <2>1 DEF ArchivesKept
    <3>1. filled \in Nat
      BY <1>0 DEF ArchiveVarsOK, ArchivesTyped, ArchiveRecords
    <3>2. n = filled + 1 \/ (n \in 1..filled /\ n # logFile)
      BY <2>1, <3>1
    <3> QED
      BY <1>0, <2>1, <3>2 DEF ArchivesKept
  <2> QED
    BY <2>2, <2>3, <2>4, <2>5 DEF ArchiveInv
<1>3. CASE ArchiveLog
  <2> DEFINE m == [stage |-> "renaming", num |-> LastNumber + 1, zip |-> Cardinality(archived) + 1]
  <2>1. /\ logFile # 0 /\ UNCHANGED <<filled, logFile>> /\ moving' = {m}
        /\ \A u \in unlinks' : u.why = "limit"
    BY <1>3 DEF ArchiveLog
  <2>2. LastNumber \in Nat /\ (counted => \A f \in archived : f.num <= LastNumber)
    BY <1>0, LastIsLast
  <2>3. m = [stage |-> m.stage, num |-> m.num, zip |-> m.zip] /\ m.num = LastNumber + 1
        /\ m.stage = "renaming" /\ m.zip = Count + 1
    BY DEF Count
  <2> HIDE DEF m
  <2>10. m.zip \in Nat
    BY <1>0, <2>3, FS_CardinalityType DEF ArchiveVarsOK, ArchivesTyped, ArchiveRecords, Count
  <2>5. ArchiveVarsOK'
    BY <1>0, <1>1, <2>1, <2>2, <2>3, <2>10 DEF ArchiveVarsOK, ArchivesTyped, ArchiveRecords
  <2> SUFFICES ASSUME counted
               PROVE  ArchiveInv'
    BY <1>1, <2>5 DEF ArchiveInv
  <2>4. \A f \in archived : f.num < m.num
    <3>1. \A f \in archived : f.num \in Nat
      BY <1>0 DEF ArchiveVarsOK, ArchivesTyped, ArchiveRecords
    <3> QED
      BY <2>2, <2>3, <3>1
  <2>6. PlainNumbered'
    BY <1>0, <1>1, <2>1, <2>3, <2>4 DEF PlainNumbered
  <2>7. ZipNumbered'
    BY <1>0, <1>1, <2>1, <2>3, <2>4 DEF ZipNumbered, Numbered, SameName
  <2>8. ArchivesKept'
    BY <1>0, <1>1, <2>1 DEF ArchivesKept
  <2> QED
    BY <2>5, <2>6, <2>7, <2>8 DEF ArchiveInv
<1>4. CASE ArchiverRestarts \/ \E m \in moving : RenameFails(m)
  <2>1. /\ UNCHANGED <<filled, logFile>> /\ moving' = {}
        /\ unlinks' \in {{}, unlinks}
    BY <1>4 DEF ArchiverRestarts, RenameFails
  <2>2. ArchiveVarsOK'
    BY <1>0, <1>1, <2>1 DEF ArchiveVarsOK, ArchivesTyped, ArchiveRecords
  <2> SUFFICES ASSUME counted
               PROVE  ArchiveInv'
    BY <1>1, <2>2 DEF ArchiveInv
  <2>3. PlainNumbered'
    BY <1>0, <1>1, <2>1 DEF PlainNumbered
  <2>4. ZipNumbered'
    BY <1>0, <1>1, <2>1 DEF ZipNumbered, Spare, SameName
  <2>5. ArchivesKept'
    BY <1>0, <1>1, <2>1 DEF ArchivesKept
  <2> QED
    BY <2>2, <2>3, <2>4, <2>5 DEF ArchiveInv
<1> QED
  BY <1>2, <1>3, <1>4

(* A file that appears keeps the archives well-formed.                      *)
LEMMA AppearsTyped ==
    ASSUME ArchivesTyped, NEW new \in ArchiveRecords, Appears(new)
    PROVE  ArchivesTyped'
<1>1. archived' = {g \in archived : ~SameName(new, g)} \cup {new}
  BY DEF Appears
<1>2. PICK b \in Nat : \A f \in archived : f.num <= b
  BY DEF ArchivesTyped
<1>3. new.num \in Nat /\ \A f \in archived : f.num \in Nat
  BY DEF ArchivesTyped, ArchiveRecords
<1>4. b + new.num \in Nat /\ \A f \in archived' : f.num <= b + new.num
  BY <1>1, <1>2, <1>3
<1>5. \E c \in Nat : \A f \in archived' : f.num <= c
  BY <1>4
<1>6. archived' \subseteq ArchiveRecords
  BY <1>1 DEF ArchivesTyped
<1>7. IsFiniteSet(archived')
  <2>1. {g \in archived : ~SameName(new, g)} \in SUBSET archived
    OBVIOUS
  <2>2. IsFiniteSet({g \in archived : ~SameName(new, g)})
    BY <2>1, FS_Subset DEF ArchivesTyped
  <2> QED
    BY <1>1, <2>2, FS_AddElement
<1> QED
  BY <1>5, <1>6, <1>7 DEF ArchivesTyped

(* The log file becomes an archive under a number that no other one has.    *)
LEMMA RenamedKeeps ==
    ASSUME ArchiveInv, NEW m \in moving, Renamed(m)
    PROVE  ArchiveInv'
<1>0. ArchiveVarsOK /\ (counted => PlainNumbered /\ ZipNumbered /\ ArchivesKept)
  BY DEF ArchiveInv
<1> DEFINE new == Archive(m.num, FALSE, logFile, TRUE)
<1>1. /\ m.stage = "renaming" /\ logFile' = 0 /\ UNCHANGED <<compress, counted, filled, unlinks, deleted>>
      /\ archived' = {g \in archived : ~SameName(new, g)} \cup {new}
      /\ moving' = IF compress THEN {[m EXCEPT !.stage = "renamed"]} ELSE {}
  BY DEF Renamed, Appears
<1>2. new.num = m.num /\ new.zip = FALSE /\ new.of = logFile /\ new.whole = TRUE
  BY DEF Archive
<1>3. m.num \in Nat /\ new \in ArchiveRecords
  BY <1>0 DEF ArchiveVarsOK, ArchivesTyped, ArchiveRecords, Archive
<1>4. /\ m = [stage |-> m.stage, num |-> m.num, zip |-> m.zip]
      /\ [m EXCEPT !.stage = "renamed"] = [stage |-> "renamed", num |-> m.num, zip |-> m.zip]
  BY <1>0 DEF ArchiveVarsOK, ArchivesTyped, ArchiveRecords
<1> HIDE DEF new
<1>5. ArchiveVarsOK'
  <2>1. ArchivesTyped'
    BY <1>0, <1>1, <1>3, AppearsTyped DEF Appears, ArchiveVarsOK, ArchivesTyped, ArchiveRecords
  <2>2. /\ \A k \in moving' : k = [stage |-> k.stage, num |-> k.num, zip |-> k.zip] /\ k.num \in Nat
        /\ \A k \in moving' : k.zip \in Nat
        /\ \A k, l \in moving' : k = l
    BY <1>0, <1>1, <1>3, <1>4 DEF ArchiveVarsOK, ArchivesTyped, ArchiveRecords
  <2> QED
    BY <1>0, <1>1, <2>1, <2>2 DEF ArchiveVarsOK, ArchivesTyped, ArchiveRecords
<1> SUFFICES ASSUME counted
             PROVE  ArchiveInv'
  BY <1>1, <1>5 DEF ArchiveInv
<1>6. CASE compress /\ deleted # {}
  BY <1>0, <1>1, <1>5, <1>6 DEF ArchiveInv, PlainNumbered, ZipNumbered, ArchivesKept
<1>7. CASE ~compress \/ deleted = {}
  <2>1. logFile # 0 /\ \A f \in archived : f.num < m.num
    BY <1>0, <1>1, <1>7 DEF PlainNumbered, ZipNumbered, Numbered, ArchiveVarsOK, ArchivesTyped, ArchiveRecords
  <2>2. \A f \in archived : f.num \in Nat
    BY <1>0 DEF ArchiveVarsOK, ArchivesTyped, ArchiveRecords
  <2>3. new \notin archived /\ \A g \in archived : ~SameName(new, g) /\ ~SameName(g, new)
    BY <1>2, <1>3, <2>1, <2>2 DEF SameName
  <2>4. archived' = archived \cup {new}
    BY <1>1, <2>3
  <2>5. PlainNumbered'
    BY <1>0, <1>1, <1>2, <2>4 DEF PlainNumbered
  <2>6. ZipNumbered'
    <3> SUFFICES ASSUME compress, deleted = {}
                 PROVE  ZipNumbered'
      BY <1>1 DEF ZipNumbered
    <3>1. m.zip = Count + 1
      BY <1>0, <1>1 DEF ZipNumbered, Numbered
    <3>2. Count \in Nat /\ Count' = Count + 1
      BY <1>0, <2>3, <2>4, FS_AddElement, FS_CardinalityType DEF Count, ArchiveVarsOK, ArchivesTyped, ArchiveRecords
    <3>3. \A f, g \in archived' : SameName(f, g) => f = g
      BY <1>0, <2>3, <2>4 DEF ZipNumbered
    <3>4. \A f \in archived' : /\ f.zip => f \in archived /\ f.num <= Count
                               /\ ~f.zip => f.whole
      BY <1>0, <1>2, <2>4 DEF ZipNumbered
    <3>5. \A f \in archived' : f.zip => f.num < Count' /\ f.num <= Count'
      <4> SUFFICES ASSUME NEW f \in archived', f.zip
                   PROVE  f.num < Count' /\ f.num <= Count'
        OBVIOUS
      <4>1. f \in archived /\ f.num <= Count
        BY <3>4
      <4> QED
        BY <2>2, <3>2, <4>1
    <3>6. \A k \in moving' : Numbered(k)'
      BY <1>1, <1>4, <3>1, <3>2, <3>5 DEF Numbered
    <3>7. \A u \in unlinks' : u.why = "limit"
      BY <1>0, <1>1 DEF ZipNumbered
    <3> QED
      BY <3>3, <3>4, <3>5, <3>6, <3>7 DEF ZipNumbered, SameName
  <2>7. ArchivesKept'
    BY <1>0, <1>1, <1>2, <2>4 DEF ArchivesKept
  <2> QED
    BY <1>5, <2>5, <2>6, <2>7 DEF ArchiveInv
<1> QED
  BY <1>6, <1>7

(* createWriteStream opens a file that is not there yet.                    *)
LEMMA ZipStartKeeps ==
    ASSUME ArchiveInv, NEW m \in moving, ZipStarts(m)
    PROVE  ArchiveInv'
<1>0. ArchiveVarsOK /\ (counted => PlainNumbered /\ ZipNumbered /\ ArchivesKept)
  BY DEF ArchiveInv
<1>1. PICK p \in archived :
        /\ SameName(p, Archive(m.num, FALSE, 0, TRUE))
        /\ Appears(Archive(m.zip, TRUE, p.of, FALSE))
  BY DEF ZipStarts
<1>2. p.num = m.num /\ ~p.zip
  BY <1>1 DEF SameName, Archive
<1> DEFINE new == Archive(m.zip, TRUE, p.of, FALSE)
<1>3. /\ m.stage = "renamed" /\ UNCHANGED <<compress, counted, filled, logFile, unlinks, deleted>>
      /\ archived' = {g \in archived : ~SameName(new, g)} \cup {new}
      /\ moving' = {[m EXCEPT !.stage = "zipping"]}
  BY <1>1 DEF ZipStarts, Appears
<1>4. new.num = m.zip /\ new.zip = TRUE /\ new.of = p.of /\ new.whole = FALSE
  BY DEF Archive
<1>5. m.zip \in Nat /\ new \in ArchiveRecords
  BY <1>0 DEF ArchiveVarsOK, ArchivesTyped, ArchiveRecords, Archive
<1>6. [m EXCEPT !.stage = "zipping"] = [stage |-> "zipping", num |-> m.num, zip |-> m.zip]
  BY <1>0 DEF ArchiveVarsOK, ArchivesTyped, ArchiveRecords
<1> HIDE DEF new
<1>7. ArchiveVarsOK'
  <2>1. ArchivesTyped'
    BY <1>0, <1>3, <1>5, AppearsTyped DEF Appears, ArchiveVarsOK, ArchivesTyped, ArchiveRecords
  <2>2. /\ \A k \in moving' : k = [stage |-> k.stage, num |-> k.num, zip |-> k.zip] /\ k.num \in Nat
        /\ \A k \in moving' : k.zip \in Nat
        /\ \A k, l \in moving' : k = l
    BY <1>0, <1>3, <1>5, <1>6 DEF ArchiveVarsOK, ArchivesTyped, ArchiveRecords
  <2> QED
    BY <1>0, <1>3, <2>1, <2>2 DEF ArchiveVarsOK, ArchivesTyped, ArchiveRecords
<1> SUFFICES ASSUME counted
             PROVE  ArchiveInv'
  BY <1>3, <1>7 DEF ArchiveInv
<1>8. compress
  BY <1>0, <1>3 DEF PlainNumbered
<1>9. PlainNumbered'
  BY <1>3, <1>8 DEF PlainNumbered
<1>10. CASE deleted # {}
  BY <1>0, <1>3, <1>7, <1>8, <1>9, <1>10 DEF ArchiveInv, ZipNumbered, ArchivesKept
<1>11. CASE deleted = {}
  <2>1. m.zip = Count /\ \A f \in archived : f.zip => f.num < m.zip
    BY <1>0, <1>3, <1>8, <1>11 DEF ZipNumbered, Numbered
  <2>2. \A f \in archived : f.num \in Nat
    BY <1>0 DEF ArchiveVarsOK, ArchivesTyped, ArchiveRecords
  <2>3. new \notin archived /\ \A g \in archived : ~SameName(new, g) /\ ~SameName(g, new)
    BY <1>4, <1>5, <2>1, <2>2 DEF SameName
  <2>4. archived' = archived \cup {new}
    BY <1>3, <2>3
  <2>5. Count \in Nat /\ Count' = Count + 1
    BY <1>0, <2>3, <2>4, FS_AddElement, FS_CardinalityType DEF Count, ArchiveVarsOK, ArchivesTyped, ArchiveRecords
  <2>6. ZipNumbered'
    <3>1. \A f, g \in archived' : SameName(f, g) => f = g
      BY <1>0, <1>8, <1>11, <2>3, <2>4 DEF ZipNumbered
    <3>2. \A f \in archived' : f.zip /\ f # new => f.num < m.zip
      BY <2>1, <2>4
    <3>3. \A f \in archived' : f.zip => f.num <= Count'
      <4> SUFFICES ASSUME NEW f \in archived', f.zip
                   PROVE  f.num <= Count'
        OBVIOUS
      <4>1. CASE f = new
        BY <1>4, <2>1, <2>5, <4>1
      <4>2. CASE f # new
        BY <2>1, <2>2, <2>4, <2>5, <4>2
      <4> QED
        BY <4>1, <4>2
    <3>4. \A f \in archived' : ~f.zip => f.whole
      BY <1>0, <1>4, <1>8, <1>11, <2>4 DEF ZipNumbered
    <3>5. \A k \in moving' : Numbered(k)'
      <4>1. m.zip = Count' - 1 /\ p \in archived' /\ new \in archived'
        BY <2>1, <2>4, <2>5
      <4> QED
        BY <1>2, <1>3, <1>4, <1>6, <3>2, <4>1 DEF Numbered
    <3>6. \A u \in unlinks' : u.why = "limit"
      BY <1>0, <1>3, <1>8, <1>11 DEF ZipNumbered
    <3> QED
      BY <3>1, <3>3, <3>4, <3>5, <3>6 DEF ZipNumbered, SameName
  <2>7. ArchivesKept'
    BY <1>0, <1>3, <2>4 DEF ArchivesKept
  <2> QED
    BY <1>7, <1>9, <2>6, <2>7 DEF ArchiveInv
<1> QED
  BY <1>10, <1>11

(* The compression ends, and its input or its failed output is spare.       *)
LEMMA ZipEndKeeps ==
    ASSUME ArchiveInv, NEW m \in moving, NEW ok \in BOOLEAN, ZipEnds(m, ok)
    PROVE  ArchiveInv'
<1>0. ArchiveVarsOK /\ (counted => PlainNumbered /\ ZipNumbered /\ ArchivesKept)
  BY DEF ArchiveInv
<1> DEFINE Ended(f) == IF f.zip /\ f.num = m.zip THEN [f EXCEPT !.whole = ok] ELSE f
<1>1. /\ m.stage = "zipping" /\ UNCHANGED <<compress, counted, filled, logFile, deleted>> /\ moving' = {}
      /\ archived' = {Ended(f) : f \in archived}
      /\ unlinks' = unlinks \cup {[file |-> f, why |-> "done"] : f \in Unlinked(m, ok)}
  BY DEF ZipEnds
<1>2. \A f \in archived : /\ Ended(f) \in ArchiveRecords /\ Ended(f).num = f.num
                         /\ Ended(f).zip = f.zip /\ Ended(f).of = f.of
  BY <1>0 DEF ArchiveVarsOK, ArchivesTyped, ArchiveRecords
<1>3. ArchivesTyped'
  <2>1. PICK b \in Nat : \A f \in archived : f.num <= b
    BY <1>0 DEF ArchiveVarsOK, ArchivesTyped
  <2>2. \A f \in archived' : f.num <= b
    BY <1>1, <1>2, <2>1
  <2>3. IsFiniteSet(archived')
    <3> DEFINE F == [f \in archived |-> Ended(f)]
    <3>1. F \in Surjection(archived, archived')
      BY <1>1 DEF Surjection
    <3> QED
      BY <1>0, <3>1, FS_Surjection DEF ArchiveVarsOK, ArchivesTyped
  <2> QED
    BY <1>1, <1>2, <2>2, <2>3 DEF ArchivesTyped
<1>4. ArchiveVarsOK'
  BY <1>0, <1>1, <1>3 DEF ArchiveVarsOK
<1> SUFFICES ASSUME counted
             PROVE  ArchiveInv'
  BY <1>1, <1>4 DEF ArchiveInv
<1>5. compress
  BY <1>0, <1>1 DEF PlainNumbered
<1>6. PlainNumbered'
  BY <1>1, <1>5 DEF PlainNumbered
<1>7. CASE deleted # {}
  BY <1>0, <1>1, <1>4, <1>5, <1>6, <1>7 DEF ArchiveInv, ZipNumbered, ArchivesKept
<1>8. CASE deleted = {}
  <2>1. m.zip = Count - 1 /\ \A f, g \in archived : SameName(f, g) => f = g
    BY <1>0, <1>1, <1>5, <1>8 DEF ZipNumbered, Numbered
  <2>2. PICK p, z \in archived :
            /\ ~p.zip /\ p.num = m.num
            /\ z.zip /\ z.num = m.zip /\ z.of = p.of /\ z.whole = FALSE
            /\ \A f \in archived : f.zip /\ f # z => f.num < m.zip
    BY <1>0, <1>1, <1>5, <1>8 DEF ZipNumbered, Numbered
  <2> DEFINE end == [z EXCEPT !.whole = ok]
  <2>3. end \in ArchiveRecords /\ end.num = m.zip /\ end.zip /\ end.of = p.of /\ end.whole = ok
    BY <1>0, <2>2 DEF ArchiveVarsOK, ArchivesTyped, ArchiveRecords
  <2>4. \A f \in archived : Ended(f) = IF f = z THEN end ELSE f
    BY <2>1, <2>2 DEF SameName
  <2> HIDE DEF Ended, end
  <2>5. archived' = (archived \ {z}) \cup {end}
    BY <1>1, <2>2, <2>4
  <2>6. end \notin archived \ {z}
    BY <2>1, <2>2, <2>3 DEF SameName
  <2>7. Count \in Nat /\ Count' = Count
    <3>1. IsFiniteSet(archived \ {z}) /\ Cardinality(archived \ {z}) = Cardinality(archived) - 1
      BY <1>0, <2>2, FS_RemoveElement DEF ArchiveVarsOK, ArchivesTyped
    <3>2. Cardinality((archived \ {z}) \cup {end}) = Cardinality(archived \ {z}) + 1
      BY <2>6, <3>1, FS_AddElement
    <3>3. Cardinality(archived) \in Nat
      BY <1>0, FS_CardinalityType DEF ArchiveVarsOK, ArchivesTyped
    <3> QED
      BY <2>5, <3>1, <3>2, <3>3 DEF Count
  <2>8. m.zip \in Nat /\ m.zip < Count /\ p # z /\ p \in archived' /\ end \in archived'
    BY <1>0, <2>1, <2>2, <2>5, <2>7 DEF ArchiveVarsOK
  <2>9. \A f, g \in archived' : SameName(f, g) => f = g
    <3>1. \A f \in archived \ {z} : ~SameName(f, z) /\ ~SameName(z, f)
      BY <2>1, <2>2
    <3>2. \A f \in archived \ {z} : ~SameName(f, end) /\ ~SameName(end, f)
      BY <2>2, <2>3, <3>1 DEF SameName
    <3> QED
      BY <2>1, <2>5, <3>2
  <2>10. \A f \in archived' : f.zip => f.num < Count' /\ f.num <= Count'
    <3> SUFFICES ASSUME NEW f \in archived', f.zip
                 PROVE  f.num < Count' /\ f.num <= Count'
      OBVIOUS
    <3>1. f.num \in Nat /\ (f.num < m.zip \/ f.num = m.zip)
      BY <1>3, <2>2, <2>3, <2>5 DEF ArchivesTyped, ArchiveRecords
    <3> QED
      BY <2>7, <2>8, <3>1
  <2>11. \A f \in archived' : ~f.zip => f.whole
    BY <1>0, <1>5, <1>8, <2>3, <2>5 DEF ZipNumbered
  <2>12. \A u \in unlinks : u.why = "limit"
    BY <1>0, <1>5, <1>8 DEF ZipNumbered
  <2> DEFINE d == IF ok THEN p ELSE z
  <2>13. Unlinked(m, ok) = {d}
    <3>1. CASE ok
      <4>1. \A f \in archived : f.zip \in BOOLEAN
        BY <1>0 DEF ArchiveVarsOK, ArchivesTyped, ArchiveRecords
      <4>2. \A f \in archived : ~f.zip /\ f.num = m.num <=> f = p
        BY <2>1, <2>2, <4>1 DEF SameName
      <4> QED
        BY <3>1, <4>2 DEF Unlinked
    <3>2. CASE ~ok
      <4>1. \A f \in archived : f.zip /\ f.num = m.zip <=> f = z
        BY <2>1, <2>2 DEF SameName
      <4> QED
        BY <3>2, <4>1 DEF Unlinked
    <3> QED
      BY <3>1, <3>2
  <2>14. Spare(d)'
    <3>1. \A f \in archived' : f.zip => f.num < Count'
      BY <2>10
    <3>2. CASE ok
      BY <2>2, <2>3, <2>8, <3>1, <3>2 DEF Spare
    <3>3. CASE ~ok
      <4>1. end = z
        BY <1>0, <2>2, <3>3 DEF end, ArchiveVarsOK, ArchivesTyped, ArchiveRecords
      <4> QED
        BY <2>2, <2>8, <3>1, <3>3, <4>1 DEF Spare
    <3> QED
      BY <3>2, <3>3
  <2>15. \A u \in unlinks' : u.why # "limit" => u = [file |-> d, why |-> "done"]
    BY <1>1, <2>12, <2>13
  <2>16. ZipNumbered'
    <3>1. \A u \in unlinks' : u.why # "limit" => u.file = d
      BY <2>15
    <3> QED
      BY <1>1, <2>9, <2>10, <2>11, <2>14, <2>15, <3>1 DEF ZipNumbered, SameName
  <2>17. ArchivesKept'
    <3> SUFFICES ASSUME NEW n \in 1..filled, n # logFile, n \notin deleted
                 PROVE  \E f \in archived' : f.of = n /\ f.whole
      BY <1>1 DEF ArchivesKept
    <3>1. PICK f \in archived : f.of = n /\ f.whole
      BY <1>0, <1>8 DEF ArchivesKept
    <3> QED
      BY <2>2, <2>5, <3>1
  <2> QED
    BY <1>4, <1>6, <2>16, <2>17 DEF ArchiveInv
<1> QED
  BY <1>7, <1>8

(* What unlink() deletes is spare, or goes for the limit.                   *)
LEMMA UnlinkKeeps ==
    ASSUME ArchiveInv, NEW u \in unlinks, UnlinkEnds(u)
    PROVE  ArchiveInv'
<1>0. ArchiveVarsOK /\ (counted => PlainNumbered /\ ZipNumbered /\ ArchivesKept)
  BY DEF ArchiveInv
<1>1. unlinks' = unlinks \ {u} /\ UNCHANGED <<compress, counted, filled, logFile, moving>>
  BY DEF UnlinkEnds
<1>2. CASE UNCHANGED <<archived, deleted>>
  <2>1. ArchiveVarsOK'
    BY <1>0, <1>1, <1>2 DEF ArchiveVarsOK, ArchivesTyped
  <2> SUFFICES ASSUME counted
               PROVE  ArchiveInv'
    BY <1>1, <2>1 DEF ArchiveInv
  <2>2. PlainNumbered'
    BY <1>0, <1>1, <1>2 DEF PlainNumbered
  <2>3. ZipNumbered'
    BY <1>0, <1>1, <1>2 DEF ZipNumbered, Numbered, Spare, Count, SameName
  <2>4. ArchivesKept'
    BY <1>0, <1>1, <1>2 DEF ArchivesKept
  <2> QED
    BY <2>1, <2>2, <2>3, <2>4 DEF ArchiveInv
<1>3. CASE /\ archived' = {f \in archived : ~SameName(f, u.file)}
           /\ deleted' = deleted \cup {f.of : f \in {g \in archived : u.why = "limit" /\ SameName(g, u.file)}}
  <2>1. ArchiveVarsOK'
    <3>1. archived' \in SUBSET archived
      BY <1>3
    <3>2. IsFiniteSet(archived')
      BY <1>0, <3>1, FS_Subset DEF ArchiveVarsOK, ArchivesTyped
    <3>3. PICK b \in Nat : \A f \in archived : f.num <= b
      BY <1>0 DEF ArchiveVarsOK, ArchivesTyped
    <3>4. \E c \in Nat : \A f \in archived' : f.num <= c
      BY <3>1, <3>3
    <3> QED
      BY <1>0, <1>1, <3>1, <3>2, <3>4 DEF ArchiveVarsOK, ArchivesTyped
  <2> SUFFICES ASSUME counted
               PROVE  ArchiveInv'
    BY <1>1, <2>1 DEF ArchiveInv
  <2>2. PlainNumbered'
    BY <1>0, <1>1, <1>3 DEF PlainNumbered
  <2>3. CASE u.why = "limit"
    <3>1. \A f \in archived : f \in archived' \/ f.of \in deleted'
      BY <1>3, <2>3
    <3>2. deleted \subseteq deleted'
      BY <1>3
    <3>3. ArchivesKept'
      <4> SUFFICES ASSUME NEW n \in 1..filled, n # logFile, n \notin deleted',
                          ~(compress /\ deleted' # {})
                   PROVE  \E f \in archived' : f.of = n /\ f.whole
        BY <1>1 DEF ArchivesKept
      <4>1. PICK f \in archived : f.of = n /\ f.whole
        BY <1>0, <3>2 DEF ArchivesKept
      <4> QED
        BY <3>1, <4>1
    <3>4. ZipNumbered'
      <4> SUFFICES ASSUME compress, deleted' = {}
                   PROVE  ZipNumbered'
        BY <1>1 DEF ZipNumbered
      <4>1. archived' = archived /\ deleted = {}
        BY <1>3, <3>1, <3>2
      <4> QED
        BY <1>0, <1>1, <4>1 DEF ZipNumbered, Numbered, Spare, Count, SameName
    <3> QED
      BY <2>1, <2>2, <3>3, <3>4 DEF ArchiveInv
  <2>4. CASE u.why # "limit"
    <3>1. deleted' = deleted
      BY <1>3, <2>4
    <3>2. compress
      BY <1>0, <2>4 DEF PlainNumbered
    <3>3. CASE deleted # {}
      BY <1>0, <1>1, <2>1, <2>2, <3>1, <3>2, <3>3 DEF ArchiveInv, ZipNumbered, ArchivesKept
    <3>4. CASE deleted = {}
      <4> DEFINE d == u.file
      <4>1. /\ \A f, g \in archived : SameName(f, g) => f = g
            /\ \A f \in archived : (f.zip => f.num <= Count) /\ (~f.zip => f.whole)
            /\ Spare(d) /\ moving = {} /\ \A v \in unlinks : v.why # "limit" => v = u
        BY <1>0, <2>4, <3>2, <3>4 DEF ZipNumbered
      <4>2. d \in archived /\ archived' = archived \ {d}
        <5>1. d \in archived /\ SameName(d, d)
          BY <4>1 DEF Spare, SameName
        <5> QED
          BY <1>3, <4>1, <5>1
      <4>3. Count \in Nat /\ Count' = Count - 1
        BY <1>0, <4>2, FS_RemoveElement, FS_CardinalityType DEF Count, ArchiveVarsOK, ArchivesTyped
      <4>4. \A f \in archived' : f.zip => f.num <= Count'
        <5> SUFFICES ASSUME NEW f \in archived', f.zip
                     PROVE  f.num <= Count'
          OBVIOUS
        <5>1. f.num < Count /\ f.num \in Nat
          BY <1>0, <4>1, <4>2 DEF Spare, ArchiveVarsOK, ArchivesTyped, ArchiveRecords
        <5> QED
          BY <4>3, <5>1
      <4>5. ZipNumbered'
        BY <1>1, <4>1, <4>2, <4>4 DEF ZipNumbered, SameName
      <4>6. ArchivesKept'
        <5> SUFFICES ASSUME NEW n \in 1..filled, n # logFile, n \notin deleted
                     PROVE  \E f \in archived' : f.of = n /\ f.whole
          BY <1>1, <3>1 DEF ArchivesKept
        <5>1. PICK f \in archived : f.of = n /\ f.whole
          BY <1>0, <3>4 DEF ArchivesKept
        <5> QED
          BY <4>1, <4>2, <5>1 DEF Spare
      <4> QED
        BY <2>1, <2>2, <4>5, <4>6 DEF ArchiveInv
    <3> QED
      BY <3>3, <3>4
  <2> QED
    BY <2>3, <2>4
<1> QED
  BY <1>2, <1>3 DEF UnlinkEnds

(* A file that appears is the only one of its name.                         *)
LEMMA AppearsOnce ==
    ASSUME \A f, g \in archived : SameName(f, g) => f = g, NEW new, Appears(new)
    PROVE  /\ \A f, g \in archived' : SameName(f, g) => f = g
           /\ new \in archived'
           /\ \A f \in archived : ~SameName(new, f) => f \in archived'
  BY DEF Appears, SameName

(* Every step keeps the last log file.                                      *)
LEMMA LastKeptStep ==
    ASSUME ArchiveVarsOK, LastKept, [ArchiveNext]_archiveDirVars
    PROVE  LastKept'
<1>1. CASE LogFills
  <2>1. /\ UNCHANGED <<compress, archived, moving, unlinks, deleted>>
        /\ filled' = filled + 1 /\ logFile' = filled + 1
    BY <1>1 DEF LogFills
  <2>2. logFile' # 0
    BY <2>1 DEF ArchiveVarsOK
  <2> QED
    BY <2>1, <2>2 DEF LastKept, SameName
<1>2. CASE ArchiveLog
  <2>1. /\ UNCHANGED <<compress, archived, filled, logFile, deleted>>
        /\ logFile # 0 /\ \A u \in unlinks' : u.why = "limit"
        /\ \A m \in moving' : m.stage = "renaming"
    BY <1>2 DEF ArchiveLog
  <2>2. logFile = filled
    BY <2>1 DEF ArchiveVarsOK
  <2> QED
    BY <2>1, <2>2 DEF LastKept, SameName
<1>3. CASE ArchiverRestarts \/ \E m \in moving : RenameFails(m)
  <2>1. /\ UNCHANGED <<compress, archived, filled, logFile, deleted>>
        /\ moving' = {} /\ unlinks' \subseteq unlinks
    BY <1>3 DEF ArchiverRestarts, RenameFails
  <2>2. LastArchived => LastArchived'
    BY <2>1 DEF LastArchived, HasLast, SameName
  <2> QED
    BY <2>1, <2>2 DEF LastKept, SameName, Undisturbed
<1>4. ASSUME NEW m \in moving, Renamed(m)
      PROVE  LastKept'
  <2>0. PICK new : new = Archive(m.num, FALSE, logFile, TRUE)
    OBVIOUS
  <2>1. /\ m.stage = "renaming" /\ logFile' = 0 /\ UNCHANGED <<compress, filled, unlinks, deleted>>
        /\ Appears(new) /\ moving' = IF compress THEN {[m EXCEPT !.stage = "renamed"]} ELSE {}
    BY <1>4, <2>0 DEF Renamed
  <2>2. new.num = m.num /\ new.zip = FALSE /\ new.of = logFile /\ new.whole = TRUE
    BY <2>0 DEF Archive
  <2>3. /\ logFile = filled
        /\ \A u \in unlinks : u.why = "limit"
    BY <2>1 DEF LastKept, ArchiveVarsOK
  <2>4. /\ [m EXCEPT !.stage = "renamed"].stage = "renamed"
        /\ [m EXCEPT !.stage = "renamed"].num = m.num
    BY DEF ArchiveVarsOK
  <2>5. /\ \A f, g \in archived' : SameName(f, g) => f = g
        /\ new \in archived'
    BY <2>1, AppearsOnce DEF LastKept
  <2>6. HasLast(new)'
    BY <2>1, <2>2, <2>3, <2>5 DEF HasLast
  <2>7. \A k \in moving' : k.stage = "renamed" /\ PlainOf(k, new)
    BY <2>1, <2>2, <2>4 DEF PlainOf
  <2>8. LastArchived'
    BY <2>1, <2>3, <2>5, <2>6, <2>7 DEF LastArchived, LastInMove
  <2>9. \A f, g \in archived' : SameName(f, g)' => f = g
    BY <2>5 DEF SameName
  <2>10. ~compress' => moving' = {}
    BY <2>1
  <2> QED
    BY <2>1, <2>3, <2>7, <2>8, <2>9, <2>10 DEF LastKept
<1>5. ASSUME NEW m \in moving, ZipStarts(m)
      PROVE  LastKept'
  <2>1. PICK p \in archived :
          /\ SameName(p, Archive(m.num, FALSE, 0, TRUE))
          /\ Appears(Archive(m.zip, TRUE, p.of, FALSE))
    BY <1>5 DEF ZipStarts
  <2> DEFINE new == Archive(m.zip, TRUE, p.of, FALSE)
  <2>2. p.num = m.num /\ ~p.zip
    BY <2>1 DEF SameName, Archive
  <2>3. /\ m.stage = "renamed" /\ UNCHANGED <<compress, filled, logFile, unlinks, deleted>>
        /\ Appears(new) /\ moving' = {[m EXCEPT !.stage = "zipping"]}
    BY <1>5, <2>1 DEF ZipStarts
  <2>4. new.num = m.zip /\ new.zip = TRUE /\ new.of = p.of
    BY DEF Archive
  <2>5. /\ [m EXCEPT !.stage = "zipping"].stage = "zipping"
        /\ [m EXCEPT !.stage = "zipping"].num = m.num
        /\ [m EXCEPT !.stage = "zipping"].zip = m.zip
    BY DEF ArchiveVarsOK
  <2> HIDE DEF new
  <2>6. compress /\ \A u \in unlinks : u.why = "limit"
    BY <2>3 DEF LastKept
  <2>7. /\ \A f, g \in archived' : SameName(f, g) => f = g
        /\ new \in archived'
        /\ \A f \in archived : ~SameName(new, f) => f \in archived'
    BY <2>3, AppearsOnce DEF LastKept
  <2>8. \A f, g \in archived' : SameName(f, g)' => f = g
    BY <2>7 DEF SameName
  <2>9. ASSUME Undisturbed, logFile # filled, filled \notin deleted
        PROVE  LastArchived'
    <3>1. PICK f \in archived : HasLast(f) /\ PlainOf(m, f)
      BY <2>3, <2>9 DEF LastKept, LastArchived, LastInMove
    <3>2. f = p
      BY <2>2, <3>1 DEF LastKept, SameName, PlainOf, ArchiveVarsOK, ArchivesTyped, ArchiveRecords
    <3>3. ~SameName(new, p)
      BY <2>2, <2>4 DEF SameName
    <3>4. p \in archived' /\ HasLast(p)' /\ new.of = filled
      BY <2>3, <2>4, <2>7, <3>1, <3>2, <3>3 DEF HasLast
    <3>5. \A k \in moving' : LastInMove(k)'
      BY <2>2, <2>3, <2>4, <2>5, <2>7, <3>4 DEF LastInMove, PlainOf
    <3> QED
      BY <2>3, <2>6, <3>4, <3>5 DEF LastArchived
  <2> QED
    BY <2>3, <2>5, <2>6, <2>8, <2>9 DEF LastKept, Undisturbed
<1>6. ASSUME NEW m \in moving, NEW ok \in BOOLEAN, ZipEnds(m, ok)
      PROVE  LastKept'
  <2> DEFINE Ended(f) == IF f.zip /\ f.num = m.zip THEN [f EXCEPT !.whole = ok] ELSE f
  <2>1. /\ m.stage = "zipping" /\ UNCHANGED <<compress, filled, logFile, deleted>> /\ moving' = {}
        /\ archived' = {Ended(f) : f \in archived}
        /\ unlinks' = unlinks \cup {[file |-> f, why |-> "done"] : f \in Unlinked(m, ok)}
    BY <1>6 DEF ZipEnds
  <2>2. \A f \in archived : /\ Ended(f).num = f.num /\ Ended(f).zip = f.zip /\ Ended(f).of = f.of
                           /\ Ended(f).whole = IF f.zip /\ f.num = m.zip THEN ok ELSE f.whole
    BY DEF ArchiveVarsOK, ArchivesTyped, ArchiveRecords
  <2> HIDE DEF Ended
  <2>3. \A u \in unlinks : u.why = "limit"
    BY DEF LastKept
  <2>4. \A f, g \in archived' : SameName(f, g)' => f = g
    <3> SUFFICES ASSUME NEW f \in archived, NEW g \in archived, SameName(Ended(f), Ended(g))
                 PROVE  Ended(f) = Ended(g)
      BY <2>1 DEF SameName
    <3>1. SameName(f, g)
      BY <2>2 DEF SameName
    <3> QED
      BY <3>1 DEF LastKept
  <2>5. ASSUME Undisturbed, logFile # filled, filled \notin deleted
        PROVE  LastArchived'
    <3>1. PICK p \in archived : HasLast(p) /\ PlainOf(m, p)
      BY <2>1, <2>5 DEF LastKept, LastArchived, LastInMove
    <3>2. PICK z \in archived : z.zip /\ z.num = m.zip /\ z.of = filled
      BY <2>1, <2>5 DEF LastKept, LastArchived, LastInMove
    <3>3. CASE ok
      <4>1. HasLast(Ended(z))'
        BY <2>1, <2>2, <3>2, <3>3 DEF HasLast
      <4>2. \A u \in unlinks' : u.why = "limit" \/ ~u.file.zip
        BY <2>1, <2>3, <3>3 DEF Unlinked
      <4>3. \A u \in unlinks' : u.why = "limit" \/ ~SameName(Ended(z), u.file)
        BY <2>2, <3>2, <4>2 DEF SameName
      <4> QED
        BY <2>1, <4>1, <4>3 DEF LastArchived, HasLast, SameName
    <3>4. CASE ~ok
      <4>1. HasLast(Ended(p))'
        BY <2>1, <2>2, <3>1 DEF HasLast, PlainOf
      <4>2. \A u \in unlinks' : u.why = "limit" \/ u.file.zip
        BY <2>1, <2>3, <3>4 DEF Unlinked
      <4>3. \A u \in unlinks' : u.why = "limit" \/ ~SameName(Ended(p), u.file)
        BY <2>2, <3>1, <4>2 DEF SameName, PlainOf
      <4> QED
        BY <2>1, <4>1, <4>3 DEF LastArchived, HasLast, SameName
    <3> QED
      BY <3>3, <3>4
  <2> QED
    BY <2>1, <2>4, <2>5 DEF LastKept, Undisturbed
<1>7. ASSUME NEW u \in unlinks, UnlinkEnds(u)
      PROVE  LastKept'
  <2>1. /\ unlinks' = unlinks \ {u} /\ UNCHANGED <<compress, filled, logFile, moving>>
        /\ archived' \subseteq archived /\ deleted \subseteq deleted'
    BY <1>7 DEF UnlinkEnds
  <2>2. ASSUME Undisturbed', logFile # filled, filled \notin deleted'
        PROVE  LastArchived'
    <3>1. Undisturbed /\ filled \notin deleted
      BY <2>1, <2>2 DEF Undisturbed
    <3>2. PICK f \in archived : HasLast(f) /\ \A v \in unlinks : v.why = "limit" \/ ~SameName(f, v.file)
      BY <2>2, <3>1 DEF LastKept, LastArchived
    <3>3. f \in archived' /\ HasLast(f)'
      BY <1>7, <2>1, <2>2, <3>2 DEF UnlinkEnds, HasLast
    <3>4. \A m \in moving' : LastInMove(m)'
      <4>1. CASE compress
        <5>1. moving = {} \/ archived' = archived
          <6>1. CASE u.why = "limit"
            <7>1. deleted' = {}
              BY <2>1, <2>2, <4>1 DEF Undisturbed
            <7>2. \A g \in archived : ~SameName(g, u.file) \/ archived' = archived
              BY <1>7, <6>1, <7>1 DEF UnlinkEnds
            <7> QED
              BY <1>7, <7>2 DEF UnlinkEnds
          <6>2. CASE u.why # "limit"
            BY <6>2 DEF LastKept
          <6> QED
            BY <6>1, <6>2
        <5>2. \A m \in moving : LastInMove(m)
          BY <2>2, <3>1 DEF LastKept, LastArchived
        <5> QED
          BY <2>1, <5>1, <5>2 DEF LastInMove, HasLast
      <4>2. CASE ~compress
        BY <2>1, <4>2 DEF LastKept, LastInMove
      <4> QED
        BY <4>1, <4>2
    <3> QED
      BY <2>1, <3>2, <3>3, <3>4 DEF LastArchived, SameName
  <2> QED
    BY <2>1, <2>2 DEF LastKept, SameName
<1>8. CASE UNCHANGED archiveDirVars
  BY <1>8 DEF archiveDirVars, LastKept, LastArchived, LastInMove, HasLast, PlainOf, SameName, Undisturbed
<1> QED
  BY <1>1, <1>2, <1>3, <1>4, <1>5, <1>6, <1>7, <1>8 DEF ArchiveNext

(* Every step keeps all of it.                                              *)
LEMMA ArchiveInvStep == ArchiveInv /\ [ArchiveNext]_archiveDirVars => ArchiveInv'
<1> SUFFICES ASSUME ArchiveInv, [ArchiveNext]_archiveDirVars
             PROVE  ArchiveInv'
  OBVIOUS
<1>1. CASE LogFills \/ ArchiveLog \/ ArchiverRestarts \/ \E m \in moving : RenameFails(m)
  BY <1>1, ArchivesUntouched
<1>2. CASE \E m \in moving : Renamed(m)
  BY <1>2, RenamedKeeps
<1>3. CASE \E m \in moving : ZipStarts(m)
  BY <1>3, ZipStartKeeps
<1>4. CASE \E m \in moving, ok \in BOOLEAN : ZipEnds(m, ok)
  BY <1>4, ZipEndKeeps
<1>5. CASE \E u \in unlinks : UnlinkEnds(u)
  BY <1>5, UnlinkKeeps
<1>6. CASE UNCHANGED archiveDirVars
  BY <1>6 DEF ArchiveInv, ArchiveVarsOK, ArchivesTyped, PlainNumbered, ZipNumbered, Numbered,
              Spare, Count, SameName, ArchivesKept, archiveDirVars
<1> QED
  BY <1>1, <1>2, <1>3, <1>4, <1>5, <1>6 DEF ArchiveNext

(* Archiving loses no entries, whatever number of log files fill and        *)
(* whatever the limit is; of a log that is no .txt file, not the last ones. *)
THEOREM ArchivingKeepsEntries == ArchiveSpec => []ArchivesKept
<1>1. ArchiveInit => LastKept
  BY DEF ArchiveInit, LastKept
<1>2. ArchiveInv /\ LastKept => ArchivesKept
  <2> SUFFICES ASSUME ArchiveInv, LastKept, ~counted
               PROVE  ArchivesKept
    BY DEF ArchiveInv
  <2>1. filled = logFile \/ filled \in deleted \/ (compress /\ deleted # {})
        \/ \E f \in archived : f.of = filled /\ f.whole
    BY DEF LastKept, LastArchived, HasLast, Undisturbed
  <2> QED
    BY <2>1 DEF ArchivesKept
<1>3. ArchiveInv /\ LastKept /\ [ArchiveNext]_archiveDirVars => LastKept'
  BY LastKeptStep DEF ArchiveInv
<1> QED
  BY <1>1, <1>2, <1>3, ArchiveInvInit, ArchiveInvStep, PTL DEF ArchiveSpec

-----------------------------------------------------------------------------
(* StartupLog.                                                              *)

(* A target is named by finitely many rules.                                *)
LEMMA TimesIsNat == \A x, t : Times(x, t) \in Nat
<1> TAKE x, t
<1>1. RulesFor(x.logger, x.level, t) \subseteq DOMAIN Rules
  BY DEF RulesFor
<1>2. IsFiniteSet(RulesFor(x.logger, x.level, t))
  BY <1>1, StartupAssumption, FS_Subset DEF StartupAssumption
<1> QED
  BY <1>2, FS_CardinalityType DEF Times

(* What the proof needs beside the property: an entry nobody has logged is  *)
(* nowhere, bootstrap() is not done before the listeners are told, and what *)
(* waits in the buffer when they have been told is in the gap; a class that *)
(* holds the proxy holds one that has a name.                               *)
StartInv ==
    /\ StartTypeOK
    /\ EveryEntryIsSomewhere
    /\ \A e \in StartEntries \ Logged, t \in LogTargets : handed[t][e] = 0
    /\ \A n \in LoggerNames : field[n] = "proxy" => proxy # "none"
    /\ config \in {"none", "loading"} => bootstrap # "done"
    /\ config = "told" /\ bootstrap # "no" => buffer \subseteq gap

LEMMA StartInvInit == StartInit => StartInv
<1> SUFFICES ASSUME StartInit PROVE StartInv
  OBVIOUS
<1>1. Logged = {}
  BY DEF StartInit, Logged
<1>2. StartTypeOK
  BY <1>1 DEF StartInit, StartTypeOK
<1> QED
  BY <1>1, <1>2 DEF StartInit, StartInv, EveryEntryIsSomewhere, HasConfiguration

(* An entry that is logged is not NotYet, whatever its level and logger.    *)
LEMMA LoggedIsNew ==
    ASSUME StartTypeOK, NEW e \in StartEntries, NEW level \in 1..2, NEW logger, NEW n,
           entry' = [entry EXCEPT ![e] = [level |-> level, logger |-> logger, from |-> n]]
    PROVE  Logged' = Logged \cup {e}
<1>1. entry'[e].level = level /\ NotYet.level = 0
  BY DEF StartTypeOK, NotYet
<1>2. entry'[e] # NotYet
  BY <1>1
<1>3. \A x \in StartEntries \ {e} : entry'[x] = entry[x]
  BY DEF StartTypeOK
<1> QED
  BY <1>2, <1>3 DEF Logged

(* The proxy, once it is made, keeps its name, and is made with a name.     *)
LEMMA ProxyKeepsName ==
    ASSUME StartTypeOK, NEW names \in SUBSET (LoggerNames \cup StartEntries), MakeProxy(names)
    PROVE  /\ proxy' \in LoggerNames \cup StartEntries \cup {"none"}
           /\ proxy # "none" => proxy' = proxy
           /\ names # {} => proxy' # "none"
  BY StartupAssumption DEF StartTypeOK, MakeProxy, StartupAssumption

(* So the entries that were written under it still are under its name.      *)
LEMMA NamesStayKnown ==
    ASSUME StartInv, proxy # "none" => proxy' = proxy
    PROVE  \A e \in Logged : entry[e].logger \in {entry[e].from, proxy', e}
<1> SUFFICES ASSUME NEW e \in Logged PROVE entry[e].logger \in {entry[e].from, proxy', e}
  OBVIOUS
<1>1. entry[e].logger \in {entry[e].from, proxy, e}
  BY DEF StartInv, EveryEntryIsSomewhere
<1>2. entry[e] \in [level : 1..2, logger : LoggerNames \cup StartEntries, from : LoggerNames]
  BY DEF StartInv, StartTypeOK, Logged
<1>3. entry[e].logger # "none"
  BY <1>2, StartupAssumption DEF StartupAssumption
<1> QED
  BY <1>1, <1>3

(* A step of LogEntry.                                                      *)
LEMMA LogEntryKeeps ==
    ASSUME StartInv, NEW e \in StartEntries, NEW n \in LoggerNames, NEW by,
           NEW level \in 1..2, NEW error \in BOOLEAN, LogEntry(e, n, by, level, error)
    PROVE  StartInv'
<1> DEFINE x == [level |-> level, logger |-> NameOf(e, n, by, level, error), from |-> n]
<1>0. by = "proxy" => proxy \in LoggerNames \cup StartEntries
  BY DEF LogEntry, StartInv, StartTypeOK
<1>1. entry' = [entry EXCEPT ![e] = x] /\ e \notin Logged
  BY DEF LogEntry, Logged
<1>2. Logged' = Logged \cup {e}
  BY <1>1, LoggedIsNew DEF StartInv
<1>3. /\ entry'[e] = x
      /\ \A y \in Logged : entry'[y] = entry[y] /\ y # e
  BY <1>1 DEF StartInv, StartTypeOK, Logged
<1>4. /\ x \in [level : 1..2, logger : LoggerNames \cup StartEntries, from : LoggerNames]
      /\ x.logger \in {n, proxy, e} /\ x.from = n
  <2>1. NameOf(e, n, by, level, error) \in {n, proxy, e} /\ (by # "proxy" => NameOf(e, n, by, level, error) = n)
    BY DEF NameOf
  <2>2. NameOf(e, n, by, level, error) \in LoggerNames \cup StartEntries
    <3>1. CASE by # "proxy"
      BY <2>1, <3>1
    <3>2. CASE by = "proxy"
      BY <2>1, <3>2, <1>0
    <3> QED
      BY <3>1, <3>2
  <2> QED
    BY <2>1, <2>2
<1>5. e \notin buffer \cup printed \cup dropped \cup gap
  BY <1>1 DEF StartInv, StartTypeOK
<1>6. gap' = gap \cup {y \in {e} : config = "told"} /\ UNCHANGED <<config, bootstrap, field, proxy, printed, dropped>>
  BY DEF LogEntry
<1>9. \A y \in Logged' : entry'[y].logger \in {entry'[y].from, proxy', y}
  <2> SUFFICES ASSUME NEW y \in Logged' PROVE entry'[y].logger \in {entry'[y].from, proxy', y}
    OBVIOUS
  <2>1. CASE y = e
    BY <2>1, <1>3, <1>4, <1>6
  <2>2. CASE y \in Logged
    BY <2>2, <1>3, <1>6 DEF StartInv, EveryEntryIsSomewhere
  <2> QED
    BY <2>1, <2>2, <1>2
<1>7. CASE by = "logger" \/ HasConfiguration
  <2>1. buffer' = buffer /\ HandTo(entry', {e})
    BY <1>7 DEF LogEntry
  <2>2. handed' \in [LogTargets -> [StartEntries -> Nat]]
    BY <2>1, TimesIsNat DEF HandTo, StartInv, StartTypeOK
  <2>3. \A t \in LogTargets :
          /\ handed'[t][e] = Times(entry'[e], t)
          /\ \A y \in StartEntries \ {e} : handed'[t][y] = handed[t][y]
    BY <2>1, <1>1, TimesIsNat DEF HandTo, StartInv, StartTypeOK
  <2>4. StartTypeOK'
    BY <1>1, <1>2, <1>4, <1>6, <2>1, <2>2 DEF StartInv, StartTypeOK
  <2>5. \A y \in Logged', t \in LogTargets :
          handed'[t][y] = IF y \in buffer' \cup printed' \cup dropped'
                          THEN 0 ELSE Times(entry'[y], t)
    <3> SUFFICES ASSUME NEW y \in Logged', NEW t \in LogTargets
                 PROVE  handed'[t][y] = IF y \in buffer \cup printed \cup dropped
                                        THEN 0 ELSE Times(entry'[y], t)
      BY <1>6, <2>1
    <3>1. CASE y = e
      BY <3>1, <1>5, <2>3
    <3>2. CASE y \in Logged
      <4>1. handed'[t][y] = handed[t][y] /\ entry'[y] = entry[y]
        BY <3>2, <1>3, <2>3 DEF Logged
      <4> QED
        BY <3>2, <4>1 DEF StartInv, EveryEntryIsSomewhere
    <3> QED
      BY <3>1, <3>2, <1>2
  <2>6. EveryEntryIsSomewhere'
    BY <1>6, <1>9, <2>1, <2>5 DEF StartInv, EveryEntryIsSomewhere, HasConfiguration
  <2> QED
    BY <1>2, <1>6, <2>1, <2>3, <2>4, <2>6 DEF StartInv
<1>8. CASE ~(by = "logger" \/ HasConfiguration)
  <2>1. buffer' = buffer \cup {e} /\ handed' = handed
    BY <1>8 DEF LogEntry
  <2>2. StartTypeOK'
    BY <1>1, <1>2, <1>4, <1>6, <2>1 DEF StartInv, StartTypeOK
  <2>3. EveryEntryIsSomewhere'
    <3>1. \A y \in Logged', t \in LogTargets :
            handed'[t][y] = IF y \in buffer' \cup printed' \cup dropped'
                            THEN 0 ELSE Times(entry'[y], t)
      BY <1>1, <1>2, <1>3, <1>5, <1>6, <2>1 DEF StartInv, EveryEntryIsSomewhere
    <3> QED
      BY <1>5, <1>6, <1>8, <1>9, <2>1, <3>1 DEF StartInv, EveryEntryIsSomewhere, HasConfiguration
  <2> QED
    BY <1>2, <1>6, <2>1, <2>2, <2>3 DEF StartInv
<1> QED
  BY <1>7, <1>8

(* write() of bootstrap(), with the configuration there or not.             *)
LEMMA EmptyBufferKeeps ==
    ASSUME StartInv, EmptyBuffer, UNCHANGED <<entry, printed>>
    PROVE  /\ buffer' = {} /\ Logged' = Logged
           /\ dropped' \subseteq Logged
           /\ handed' \in [LogTargets -> [StartEntries -> Nat]]
           /\ printed' \cap dropped' = {}
           /\ \A e \in Logged, t \in LogTargets :
                handed'[t][e] = IF e \in printed' \cup dropped' THEN 0 ELSE Times(entry[e], t)
           /\ \A e \in StartEntries \ Logged, t \in LogTargets : handed'[t][e] = 0
           /\ proxy' \in LoggerNames \cup StartEntries \cup {"none"}
           /\ proxy # "none" => proxy' = proxy
<1>4. ASSUME ~HasConfiguration
      PROVE  /\ proxy' \in LoggerNames \cup StartEntries \cup {"none"}
             /\ proxy # "none" => proxy' = proxy
  <2>1. MakeProxy({entry[e].logger : e \in buffer})
    BY <1>4 DEF EmptyBuffer
  <2>2. {entry[e].logger : e \in buffer} \subseteq LoggerNames \cup StartEntries
    BY DEF StartInv, StartTypeOK, Logged
  <2> QED
    BY <2>1, <2>2, ProxyKeepsName DEF StartInv
<1>1. buffer' = {} /\ Logged' = Logged
  BY DEF EmptyBuffer, Logged
<1>2. CASE HasConfiguration
  <2>1. HandTo(entry, buffer) /\ dropped' = dropped /\ proxy' = proxy
    BY <1>2 DEF EmptyBuffer
  <2>2. \A e \in StartEntries, t \in LogTargets :
          handed'[t][e] = handed[t][e] + IF e \in buffer THEN Times(entry[e], t) ELSE 0
    BY <2>1 DEF HandTo
  <2>3. handed' \in [LogTargets -> [StartEntries -> Nat]]
    BY <2>1, TimesIsNat DEF HandTo, StartInv, StartTypeOK
  <2>4. \A e \in Logged, t \in LogTargets :
          handed'[t][e] = IF e \in printed' \cup dropped' THEN 0 ELSE Times(entry[e], t)
    BY <2>1, <2>2, TimesIsNat DEF StartInv, StartTypeOK, EveryEntryIsSomewhere, Logged
  <2>5. \A e \in StartEntries \ Logged, t \in LogTargets : handed'[t][e] = 0
    BY <2>2 DEF StartInv, StartTypeOK
  <2> QED
    BY <1>1, <2>1, <2>3, <2>4, <2>5 DEF StartInv, StartTypeOK, EveryEntryIsSomewhere
<1>3. CASE ~HasConfiguration
  BY <1>1, <1>3, <1>4 DEF EmptyBuffer, StartInv, StartTypeOK, EveryEntryIsSomewhere
<1> QED
  BY <1>2, <1>3

LEMMA StartInvNext == StartInv /\ [StartNext]_startVars => StartInv'
<1> SUFFICES ASSUME StartInv, [StartNext]_startVars PROVE StartInv'
  OBVIOUS
<1>1. ASSUME NEW n \in LoggerNames, ResolveLogger(n) PROVE StartInv'
  <2>1. field' \in [LoggerNames -> {"none", "proxy", "logger"}]
    BY <1>1 DEF ResolveLogger, StartInv, StartTypeOK
  <2>2. /\ proxy' \in LoggerNames \cup StartEntries \cup {"none"}
        /\ proxy # "none" => proxy' = proxy
        /\ ~HasConfiguration => proxy' # "none"
    <3>1. CASE HasConfiguration
      BY <1>1, <3>1 DEF ResolveLogger, StartInv, StartTypeOK
    <3>2. CASE ~HasConfiguration
      <4>1. MakeProxy({n})
        BY <1>1, <3>2 DEF ResolveLogger
      <4> QED
        BY <4>1, <3>2, ProxyKeepsName DEF StartInv
    <3> QED
      BY <3>1, <3>2
  <2>3. UNCHANGED <<config, bootstrap, entry, buffer, handed, printed, dropped, gap>>
    BY <1>1 DEF ResolveLogger
  <2>4. \A e \in Logged : entry[e].logger \in {entry[e].from, proxy', e}
    BY <2>2, NamesStayKnown
  <2>5. \A m \in LoggerNames : field'[m] = "proxy" => proxy' # "none"
    BY <1>1, <2>2 DEF ResolveLogger, StartInv, StartTypeOK
  <2>6. EveryEntryIsSomewhere'
    BY <2>3, <2>4 DEF StartInv, EveryEntryIsSomewhere, HasConfiguration, Logged
  <2> QED
    BY <2>1, <2>2, <2>3, <2>5, <2>6 DEF StartInv, StartTypeOK, Logged
<1>2. ASSUME NEW e \in StartEntries, NEW n \in LoggerNames, NEW level \in 1..2,
             NEW error \in BOOLEAN, NEW by \in {"proxy", "logger", "static"},
             LogEntry(e, n, by, level, error)
      PROVE  StartInv'
  BY <1>2, LogEntryKeeps
<1>3. CASE LoadConfiguration
  BY <1>3 DEF LoadConfiguration, StartInv, StartTypeOK, EveryEntryIsSomewhere, HasConfiguration, Logged
<1>4. CASE LoadFails
  BY <1>4 DEF LoadFails, StartInv, StartTypeOK, EveryEntryIsSomewhere, HasConfiguration, Logged
<1>5. CASE Told
  <2>1. CASE bootstrap = "waiting"
    <3>1. EmptyBuffer /\ UNCHANGED <<entry, printed, field, gap>> /\ config' = "told" /\ bootstrap' = "done"
      BY <1>5, <2>1 DEF Told
    <3>2. /\ proxy' \in LoggerNames \cup StartEntries \cup {"none"}
          /\ proxy # "none" => proxy' = proxy
      BY <3>1, EmptyBufferKeeps
    <3>3. buffer' = {} /\ Logged' = Logged
      BY <3>1, EmptyBufferKeeps
    <3>4. \A e \in Logged : entry[e].logger \in {entry[e].from, proxy', e}
      BY <3>2, NamesStayKnown
    <3>5. \A n \in LoggerNames : field'[n] = "proxy" => proxy' # "none"
      BY <3>1, <3>2 DEF StartInv
    <3>6. EveryEntryIsSomewhere'
      BY <3>1, <3>3, <3>4, EmptyBufferKeeps DEF StartInv, EveryEntryIsSomewhere, HasConfiguration
    <3>7. StartTypeOK'
      BY <3>1, <3>2, <3>3, EmptyBufferKeeps DEF StartInv, StartTypeOK
    <3> QED
      BY <3>1, <3>3, <3>5, <3>6, <3>7, EmptyBufferKeeps DEF StartInv
  <2>2. CASE bootstrap # "waiting"
    BY <1>5, <2>2 DEF Told, StartInv, StartTypeOK, EveryEntryIsSomewhere, HasConfiguration, Logged
  <2> QED
    BY <2>1, <2>2
<1>6. CASE CacheConfiguration
  BY <1>6 DEF CacheConfiguration, StartInv, StartTypeOK, EveryEntryIsSomewhere, HasConfiguration, Logged
<1>7. CASE Bootstrap
  <2>1. CASE HasConfiguration
    <3>1. /\ EmptyBuffer /\ UNCHANGED <<entry, printed, field, config, gap>>
          /\ bootstrap' = "done" /\ config = "cached"
      BY <1>7, <2>1 DEF Bootstrap, HasConfiguration
    <3>2. /\ proxy' \in LoggerNames \cup StartEntries \cup {"none"}
          /\ proxy # "none" => proxy' = proxy
      BY <3>1, EmptyBufferKeeps
    <3>3. buffer' = {} /\ Logged' = Logged
      BY <3>1, EmptyBufferKeeps
    <3>4. \A e \in Logged : entry[e].logger \in {entry[e].from, proxy', e}
      BY <3>2, NamesStayKnown
    <3>5. \A n \in LoggerNames : field'[n] = "proxy" => proxy' # "none"
      BY <3>1, <3>2 DEF StartInv
    <3>6. EveryEntryIsSomewhere'
      BY <3>1, <3>3, <3>4, EmptyBufferKeeps DEF StartInv, EveryEntryIsSomewhere, HasConfiguration
    <3>7. StartTypeOK'
      BY <3>1, <3>2, <3>3, EmptyBufferKeeps DEF StartInv, StartTypeOK
    <3> QED
      BY <3>1, <3>3, <3>5, <3>6, <3>7, EmptyBufferKeeps DEF StartInv
  <2>2. CASE ~HasConfiguration
    BY <1>7, <2>2 DEF Bootstrap, StartInv, StartTypeOK, EveryEntryIsSomewhere, HasConfiguration, Logged
  <2> QED
    BY <2>1, <2>2
<1>8. CASE BeforeExit
  BY <1>8 DEF BeforeExit, StartInv, StartTypeOK, EveryEntryIsSomewhere, HasConfiguration, Logged
<1>9. CASE UNCHANGED startVars
  BY <1>9 DEF startVars, StartInv, StartTypeOK, EveryEntryIsSomewhere, HasConfiguration, Logged
<1> QED
  BY <1>1, <1>2, <1>3, <1>4, <1>5, <1>6, <1>7, <1>8, <1>9 DEF StartNext

(* EveryEntryIsSomewhere is an invariant: an entry logged before, while or  *)
(* after the configuration is loaded is waiting, printed, with all of its   *)
(* targets, or was cleared by the listener that should have written it.     *)
THEOREM StartupEntriesKept == StartSpec => []EveryEntryIsSomewhere
<1>1. StartInv => EveryEntryIsSomewhere
  BY DEF StartInv
<1> QED
  BY <1>1, StartInvInit, StartInvNext, PTL DEF StartSpec
=============================================================================
