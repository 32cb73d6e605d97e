------------------------------ MODULE JobQueue ------------------------------
(***************************************************************************)
(* Jobs of packages/queue over packages/queue-stomp-transport: emitting a  *)
(* job writes its row in queue_jobs and publishes it, a consumer loads the *)
(* row, executes the job, records the result and acknowledges the message. *)
(* The broker hands a message to one subscriber at a time and hands it out *)
(* again when the subscriber disappears or refuses it.                     *)
(***************************************************************************)
EXTENDS Naturals, Sequences, FiniteSets

CONSTANTS
    Jobs,        \* the jobs that are emitted
    Class,       \* Class[j]: the class (event name) of job j
    Conns,       \* the connections the routing names, in the order of emit
    Channels,    \* Channels[c]: the channels of a job on connection c
    Consumers,   \* the subscribers: one consume() of one process each
    Listens,     \* Listens[k]: the connection, channel and class k consumes
    HasCallback, \* the consumers with a callback besides the job itself
    None,        \* nothing
    MaxDeliver,  \* bound: deliveries of one message before the broker gives up
    MaxLost      \* bound: lost connections and crashes

JobIds == Jobs \X {Conns[n] : n \in DOMAIN Conns}
AllChannels == UNION {Channels[c] : c \in DOMAIN Channels}
Messages == {[j |-> id[1], c |-> id[2], ch |-> ch] : id \in JobIds, ch \in AllChannels}
IdOf(m) == <<m.j, m.c>>

(* What a row may say, and where a message may be but with a consumer.      *)
Statuses == {"created", "executing", "success", "error"}
Places == {"none", "queued", "acked", "dead"}

(* The routing names the default connection at least.                       *)
ASSUME QueueAssumption ==
    /\ None \notin Statuses
    /\ Consumers \cap Places = {}
    /\ Conns \in Seq(DOMAIN Channels) /\ Conns # << >>
    /\ \A k \in Consumers : /\ Listens[k].c \in DOMAIN Channels
                             /\ Listens[k].ch \in Channels[Listens[k].c]
    /\ HasCallback \subseteq Consumers
    /\ MaxDeliver \in Nat \ {0}
    /\ MaxLost \in Nat

VARIABLES
    emit,       \* emit[j]: the step of emit() of the job: connection, what next
    row,        \* row[id]: Status of the job's row on a connection, or None
    msg,        \* what the broker does with each message
    delivered,  \* how often it was delivered
    cons,       \* what the callback of each consumer is doing, with which message
    subscribed, \* the consumers with an entry in Subscriptions
    live,       \* the consumers the broker knows as subscribed
    lost,       \* connections and processes lost so far
    recorded    \* history: the job ids whose result was written

emitVars == <<emit, row>>
brokerVars == <<msg, delivered, live>>
vars == <<emitVars, brokerVars, cons, subscribed, lost, recorded>>

Free == [pc |-> "free", m |-> None]

Init ==
    /\ emit = [j \in Jobs |-> [n |-> 1, pc |-> "idle"]]
    /\ row = [id \in JobIds |-> None]
    /\ msg = [m \in Messages |-> "none"]
    /\ delivered = [m \in Messages |-> 0]
    /\ cons = [k \in Consumers |-> Free]
    /\ subscribed = {}
    /\ live = {}
    /\ lost = 0
    /\ recorded = {}

-----------------------------------------------------------------------------
(* DefaultQueueService.emit: for every connection, insert and publish.      *)

EmitTo(j) == <<j, Conns[emit[j].n]>>

Emit(j) ==
    /\ emit[j].pc = "idle"
    /\ emit' = [emit EXCEPT ![j].pc = "insert"]
    /\ UNCHANGED <<row, brokerVars, cons, subscribed, lost, recorded>>

InsertRow(j) ==
    /\ emit[j].pc = "insert"
    /\ row' = [row EXCEPT ![EmitTo(j)] = "created"]
    /\ emit' = [emit EXCEPT ![j].pc = "publish"]
    /\ UNCHANGED <<brokerVars, cons, subscribed, lost, recorded>>

(* A message on every channel, then the next connection.                    *)
PublishTo(j) ==
    /\ msg' = [m \in Messages |->
         IF IdOf(m) = EmitTo(j) /\ m.ch \in Channels[m.c] THEN "queued" ELSE msg[m]]
    /\ emit' = [emit EXCEPT ![j] =
         IF @.n < Len(Conns) THEN [n |-> @.n + 1, pc |-> "insert"] ELSE [@ EXCEPT !.pc = "done"]]
    /\ UNCHANGED <<row, delivered, live, cons, subscribed, lost, recorded>>

(* StompQueueClient.emit.                                                   *)
Publish(j) == emit[j].pc = "publish" /\ PublishTo(j)

(* The insert or the publish throws: emit rejects where it is.              *)
EmitFails(j) ==
    /\ emit[j].pc \in {"insert", "publish"}
    /\ emit' = [emit EXCEPT ![j].pc = "failed"]
    /\ UNCHANGED <<row, brokerVars, cons, subscribed, lost, recorded>>

-----------------------------------------------------------------------------
(* Subscriptions.                                                           *)

(* StompQueueClient.subscribe: a channel the map knows is only warned about.*)
Subscribe(k) ==
    /\ k \notin subscribed
    /\ subscribed' = subscribed \cup {k}
    /\ live' = live \cup {k}
    /\ UNCHANGED <<emitVars, msg, delivered, cons, lost, recorded>>

(* What k holds goes back to the queue.                                     *)
Returned(k) ==
    [m \in Messages |-> IF msg[m] = k THEN "queued" ELSE msg[m]]

Unsubscribe(k) ==
    /\ k \in subscribed
    /\ subscribed' = subscribed \ {k}
    /\ live' = live \ {k}
    /\ msg' = Returned(k)
    /\ UNCHANGED <<emitVars, delivered, cons, lost, recorded>>

(* The connection drops and comes back: the client reconnects but does not  *)
(* subscribe again, and a running callback goes on.                         *)
ConnectionLost(k) ==
    /\ lost < MaxLost
    /\ lost' = lost + 1
    /\ k \in live
    /\ live' = live \ {k}
    /\ msg' = Returned(k)
    /\ UNCHANGED <<emitVars, delivered, cons, subscribed, recorded>>

(* The process of k dies.                                                   *)
Crash(k) ==
    /\ lost < MaxLost
    /\ lost' = lost + 1
    /\ k \in subscribed
    /\ subscribed' = subscribed \ {k}
    /\ live' = live \ {k}
    /\ msg' = Returned(k)
    /\ cons' = [cons EXCEPT ![k] = Free]
    /\ UNCHANGED <<emitVars, delivered, recorded>>

-----------------------------------------------------------------------------
(* A message at a consumer: the callback given to subscribe by consume().   *)

At(k, pc) == cons[k].pc = pc
Id(k) == IdOf(cons[k].m)
Goto(k, pc) == cons' = [cons EXCEPT ![k].pc = pc]
Matches(k, m) == Listens[k].c = m.c /\ Listens[k].ch = m.ch
Sames == <<emit, brokerVars, subscribed, lost>>

(* A job of another class is not executed but acknowledged.                 *)
Deliver(k, m) ==
    /\ k \in live
    /\ \A l \in Messages : msg[l] # k
    /\ At(k, "free")
    /\ msg[m] = "queued"
    /\ delivered[m] < MaxDeliver
    /\ Matches(k, m)
    /\ msg' = [msg EXCEPT ![m] = k]
    /\ delivered' = [delivered EXCEPT ![m] = @ + 1]
    /\ cons' = [cons EXCEPT ![k] =
         [pc |-> IF Class[m.j] = Listens[k].class THEN "loading" ELSE "acking", m |-> m]]
    /\ UNCHANGED <<emitVars, live, subscribed, lost, recorded>>

(* JobModel.where({JobId}).firstOrThrow                                     *)
Load(k) ==
    /\ At(k, "loading")
    /\ Goto(k, IF row[Id(k)] = None THEN "nacking" ELSE "marking")
    /\ UNCHANGED <<row, Sames, recorded>>

(* Status executing is saved and execute() called.                          *)
Mark(k) ==
    /\ At(k, "marking")
    /\ row' = [row EXCEPT ![Id(k)] = "executing"]
    /\ Goto(k, "executing")
    /\ UNCHANGED <<Sames, recorded>>

(* That update rejects: the job counts as failed without being executed.    *)
MarkFails(k) ==
    /\ At(k, "marking")
    /\ Goto(k, "failing")
    /\ UNCHANGED <<row, Sames, recorded>>

Succeeds(k) ==
    /\ At(k, "executing")
    /\ Goto(k, "succeeding")
    /\ UNCHANGED <<row, Sames, recorded>>

Fails(k) ==
    /\ At(k, "executing")
    /\ Goto(k, "failing")
    /\ UNCHANGED <<row, Sames, recorded>>

(* Mutant: the error of a job leaves the callback before it is saved, and   *)
(* the message is acknowledged.                                             *)
RecordOnlySuccess(k) ==
    \/ /\ At(k, "succeeding")
       /\ row' = [row EXCEPT ![Id(k)] = "success"]
       /\ recorded' = recorded \cup {Id(k)}
       /\ Goto(k, IF k \in HasCallback THEN "calling" ELSE "acking")
       /\ UNCHANGED Sames
    \/ /\ At(k, "failing")
       /\ Goto(k, "acking")
       /\ UNCHANGED <<row, Sames, recorded>>

(* The outcome is saved, success or error.                                  *)
Record(k) ==
    /\ cons[k].pc \in {"succeeding", "failing"}
    /\ row' = [row EXCEPT ![Id(k)] = IF At(k, "succeeding") THEN "success" ELSE "error"]
    /\ recorded' = recorded \cup {Id(k)}
    /\ Goto(k, IF k \in HasCallback THEN "calling" ELSE "acking")
    /\ UNCHANGED Sames

RecordFails(k) ==
    /\ cons[k].pc \in {"succeeding", "failing"}
    /\ Goto(k, "nacking")
    /\ UNCHANGED <<row, Sames, recorded>>

(* The callback of the application.                                         *)
Calls(k) ==
    /\ At(k, "calling")
    /\ Goto(k, "acking")
    /\ UNCHANGED <<row, Sames, recorded>>

CallbackRejects(k) ==
    /\ At(k, "calling")
    /\ Goto(k, "nacking")
    /\ UNCHANGED <<row, Sames, recorded>>

(* message.ack(): of a delivery the broker took back it means nothing.      *)
Ack(k) ==
    /\ At(k, "acking")
    /\ msg' = [m \in Messages |-> IF msg[m] = k /\ m = cons[k].m THEN "acked" ELSE msg[m]]
    /\ cons' = [cons EXCEPT ![k] = Free]
    /\ UNCHANGED <<emitVars, delivered, live, subscribed, lost, recorded>>

(* Mutant: a rejected callback neither acknowledges nor refuses.            *)
NackForgotten(k) ==
    /\ At(k, "nacking")
    /\ cons' = [cons EXCEPT ![k] = Free]
    /\ UNCHANGED <<emitVars, msg, delivered, live, subscribed, lost, recorded>>

(* message.nack(): the broker takes the message back.                       *)
Nack(k) ==
    /\ At(k, "nacking")
    /\ msg' = [m \in Messages |-> IF msg[m] = k /\ m = cons[k].m THEN "queued" ELSE msg[m]]
    /\ cons' = [cons EXCEPT ![k] = Free]
    /\ UNCHANGED <<emitVars, delivered, live, subscribed, lost, recorded>>

(* The broker buries a message it has delivered often enough.               *)
Bury(m) ==
    /\ msg[m] = "queued"
    /\ delivered[m] >= MaxDeliver
    /\ msg' = [msg EXCEPT ![m] = "dead"]
    /\ UNCHANGED <<emitVars, delivered, live, cons, subscribed, lost, recorded>>

Handling(k) ==
    \/ Load(k) \/ Mark(k) \/ MarkFails(k) \/ Succeeds(k) \/ Fails(k)
    \/ Record(k) \/ RecordFails(k) \/ Calls(k) \/ CallbackRejects(k) \/ Ack(k) \/ Nack(k)

Emitting(j) == Emit(j) \/ InsertRow(j) \/ Publish(j) \/ EmitFails(j)

Next ==
    \/ \E j \in Jobs : Emitting(j)
    \/ \E k \in Consumers : Handling(k) \/ \E m \in Messages : Deliver(k, m)
    \/ \E m \in Messages : Bury(m)
    \/ \E k \in Consumers :
          Subscribe(k) \/ Unsubscribe(k) \/ ConnectionLost(k) \/ Crash(k)

Spec == Init /\ [][Next]_vars

(* Queries, jobs and callbacks end, consumers subscribe again, and the      *)
(* broker delivers what it can deliver again and again.                     *)
Fairness ==
    /\ \A k \in Consumers : WF_vars(Handling(k)) /\ WF_vars(Subscribe(k))
    /\ \A k \in Consumers, m \in Messages : SF_vars(Deliver(k, m))
    /\ \A m \in Messages : WF_vars(Bury(m))

FairSpec == Spec /\ Fairness
-----------------------------------------------------------------------------
TypeOK ==
    /\ emit \in [Jobs -> [n : DOMAIN Conns,
                          pc : {"idle", "insert", "publish", "done", "failed"}]]
    /\ row \in [JobIds -> Statuses \cup {None}]
    /\ msg \in [Messages -> Places \cup Consumers]
    /\ subscribed \subseteq Consumers
    /\ live \subseteq subscribed
    /\ recorded \subseteq JobIds

(* However connections drop, processes die, queries fail and callbacks      *)
(* throw, a message is taken off the queue only after the result of its job *)
(* has been written, or by a consumer that listens for another class; and   *)
(* none is refused because it overtook the row it belongs to.               *)
AckedIsRecorded ==
    \A m \in Messages :
        /\ msg[m] = "acked" =>
             \/ IdOf(m) \in recorded
             \/ \E k \in Consumers : Matches(k, m) /\ Listens[k].class # Class[m.j]
        /\ msg[m] # "none" => row[IdOf(m)] # None

(* While a consumer of every channel keeps its connection, each published   *)
(* job is taken off in the end, or buried after MaxDeliver deliveries: no   *)
(* order of failures makes it circle or stick.                              *)
EveryJobSettles ==
    \A m \in Messages : msg[m] = "queued" ~> msg[m] \in {"acked", "dead"}
==============================================================================
