--------------------------- MODULE OrderConsumer ---------------------------
(***************************************************************************)
(* The RabbitMQ consumers of order.placed                                   *)
(* (src/marketplace/src/async/consumer.ts, topology.ts, consumer-main.ts)    *)
(* on a quorum work queue with a delivery limit and a dead-letter queue.     *)
(* Each delivery runs handle(): applyOrderPlaced (module InboxEffect), then  *)
(* ack, reject or requeue.  The broker is modelled by where each message     *)
(* copy is; it may redeliver a copy while the consumer that held it still    *)
(* runs, not knowing that its connection is gone.                            *)
(***************************************************************************)
EXTENDS InboxEffect, FiniteSets

CONSTANTS
  Consumers,       \* OrderConsumer processes
  NoConsumer,
  Msgs,            \* message copies the broker may hold
  Prefetch,        \* PREFETCH
  DeliveryLimit,   \* x-delivery-limit
  MaxFaults        \* bound on failures, crashes, stops, lost links, prunings

ASSUME ConsumersAssumption == NoConsumer \notin Consumers
ASSUME HandlersAssumption == Handlers = Consumers \X Msgs
ASSUME LimitsAssumption ==
  Prefetch \in Nat \ {0} /\ DeliveryLimit \in Nat /\ MaxFaults \in Nat

VARIABLES
  msg,         \* each message copy at the broker
  link,        \* each consumer process and its channel
  faults

consumerVars == <<vars, msg, link, faults>>

NoMsg == [at |-> "none"]
Places == {"ready", "unacked", "acked", "dlq"}
Links == {"open", "stopping", "cut", "down"}
Copies == [at : Places, ev : Events, to : Consumers \cup {NoConsumer},
           returns : 0..(DeliveryLimit + 1)]

ConsumerTypeOK ==
  /\ TypeOK
  /\ msg \in [Msgs -> {NoMsg} \cup Copies]
  /\ link \in [Consumers -> Links]
  /\ faults \in 0..MaxFaults

ConsumerInit ==
  /\ Init
  /\ msg = [m \in Msgs |-> NoMsg]
  /\ link = [c \in Consumers |-> "open"]
  /\ faults = 0

-----------------------------------------------------------------------------
Is(m, at) == msg[m].at = at
Unacked(c) == {m \in Msgs : Is(m, "unacked") /\ msg[m].to = c}
Busy(c) == {m \in Msgs : ~At(<<c, m>>, {"idle"})}
Attached(c) == link[c] \in {"open", "stopping"}
OneFault == faults < MaxFaults /\ faults' = faults + 1

(* A copy goes back to the queue, or to the dead-letter queue beyond the     *)
(* delivery limit.                                                            *)
Requeued(x) ==
  [x EXCEPT !.at = IF x.returns = DeliveryLimit THEN "dlq" ELSE "ready",
            !.to = NoConsumer, !.returns = @ + 1]

(* The broker sees the consumer's channel end: all it held is requeued. *)
RequeueAllOf(c) ==
  msg' = [m \in Msgs |-> IF m \in Unacked(c) THEN Requeued(msg[m]) ELSE msg[m]]

(* The process ends: its handlers vanish and PostgreSQL rolls them back. *)
DropHandlers(c) ==
  /\ tx' = [h \in Handlers |-> IF h[1] = c THEN NoTx ELSE tx[h]]
  /\ UNCHANGED <<placed, inbox, notices>>

-----------------------------------------------------------------------------
(* An order commits. *)
Order(o) == Place(o) /\ UNCHANGED <<msg, link, faults>>

(* An operator prunes the inbox. *)
Prune(e) == PruneInbox(e) /\ OneFault /\ UNCHANGED <<placed, msg, link>>

(* A relay's (possibly repeated) publication, or a poison message. *)
Publish(m, e) ==
  /\ Is(m, "none")
  /\ e \in placed \cup Forged
  /\ msg' = [msg EXCEPT ![m] =
               [at |-> "ready", ev |-> e, to |-> NoConsumer, returns |-> 0]]
  /\ UNCHANGED <<vars, link, faults>>

(* The consume callback: handle(message) begins. *)
Deliver(c, m) ==
  /\ link[c] = "open" /\ Is(m, "ready")
  /\ Cardinality(Unacked(c)) < Prefetch
  /\ Start(<<c, m>>, msg[m].ev)
  /\ msg' = [msg EXCEPT ![m].at = "unacked", ![m].to = c]
  /\ UNCHANGED <<placed, link, faults>>

(* One statement of applyOrderPlaced. *)
Apply(c, m) ==
  /\ Run(<<c, m>>)
  /\ UNCHANGED <<placed, msg, link, faults>>

ApplyFails(c, m) ==
  /\ OneFault
  /\ Fail(<<c, m>>) \/ CommitUnanswered(<<c, m>>)
  /\ UNCHANGED <<placed, msg, link>>

(* What handle() tells the broker about a copy: ack, reject to the           *)
(* dead-letter queue, or requeue.                                             *)
Settled(x, at) == [x EXCEPT !.at = at, !.to = NoConsumer]
\* Verdict with a fault, for the checks.
VerdictAckAlways(x, outcome) == Settled(x, "acked")
Verdict(x, outcome) ==
  CASE outcome \in {"applied", "skipped"} -> Settled(x, "acked")
    [] outcome = "invalid" -> Settled(x, "dlq")
    [] outcome = "failed" -> Requeued(x)

\* Settle with a fault, for the checks.
SettleEarly(c, m) ==
  /\ Attached(c) /\ At(<<c, m>>, {"notified"} \cup Outcomes)
  /\ msg' = [msg EXCEPT ![m] =
        IF At(<<c, m>>, {"notified"}) THEN Settled(@, "acked")
        ELSE Verdict(@, tx[<<c, m>>].at)]
  /\ Leave(<<c, m>>)
  /\ UNCHANGED <<placed, link, faults>>

(* The end of handle(), after the transaction. *)
Settle(c, m) ==
  /\ Attached(c) /\ At(<<c, m>>, Outcomes)
  /\ msg' = [msg EXCEPT ![m] = Verdict(@, tx[<<c, m>>].at)]
  /\ Leave(<<c, m>>)
  /\ UNCHANGED <<placed, link, faults>>

(* The broker drops the link and requeues; the process does not know yet:    *)
(* its handlers run on and may still commit.                                  *)
LinkLost(c) ==
  /\ Attached(c) /\ OneFault
  /\ link' = [link EXCEPT ![c] = "cut"]
  /\ RequeueAllOf(c)
  /\ UNCHANGED vars

(* 'close' fires, or an ack on the dead channel throws: fatal, exit(1); so    *)
(* does a stopping consumer whose link is gone.                               *)
Exit(c) ==
  /\ link[c] = "cut"
  /\ link' = [link EXCEPT ![c] = "down"]
  /\ DropHandlers(c)
  /\ UNCHANGED <<msg, faults>>

(* SIGKILL at any point, between the effect and the ack included. *)
Crash(c) ==
  /\ Attached(c) /\ OneFault
  /\ link' = [link EXCEPT ![c] = "down"]
  /\ RequeueAllOf(c)
  /\ DropHandlers(c)

(* SIGTERM: stop() cancels the subscription... *)
Stop(c) ==
  /\ link[c] = "open" /\ OneFault
  /\ link' = [link EXCEPT ![c] = "stopping"]
  /\ UNCHANGED <<vars, msg>>

\* Stopped with a fault, for the checks.
StoppedAtOnce(c) ==
  /\ link[c] = "stopping"
  /\ link' = [link EXCEPT ![c] = "down"]
  /\ UNCHANGED <<vars, msg, faults>>

(* ... waits for everything in flight and closes the channel. *)
Stopped(c) ==
  /\ link[c] = "stopping" /\ Busy(c) = {}
  /\ link' = [link EXCEPT ![c] = "down"]
  /\ UNCHANGED <<vars, msg, faults>>

(* The container is started again and start() subscribes. *)
Restart(c) ==
  /\ link[c] = "down"
  /\ link' = [link EXCEPT ![c] = "open"]
  /\ UNCHANGED <<vars, msg, faults>>

-----------------------------------------------------------------------------
Handle(c, m) == Apply(c, m) \/ Settle(c, m)
Lifecycle(c) == Exit(c) \/ Stopped(c) \/ Restart(c)

ConsumerNext ==
  \/ \E m \in Msgs : \/ \E e \in Events : Publish(m, e)
                     \/ \E c \in Consumers : \/ Deliver(c, m) \/ Handle(c, m)
                                             \/ ApplyFails(c, m)
  \/ \E c \in Consumers : Lifecycle(c) \/ LinkLost(c) \/ Crash(c) \/ Stop(c)
  \/ \E o \in Orders : Order(o)
  \/ \E e \in Events : Prune(e)

ConsumerSpec == ConsumerInit /\ [][ConsumerNext]_consumerVars

(* Event loops keep running handlers, the broker keeps delivering ready      *)
(* messages and the container runtime restarts consumers.                     *)
Fairness ==
  /\ \A c \in Consumers, m \in Msgs : WF_consumerVars(Handle(c, m))
  /\ \A m \in Msgs : WF_consumerVars(\E c \in Consumers : Deliver(c, m))
  /\ \A c \in Consumers : WF_consumerVars(Lifecycle(c))
FairSpec == ConsumerSpec /\ Fairness

-----------------------------------------------------------------------------
(* Manual ack after COMMIT: a copy leaves the queue as handled only when its *)
(* order's notification is durable, whichever consumer wrote it.              *)
AckedMeansNotified ==
  \A m \in Msgs : Is(m, "acked") => notices[msg[m].ev] = 1

(* Dead-lettering is for forged messages and exhausted retries only. *)
DeadLettersAreJustified ==
  \A m \in Msgs : Is(m, "dlq") => msg[m].ev \in Forged \/ msg[m].returns > DeliveryLimit

(* A copy the broker counts as unacknowledged is in the hands of a running   *)
(* handler of the consumer it went to: none is stranded without a handler     *)
(* to settle it, not even across a graceful stop.                             *)
UnackedIsHandled ==
  \A m \in Msgs : Is(m, "unacked") =>
    Attached(msg[m].to) /\ m \in Busy(msg[m].to)

(* stop() drains: a consumer that is down has no handler left that could      *)
(* still write, and nobody settles a copy twice.                              *)
DownIsQuiet == \A c \in Consumers : link[c] = "down" => Busy(c) = {} /\ Unacked(c) = {}

(* A handler of an attached consumer has its copy in hand, so its verdict is  *)
(* about that copy; only a cut consumer may run a handler without one.  And    *)
(* every genuine event in the system is of a committed order.                  *)
InHand ==
  /\ \A c \in Consumers, m \in Msgs : Attached(c) /\ ~At(<<c, m>>, {"idle"}) =>
       Is(m, "unacked") /\ msg[m].to = c /\ msg[m].ev = tx[<<c, m>>].ev
  /\ \A m \in Msgs : /\ Is(m, "unacked") => msg[m].to \in Consumers
                     /\ msg[m].at \in {"ready", "unacked"} => msg[m].returns <= DeliveryLimit
                     /\ ~Is(m, "none") => msg[m].ev \in placed \cup Forged
  /\ \A h \in Handlers : /\ ~At(h, {"idle"}) => tx[h].ev \in placed \cup Forged
                         /\ At(h, {"invalid"}) => tx[h].ev \in Forged

(* The types, a quiet stop, hands and justified dead letters, together;        *)
(* InboxInv and Promised hold beside them, though a redelivered copy and the    *)
(* handler that lost it may run side by side.                                   *)
ConsumerInv ==
  /\ ConsumerTypeOK
  /\ InHand
  /\ DeadLettersAreJustified
  /\ UnackedIsHandled
  /\ DownIsQuiet

(* A genuine event is notified unless its copy ran out of deliveries.        *)
Exhausted(m) == Is(m, "dlq") /\ msg[m].returns > DeliveryLimit
GenuineIsNotified ==
  \A m \in Msgs, o \in Orders :
    (Is(m, "ready") /\ msg[m].ev = o) ~> (notices[o] = 1 \/ Exhausted(m))
=============================================================================
