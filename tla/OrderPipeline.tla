--------------------------- MODULE OrderPipeline ---------------------------
(***************************************************************************)
(* The deployed path of an order's event, end to end: the order commits     *)
(* with its outbox row, relays (the outbox-relay process and the worker's    *)
(* outbox-sweep jobs) drain the outbox into the BullMQ queue, workers apply   *)
(* it.  Composes OutboxRelay and OrderQueue: a publication the broker         *)
(* accepts is an Add to the queue, and an order is placed when it has an      *)
(* outbox row.                                                                *)
(***************************************************************************)
EXTENDS OutboxRelay

CONSTANTS
  Workers, Concurrency, NoSlot, Attempts, MaxStalls     \* see OrderQueue

VARIABLES inbox, notices, tx, job                       \* see OrderQueue

placed == {o \in Orders : row[o] # "none"}
Queue == INSTANCE OrderQueue

ASSUME SlotsAssumption == NoSlot \notin Queue!Slots
ASSUME AttemptsAssumption == Attempts \in Nat \ {0} /\ MaxStalls \in Nat

outboxVars == <<dbVars, relayVars, history>>
queueVars == <<inbox, notices, tx, job>>
pipelineVars == <<outboxVars, queueVars, faults>>

PipelineTypeOK == TypeOK /\ Queue!TypeOK

PipelineInit == Init /\ Queue!QueueInit

-----------------------------------------------------------------------------
(* The event an outbox step made the broker accept, if any, is added to the  *)
(* queue by the same step; the rest of the queue stays.                       *)
Accepted == {o \in Orders : sent'[o] # sent[o]}
QueueAccepts ==
  IF Accepted = {} THEN UNCHANGED job ELSE \E o \in Accepted : Queue!Add(o)

RelayWork(r) == Work(r) /\ QueueAccepts /\ UNCHANGED <<inbox, notices, tx>>
RelayFault(r) == Fault(r) /\ QueueAccepts /\ UNCHANGED <<inbox, notices, tx>>
PlaceOrder(o) == Place(o) /\ UNCHANGED queueVars
PruneOrder(o) == Prune(o) /\ UNCHANGED queueVars

SlotStep(s) == Queue!SlotStep(s) /\ UNCHANGED outboxVars
QueueStep(o) == Queue!QueueStep(o) /\ UNCHANGED outboxVars
QueueDisturbed == Queue!Disturb /\ UNCHANGED outboxVars

PipelineNext ==
  \/ \E o \in Orders : PlaceOrder(o) \/ PruneOrder(o) \/ QueueStep(o)
  \/ \E r \in Relays : RelayWork(r) \/ RelayFault(r)
  \/ \E s \in Queue!Slots : SlotStep(s)
  \/ QueueDisturbed

PipelineSpec == PipelineInit /\ [][PipelineNext]_pipelineVars

PipelineFairness ==
  /\ \A r \in Relays : WF_pipelineVars(RelayWork(r))
  /\ \A s \in Queue!Slots : WF_pipelineVars(SlotStep(s))
  /\ \A o \in Orders : WF_pipelineVars(QueueStep(o))
FairPipelineSpec == PipelineSpec /\ PipelineFairness

-----------------------------------------------------------------------------
(* From the COMMIT of the order to the notification nothing is lost without  *)
(* a trace: an event marked as published is in the queue, or applied, or      *)
(* given up by BullMQ after all its attempts.                                 *)
PublishedIsNotLost ==
  \A o \in Orders : row[o] \in {"published", "deleted"} =>
    \/ notices[o] = 1
    \/ job[o].at \in {"waiting", "delayed", "active", "failed", "dropped"}

(* BullMQ forgets a job only after its effect is durable (a completed job's   *)
(* order is notified, also when the slot that completed it came second), and  *)
(* gives one up after all its attempts or repeated stalls, never before.       *)
JobsEndForAReason ==
  \A o \in Orders :
    /\ Queue!Is(o, {"completed"}) => notices[o] = 1
    /\ Queue!Is(o, {"failed"}) => job[o].made = Attempts \/ job[o].stalls > MaxStalls

(* What the broker accepted the queue keeps until its effect is durable or    *)
(* BullMQ gave it up: an Add that a kept job absorbs loses nothing.            *)
AcceptedIsKept ==
  \A o \in Orders : sent[o] >= 1 =>
    \/ notices[o] = 1
    \/ job[o].at \in {"waiting", "delayed", "active", "failed", "dropped"}

(* A job that goes on has an attempt and a stall left. *)
AttemptsAreLeft ==
  \A o \in Orders : Queue!Is(o, {"waiting", "delayed", "active"}) =>
    job[o].made < Attempts /\ job[o].stalls <= MaxStalls

(* What the relays keep by themselves (see OutboxRelay): no mark without the  *)
(* broker's acceptance, because a live batch owns its rows.                    *)
RelaysInv ==
  /\ TypeOK
  /\ NothingInHand
  /\ BatchOwnsItsRows
  /\ AttemptedIsAccepted
  /\ PublishedMeansAccepted

(* The inductive invariant: the promise of the outbox, that of the effect, and *)
(* what the queue between them keeps.                                          *)
PipelineInv ==
  /\ PipelineTypeOK
  /\ RelaysInv
  /\ Queue!Effect!InboxInv
  /\ AcceptedIsKept
  /\ AttemptsAreLeft
  /\ PublishedIsNotLost
  /\ JobsEndForAReason

(* The pipeline implements NotifyOnce: a relay that publishes twice, a slot   *)
(* that lost its lock and the slot that took over notify an order once.        *)
Promise == INSTANCE NotifyOnce WITH notices <- [o \in Orders |-> notices[o]]
Promised == Promise!Spec

(* A committed order is notified in the end, or BullMQ gave its job up.      *)
NotifiedOrGivenUp ==
  \A o \in Orders : o \in placed ~> (notices[o] = 1 \/ job[o].at \in {"failed", "dropped"})
=============================================================================
