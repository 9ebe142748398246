----------------------------- MODULE OrderQueue -----------------------------
(***************************************************************************)
(* The BullMQ queue shop-order-work and its worker processes                *)
(* (src/marketplace/src/redis/queue.ts, worker-main.ts).  A job carries the *)
(* event's id, so adding it again does nothing while BullMQ keeps the job;   *)
(* a slot of a worker runs applyOrderPlaced (module InboxEffect) for it.     *)
(* BullMQ itself is external: its retries, stalled-job check and retention   *)
(* are modelled as JOB_OPTIONS configures them.                              *)
(***************************************************************************)
EXTENDS Naturals, FiniteSets

CONSTANTS
  Orders,        \* events of committed orders
  Workers,       \* worker processes
  Concurrency,   \* jobs a worker runs at a time
  NoSlot,
  Attempts,      \* JOB_OPTIONS.attempts
  MaxStalls,     \* stalls BullMQ tolerates before it fails a job
  MaxFaults      \* bound on failures, crashes and lost locks

Slots == Workers \X (1..Concurrency)

VARIABLES
  placed, inbox, notices, tx,   \* see InboxEffect; a handler is a slot
  job,                          \* the job of each event
  faults

Effect == INSTANCE InboxEffect WITH Handlers <- Slots, Forged <- {}

effectVars == <<inbox, notices, tx>>
queueVars == <<effectVars, job>>

(* "none": never added, or removed after it completed; "dropped": removed    *)
(* after it failed.                                                           *)
JobStates ==
  {"none", "waiting", "delayed", "active", "completed", "failed", "dropped"}
NoJob == [at |-> "none", by |-> NoSlot, made |-> 0, stalls |-> 0]

TypeOK ==
  /\ Effect!TypeOK
  /\ job \in [Orders -> [at : JobStates, by : Slots \cup {NoSlot},
                         made : 0..Attempts, stalls : 0..(MaxStalls + 1)]]
  /\ faults \in 0..MaxFaults

QueueInit ==
  /\ Effect!EffectInit
  /\ job = [o \in Orders |-> NoJob]

-----------------------------------------------------------------------------
Is(o, places) == job[o].at \in places
OneFault == faults < MaxFaults /\ faults' = faults + 1
Holds(s, o) == Is(o, {"active"}) /\ job[o].by = s
Runs(s, o) == ~Effect!At(s, {"idle"}) /\ tx[s].ev = o
SetJob(o, x) == job' = [job EXCEPT ![o] = x]

(* queue.add(..., {jobId: eventId}): a kept job absorbs the repeated id. *)
Add(o) ==
  IF Is(o, {"none", "dropped"}) THEN SetJob(o, [NoJob EXCEPT !.at = "waiting"])
  ELSE job' = job

(* A free slot of a worker takes the job. *)
Take(s, o) ==
  /\ Is(o, {"waiting"})
  /\ Effect!Start(s, o)
  /\ SetJob(o, [job[o] EXCEPT !.at = "active", !.by = s])
  /\ UNCHANGED faults

Apply(s) == Effect!Run(s) /\ UNCHANGED <<job, faults>>

ApplyFails(s) ==
  /\ OneFault
  /\ Effect!Fail(s) \/ Effect!CommitUnanswered(s)
  /\ UNCHANGED job

(* The processor returned: BullMQ completes the job if the slot still holds  *)
(* its lock.                                                                   *)
Complete(s, o) ==
  /\ Effect!At(s, {"applied", "skipped"}) /\ tx[s].ev = o
  /\ job' = IF Holds(s, o)
            THEN [job EXCEPT ![o].at = "completed", ![o].by = NoSlot]
            ELSE job
  /\ Effect!Leave(s)
  /\ UNCHANGED faults

(* The processor threw: back off, or fail for good after the last attempt.   *)
AfterError(x) ==
  [x EXCEPT !.at = IF x.made + 1 >= Attempts THEN "failed" ELSE "delayed",
            !.by = NoSlot, !.made = @ + 1]

Throw(s, o) ==
  /\ Effect!At(s, {"failed", "invalid"}) /\ tx[s].ev = o
  /\ job' = IF Holds(s, o) THEN [job EXCEPT ![o] = AfterError(@)] ELSE job
  /\ Effect!Leave(s)
  /\ UNCHANGED faults

(* The backoff delay is over. *)
Promote(o) ==
  /\ Is(o, {"delayed"})
  /\ SetJob(o, [job[o] EXCEPT !.at = "waiting"])
  /\ UNCHANGED <<effectVars, faults>>

(* The stalled-job check takes an active job away from its slot. *)
TakeAway(o) ==
  SetJob(o, [job[o] EXCEPT !.at = IF job[o].stalls = MaxStalls THEN "failed" ELSE "waiting",
                           !.by = NoSlot, !.stalls = @ + 1])

(* The slot's process died... *)
Stalled(o) ==
  /\ Is(o, {"active"}) /\ ~Runs(job[o].by, o)
  /\ TakeAway(o)
  /\ UNCHANGED <<effectVars, faults>>

(* ... or it only failed to renew its lock in time, and runs on. *)
LockExpired(o) ==
  /\ Is(o, {"active"}) /\ Runs(job[o].by, o)
  /\ OneFault
  /\ TakeAway(o)
  /\ UNCHANGED effectVars

(* A worker process dies; every slot's transaction is rolled back. *)
Crash(w) ==
  /\ OneFault
  /\ tx' = [s \in Slots |-> IF s[1] = w THEN Effect!NoTx ELSE tx[s]]
  /\ UNCHANGED <<inbox, notices, job>>

(* removeOnComplete and removeOnFail. *)
Remove(o) ==
  /\ Is(o, {"completed", "failed"})
  /\ SetJob(o, [NoJob EXCEPT !.at = IF Is(o, {"failed"}) THEN "dropped" ELSE "none"])
  /\ UNCHANGED <<effectVars, faults>>

-----------------------------------------------------------------------------
SlotStep(s) == Apply(s) \/ \E o \in Orders : Complete(s, o) \/ Throw(s, o)
QueueStep(o) == Promote(o) \/ Stalled(o) \/ \E s \in Slots : Take(s, o)
Disturb ==
  \/ \E s \in Slots : ApplyFails(s)
  \/ \E o \in Orders : LockExpired(o) \/ Remove(o)
  \/ \E w \in Workers : Crash(w)
=============================================================================
