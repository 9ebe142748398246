------------------------ MODULE OrderPipelineProofs ------------------------
(***************************************************************************)
(* Proofs about OrderPipeline, for any orders, relays, workers, attempts and  *)
(* stalls: from the COMMIT of an order to its notification no event is lost    *)
(* without a trace, and the pipeline implements NotifyOnce.  The relays keep   *)
(* what OutboxRelayProofs shows, the slots of the workers what                 *)
(* InboxEffectProofs shows of any handlers; new here is the queue between them.*)
(***************************************************************************)
EXTENDS OrderPipeline, OutboxRelayProofs

Handler == INSTANCE InboxEffectProofs WITH Handlers <- Queue!Slots, Forged <- {}

(* The slots are handlers of InboxEffectProofs.                               *)
LEMMA SlotsHandle ==
  /\ Queue!Effect!InboxInv <=> Handler!InboxInv
  /\ Queue!Effect!InboxInv' <=> Handler!InboxInv'
  BY DEF Queue!Effect!InboxInv, Queue!Effect!TypeOK, Queue!Effect!ProcessedMeansNotified,
         Queue!Effect!NotifiedAtMostOnce, Queue!Effect!SkippedMeansNotified,
         Queue!Effect!ClaimsAreExclusive, Queue!Effect!Claims, Queue!Effect!At,
         Queue!Effect!Events, Queue!Effect!TxStates, Queue!Effect!NoTx, Queue!Effect!Open,
         Queue!Effect!Outcomes, Queue!Slots,
         Handler!InboxInv, Handler!TypeOK, Handler!ProcessedMeansNotified,
         Handler!NotifiedAtMostOnce, Handler!SkippedMeansNotified,
         Handler!ClaimsAreExclusive, Handler!Claims, Handler!At,
         Handler!Events, Handler!TxStates, Handler!NoTx, Handler!Open, Handler!Outcomes

LEMMA SlotsStep ==
  ASSUME NEW s \in Queue!Slots
  PROVE  /\ \A o : Queue!Effect!Start(s, o) <=> Handler!Start(s, o)
         /\ Queue!Effect!Run(s) <=> Handler!Run(s)
         /\ Queue!Effect!Fail(s) <=> Handler!Fail(s)
         /\ Queue!Effect!CommitUnanswered(s) <=> Handler!CommitUnanswered(s)
         /\ Queue!Effect!Leave(s) <=> Handler!Leave(s)
<1> USE DEF Queue!Effect!At, Queue!Effect!Goto, Handler!At, Handler!Goto,
            Queue!Effect!CommitRows, Handler!CommitRows
<1>1. \A o : Queue!Effect!Start(s, o) <=> Handler!Start(s, o)
  BY DEF Queue!Effect!Start, Handler!Start
<1>2. Queue!Effect!Match(s) <=> Handler!Match(s)
  BY DEF Queue!Effect!Match, Handler!Match
<1>3. Queue!Effect!Claim(s) <=> Handler!Claim(s)
  BY DEF Queue!Effect!Claim, Handler!Claim, Queue!Effect!Claims, Handler!Claims, Queue!Slots
<1>4. Queue!Effect!Notify(s) <=> Handler!Notify(s)
  BY DEF Queue!Effect!Notify, Handler!Notify, Queue!Effect!Inserted, Handler!Inserted, Queue!Slots
<1>5. Queue!Effect!Commit(s) <=> Handler!Commit(s)
  BY DEF Queue!Effect!Commit, Handler!Commit
<1>6. Queue!Effect!Fail(s) <=> Handler!Fail(s)
  BY DEF Queue!Effect!Fail, Handler!Fail, Queue!Effect!Open, Handler!Open
<1>7. Queue!Effect!CommitUnanswered(s) <=> Handler!CommitUnanswered(s)
  BY DEF Queue!Effect!CommitUnanswered, Handler!CommitUnanswered
<1>8. Queue!Effect!Leave(s) <=> Handler!Leave(s)
  BY DEF Queue!Effect!Leave, Handler!Leave, Queue!Effect!NoTx, Handler!NoTx
<1> QED
  BY <1>1, <1>2, <1>3, <1>4, <1>5, <1>6, <1>7, <1>8 DEF Queue!Effect!Run, Handler!Run

LEMMA NoForgedEvents == Handler!EventsAssumption
  BY DEF Handler!EventsAssumption

(* A step of a slot keeps the promise of applyOrderPlaced, and what is         *)
(* notified stays so.                                                          *)
LEMMA EffectStep ==
  ASSUME Queue!Effect!InboxInv, UNCHANGED placed, NEW s \in Queue!Slots,
         \/ \E o \in Orders : Queue!Effect!Start(s, o)
         \/ Queue!Effect!Run(s) \/ Queue!Effect!Fail(s)
         \/ Queue!Effect!CommitUnanswered(s) \/ Queue!Effect!Leave(s)
  PROVE  /\ Queue!Effect!InboxInv'
         /\ \A o \in Orders : notices[o] = 1 => notices'[o] = 1
<1>1. Handler!InboxInv
  BY SlotsHandle
<1>2. Handler!InboxInv'
  <2>1. CASE \E o \in Orders : Queue!Effect!Start(s, o)
    BY <1>1, <2>1, SlotsStep, NoForgedEvents, Handler!HandlerKeepsInv DEF Handler!Events
  <2> QED
    BY <1>1, <2>1, SlotsStep, NoForgedEvents, Handler!HandlerKeepsInv
<1>3. ASSUME NEW o \in Orders, notices[o] = 1 PROVE notices'[o] = 1
  <2>1. CASE Queue!Effect!Run(s) \/ Queue!Effect!Fail(s) \/ Queue!Effect!CommitUnanswered(s)
    BY <1>1, <1>3, <2>1, SlotsStep, NoForgedEvents, Handler!HandlerStep DEF Handler!Events
  <2> QED
    BY <1>3, <2>1 DEF Queue!Effect!Start, Queue!Effect!Leave
<1> QED
  BY <1>2, <1>3, SlotsHandle

-----------------------------------------------------------------------------
(* A job as the queue keeps it, applied or not: it goes on while it has an    *)
(* attempt and a stall left, and ends for a reason.                            *)
Jobs == [at : Queue!JobStates, by : Queue!Slots \cup {NoSlot},
         made : 0..Attempts, stalls : 0..(MaxStalls + 1)]
SoundJob(x, applied) ==
  /\ x \in Jobs
  /\ x.at \in {"waiting", "delayed", "active"} => x.made < Attempts /\ x.stalls <= MaxStalls
  /\ x.at = "completed" => applied
  /\ x.at = "failed" => x.made = Attempts \/ x.stalls > MaxStalls

(* An accepted event is in the queue until it is applied or given up.         *)
Keeps(x, accepted, applied) == accepted => applied \/ x.at \notin {"none", "completed"}

QueueInv ==
  /\ job \in [Orders -> Jobs]
  /\ \A o \in Orders : /\ SoundJob(job[o], notices[o] = 1)
                       /\ Keeps(job[o], sent[o] >= 1, notices[o] = 1)

(* PipelineInv, its parts sorted by the component that keeps them.             *)
LEMMA PipelineParts == PipelineInv <=> RelaysInv /\ Queue!Effect!InboxInv /\ QueueInv
<1>1. ASSUME PipelineInv PROVE QueueInv
  <2>1. job \in [Orders -> Jobs]
    BY <1>1 DEF PipelineInv, PipelineTypeOK, Queue!TypeOK, Jobs
  <2>2. ASSUME NEW o \in Orders PROVE SoundJob(job[o], notices[o] = 1)
    BY <1>1, <2>1 DEF PipelineInv, AttemptsAreLeft, JobsEndForAReason, Queue!Is, SoundJob
  <2>3. ASSUME NEW o \in Orders PROVE Keeps(job[o], sent[o] >= 1, notices[o] = 1)
    BY <1>1 DEF PipelineInv, AcceptedIsKept, Keeps
  <2> QED
    BY <2>1, <2>2, <2>3 DEF QueueInv
<1>2. ASSUME RelaysInv, Queue!Effect!InboxInv, QueueInv PROVE PipelineInv
  <2>1. AcceptedIsKept
    BY <1>2 DEF QueueInv, Keeps, SoundJob, Jobs, Queue!JobStates, AcceptedIsKept
  <2>2. AttemptsAreLeft /\ JobsEndForAReason
    BY <1>2 DEF QueueInv, SoundJob, AttemptsAreLeft, JobsEndForAReason, Queue!Is
  <2>3. PublishedIsNotLost
    BY <1>2, <2>1 DEF RelaysInv, PublishedMeansAccepted, AcceptedIsKept, PublishedIsNotLost
  <2>4. PipelineTypeOK
    BY <1>2 DEF PipelineTypeOK, RelaysInv, TypeOK, Queue!TypeOK, Queue!Effect!InboxInv,
                QueueInv, Jobs
  <2> QED
    BY <1>2, <2>1, <2>2, <2>3, <2>4 DEF PipelineInv
<1> QED
  BY <1>1, <1>2 DEF PipelineInv

LEMMA PipelinePartsNext ==
  PipelineInv' <=> RelaysInv' /\ Queue!Effect!InboxInv' /\ QueueInv'
  BY PipelineParts, PTL

-----------------------------------------------------------------------------
(* One job changes at a time, to a sound one that forgets no accepted event.  *)
LEMMA JobMoves ==
  ASSUME QueueInv, \A o \in Orders : notices[o] = 1 => notices'[o] = 1,
         NEW o \in Orders, NEW x, job' = [job EXCEPT ![o] = x],
         SoundJob(x, notices'[o] = 1), Keeps(x, sent'[o] >= 1, notices'[o] = 1),
         \A p \in Orders \ {o} : sent'[p] = sent[p]
  PROVE  QueueInv'
<1>1. job' \in [Orders -> Jobs]
  BY DEF QueueInv, SoundJob
<1>2. job'[o] = x /\ \A p \in Orders \ {o} : job'[p] = job[p]
  BY DEF QueueInv
<1>3. ASSUME NEW p \in Orders \ {o}
      PROVE  SoundJob(job'[p], notices'[p] = 1) /\ Keeps(job'[p], sent'[p] >= 1, notices'[p] = 1)
  BY <1>2 DEF QueueInv, SoundJob, Keeps
<1>4. QueueInv' <=> /\ job' \in [Orders -> Jobs]
                    /\ \A p \in Orders : /\ SoundJob(job'[p], notices'[p] = 1)
                                         /\ Keeps(job'[p], sent'[p] >= 1, notices'[p] = 1)
  BY DEF QueueInv, SoundJob, Keeps, Jobs, Queue!JobStates, Queue!Slots
<1> QED
  BY <1>1, <1>2, <1>3, <1>4

LEMMA JobsStay ==
  ASSUME QueueInv, \A o \in Orders : notices[o] = 1 => notices'[o] = 1,
         job' = job, sent' = sent
  PROVE  QueueInv'
  BY DEF QueueInv, SoundJob, Keeps, Jobs, Queue!JobStates, Queue!Slots

(* A publication adds its event to the queue, unless the queue has it.         *)
LEMMA AddKeeps ==
  ASSUME QueueInv, notices' = notices, NEW o \in Orders, Queue!Add(o),
         \A p \in Orders \ {o} : sent'[p] = sent[p]
  PROVE  QueueInv'
<1>1. CASE job[o].at \in {"none", "dropped"}
  <2> DEFINE x == [Queue!NoJob EXCEPT !.at = "waiting"]
  <2>1. job' = [job EXCEPT ![o] = x]
    BY <1>1 DEF Queue!Add, Queue!Is, Queue!SetJob
  <2>2. SoundJob(x, notices'[o] = 1)
    BY AttemptsAssumption DEF SoundJob, Jobs, Queue!NoJob, Queue!JobStates
  <2>3. Keeps(x, sent'[o] >= 1, notices'[o] = 1)
    BY DEF Keeps, Queue!NoJob
  <2> HIDE DEF x
  <2> QED
    BY <2>1, <2>2, <2>3, JobMoves
<1>2. CASE job[o].at \notin {"none", "dropped"}
  <2>1. job' = job /\ job = [job EXCEPT ![o] = job[o]]
    BY <1>2 DEF Queue!Add, Queue!Is, QueueInv
  <2>2. SoundJob(job[o], notices'[o] = 1) /\ Keeps(job[o], sent'[o] >= 1, notices'[o] = 1)
    BY <1>2 DEF QueueInv, SoundJob, Keeps
  <2> QED
    BY <2>1, <2>2, JobMoves
<1> QED
  BY <1>1, <1>2

(* The stalled-job check: a job that has a stall left is added again.          *)
LEMMA TakeAwayKeeps ==
  ASSUME QueueInv, UNCHANGED <<notices, sent>>, NEW o \in Orders,
         Queue!Is(o, {"active"}), Queue!TakeAway(o)
  PROVE  QueueInv'
<1> DEFINE x == [job[o] EXCEPT !.at = IF job[o].stalls = MaxStalls THEN "failed" ELSE "waiting",
                               !.by = NoSlot, !.stalls = @ + 1]
<1>1. job' = [job EXCEPT ![o] = x]
  BY DEF Queue!TakeAway, Queue!SetJob
<1>2. job[o] \in Jobs /\ job[o].made < Attempts /\ job[o].stalls <= MaxStalls
  BY DEF QueueInv, SoundJob, Queue!Is
<1>3. /\ x.made = job[o].made /\ x.stalls = job[o].stalls + 1
      /\ x.at = IF job[o].stalls = MaxStalls THEN "failed" ELSE "waiting"
      /\ x \in Jobs
  <2>1. job[o].stalls + 1 \in 0..(MaxStalls + 1)
    BY <1>2, AttemptsAssumption DEF Jobs
  <2> DEFINE n == job[o].stalls + 1
             place == IF job[o].stalls = MaxStalls THEN "failed" ELSE "waiting"
  <2>2. n \in 0..(MaxStalls + 1) /\ place \in Queue!JobStates
    BY <2>1 DEF Queue!JobStates
  <2>3. x = [job[o] EXCEPT !.at = place, !.by = NoSlot, !.stalls = n]
    OBVIOUS
  <2> HIDE DEF n, place, x
  <2>4. x \in Jobs /\ x.made = job[o].made /\ x.stalls = n /\ x.at = place
    BY <1>2, <2>2, <2>3 DEF Jobs
  <2> QED
    BY <2>4 DEF n, place
<1>4. job[o].stalls \in Nat
  BY <1>2, AttemptsAssumption DEF Jobs
<1>5. SoundJob(x, notices'[o] = 1) /\ Keeps(x, sent'[o] >= 1, notices'[o] = 1)
  <2> HIDE DEF x
  <2> QED
    BY <1>2, <1>3, <1>4, AttemptsAssumption DEF SoundJob, Keeps
<1> HIDE DEF x
<1> QED
  BY <1>1, <1>5, JobMoves

(* A slot that returns completes its job, or fails it and counts the attempt,  *)
(* if it still holds the job's lock.                                           *)
LEMMA CompleteKeeps ==
  ASSUME QueueInv, Queue!Effect!InboxInv, sent' = sent,
         NEW s \in Queue!Slots, NEW o \in Orders, Queue!Complete(s, o)
  PROVE  QueueInv'
<1>1. notices[o] = 1 /\ notices' = notices
  BY DEF Queue!Complete, Queue!Effect!InboxInv, Queue!Effect!SkippedMeansNotified,
         Queue!Effect!At, Queue!Effect!Leave
<1>2. CASE Queue!Holds(s, o)
  <2> DEFINE x == [job[o] EXCEPT !.at = "completed", !.by = NoSlot]
  <2>1. job' = [job EXCEPT ![o] = x]
    BY <1>2 DEF Queue!Complete, QueueInv
  <2>2. job[o] \in Jobs
    BY DEF QueueInv
  <2>3. SoundJob(x, notices'[o] = 1) /\ Keeps(x, sent'[o] >= 1, notices'[o] = 1)
    BY <1>1, <2>2 DEF SoundJob, Keeps, Jobs, Queue!JobStates
  <2> HIDE DEF x
  <2> QED
    BY <1>1, <2>1, <2>3, JobMoves
<1>3. CASE ~Queue!Holds(s, o)
  BY <1>1, <1>3, JobsStay DEF Queue!Complete
<1> QED
  BY <1>2, <1>3

LEMMA ThrowKeeps ==
  ASSUME QueueInv, sent' = sent,
         NEW s \in Queue!Slots, NEW o \in Orders, Queue!Throw(s, o)
  PROVE  QueueInv'
<1>1. notices' = notices
  BY DEF Queue!Throw, Queue!Effect!Leave
<1>2. CASE Queue!Holds(s, o)
  <2> DEFINE x == Queue!AfterError(job[o])
  <2>1. job' = [job EXCEPT ![o] = x]
    BY <1>2 DEF Queue!Throw, QueueInv
  <2>2. job[o] \in Jobs /\ job[o].made < Attempts /\ job[o].stalls <= MaxStalls
    BY <1>2 DEF QueueInv, SoundJob, Queue!Holds, Queue!Is
  <2>3. job[o].made \in Nat
    BY <2>2, AttemptsAssumption DEF Jobs
  <2>4. /\ x \in Jobs /\ x.made = job[o].made + 1 /\ x.stalls = job[o].stalls
        /\ x.at = IF job[o].made + 1 >= Attempts THEN "failed" ELSE "delayed"
    <3> DEFINE n == job[o].made + 1
               place == IF job[o].made + 1 >= Attempts THEN "failed" ELSE "delayed"
    <3>1. n \in 0..Attempts /\ place \in Queue!JobStates
      BY <2>2, <2>3, AttemptsAssumption DEF Queue!JobStates
    <3>2. x = [job[o] EXCEPT !.at = place, !.by = NoSlot, !.made = n]
      BY DEF Queue!AfterError
    <3> HIDE DEF n, place, x
    <3>3. x \in Jobs /\ x.made = n /\ x.stalls = job[o].stalls /\ x.at = place
      BY <2>2, <3>1, <3>2 DEF Jobs
    <3> QED
      BY <3>3 DEF n, place
  <2> HIDE DEF x
  <2>5. SoundJob(x, notices'[o] = 1) /\ Keeps(x, sent'[o] >= 1, notices'[o] = 1)
    BY <2>2, <2>3, <2>4, AttemptsAssumption DEF SoundJob, Keeps
  <2> QED
    BY <1>1, <2>1, <2>5, JobMoves
<1>3. CASE ~Queue!Holds(s, o)
  BY <1>1, <1>3, JobsStay DEF Queue!Throw
<1> QED
  BY <1>2, <1>3

LEMMA TakeKeeps ==
  ASSUME QueueInv, sent' = sent,
         NEW s \in Queue!Slots, NEW o \in Orders, Queue!Take(s, o)
  PROVE  QueueInv'
<1> DEFINE x == [job[o] EXCEPT !.at = "active", !.by = s]
<1>1. notices' = notices /\ job' = [job EXCEPT ![o] = x]
  BY DEF Queue!Take, Queue!Effect!Start, Queue!SetJob
<1>2. job[o] \in Jobs /\ job[o].made < Attempts /\ job[o].stalls <= MaxStalls
  BY DEF QueueInv, SoundJob, Queue!Take, Queue!Is
<1>3. x \in Jobs /\ x.at = "active" /\ x.made = job[o].made /\ x.stalls = job[o].stalls
  BY <1>2 DEF Jobs, Queue!JobStates
<1> HIDE DEF x
<1>4. SoundJob(x, notices'[o] = 1) /\ Keeps(x, sent'[o] >= 1, notices'[o] = 1)
  BY <1>2, <1>3 DEF SoundJob, Keeps
<1> QED
  BY <1>1, <1>4, JobMoves

LEMMA PromoteKeeps ==
  ASSUME QueueInv, sent' = sent, NEW o \in Orders, Queue!Promote(o)
  PROVE  QueueInv'
<1> DEFINE x == [job[o] EXCEPT !.at = "waiting"]
<1>1. notices' = notices /\ job' = [job EXCEPT ![o] = x]
  BY DEF Queue!Promote, Queue!effectVars, Queue!SetJob
<1>2. job[o] \in Jobs /\ job[o].made < Attempts /\ job[o].stalls <= MaxStalls
  BY DEF QueueInv, SoundJob, Queue!Promote, Queue!Is
<1>3. x \in Jobs /\ x.at = "waiting" /\ x.made = job[o].made /\ x.stalls = job[o].stalls
  BY <1>2 DEF Jobs, Queue!JobStates
<1> HIDE DEF x
<1>4. SoundJob(x, notices'[o] = 1) /\ Keeps(x, sent'[o] >= 1, notices'[o] = 1)
  BY <1>2, <1>3 DEF SoundJob, Keeps
<1> QED
  BY <1>1, <1>4, JobMoves

(* Only a completed job, whose effect is durable, leaves no trace.             *)
LEMMA RemoveKeeps ==
  ASSUME QueueInv, sent' = sent, NEW o \in Orders, Queue!Remove(o)
  PROVE  QueueInv'
<1> DEFINE place == IF job[o].at = "failed" THEN "dropped" ELSE "none"
           x == [Queue!NoJob EXCEPT !.at = place]
<1>1. notices' = notices /\ job' = [job EXCEPT ![o] = x]
  BY DEF Queue!Remove, Queue!effectVars, Queue!SetJob, Queue!Is
<1>2. x \in Jobs /\ x.at = place
  BY AttemptsAssumption DEF Jobs, Queue!NoJob, Queue!JobStates
<1>3. place = "none" => notices[o] = 1
  BY DEF QueueInv, SoundJob, Queue!Remove, Queue!Is
<1>4. place \in {"dropped", "none"}
  OBVIOUS
<1> HIDE DEF x, place
<1>5. SoundJob(x, notices'[o] = 1) /\ Keeps(x, sent'[o] >= 1, notices'[o] = 1)
  BY <1>1, <1>2, <1>3, <1>4 DEF SoundJob, Keeps
<1> QED
  BY <1>1, <1>5, JobMoves

-----------------------------------------------------------------------------
(* The steps of the relays and of the orders are those of OutboxRelay...       *)
LEMMA RelaysStep == RelaysInv /\ [Next]_vars => RelaysInv'
  BY TypeStep, OwnershipStep, AcceptanceStep DEF RelaysInv

(* ... and those of the queue leave the outbox alone, but for the shared bound *)
(* on faults.                                                                  *)
LEMMA RelaysStay ==
  ASSUME RelaysInv, UNCHANGED outboxVars, faults' \in 0..MaxFaults
  PROVE  RelaysInv' /\ UNCHANGED <<placed, sent>>
<1>1. TypeOK' /\ UNCHANGED <<placed, sent>>
  BY DEF RelaysInv, TypeOK, outboxVars, dbVars, relayVars, history, placed
<1>2. NothingInHand' /\ BatchOwnsItsRows' /\ AttemptedIsAccepted' /\ PublishedMeansAccepted'
  BY DEF RelaysInv, NothingInHand, BatchOwnsItsRows, AttemptedIsAccepted,
         PublishedMeansAccepted, outboxVars, dbVars, relayVars, history
<1> QED
  BY <1>1, <1>2 DEF RelaysInv

LEMMA QueueFaults ==
  ASSUME RelaysInv, UNCHANGED faults \/ Queue!OneFault PROVE faults' \in 0..MaxFaults
  BY BoundsAssumption DEF RelaysInv, TypeOK, Queue!OneFault

(* A slot's handler runs, fails, returns or takes a job. *)
LEMMA SlotsKeep ==
  ASSUME RelaysInv, Queue!Effect!InboxInv, QueueInv, UNCHANGED outboxVars,
         NEW s \in Queue!Slots,
         \/ Queue!SlotStep(s) \/ Queue!ApplyFails(s)
         \/ \E o \in Orders : Queue!Take(s, o)
  PROVE  RelaysInv' /\ Queue!Effect!InboxInv' /\ QueueInv'
<1>1. UNCHANGED faults \/ Queue!OneFault
  BY DEF Queue!SlotStep, Queue!Apply, Queue!ApplyFails, Queue!Complete, Queue!Throw, Queue!Take
<1>2. RelaysInv' /\ UNCHANGED <<placed, sent>>
  BY <1>1, QueueFaults, RelaysStay
<1>3. /\ Queue!Effect!InboxInv'
      /\ \A o \in Orders : notices[o] = 1 => notices'[o] = 1
  BY <1>2, EffectStep
  DEF Queue!SlotStep, Queue!Apply, Queue!ApplyFails, Queue!Complete, Queue!Throw, Queue!Take
<1>4. QueueInv'
  <2>1. CASE Queue!Apply(s) \/ Queue!ApplyFails(s)
    BY <1>2, <1>3, <2>1, JobsStay DEF Queue!Apply, Queue!ApplyFails
  <2>2. CASE \E o \in Orders : Queue!Complete(s, o) \/ Queue!Throw(s, o) \/ Queue!Take(s, o)
    BY <1>2, <2>2, CompleteKeeps, ThrowKeeps, TakeKeeps
  <2> QED
    BY <2>1, <2>2 DEF Queue!SlotStep
<1> QED
  BY <1>2, <1>3, <1>4

(* The steps in which no handler runs: BullMQ's own, and the death of a worker. *)
LEMMA EffectStays ==
  ASSUME Queue!Effect!InboxInv, UNCHANGED <<placed, inbox, notices>>,
         \/ UNCHANGED tx
         \/ \E w \in Workers :
              tx' = [s \in Queue!Slots |-> IF s[1] = w THEN Queue!Effect!NoTx ELSE tx[s]]
  PROVE  Queue!Effect!InboxInv'
<1>1. Handler!InboxInv
  BY SlotsHandle
<1>2. CASE UNCHANGED tx
  BY <1>2 DEF Queue!Effect!InboxInv, Queue!Effect!TypeOK, Queue!Effect!ProcessedMeansNotified,
         Queue!Effect!NotifiedAtMostOnce, Queue!Effect!SkippedMeansNotified,
         Queue!Effect!ClaimsAreExclusive, Queue!Effect!Claims, Queue!Effect!At,
         Queue!Effect!TxStates
<1>3. ASSUME NEW w \in Workers,
             tx' = [s \in Queue!Slots |-> IF s[1] = w THEN Queue!Effect!NoTx ELSE tx[s]]
      PROVE  Queue!Effect!InboxInv'
  <2> DEFINE gone == {s \in Queue!Slots : s[1] = w}
  <2>1. gone \in SUBSET Queue!Slots
    OBVIOUS
  <2>2. tx' = [s \in Queue!Slots |-> IF s \in gone THEN Handler!NoTx ELSE tx[s]]
    BY <1>3 DEF Queue!Effect!NoTx, Handler!NoTx
  <2> HIDE DEF gone
  <2>3. Handler!InboxInv'
    BY <1>1, <2>1, <2>2, NoForgedEvents, Handler!VanishingKeepsInv
  <2> QED
    BY <2>3, SlotsHandle
<1> QED
  BY <1>2, <1>3

LEMMA QueueKeeps ==
  ASSUME RelaysInv, Queue!Effect!InboxInv, QueueInv, UNCHANGED outboxVars,
         \/ \E o \in Orders : Queue!Promote(o) \/ Queue!Stalled(o) \/ Queue!LockExpired(o)
                              \/ Queue!Remove(o)
         \/ \E w \in Workers : Queue!Crash(w)
  PROVE  RelaysInv' /\ Queue!Effect!InboxInv' /\ QueueInv'
<1>1. UNCHANGED faults \/ Queue!OneFault
  BY DEF Queue!Promote, Queue!Stalled, Queue!LockExpired, Queue!Remove, Queue!Crash
<1>2. RelaysInv' /\ UNCHANGED <<placed, sent>>
  BY <1>1, QueueFaults, RelaysStay
<1>3. UNCHANGED <<inbox, notices>>
  BY DEF Queue!Promote, Queue!Stalled, Queue!LockExpired, Queue!Remove, Queue!Crash,
         Queue!effectVars
<1>4. Queue!Effect!InboxInv'
  <2>1. CASE \E w \in Workers : Queue!Crash(w)
    BY <1>2, <1>3, <2>1, EffectStays DEF Queue!Crash
  <2>2. CASE UNCHANGED tx
    BY <1>2, <1>3, <2>2, EffectStays
  <2> QED
    BY <2>1, <2>2 DEF Queue!Promote, Queue!Stalled, Queue!LockExpired, Queue!Remove,
                      Queue!effectVars
<1>5. QueueInv'
  <2>1. ASSUME NEW o \in Orders, Queue!Stalled(o) \/ Queue!LockExpired(o)
        PROVE  QueueInv'
    BY <1>2, <1>3, <2>1, TakeAwayKeeps DEF Queue!Stalled, Queue!LockExpired
  <2>2. ASSUME NEW o \in Orders, Queue!Promote(o) \/ Queue!Remove(o)
        PROVE  QueueInv'
    BY <1>2, <2>2, PromoteKeeps, RemoveKeeps
  <2>3. ASSUME NEW w \in Workers, Queue!Crash(w) PROVE QueueInv'
    BY <1>2, <1>3, <2>3, JobsStay DEF Queue!Crash
  <2> QED
    BY <2>1, <2>2, <2>3
<1> QED
  BY <1>2, <1>4, <1>5

(* What a relay publishes the queue gets in the same step. *)
LEMMA RelayKeeps ==
  ASSUME RelaysInv, Queue!Effect!InboxInv, QueueInv,
         NEW r \in Relays, RelayWork(r) \/ RelayFault(r)
  PROVE  RelaysInv' /\ Queue!Effect!InboxInv' /\ QueueInv'
<1>1. (Work(r) \/ Fault(r)) /\ QueueAccepts /\ UNCHANGED <<inbox, notices, tx>>
  BY DEF RelayWork, RelayFault
<1>2. RelaysInv'
  BY <1>1, RelaysStep DEF Next
<1>3. UNCHANGED placed
  BY <1>1, RelaysPlaceNothing DEF RelaysInv, placed
<1>4. Queue!Effect!InboxInv'
  BY <1>1, <1>3, EffectStays
<1>5. ASSUME sent' = sent PROVE QueueInv'
  BY <1>1, <1>5, JobsStay DEF QueueAccepts, Accepted
<1>6. ASSUME NEW o \in Orders, sent' = [sent EXCEPT ![o] = @ + 1] PROVE QueueInv'
  <2>1. sent[o] \in Nat /\ sent'[o] = sent[o] + 1 /\ \A p \in Orders \ {o} : sent'[p] = sent[p]
    BY <1>6 DEF RelaysInv, TypeOK
  <2>2. Accepted = {o}
    BY <2>1 DEF Accepted
  <2>3. Queue!Add(o)
    BY <1>1, <2>2 DEF QueueAccepts
  <2> QED
    BY <1>1, <2>1, <2>3, AddKeeps
<1>7. QueueInv'
  BY <1>1, <1>5, <1>6, OneAcceptance DEF RelaysInv
<1> QED
  BY <1>2, <1>4, <1>7

(* A transaction that commits adds an order, retention removes an outbox row.  *)
LEMMA OrdersKeep ==
  ASSUME RelaysInv, Queue!Effect!InboxInv, QueueInv,
         NEW o \in Orders, PlaceOrder(o) \/ PruneOrder(o)
  PROVE  RelaysInv' /\ Queue!Effect!InboxInv' /\ QueueInv'
<1>1. (Place(o) \/ Prune(o)) /\ UNCHANGED queueVars /\ sent' = sent
  BY DEF PlaceOrder, PruneOrder, Place, Prune, history
<1>2. RelaysInv'
  BY <1>1, RelaysStep DEF Next
<1>3. QueueInv'
  BY <1>1, JobsStay DEF queueVars
<1>4. CASE Place(o)
  <2>1. Handler!Place(o)
    BY <1>1, <1>4 DEF Handler!Place, Handler!effectVars, queueVars, Place, placed,
                      RelaysInv, TypeOK, RowStates
  <2>2. Handler!InboxInv'
    BY <2>1, SlotsHandle, NoForgedEvents, Handler!EnvironmentKeepsInv
  <2> QED
    BY <1>2, <1>3, <2>2, SlotsHandle
<1>5. CASE Prune(o)
  <2>1. UNCHANGED placed
    BY <1>5 DEF Prune, placed, RelaysInv, TypeOK
  <2> QED
    BY <1>1, <1>2, <1>3, <2>1, EffectStays DEF queueVars
<1> QED
  BY <1>1, <1>4, <1>5

(* From COMMIT to notification, whatever fails on the way: a published event   *)
(* is in the queue, applied, or given up after all its attempts.               *)
THEOREM PipelineInvariant == PipelineSpec => []PipelineInv
<1>1. PipelineInit => PipelineInv
  <2> SUFFICES ASSUME PipelineInit PROVE PipelineInv
    OBVIOUS
  <2>1. RelaysInv
    BY BoundsAssumption, RelaysAssumption
    DEF PipelineInit, Init, RelaysInv, TypeOK, RowStates, Losses, NothingInHand,
        BatchOwnsItsRows, AttemptedIsAccepted, PublishedMeansAccepted
  <2>2. Handler!Init
    BY DEF PipelineInit, Init, placed, Handler!Init, Handler!EffectInit, Handler!Events,
           Handler!NoTx, Queue!QueueInit, Queue!Effect!EffectInit, Queue!Effect!Events,
           Queue!Effect!NoTx
  <2>3. Queue!Effect!InboxInv
    BY <2>2, NoForgedEvents, SlotsHandle, Handler!InboxInvInit
  <2>4. QueueInv
    <3>1. Queue!NoJob \in Jobs
      BY AttemptsAssumption DEF Queue!NoJob, Jobs, Queue!JobStates
    <3>2. job = [o \in Orders |-> Queue!NoJob] /\ sent = [o \in Orders |-> 0]
      BY DEF PipelineInit, Init, Queue!QueueInit
    <3> QED
      BY <3>1, <3>2 DEF QueueInv, SoundJob, Keeps, Queue!NoJob
  <2> QED
    BY <2>1, <2>3, <2>4, PipelineParts
<1>2. PipelineInv /\ [PipelineNext]_pipelineVars => PipelineInv'
  <2> SUFFICES ASSUME RelaysInv, Queue!Effect!InboxInv, QueueInv,
                      [PipelineNext]_pipelineVars
               PROVE  RelaysInv' /\ Queue!Effect!InboxInv' /\ QueueInv'
    BY PipelineParts, PipelinePartsNext
  <2>1. ASSUME NEW o \in Orders, PlaceOrder(o) \/ PruneOrder(o)
        PROVE  RelaysInv' /\ Queue!Effect!InboxInv' /\ QueueInv'
    BY <2>1, OrdersKeep
  <2>2. ASSUME NEW r \in Relays, RelayWork(r) \/ RelayFault(r)
        PROVE  RelaysInv' /\ Queue!Effect!InboxInv' /\ QueueInv'
    BY <2>2, RelayKeeps
  <2>3. ASSUME NEW s \in Queue!Slots, SlotStep(s)
        PROVE  RelaysInv' /\ Queue!Effect!InboxInv' /\ QueueInv'
    BY <2>3, SlotsKeep DEF SlotStep
  <2>4. ASSUME NEW o \in Orders, QueueStep(o)
        PROVE  RelaysInv' /\ Queue!Effect!InboxInv' /\ QueueInv'
    BY <2>4, SlotsKeep, QueueKeeps DEF QueueStep, Queue!QueueStep
  <2>5. CASE QueueDisturbed
    BY <2>5, SlotsKeep, QueueKeeps DEF QueueDisturbed, Queue!Disturb
  <2>6. CASE UNCHANGED pipelineVars
    <3>1. UNCHANGED vars /\ UNCHANGED queueVars
      BY <2>6 DEF pipelineVars, outboxVars, vars
    <3>2. UNCHANGED <<placed, sent>>
      BY <3>1 DEF vars, dbVars, history, placed
    <3> QED
      BY <3>1, <3>2, RelaysStep, EffectStays, JobsStay DEF queueVars
  <2> QED
    BY <2>1, <2>2, <2>3, <2>4, <2>5, <2>6 DEF PipelineNext
<1> QED
  BY <1>1, <1>2, PTL DEF PipelineSpec

(* A published event is never lost without a trace. *)
THEOREM NothingIsLost == PipelineSpec => []PublishedIsNotLost
  BY PipelineInvariant, PTL DEF PipelineInv

-----------------------------------------------------------------------------
(* A COMMIT of a slot is the one step of the pipeline that NotifyOnce sees     *)
(* beside the COMMIT of an order.                                              *)
LEMMA SlotsNotify ==
  ASSUME Queue!Effect!InboxInv, UNCHANGED placed, NEW s \in Queue!Slots,
         \/ \E o \in Orders : Queue!Take(s, o)
         \/ Queue!SlotStep(s) \/ Queue!ApplyFails(s)
  PROVE  [Promise!Next]_<<placed, [o \in Orders |-> notices[o]]>>
<1>1. CASE Handler!CommitRows(s)
  <2>1. [Handler!Promise!Next]_<<placed, [o \in Orders |-> notices[o]]>>
    BY <1>1, SlotsHandle, NoForgedEvents, Handler!CommitNotifies
  <2> QED
    BY <2>1 DEF Handler!Promise!Next, Handler!Promise!Place, Handler!Promise!Notify,
                Promise!Next, Promise!Place, Promise!Notify
<1>2. CASE notices' = notices
  BY <1>2
<1>3. Handler!CommitRows(s) \/ notices' = notices
  <2>1. CASE Queue!Effect!Run(s) \/ Queue!Effect!CommitUnanswered(s)
    BY <2>1, SlotsStep DEF Handler!Run, Handler!Match, Handler!Claim, Handler!Notify,
                           Handler!Commit, Handler!CommitUnanswered
  <2> QED
    BY <2>1 DEF Queue!SlotStep, Queue!Apply, Queue!ApplyFails, Queue!Complete, Queue!Throw,
                Queue!Take, Queue!Effect!Start, Queue!Effect!Fail, Queue!Effect!Leave
<1> QED
  BY <1>1, <1>2, <1>3

(* Relays that publish twice, jobs added twice, slots that lost their locks    *)
(* and the slots that took over: an order is notified at most once, and only   *)
(* after its COMMIT.                                                           *)
THEOREM PipelineNotifiesOnce == PipelineSpec => Promised
<1>1. PipelineInit => Promise!Init
  BY DEF PipelineInit, Init, placed, Queue!QueueInit, Queue!Effect!EffectInit,
         Queue!Effect!Events, Promise!Init
<1>2. PipelineInv /\ [PipelineNext]_pipelineVars
        => [Promise!Next]_<<placed, [o \in Orders |-> notices[o]]>>
  <2> SUFFICES ASSUME PipelineInv, [PipelineNext]_pipelineVars
               PROVE  [Promise!Next]_<<placed, [o \in Orders |-> notices[o]]>>
    OBVIOUS
  <2>0. RelaysInv /\ Queue!Effect!InboxInv
    BY DEF PipelineInv
  <2>1. ASSUME NEW o \in Orders, PlaceOrder(o) PROVE Promise!Next
    BY <2>0, <2>1 DEF PlaceOrder, Place, placed, queueVars, RelaysInv, TypeOK, Promise!Next,
                      Promise!Place
  <2>2. ASSUME NEW o \in Orders, PruneOrder(o) PROVE UNCHANGED <<placed, notices>>
    BY <2>0, <2>2 DEF PruneOrder, Prune, placed, queueVars, RelaysInv, TypeOK
  <2>3. ASSUME NEW r \in Relays, RelayWork(r) \/ RelayFault(r)
        PROVE  UNCHANGED <<placed, notices>>
    BY <2>0, <2>3, RelaysPlaceNothing DEF RelayWork, RelayFault, RelaysInv, placed
  <2>4. UNCHANGED outboxVars => UNCHANGED placed
    BY DEF outboxVars, dbVars, placed
  <2>5. ASSUME NEW s \in Queue!Slots, UNCHANGED outboxVars,
               \/ \E o \in Orders : Queue!Take(s, o)
               \/ Queue!SlotStep(s) \/ Queue!ApplyFails(s)
        PROVE  [Promise!Next]_<<placed, [o \in Orders |-> notices[o]]>>
    BY <2>0, <2>4, <2>5, SlotsNotify
  <2>6. ASSUME UNCHANGED outboxVars,
               \/ \E o \in Orders : Queue!Promote(o) \/ Queue!Stalled(o)
                                    \/ Queue!LockExpired(o) \/ Queue!Remove(o)
               \/ \E w \in Workers : Queue!Crash(w)
        PROVE  UNCHANGED <<placed, notices>>
    BY <2>4, <2>6 DEF Queue!Promote, Queue!Stalled, Queue!LockExpired, Queue!Remove,
                      Queue!Crash, Queue!effectVars
  <2>7. CASE UNCHANGED pipelineVars
    BY <2>4, <2>7 DEF pipelineVars, queueVars
  <2>8. CASE UNCHANGED <<placed, notices>>
    BY <2>8
  <2> QED
    BY <2>1, <2>2, <2>3, <2>5, <2>6, <2>7, <2>8
    DEF PipelineNext, SlotStep, QueueStep, QueueDisturbed, Queue!QueueStep, Queue!Disturb
<1> QED
  BY <1>1, <1>2, PipelineInvariant, PTL DEF PipelineSpec, Promised, Promise!Spec
=============================================================================
