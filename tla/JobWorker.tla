----------------------------- MODULE JobWorker -----------------------------
(***************************************************************************)
(* The workers that drain the jobs table (src/marketplace/src/worker.ts).    *)
(* Each claims the first pending job nobody has locked (FOR UPDATE SKIP       *)
(* LOCKED), processes it inside the claiming transaction, marks it done and  *)
(* commits; it returns when no pending job of its scope is left, locked ones *)
(* included.                                                                   *)
(***************************************************************************)
EXTENDS Integers, FiniteSets

CONSTANTS
  Jobs,       \* job ids: ORDER BY id
  Workers,    \* calls of runWorker()
  NoWorker,   \* holder of an unlocked job, worker_id of a pending one
  MaxFaults   \* bound on failures

ASSUME JobsAssumption == Jobs \subseteq Nat /\ IsFiniteSet(Jobs)
ASSUME WorkersAssumption ==
  IsFiniteSet(Workers) /\ NoWorker \notin Workers /\ MaxFaults \in Nat

VARIABLES
  status,     \* committed status of each job, "none" before its order commits
  processed,  \* jobs.processed
  workerId,   \* jobs.worker_id
  holder,     \* whose transaction holds the job's row lock
  at, live,   \* where each call is; whether its transaction's session lives
  job,        \* the job its transaction claimed, as a set
  scope,      \* orderIds: the jobs the call may take
  credited,   \* jobs counted in its local `processed`
  due,        \* history: jobs of its scope that were pending when it started
  runs,       \* history: completed runs of processJob
  faults

table == <<status, processed, workerId>>
callVars == <<at, live, job, scope, credited, due>>
jobVars == <<table, holder, callVars, runs, faults>>

Steps == {"idle", "claim", "process", "update", "commit", "poll", "returned", "failed"}

JobTypeOK ==
  /\ status \in [Jobs -> {"none", "pending", "done"}]
  /\ processed \in [Jobs -> Nat]
  /\ workerId \in [Jobs -> Workers \cup {NoWorker}]
  /\ holder \in [Jobs -> Workers \cup {NoWorker}]
  /\ at \in [Workers -> Steps]
  /\ live \in [Workers -> BOOLEAN]
  /\ job \in [Workers -> SUBSET Jobs]
  /\ scope \in [Workers -> SUBSET Jobs]
  /\ credited \in [Workers -> SUBSET Jobs]
  /\ due \in [Workers -> SUBSET Jobs]
  /\ runs \in [Jobs -> Nat]
  /\ faults \in 0..MaxFaults

JobInit ==
  /\ status = [j \in Jobs |-> "none"]
  /\ processed = [j \in Jobs |-> 0]
  /\ workerId = [j \in Jobs |-> NoWorker]
  /\ holder = [j \in Jobs |-> NoWorker]
  /\ at = [w \in Workers |-> "idle"]
  /\ live = [w \in Workers |-> TRUE]
  /\ job = [w \in Workers |-> {}]
  /\ scope = [w \in Workers |-> {}]
  /\ credited = [w \in Workers |-> {}]
  /\ due = [w \in Workers |-> {}]
  /\ runs = [j \in Jobs |-> 0]
  /\ faults = 0

-----------------------------------------------------------------------------
JobGoto(w, step) == at' = [at EXCEPT ![w] = step]
OneFault == faults < MaxFaults /\ faults' = faults + 1
InScope(w) == {j \in scope[w] : status[j] = "pending"}
InJob == {"process", "update", "commit"}
Released(w) == [j \in Jobs |-> IF holder[j] = w THEN NoWorker ELSE holder[j]]

(* The transaction is over: its lock is gone. *)
EndJob(w) ==
  /\ holder' = Released(w)
  /\ job' = [job EXCEPT ![w] = {}]
  /\ live' = [live EXCEPT ![w] = TRUE]

(* A checkout commits, and its job with it. *)
Enqueue(j) ==
  /\ status[j] = "none"
  /\ status' = [status EXCEPT ![j] = "pending"]
  /\ UNCHANGED <<processed, workerId, holder, callVars, runs, faults>>

(* runWorker() is called, for some orders or for all. *)
Start(w, S) ==
  /\ at[w] = "idle"
  /\ JobGoto(w, "claim")
  /\ scope' = [scope EXCEPT ![w] = S]
  /\ due' = [due EXCEPT ![w] = {j \in S : status[j] = "pending"}]
  /\ UNCHANGED <<table, holder, live, job, credited, runs, faults>>

\* Claim with a fault, for the checks.
ClaimLocked(w) ==
  /\ at[w] = "claim"
  /\ \E j \in InScope(w) :
       /\ \A k \in InScope(w) : j <= k
       /\ holder' = [holder EXCEPT ![j] = w]
       /\ job' = [job EXCEPT ![w] = {j}]
  /\ JobGoto(w, "process")
  /\ UNCHANGED <<table, live, scope, credited, due, runs, faults>>

(* SELECT ... ORDER BY id FOR UPDATE SKIP LOCKED LIMIT 1. *)
Claim(w) ==
  LET free == {j \in InScope(w) : holder[j] = NoWorker} IN
  /\ at[w] = "claim"
  /\ \E j \in free :
       /\ \A k \in free : j <= k
       /\ holder' = [holder EXCEPT ![j] = w]
       /\ job' = [job EXCEPT ![w] = {j}]
  /\ JobGoto(w, "process")
  /\ UNCHANGED <<table, live, scope, credited, due, runs, faults>>

\* ClaimNothing with a fault, for the checks.
ReturnWhenNoneFree(w) ==
  /\ at[w] = "claim"
  /\ \A j \in InScope(w) : holder[j] # NoWorker
  /\ JobGoto(w, "returned")
  /\ UNCHANGED <<table, holder, live, job, scope, credited, due, runs, faults>>

(* Nothing to claim: the transaction ends and the worker looks at the table. *)
ClaimNothing(w) ==
  /\ at[w] = "claim"
  /\ \A j \in InScope(w) : holder[j] # NoWorker
  /\ JobGoto(w, "poll")
  /\ UNCHANGED <<table, holder, live, job, scope, credited, due, runs, faults>>

(* Pending rows somebody has locked are seen: return only without any, and   *)
(* otherwise try again after 10 ms.                                            *)
Poll(w) ==
  /\ at[w] = "poll"
  /\ JobGoto(w, IF InScope(w) = {} THEN "returned" ELSE "claim")
  /\ UNCHANGED <<table, holder, live, job, scope, credited, due, runs, faults>>

(* processJob() completes; it needs no database and does not notice a dead   *)
(* session.                                                                    *)
Process(w) ==
  /\ at[w] = "process"
  /\ runs' = [j \in Jobs |-> runs[j] + (IF j \in job[w] THEN 1 ELSE 0)]
  /\ JobGoto(w, "update")
  /\ UNCHANGED <<table, holder, live, job, scope, credited, due, faults>>

(* UPDATE jobs SET status = 'done', in the transaction. *)
Update(w) ==
  /\ at[w] = "update" /\ live[w]
  /\ JobGoto(w, "commit")
  /\ UNCHANGED <<table, holder, live, job, scope, credited, due, runs, faults>>

MarkDone(w) ==
  /\ status' = [j \in Jobs |-> IF j \in job[w] THEN "done" ELSE status[j]]
  /\ processed' = [j \in Jobs |-> processed[j] + (IF j \in job[w] THEN 1 ELSE 0)]
  /\ workerId' = [j \in Jobs |-> IF j \in job[w] THEN w ELSE workerId[j]]

(* COMMIT: the job is done and counted, and the loop goes on. *)
CommitJob(w) ==
  /\ at[w] = "commit" /\ live[w]
  /\ MarkDone(w)
  /\ EndJob(w)
  /\ credited' = [credited EXCEPT ![w] = @ \cup job[w]]
  /\ JobGoto(w, "claim")
  /\ UNCHANGED <<scope, due, runs, faults>>

(* COMMIT took effect but its answer was lost: runWorker() rejects. *)
CommitJobUnanswered(w) ==
  /\ at[w] = "commit" /\ live[w] /\ OneFault
  /\ MarkDone(w)
  /\ EndJob(w)
  /\ JobGoto(w, "failed")
  /\ UNCHANGED <<scope, credited, due, runs>>

(* A statement finds its session dead: runWorker() rejects. *)
RejectJob(w) ==
  /\ at[w] \in {"update", "commit"} /\ ~live[w]
  /\ EndJob(w)
  /\ JobGoto(w, "failed")
  /\ UNCHANGED <<table, scope, credited, due, runs, faults>>

\* Fail with a fault, for the checks.
FailKeepingLock(w) ==
  /\ at[w] \in InJob \cup {"claim", "poll"} /\ OneFault
  /\ JobGoto(w, "failed")
  /\ UNCHANGED <<table, holder, live, job, scope, credited, due, runs>>

(* processJob() throws, a query fails or the process dies: ROLLBACK, and the *)
(* job is pending and free again.                                              *)
Fail(w) ==
  /\ at[w] \in InJob \cup {"claim", "poll"} /\ OneFault
  /\ EndJob(w)
  /\ JobGoto(w, "failed")
  /\ UNCHANGED <<table, scope, credited, due, runs>>

(* PostgreSQL drops the session of a transaction: the lock is free at once.  *)
SessionLost(w) ==
  /\ at[w] \in InJob /\ live[w] /\ OneFault
  /\ live' = [live EXCEPT ![w] = FALSE]
  /\ holder' = Released(w)
  /\ UNCHANGED <<table, at, job, scope, credited, due, runs>>

-----------------------------------------------------------------------------
Work(w) ==
  \/ Claim(w) \/ ClaimNothing(w) \/ Poll(w) \/ Process(w) \/ Update(w)
  \/ CommitJob(w) \/ RejectJob(w)

JobNext ==
  \/ \E j \in Jobs : Enqueue(j)
  \/ \E w \in Workers :
       \/ \E S \in SUBSET Jobs : Start(w, S)
       \/ Work(w) \/ CommitJobUnanswered(w) \/ Fail(w) \/ SessionLost(w)

JobSpec == JobInit /\ [][JobNext]_jobVars

(* runWorker() is a loop without a way to stop: each call keeps going. *)
FairJobSpec == JobSpec /\ \A w \in Workers : WF_jobVars(Work(w))

-----------------------------------------------------------------------------
(* No job is processed twice, and `processed`, which exists to make that      *)
(* visible, counts what happened: whoever died, was skipped or was taken over.*)
ProcessedOnce ==
  \A j \in Jobs : /\ processed[j] = (IF status[j] = "done" THEN 1 ELSE 0)
                  /\ runs[j] >= processed[j]

(* A transaction that lives owns its job, and the job is still pending. *)
ClaimIsExclusive ==
  \A w \in Workers : live[w] => \A j \in job[w] : holder[j] = w /\ status[j] = "pending"

(* Only an open transaction has a claim, and it ran processJob() before it     *)
(* marks the job.                                                              *)
ClaimShape ==
  \A w \in Workers :
    /\ at[w] \in InJob \/ (job[w] = {} /\ live[w])
    /\ at[w] \in {"update", "commit"} => \A j \in job[w] : runs[j] >= 1

(* Where one run of j is accounted for: in its committed row, or in a live    *)
(* transaction that is going to mark it.                                       *)
RunAccounted(j) ==
  \/ status[j] = "done"
  \/ \E w \in Workers : live[w] /\ at[w] \in {"update", "commit"} /\ j \in job[w]

(* Calls that will run j although their sessions, and locks, are gone. *)
LateRuns(j) == {w \in Workers : ~live[w] /\ at[w] = "process" /\ j \in job[w]}

(* Every run beyond the accounted one, past or still to come from a call that *)
(* lost its session, has its failure.                                           *)
RunsArePaidFor ==
  \A j \in Jobs :
    runs[j] + Cardinality(LateRuns(j)) <= faults + (IF RunAccounted(j) THEN 1 ELSE 0)

(* Work repeated outside the transaction has its failure: processJob() runs  *)
(* at most once more per fault.                                                *)
RunsNeedFaults == \A j \in Jobs : runs[j] <= 1 + faults

(* A worker that returned has left nothing behind that was pending when it    *)
(* started: an empty claim alone, with a row locked by somebody who may yet    *)
(* fail, is not the end of the queue.                                          *)
ReturnedMeansDrained ==
  \A w \in Workers : at[w] = "returned" => \A j \in due[w] : status[j] = "done"

(* A job carries a worker's id only when it is done. *)
DoneHasItsWorker == \A j \in Jobs : status[j] # "done" => workerId[j] = NoWorker

(* What was due when a call started stays in its scope and in the table. *)
DueIsKept == \A w \in Workers : due[w] \subseteq {j \in scope[w] : status[j] # "none"}

(* A session's death takes its claim away, and only a claim that is still     *)
(* owned is committed.                                                         *)
ClaimsInv ==
  /\ JobTypeOK
  /\ ClaimShape
  /\ ClaimIsExclusive
  /\ ProcessedOnce
  /\ DueIsKept
  /\ ReturnedMeansDrained

(* The inductive invariant. *)
JobInv == ClaimsInv /\ DoneHasItsWorker /\ RunsArePaidFor

(* The number a call returns is the jobs that carry its worker_id: nobody    *)
(* claims credit for another's job, and a finished job is missing only from   *)
(* a call that failed.                                                         *)
CreditMatchesWork ==
  \A w \in Workers :
    LET mine == {j \in Jobs : workerId[j] = w}
    IN credited[w] \subseteq mine /\ (at[w] # "failed" => credited[w] = mine)

(* The books of a drain: what was run, by whom, and what each call reports.  *)
WorkIsAccounted == RunsNeedFaults /\ CreditMatchesWork

(* Once failures stop every call comes back, even when it waited for a job    *)
(* whose holder failed.                                                        *)
CallsEnd == \A w \in Workers : at[w] = "claim" ~> at[w] \in {"returned", "failed"}
=============================================================================
