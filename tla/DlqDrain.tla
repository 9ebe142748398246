----------------------------- MODULE DlqDrain -----------------------------
(***************************************************************************)
(* Draining the dead-letter queue (src/marketplace/src/async/drain-dlq.ts):  *)
(* each message is got, archived in a file of its own (written under a       *)
(* temporary name, synced, renamed, its directory synced) and only then       *)
(* acknowledged.  Several operators may drain at once while consumers         *)
(* dead-letter more; a process, its channel or its host may fail anywhere.     *)
(***************************************************************************)
EXTENDS Naturals, FiniteSets

CONSTANTS
  Dead,         \* messages
  Drains,       \* runs of the program
  Limit,        \* --limit
  MaxLosses     \* bound on failures

NoMessage == "none"

ASSUME LimitAssumption == Limit \in 1..10000 /\ MaxLosses \in Nat
ASSUME DeadAssumption == IsFiniteSet(Dead) /\ NoMessage \notin Dead
ASSUME DrainsAssumption == Drains \cap {"elsewhere", "ready", "gone"} = {}

VARIABLES
  queue,      \* where each message is at the broker
  drain,      \* each run: its statement, its message and what is left of its budget
  copies,     \* complete durable archives of each message
  losses

drainVars == <<queue, drain, copies, losses>>

(* The statements after get(), in order: what the archive still lacks.       *)
Archiving == {"write", "sync", "rename", "syncFolder", "ack"}
Drained == [at : {"start", "get", "end", "failed"} \cup Archiving,
            of : Dead \cup {NoMessage}, budget : 0..Limit, synced : BOOLEAN]

DrainTypeOK ==
  /\ queue \in [Dead -> {"elsewhere", "ready", "gone"} \cup Drains]
  /\ drain \in [Drains -> Drained]
  /\ copies \in [Dead -> Nat]
  /\ losses \in 0..MaxLosses

DrainInit ==
  /\ queue = [m \in Dead |-> "elsewhere"]
  /\ drain = [d \in Drains |->
       [at |-> "start", of |-> NoMessage, budget |-> 0, synced |-> FALSE]]
  /\ copies = [m \in Dead |-> 0]
  /\ losses = 0

-----------------------------------------------------------------------------
Ready == {m \in Dead : queue[m] = "ready"}
Goes(d, from, to) == drain[d].at = from /\ drain' = [drain EXCEPT ![d].at = to]
Lose == losses < MaxLosses /\ losses' = losses + 1

(* A consumer rejects, or the delivery limit is reached (OrderConsumer).     *)
DeadLetter(m) ==
  /\ queue[m] = "elsewhere" /\ queue' = [queue EXCEPT ![m] = "ready"]
  /\ UNCHANGED <<drain, copies, losses>>

(* checkQueue counts what is ready; later arrivals wait for the next run.    *)
CheckQueue(d) ==
  LET count == Cardinality(Ready) IN
  /\ drain[d].at = "start"
  /\ drain' = [drain EXCEPT ![d].at = "get",
                            ![d].budget = IF count < Limit THEN count ELSE Limit]
  /\ UNCHANGED <<queue, copies, losses>>

Get(d, m) ==
  /\ drain[d].budget > 0 /\ m \in Ready
  /\ drain[d].at = "get"
  /\ drain' = [drain EXCEPT ![d].at = "write", ![d].of = m, ![d].budget = @ - 1,
                            ![d].synced = FALSE]
  /\ queue' = [queue EXCEPT ![m] = d]
  /\ UNCHANGED <<copies, losses>>

(* The budget is used, or another run was faster. *)
Leave(d) ==
  /\ drain[d].budget = 0 \/ Ready = {}
  /\ Goes(d, "get", "end")
  /\ UNCHANGED <<queue, copies, losses>>

\* Write with a fault, for the checks.
WriteUnsynced(d) == Goes(d, "write", "rename") /\ UNCHANGED <<queue, copies, losses>>
Write(d) == Goes(d, "write", "sync") /\ UNCHANGED <<queue, copies, losses>>
Sync(d) ==
  /\ drain[d].at = "sync"
  /\ drain' = [drain EXCEPT ![d].at = "rename", ![d].synced = TRUE]
  /\ UNCHANGED <<queue, copies, losses>>
Rename(d) == Goes(d, "rename", "syncFolder") /\ UNCHANGED <<queue, copies, losses>>

(* The entry is durable; so is its content, if that was synced.              *)
Kept(d) == [copies EXCEPT ![drain[d].of] = @ + (IF drain[d].synced THEN 1 ELSE 0)]
SyncFolder(d) ==
  /\ Goes(d, "syncFolder", "ack")
  /\ copies' = Kept(d)
  /\ UNCHANGED <<queue, losses>>

Requeued(d) == [m \in Dead |-> IF queue[m] = d THEN "ready" ELSE queue[m]]

(* The ack; it may be lost with the channel, and then the message comes back. *)
AckDrained(d) ==
  /\ drain[d].at = "ack"
  /\ \/ /\ queue' = [queue EXCEPT ![drain[d].of] = "gone"]
        /\ drain' = [drain EXCEPT ![d].at = "get", ![d].of = NoMessage]
        /\ UNCHANGED losses
     \/ /\ Lose /\ queue' = Requeued(d)
        /\ drain' = [drain EXCEPT ![d].at = "failed", ![d].of = NoMessage]
  /\ UNCHANGED copies

(* A write fails or the process dies: the channel closes, the broker requeues *)
(* and no complete archive is lost.  If the host stops after the rename, the   *)
(* directory entry may have reached the disk or not.                           *)
DrainBreaks(d) ==
  /\ Lose /\ drain[d].at \notin {"end", "failed"}
  /\ queue' = Requeued(d)
  /\ drain' = [drain EXCEPT ![d].at = "failed", ![d].of = NoMessage]
  /\ \/ UNCHANGED copies
     \/ drain[d].at = "syncFolder" /\ copies' = Kept(d)

DrainStep(d) ==
  \/ CheckQueue(d) \/ Leave(d) \/ \E m \in Dead : Get(d, m)
  \/ Write(d) \/ Sync(d) \/ Rename(d) \/ SyncFolder(d) \/ AckDrained(d)

DrainNext == \/ \E m \in Dead : DeadLetter(m)
             \/ \E d \in Drains : DrainStep(d) \/ DrainBreaks(d)

DrainSpec == DrainInit /\ [][DrainNext]_drainVars

-----------------------------------------------------------------------------
(* A message has left the dead-letter queue only if a complete archive of it  *)
(* survives whatever happens to the processes and the host.                    *)
ArchivedBeforeGone == \A m \in Dead : queue[m] = "gone" => copies[m] >= 1

(* Nobody archives another's message, and every archive too many was paid for *)
(* by a failure between the archive and the ack.                               *)
OneArchiveEach ==
  /\ \A d \in Drains : drain[d].at \in Archiving <=> drain[d].of # NoMessage
  /\ \A d \in Drains, m \in Dead : queue[m] = d <=> drain[d].of = m
  /\ \A d \in Drains : drain[d].at \in {"rename", "syncFolder", "ack"} => drain[d].synced
  /\ \A d \in Drains : IF drain[d].at = "ack" THEN copies[drain[d].of] >= 1
       ELSE drain[d].at \in Archiving => copies[drain[d].of] <= losses
  /\ \A m \in Dead : copies[m] <= losses + (IF queue[m] \in {"elsewhere", "ready"} THEN 0 ELSE 1)

DrainInv == DrainTypeOK /\ ArchivedBeforeGone /\ OneArchiveEach
=============================================================================
