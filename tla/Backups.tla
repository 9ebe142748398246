------------------------------ MODULE Backups ------------------------------
(***************************************************************************)
(* Backups and their retention (src/marketplace/scripts/ops): backup.mjs     *)
(* writes a bundle (a dump and a manifest with control values) under a       *)
(* hidden name and renames it; backup-launcher.mjs, once the backup          *)
(* succeeded, lets retention.mjs remove completed bundles that are too old.   *)
(* Launchers may overlap (cron and an operator), checkouts go on meanwhile,   *)
(* and nothing orders the snapshots as the manifests are.                     *)
(***************************************************************************)
EXTENDS Naturals, FiniteSets

CONSTANTS
  Bundles,      \* backup runs, and the bundle each writes: their ids
  RetentionDays,
  MaxChanges,   \* bound on concurrent changes of the database
  MaxDay,       \* bound on the clock, in days
  MaxBreaks     \* bound on failures and kills

ASSUME BundlesAssumption == Bundles \subseteq Nat /\ IsFiniteSet(Bundles)
ASSUME RetentionAssumption == RetentionDays \in Nat \ {0}
ASSUME BackupLimits == {MaxChanges, MaxDay, MaxBreaks} \subseteq Nat

VARIABLES
  day, database,   \* the clock; the database's version
  bundle,          \* each bundle on disk
  step,            \* where its run is
  doomed,          \* what the run's pruning still has to remove
  breaks

backupVars == <<day, database, bundle, step, doomed, breaks>>

(* A bundle's directory; snapshotAt orders the names, createdAt the           *)
(* manifests, held is the version of the exported snapshot, dumped and        *)
(* controls the versions the two files show.                                   *)
Shapes == {"none", "partial", "complete", "torn", "removed"}
NoBundle == [is |-> "none", snapshotAt |-> 0, createdAt |-> 0,
             held |-> 0, dumped |-> 0, controls |-> 0]
Steps == {"start", "connect", "dump", "rename", "list", "prune", "failed"}

BackupTypeOK ==
  /\ day \in 0..MaxDay /\ database \in 0..MaxChanges
  /\ bundle \in [Bundles ->
       [is : Shapes, snapshotAt : 0..MaxDay, createdAt : 0..MaxDay,
        held : 0..MaxChanges, dumped : 0..MaxChanges, controls : 0..MaxChanges]]
  /\ step \in [Bundles -> Steps]
  /\ doomed \in [Bundles -> SUBSET Bundles]
  /\ breaks \in 0..MaxBreaks

BackupInit ==
  /\ day = 0 /\ database = 0
  /\ bundle = [b \in Bundles |-> NoBundle]
  /\ step = [b \in Bundles |-> "start"]
  /\ doomed = [b \in Bundles |-> {}]
  /\ breaks = 0

-----------------------------------------------------------------------------
OnDisk(b, shapes) == bundle[b].is \in shapes
Proceed(b, from, to) == step[b] = from /\ step' = [step EXCEPT ![b] = to]
Break == breaks < MaxBreaks /\ breaks' = breaks + 1

(* mkdir of the staging directory, named for the moment it starts. *)
Stage(b) ==
  /\ Proceed(b, "start", "connect")
  /\ bundle' = [bundle EXCEPT ![b].is = "partial", ![b].snapshotAt = day]
  /\ UNCHANGED <<day, database, doomed, breaks>>

(* BEGIN REPEATABLE READ; its first query exports the snapshot, its second,   *)
(* controlSql, reads it.                                                       *)
Export(b) ==
  /\ Proceed(b, "connect", "dump")
  /\ bundle' = [bundle EXCEPT ![b].held = database, ![b].controls = database]
  /\ UNCHANGED <<day, database, doomed, breaks>>

(* pg_dump --snapshot, COMMIT, which ends the snapshot, and the manifest with *)
(* createdAt of this moment.                                                   *)
Dump(b) ==
  /\ Proceed(b, "dump", "rename")
  /\ bundle' = [bundle EXCEPT ![b].dumped = bundle[b].held, ![b].held = 0,
                             ![b].createdAt = day]
  /\ UNCHANGED <<day, database, doomed, breaks>>

Publish(b) ==
  /\ Proceed(b, "rename", "list")
  /\ bundle' = [bundle EXCEPT ![b].is = "complete"]
  /\ UNCHANGED <<day, database, doomed, breaks>>

(* Any failure of a backup removes its staging directory; a kill leaves it.  *)
(* Either way the launcher prunes nothing.                                     *)
BackupBreaks(b) ==
  /\ Break
  /\ step[b] \in {"connect", "dump", "rename"}
  /\ step' = [step EXCEPT ![b] = "failed"]
  /\ \/ bundle' = [bundle EXCEPT ![b] = NoBundle]
     \/ UNCHANGED bundle
  /\ UNCHANGED <<day, database, doomed>>

(* The order in which pruneBackups sorts what it found. *)
Newer(b, c) ==
  \/ bundle[b].createdAt > bundle[c].createdAt
  \/ /\ bundle[b].createdAt = bundle[c].createdAt
     /\ \/ bundle[b].snapshotAt > bundle[c].snapshotAt
        \/ bundle[b].snapshotAt = bundle[c].snapshotAt /\ b > c

\* Doomed with a fault, for the checks.
DoomedByAgeAlone(b, completed) ==
  {c \in completed : bundle[c].createdAt + RetentionDays < day}
(* Old enough, not the newest by createdAt and not the run's own. *)
Doomed(b, completed) ==
  {c \in completed \ {b} :
     /\ \E n \in completed : Newer(n, c)
     /\ bundle[c].createdAt + RetentionDays < day}

(* pruneBackups reads the directory: partial and torn bundles fail its tests. *)
(* The launcher is done when nothing is doomed any more.                       *)
List(b) ==
  /\ Proceed(b, "list", "prune")
  /\ doomed' = [doomed EXCEPT ![b] = Doomed(b, {c \in Bundles : OnDisk(c, {"complete"})})]
  /\ UNCHANGED <<day, database, bundle, breaks>>

(* rm of the next bundle, file by file: a kill or an error leaves it torn.    *)
(* The run also ends when another launcher removed the bundle first (ENOENT).  *)
RemoveBundle(b, c) ==
  /\ step[b] = "prune" /\ c \in doomed[b]
  /\ \A n \in doomed[b] \ {c} : Newer(c, n)
  /\ \/ /\ OnDisk(c, {"complete", "torn"})
        /\ bundle' = [bundle EXCEPT ![c].is = "removed"]
        /\ doomed' = [doomed EXCEPT ![b] = @ \ {c}]
        /\ UNCHANGED <<step, breaks>>
     \/ /\ Break
        /\ bundle' = [bundle EXCEPT ![c].is = IF @ = "removed" THEN @ ELSE "torn"]
        /\ Proceed(b, "prune", "failed") /\ UNCHANGED doomed
     \/ /\ OnDisk(c, {"removed"})
        /\ Proceed(b, "prune", "failed") /\ UNCHANGED <<bundle, doomed, breaks>>
  /\ UNCHANGED <<day, database>>

(* Checkouts commit while backups run; days pass. *)
Change ==
  /\ database < MaxChanges /\ database' = database + 1
  /\ UNCHANGED <<day, bundle, step, doomed, breaks>>
Tick ==
  /\ day < MaxDay /\ day' = day + 1
  /\ UNCHANGED <<database, bundle, step, doomed, breaks>>

BackupNext ==
  \/ \E b \in Bundles :
       \/ Stage(b) \/ Export(b) \/ Dump(b) \/ Publish(b)
       \/ BackupBreaks(b) \/ List(b)
       \/ \E c \in Bundles : RemoveBundle(b, c)
  \/ Change \/ Tick

BackupSpec == BackupInit /\ [][BackupNext]_backupVars

-----------------------------------------------------------------------------
(* A bundle's dump and its controls show one state of the database, so a      *)
(* concurrent checkout never makes a restore mismatch.                         *)
OneSnapshot ==
  \A b \in Bundles : OnDisk(b, {"complete", "torn"}) => bundle[b].dumped = bundle[b].controls

(* However launchers overlap, only an old bundle is removed, and the newest   *)
(* one ever completed stays whole: there is always something to restore.       *)
Made == {b \in Bundles : OnDisk(b, {"complete", "torn", "removed"})}
RetentionIsSafe ==
  \A c \in Made : ~OnDisk(c, {"complete"}) =>
    /\ bundle[c].createdAt + RetentionDays < day
    /\ \E n \in Made : Newer(n, c) /\ OnDisk(n, {"complete"})

(* What a pruning launcher still has to remove stays removable: a bundle that *)
(* is completed in between is newer, never older than what was listed.         *)
DoomedIsStale ==
  \A b \in Bundles : \A c \in doomed[b] :
    /\ bundle[c].createdAt + RetentionDays < day
    /\ \E n \in Made \ doomed[b] : Newer(n, c)

(* A run's bundle stays hidden until it is published, its files are read from *)
(* the one exported snapshot, and only published bundles are ever doomed.      *)
HiddenUntilPublished ==
  \A b \in Bundles :
    /\ step[b] \in {"start", "connect", "dump", "rename"} => b \notin Made
    /\ step[b] = "dump" => bundle[b].held = bundle[b].controls
    /\ step[b] = "rename" => bundle[b].dumped = bundle[b].controls
    /\ doomed[b] \subseteq Made

(* The inductive invariant of the launchers. *)
BackupsInv ==
  /\ BackupTypeOK
  /\ OneSnapshot
  /\ RetentionIsSafe
  /\ DoomedIsStale
  /\ HiddenUntilPublished
=============================================================================
