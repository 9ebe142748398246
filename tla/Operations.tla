----------------------------- MODULE Operations -----------------------------
(***************************************************************************)
(* The scripts of src/marketplace/scripts/ops side by side: launchers of      *)
(* backups with their retention, and a restore drill.  They share the backup  *)
(* directory only, of which the drill sees one bundle: what retention may do   *)
(* to it meanwhile is an action of RestoreDrill.                               *)
(***************************************************************************)
EXTENDS Backups, RestoreDrill

OperationsSpec == BackupSpec /\ DrillSpec

(* No bundle worth keeping is ever removed, and a drill removes the            *)
(* disposable container and volume it made.                                    *)
OperationsInv == BackupsInv /\ DrillInv
=============================================================================
