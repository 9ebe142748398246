---------------------------- MODULE RestoreDrill ----------------------------
(***************************************************************************)
(* The restore drill (src/marketplace/scripts/ops/restore-drill.mjs): it     *)
(* checks the newest bundle, restores it into a disposable container on a    *)
(* new volume, compares the controls and removes both.  Docker executes a     *)
(* command whether or not the process that asked for it is still there; a     *)
(* signal starts a second cleanup beside the main program.                    *)
(***************************************************************************)
EXTENDS Naturals

VARIABLES
  onDisk,        \* the drilled bundle: a launcher's retention may remove it
  main,          \* the statement the program has reached
  handler,       \* the cleanup started by SIGINT or SIGTERM
  volume, container,                 \* what exists at the Docker daemon
  volumeCreated, containerCreated,   \* what the program remembers
  refused        \* whether Docker failed a command on its own

drillVars == <<onDisk, main, handler, volume, container, volumeCreated,
               containerCreated, refused>>
docker == <<volume, container>>
flags == <<volumeCreated, containerCreated>>

(* "rmContainer" and "rmVolume" are the two halves of cleanup().             *)
Main == {"choose", "createVolume", "createContainer", "start", "restore", "compare",
         "report", "rmContainer", "rmVolume", "ended"}
TryBlock == Main \ {"choose", "rmContainer", "rmVolume", "ended"}
Handler == {"armed", "rmContainer", "rmVolume", "ended"}

DrillTypeOK ==
  /\ onDisk \in {"intact", "damaged", "removed"}
  /\ main \in Main /\ handler \in Handler
  /\ volume \in BOOLEAN /\ container \in BOOLEAN
  /\ volumeCreated \in BOOLEAN /\ containerCreated \in BOOLEAN
  /\ refused \in BOOLEAN

DrillInit ==
  /\ onDisk \in {"intact", "damaged"}
  /\ main = "choose" /\ handler = "armed"
  /\ volume = FALSE /\ container = FALSE
  /\ volumeCreated = FALSE /\ containerCreated = FALSE
  /\ refused = FALSE

-----------------------------------------------------------------------------
(* The process lives until the main program or the handler ends it.          *)
Alive == main # "ended" /\ handler # "ended"
To(from, next) == Alive /\ main = from /\ main' = next

(* The newest name, and its manifest, size and SHA-256. *)
Choose ==
  /\ To("choose", IF onDisk = "intact" THEN "createVolume" ELSE "ended")
  /\ UNCHANGED <<onDisk, handler, docker, flags, refused>>

(* docker volume create, and its answer. *)
VolumeMade ==
  /\ main = "createVolume" /\ ~volume /\ volume' = TRUE
  /\ UNCHANGED <<onDisk, main, handler, container, flags, refused>>
VolumeAnswered ==
  /\ To("createVolume", "createContainer") /\ volume
  /\ volumeCreated' = TRUE
  /\ UNCHANGED <<onDisk, handler, docker, containerCreated, refused>>

(* docker create makes the named volume too when it is not there. *)
ContainerMade ==
  /\ main = "createContainer" /\ ~container
  /\ container' = TRUE /\ volume' = TRUE
  /\ UNCHANGED <<onDisk, main, handler, flags, refused>>
ContainerAnswered ==
  /\ To("createContainer", "start") /\ container
  /\ containerCreated' = TRUE
  /\ UNCHANGED <<onDisk, handler, docker, volumeCreated, refused>>

(* docker start, up to 60 looks, an empty schema. *)
Start ==
  /\ To("start", "restore") /\ container
  /\ UNCHANGED <<onDisk, handler, docker, flags, refused>>

(* pg_restore --single-transaction reads the dump again: all of it or none.  *)
Restore ==
  /\ To("restore", "compare") /\ container /\ onDisk = "intact"
  /\ UNCHANGED <<onDisk, handler, docker, flags, refused>>

Compare ==
  /\ To("compare", "report") /\ container
  /\ UNCHANGED <<onDisk, handler, docker, flags, refused>>

(* The report goes into the bundle's directory, which must still be there.   *)
Report ==
  /\ To("report", "rmContainer") /\ onDisk = "intact"
  /\ UNCHANGED <<onDisk, handler, docker, flags, refused>>

(* What fails inside the try block, and whether Docker is to blame: a command *)
(* it refuses (a container that never gets ready included), a dump or a        *)
(* directory that retention has removed, a container the handler has removed.  *)
Fault(at) ==
  \/ refused' = TRUE /\ at # "report"
  \/ /\ \/ at \in {"restore", "report"} /\ onDisk = "removed"
        \/ at \in {"start", "restore", "compare"} /\ ~container
     /\ UNCHANGED refused

(* The finally clause. *)
Fails(at) ==
  /\ Fault(at) /\ To(at, "rmContainer")
  /\ UNCHANGED <<onDisk, handler, docker, flags>>

-----------------------------------------------------------------------------
(* The two halves of cleanup(), run by the main program and by the handler,   *)
(* which share the flags; a command and its answer are one step.               *)
RemoveContainer ==
  /\ container' = (container /\ ~containerCreated) /\ containerCreated' = FALSE
  /\ UNCHANGED <<volume, volumeCreated>>
(* Docker keeps a volume that is in use. *)
RemoveVolume ==
  /\ LET removed == volumeCreated /\ volume /\ ~container
     IN volume' = (volume /\ ~removed) /\ volumeCreated' = (volumeCreated /\ ~removed)
  /\ UNCHANGED <<container, containerCreated>>

Cleanup ==
  /\ \/ To("rmContainer", "rmVolume") /\ RemoveContainer
     \/ To("rmVolume", "ended") /\ RemoveVolume
  /\ UNCHANGED <<onDisk, handler, refused>>

(* SIGINT or SIGTERM, once the handler is installed. *)
HandlerTo(from, next) == Alive /\ handler = from /\ handler' = next
Signal ==
  /\ main # "choose" /\ HandlerTo("armed", "rmContainer")
  /\ UNCHANGED <<onDisk, main, docker, flags, refused>>

(* cleanup() and then process.exit(1), whatever the main program awaits.     *)
HandlerCleanup ==
  /\ \/ HandlerTo("rmContainer", "rmVolume") /\ RemoveContainer
     \/ HandlerTo("rmVolume", "ended") /\ RemoveVolume
  /\ UNCHANGED <<onDisk, main, refused>>

(* A removal Docker refuses ends the process that asked for it. *)
CleanupRefused ==
  /\ \/ \E at \in {"rmContainer", "rmVolume"} : To(at, "ended") /\ UNCHANGED handler
     \/ \E at \in {"rmContainer", "rmVolume"} : HandlerTo(at, "ended") /\ UNCHANGED main
  /\ refused' = TRUE
  /\ UNCHANGED <<onDisk, docker, flags>>

(* Retention of a finishing backup; the bundle is not the newest any more.   *)
BundlePruned ==
  /\ onDisk' = "removed" /\ onDisk # "removed"
  /\ UNCHANGED <<main, handler, docker, flags, refused>>

DrillNext ==
  \/ Choose \/ VolumeMade \/ VolumeAnswered \/ ContainerMade \/ ContainerAnswered
  \/ Start \/ Restore \/ Compare \/ Report
  \/ \E at \in TryBlock : Fails(at)
  \/ Cleanup \/ CleanupRefused \/ Signal \/ HandlerCleanup \/ BundlePruned

DrillSpec == DrillInit /\ [][DrillNext]_drillVars

-----------------------------------------------------------------------------
(* A drill that nobody interrupts removes what it made, container before      *)
(* volume, whatever step failed and even when its bundle was pruned meanwhile. *)
Leftovers == volume \/ container
RemovesWhatItMade == main = "ended" /\ handler = "armed" /\ ~refused => ~Leftovers

(* Why: until cleanup the flags know all that exists.  A command that Docker  *)
(* executes is answered before the next statement, so what fails on its own,   *)
(* in the try block, fails with both flags set.                                *)
FlagsKnow ==
  handler = "armed" /\ ~refused =>
    /\ main \in {"choose", "createVolume"} => ~container /\ ~volumeCreated
    /\ main = "choose" => ~volume
    /\ main \in (TryBlock \ {"createVolume"}) \cup {"rmContainer", "rmVolume"} =>
         volume /\ volumeCreated
    /\ main \in {"choose", "createVolume", "createContainer"} => ~containerCreated
    /\ main \in (TryBlock \ {"createVolume", "createContainer"}) \cup {"rmContainer"} =>
         container /\ containerCreated
    /\ main = "rmVolume" => ~container

DrillInv == DrillTypeOK /\ RemovesWhatItMade /\ FlagsKnow

(* src/marketplace/README.md:1126: the finally clause removes what the drill made, and        *)
(* SIGINT and SIGTERM run the cleanup too; only SIGKILL or a failure of Docker *)
(* leaves something behind.                                                    *)
NothingLeftBehind == ~Alive /\ ~refused => ~Leftovers
=============================================================================
