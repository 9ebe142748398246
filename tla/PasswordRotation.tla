-------------------------- MODULE PasswordRotation --------------------------
(***************************************************************************)
(* rotate.sh gives the database role a new password while the application    *)
(* runs: ALTER ROLE, the secret file the pools read for every connection,     *)
(* the user list of PgBouncer, SIGHUP, and the end of all older sessions.      *)
(* Any command may fail and stop the script (set -e); it is then run again.   *)
(* A `cat > file` that fails does not: the chmod after it decides.             *)
(* PgBouncer (external) opens sessions with the user list it last loaded.      *)
(* Passwords are numbered in the order they are made; 0 is the example one.   *)
(***************************************************************************)
EXTENDS Integers

CONSTANTS MaxRotations     \* bound on the runs of the script

ASSUME RotationsAssumption == MaxRotations \in Nat

Blank == -1                \* an empty file
Partial == -2              \* one whose end is missing
Passwords == 0..MaxRotations

VARIABLES
  script,      \* the command rotate.sh executes next
  new,         \* new_password
  role,        \* the role's password in PostgreSQL
  secret,      \* /run/secrets/db_password
  userlist,    \* /run/secrets/userlist.txt
  loaded,      \* the user list PgBouncer works with
  hup,         \* a SIGHUP it has not handled yet
  sessions,    \* the passwords by which open sessions were authenticated
  spoiled      \* history: the files this run failed to write and went on

scriptVars == <<script, new>>
fileVars == <<secret, userlist>>
poolerVars == <<loaded, hup, sessions>>
rotationVars == <<scriptVars, role, fileVars, poolerVars, spoiled>>

Commands == {"alter", "openSecret", "writeSecret", "openUserlist", "writeUserlist",
             "hangUp", "terminate"}

RotationTypeOK ==
  /\ script \in Commands \cup {"idle", "aborted", "done"}
  /\ {new, role} \subseteq Passwords
  /\ {secret, userlist, loaded} \subseteq Passwords \cup {Blank, Partial}
  /\ hup \in {"none", "pending"} /\ spoiled \subseteq {"secret", "userlist"}
  /\ sessions \subseteq Passwords

RotationInit ==
  /\ script = "idle" /\ new = 0 /\ role = 0
  /\ secret = 0 /\ userlist = 0
  /\ loaded = 0 /\ hup = "none" /\ sessions = {}
  /\ spoiled = {}

-----------------------------------------------------------------------------
Go(from, to) == script = from /\ script' = to

(* openssl rand; nothing of an earlier run is needed. *)
Rotate ==
  /\ script \in {"idle", "aborted", "done"} /\ new < MaxRotations
  /\ script' = "alter" /\ new' = new + 1
  /\ spoiled' = {}
  /\ UNCHANGED <<role, fileVars, poolerVars>>

AlterRole ==
  /\ Go("alter", "openSecret")
  /\ role' = new
  /\ UNCHANGED <<new, fileVars, poolerVars, spoiled>>

Spoils(file) == spoiled' = spoiled \cup {file}

(* `cat > file` empties the file before it writes.  If it cannot be opened it *)
(* keeps what it has, and the chmod after the semicolon succeeds.              *)
OpenSecret ==
  /\ \/ Go("openSecret", "writeSecret") /\ secret' = Blank /\ UNCHANGED spoiled
     \/ Go("openSecret", "openUserlist") /\ Spoils("secret") /\ UNCHANGED secret
  /\ UNCHANGED <<new, role, userlist, poolerVars>>

(* A write that fails is hidden in the same way. *)
WriteSecret ==
  /\ Go("writeSecret", "openUserlist")
  /\ \/ secret' = new /\ UNCHANGED spoiled
     \/ secret' \in {Blank, Partial} /\ Spoils("secret")
  /\ UNCHANGED <<new, role, userlist, poolerVars>>

OpenUserlist ==
  /\ \/ Go("openUserlist", "writeUserlist") /\ userlist' = Blank /\ UNCHANGED spoiled
     \/ Go("openUserlist", "hangUp") /\ Spoils("userlist") /\ UNCHANGED userlist
  /\ UNCHANGED <<new, role, secret, poolerVars>>

(* The list is formatted by node on the left of a pipe, whose failure set -e *)
(* does not see either: then nothing is written.                               *)
WriteUserlist ==
  /\ Go("writeUserlist", "hangUp")
  /\ \/ userlist' = new /\ UNCHANGED spoiled
     \/ userlist' \in {Blank, Partial} /\ Spoils("userlist")
  /\ UNCHANGED <<new, role, secret, poolerVars>>

\* HangUp with a fault, for the checks.
HangUpForgotten ==
  /\ Go("hangUp", "terminate")
  /\ UNCHANGED <<new, role, fileVars, poolerVars, spoiled>>

(* docker compose kill -s HUP pgbouncer returns before the signal is handled. *)
HangUp ==
  /\ Go("hangUp", "terminate")
  /\ hup' = "pending"
  /\ UNCHANGED <<new, role, fileVars, loaded, sessions, spoiled>>

(* pg_terminate_backend for every other session of the role. *)
Terminate ==
  /\ Go("terminate", "done")
  /\ sessions' = {}
  /\ UNCHANGED <<new, role, fileVars, loaded, hup, spoiled>>

(* A command fails or the script is stopped. *)
Abort ==
  /\ script \in Commands /\ script' = "aborted"
  /\ UNCHANGED <<new, role, fileVars, poolerVars, spoiled>>

(* The credentials service of `docker compose up` fills in empty files; it    *)
(* is not run beside the script.                                               *)
Bootstrap ==
  /\ script \notin Commands
  /\ secret = Blank \/ userlist = Blank
  /\ secret' = IF secret = Blank THEN 0 ELSE secret
  /\ userlist' = IF userlist = Blank THEN secret' ELSE userlist
  /\ UNCHANGED <<scriptVars, role, poolerVars, spoiled>>

(* PgBouncer reads its list on SIGHUP, or when it sees that the file changed. *)
Reload ==
  /\ loaded' = userlist /\ hup' = "none"
  /\ UNCHANGED <<scriptVars, role, fileVars, sessions, spoiled>>

(* A client that gave the loaded password needs a session of its own. *)
OpenSession ==
  /\ loaded # Blank /\ loaded = role
  /\ sessions' = sessions \cup {role}
  /\ UNCHANGED <<scriptVars, role, fileVars, loaded, hup, spoiled>>

RotationNext ==
  \/ Rotate \/ AlterRole \/ OpenSecret \/ WriteSecret \/ OpenUserlist \/ WriteUserlist
  \/ HangUp \/ Terminate \/ Abort \/ Bootstrap \/ Reload \/ OpenSession

RotationSpec == RotationInit /\ [][RotationNext]_rotationVars

-----------------------------------------------------------------------------
(* Whatever earlier runs left half done, a run that reports success has put   *)
(* the role's password in each file it could write: the one the pools read     *)
(* next, and the user list with which PgBouncer works once it has handled its  *)
(* signal.  That it could write both is not what its success says.             *)
OnePassword ==
  script = "done" =>
    /\ secret = role \/ "secret" \in spoiled
    /\ (userlist = role /\ (loaded = role \/ hup = "pending")) \/ "userlist" \in spoiled

(* And no session that an older password opened survives it: none can be       *)
(* opened between ALTER ROLE and the end of the old ones.                      *)
OldSessionsAreGone == script = "done" => sessions \subseteq {role}

(* The database never falls behind the files, so the script can always be run  *)
(* again with a password that nothing has seen yet.                            *)
RoleLeads ==
  /\ secret <= role /\ userlist <= role /\ loaded <= role /\ role <= new
  /\ \A p \in sessions : p <= role

(* What a command of the script finds done by the ones before it.             *)
StagesFollow ==
  /\ script \in (Commands \ {"alter"}) \cup {"done"} => role = new
  /\ script \in {"openUserlist", "writeUserlist", "hangUp", "terminate"} =>
       secret = role \/ "secret" \in spoiled
  /\ script \in {"hangUp", "terminate"} => userlist = role \/ "userlist" \in spoiled
  /\ script = "terminate" => loaded = role \/ hup = "pending" \/ "userlist" \in spoiled

RotationInv ==
  /\ RotationTypeOK /\ StagesFollow
  /\ OnePassword /\ OldSessionsAreGone /\ RoleLeads
=============================================================================
