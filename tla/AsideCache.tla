----------------------------- MODULE AsideCache -----------------------------
(***************************************************************************)
(* The product-card cache (src/marketplace/src/redis/cache.ts) and its       *)
(* invalidation after a commit (redis/invalidate-products.ts), for one card. *)
(* A card's value is the version of the product that was read; writers       *)
(* commit new versions and then delete the key and the fill lease together.  *)
(* Redis may expire or evict either key, fail any command and lose replies;  *)
(* a reader or a writer may die between two steps.                            *)
(***************************************************************************)
EXTENDS Integers, FiniteSets

CONSTANTS
  Readers,      \* concurrent calls of get()
  Writers,      \* concurrent transactions that change the product
  NoToken,      \* no fill lease
  OldToken,     \* a lease whose get() is over
  MaxVersion    \* bound on committed versions

ASSUME TokensAssumption ==
  NoToken \notin Readers /\ OldToken \notin Readers /\ NoToken # OldToken
ASSUME VersionAssumption == MaxVersion \in Nat

Empty == -1

VARIABLES
  version,     \* committed version of the product
  cache,       \* version stored under the key, or Empty
  lease,       \* whose token the lock key holds
  pc, value,   \* each get(): its next step and the version it will return
  since,       \* history: `floor` when the get() began
  writer,      \* each writer: before its commit, before its DEL, or done
  floor,       \* history: version at the last DEL that took effect
  loads,       \* history: reads of the database since the key was last lost
  undisturbed  \* history: no lease lost, command failed or DEL so far

readerVars == <<pc, value, since>>
cacheVars == <<version, cache, lease, readerVars, writer, floor, loads, undisturbed>>

GetSteps == {"idle", "get", "set", "wait", "recheck", "load", "publish", "release",
          "direct", "done"}

CacheTypeOK ==
  /\ version \in Nat
  /\ cache \in Nat \cup {Empty}
  /\ lease \in Readers \cup {NoToken, OldToken}
  /\ pc \in [Readers -> GetSteps]
  /\ value \in [Readers -> Nat \cup {Empty}]
  /\ since \in [Readers -> Nat]
  /\ writer \in [Writers -> {"open", "committed", "done"}]
  /\ floor \in Nat
  /\ loads \in Nat
  /\ undisturbed \in BOOLEAN

CacheInit ==
  /\ version = 0
  /\ cache = Empty
  /\ lease = NoToken
  /\ pc = [r \in Readers |-> "idle"]
  /\ value = [r \in Readers |-> Empty]
  /\ since = [r \in Readers |-> 0]
  /\ writer = [w \in Writers |-> "open"]
  /\ floor = 0
  /\ loads = 0
  /\ undisturbed = TRUE

-----------------------------------------------------------------------------
Goto(r, step) == pc' = [pc EXCEPT ![r] = step]
Take(r, v) == value' = [value EXCEPT ![r] = v]
Forget(r) == Take(r, Empty) /\ since' = [since EXCEPT ![r] = 0]
(* After a disturbance the fills are no longer counted. *)
Disturb == undisturbed' = FALSE /\ loads' = 0
dbAndWriters == <<version, writer, floor>>

(* get() begins with a fresh token. *)
BeginGet(r) ==
  /\ pc[r] = "idle"
  /\ Goto(r, "get")
  /\ since' = [since EXCEPT ![r] = floor]
  /\ UNCHANGED <<dbAndWriters, cache, lease, value, loads, undisturbed>>

(* GET key: a hit is the answer. *)
GetKey(r) ==
  /\ pc[r] = "get"
  /\ IF cache # Empty THEN Goto(r, "done") /\ Take(r, cache)
     ELSE Goto(r, "set") /\ UNCHANGED value
  /\ UNCHANGED <<dbAndWriters, cache, lease, since, loads, undisturbed>>

(* SET lock token PX NX: one reader fills, the others wait and look again.   *)
SetLease(r) ==
  /\ pc[r] = "set"
  /\ IF lease = NoToken THEN lease' = r /\ Goto(r, "recheck")
     ELSE Goto(r, "wait") /\ UNCHANGED lease
  /\ UNCHANGED <<dbAndWriters, cache, value, since, loads, undisturbed>>

(* Either command fails, the SET perhaps after it took effect: the reader    *)
(* goes to the database and will not publish.                                 *)
LookupFails(r) ==
  /\ pc[r] \in {"get", "set"}
  /\ Goto(r, "direct")
  /\ lease' \in {lease} \cup (IF pc[r] = "set" /\ lease = NoToken THEN {OldToken} ELSE {})
  /\ Disturb
  /\ UNCHANGED <<dbAndWriters, cache, value, since>>

(* 20-40 ms later the loop starts again... *)
LookAgain(r) ==
  /\ pc[r] = "wait"
  /\ Goto(r, "get")
  /\ UNCHANGED <<dbAndWriters, cache, lease, value, since, loads, undisturbed>>

\* GiveUpWaiting with a fault, for the checks.
WaitForever(r) == FALSE
(* ... unless the 12 s are over. *)
GiveUpWaiting(r) ==
  /\ pc[r] = "wait"
  /\ Goto(r, "direct")
  /\ Disturb
  /\ UNCHANGED <<dbAndWriters, cache, lease, value, since>>

\* Recheck with a fault, for the checks.
RecheckOmitted(r) ==
  /\ pc[r] = "recheck"
  /\ Goto(r, "load")
  /\ UNCHANGED <<dbAndWriters, cache, lease, value, since, loads, undisturbed>>

(* The second GET: another owner may have filled the key in between. *)
Recheck(r) ==
  /\ pc[r] = "recheck"
  /\ IF cache # Empty THEN Goto(r, "release") /\ Take(r, cache)
     ELSE Goto(r, "load") /\ UNCHANGED value
  /\ UNCHANGED <<dbAndWriters, cache, lease, since, loads, undisturbed>>

RecheckFails(r) ==
  /\ pc[r] = "recheck"
  /\ Goto(r, "load")
  /\ Disturb
  /\ UNCHANGED <<dbAndWriters, cache, lease, value, since>>

(* load(): one SELECT, with the lease or past it. *)
Load(r) ==
  /\ pc[r] \in {"load", "direct"}
  /\ Goto(r, IF pc[r] = "load" THEN "publish" ELSE "done")
  /\ Take(r, version)
  /\ loads' = IF undisturbed THEN loads + 1 ELSE loads
  /\ UNCHANGED <<dbAndWriters, cache, lease, since, undisturbed>>

(* The database fails: get() throws, after releasing a lease it holds. *)
LoadFails(r) ==
  /\ pc[r] \in {"load", "direct"}
  /\ Goto(r, IF pc[r] = "load" THEN "release" ELSE "done")
  /\ Take(r, Empty)
  /\ Disturb
  /\ UNCHANGED <<dbAndWriters, cache, lease, since>>

\* PublishCard with a fault, for the checks.
PublishUnconditionally(r) ==
  /\ pc[r] = "publish"
  /\ cache' = value[r]
  /\ Goto(r, "release")
  /\ UNCHANGED <<dbAndWriters, lease, value, since, loads, undisturbed>>

(* PUBLISH_CACHE: store the value only while the lease is still this token.  *)
PublishCard(r) ==
  /\ pc[r] = "publish"
  /\ cache' = IF lease = r THEN value[r] ELSE cache
  /\ Goto(r, "release")
  /\ UNCHANGED <<dbAndWriters, lease, value, since, loads, undisturbed>>

PublishFails(r) ==
  /\ pc[r] = "publish"
  /\ Goto(r, "release")
  /\ Disturb
  /\ UNCHANGED <<dbAndWriters, cache, lease, value, since>>

(* RELEASE_LOCK: delete the lease only if it is still this token. *)
ReleaseLease(r) ==
  /\ pc[r] = "release"
  /\ lease' = IF lease = r THEN NoToken ELSE lease
  /\ Goto(r, "done")
  /\ UNCHANGED <<dbAndWriters, cache, value, since, loads, undisturbed>>

(* A command took effect, but the connection broke before its reply, and      *)
(* ioredis will send it again: the call is where it was.  A lease taken this   *)
(* way looks like another owner's; its own token never releases it.            *)
CommandSentAgain(r) ==
  /\ \/ pc[r] = "set" /\ lease = NoToken /\ lease' = OldToken /\ UNCHANGED cache
     \/ pc[r] = "publish" /\ lease = r /\ cache' = value[r] /\ UNCHANGED lease
     \/ pc[r] = "release" /\ lease = r /\ lease' = NoToken /\ UNCHANGED cache
  /\ Disturb
  /\ UNCHANGED <<dbAndWriters, readerVars>>

(* The release fails, or the process dies at any step of get(): a lease it   *)
(* held stays until it expires, and no later call has its token.              *)
Abandon(r) ==
  /\ lease' = IF lease = r THEN OldToken ELSE lease
  /\ Disturb
  /\ UNCHANGED <<dbAndWriters, cache>>
ReleaseFails(r) ==
  pc[r] = "release" /\ Goto(r, "done") /\ Abandon(r) /\ UNCHANGED <<value, since>>
ReaderDies(r) == pc[r] # "idle" /\ Goto(r, "idle") /\ Abandon(r) /\ Forget(r)

(* The answer has been returned. *)
AnswerCard(r) ==
  /\ pc[r] = "done"
  /\ Goto(r, "idle") /\ Forget(r)
  /\ UNCHANGED <<dbAndWriters, cache, lease, loads, undisturbed>>

-----------------------------------------------------------------------------
(* Expiry, eviction and a Redis restart drop either key at any time. *)
LoseLease ==
  /\ lease # NoToken
  /\ lease' = NoToken
  /\ Disturb
  /\ UNCHANGED <<dbAndWriters, cache, readerVars>>

LoseKey ==
  /\ cache # Empty
  /\ cache' = Empty
  /\ loads' = 0
  /\ UNCHANGED <<dbAndWriters, lease, readerVars, undisturbed>>

(* A checkout, an order or a status change commits. *)
CommitWrite(w) ==
  /\ writer[w] = "open" /\ version < MaxVersion
  /\ version' = version + 1
  /\ writer' = [writer EXCEPT ![w] = "committed"]
  /\ UNCHANGED <<cache, lease, readerVars, floor, loads, undisturbed>>

\* Invalidate with a fault, for the checks.
InvalidateKeyOnly(w) ==
  /\ writer[w] = "committed"
  /\ cache' = Empty
  /\ writer' = [writer EXCEPT ![w] = "done"]
  /\ floor' = version
  /\ Disturb
  /\ UNCHANGED <<version, lease, readerVars>>

(* invalidateProductCards: one DEL of the key and the lease. *)
Invalidate(w) ==
  /\ writer[w] = "committed"
  /\ cache' = Empty
  /\ lease' = NoToken
  /\ writer' = [writer EXCEPT ![w] = "done"]
  /\ floor' = version
  /\ Disturb
  /\ UNCHANGED <<version, readerVars>>

(* Redis is unreachable, or the writer dies after COMMIT: only the TTL helps. *)
SkipInvalidation(w) ==
  /\ writer[w] = "committed"
  /\ writer' = [writer EXCEPT ![w] = "done"]
  /\ UNCHANGED <<version, cache, lease, readerVars, floor, loads, undisturbed>>

-----------------------------------------------------------------------------
ReadStep(r) ==
  \/ GetKey(r) \/ SetLease(r) \/ LookAgain(r) \/ GiveUpWaiting(r) \/ Recheck(r)
  \/ Load(r) \/ PublishCard(r) \/ ReleaseLease(r) \/ AnswerCard(r)
ReadFault(r) ==
  \/ LookupFails(r) \/ RecheckFails(r) \/ LoadFails(r) \/ PublishFails(r)
  \/ ReleaseFails(r) \/ ReaderDies(r) \/ CommandSentAgain(r)

CacheNext ==
  \/ \E r \in Readers : BeginGet(r) \/ ReadStep(r) \/ ReadFault(r)
  \/ \E w \in Writers : CommitWrite(w) \/ Invalidate(w) \/ SkipInvalidation(w)
  \/ LoseLease \/ LoseKey

CacheSpec == CacheInit /\ [][CacheNext]_cacheVars

(* A call keeps going, and its 12 s deadline passes however often it looks. *)
FairCacheSpec ==
  CacheSpec /\ \A r \in Readers : WF_cacheVars(ReadStep(r)) /\ SF_cacheVars(GiveUpWaiting(r))

-----------------------------------------------------------------------------
(* Once a DEL took effect, nothing older than the product as it was then is  *)
(* ever found under the key: a reader that loaded before the COMMIT has lost *)
(* its lease and cannot put the old card back.                                *)
CacheNotOlderThanFloor == cache # Empty => cache >= floor

(* A lease still held when its owner publishes was taken after the last DEL. *)
HeldLeasesAreFresh ==
  \A r \in Readers : lease = r =>
    /\ pc[r] \in {"recheck", "load", "publish", "release"}
    /\ pc[r] = "publish" => value[r] >= floor

(* One reader fills a cold key: without a lost lease, a lost key or a failed *)
(* command the database is read once however many readers come.               *)
OneLoadPerFill == undisturbed => loads <= 1

(* Why: until the first disturbance whoever is past SET holds the lease, its *)
(* second GET found the key cold, and what it read is on its way to the key.  *)
FillsAreLeased ==
  undisturbed =>
    /\ lease # OldToken
    /\ \A r \in Readers : pc[r] # "direct"
    /\ \A r \in Readers : pc[r] \in {"recheck", "load", "publish", "release"} => lease = r
    /\ \A r \in Readers : pc[r] = "load" => loads = 0
    /\ loads = 0 \/ cache # Empty \/ \E r \in Readers : pc[r] = "publish"

(* What links them: the floor is a committed version, no call began above it, *)
(* and an answer about to be returned is fresh already.                       *)
FreshInv ==
  /\ CacheTypeOK
  /\ CacheNotOlderThanFloor
  /\ HeldLeasesAreFresh
  /\ floor <= version
  /\ \A r \in Readers : since[r] <= floor
  /\ \A r \in Readers : pc[r] \in {"publish", "release", "done"} /\ value[r] # Empty
                        => value[r] >= since[r]
  /\ \A r \in Readers : pc[r] = "publish" => value[r] \in Nat

(* The inductive invariant. *)
CacheInv == FreshInv /\ OneLoadPerFill /\ FillsAreLeased

(* A call that began after a DEL took effect answers with nothing older,     *)
(* whichever way it got its answer.                                           *)
ReadsAreFresh ==
  \A r \in Readers : pc[r] = "done" /\ value[r] # Empty => value[r] >= since[r]

(* Every call returns, whatever happens to the lease it waits for. *)
CallsReturn == \A r \in Readers : pc[r] = "get" ~> pc[r] = "idle"
=============================================================================
