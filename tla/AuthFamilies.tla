---------------------------- MODULE AuthFamilies ----------------------------
(***************************************************************************)
(* Refresh-token rotation (src/marketplace/src/auth/auth.service.ts).  A    *)
(* login opens a family; each refresh uses up its newest token and adds a    *)
(* successor with an access token; presenting a used token, or a logout,     *)
(* revokes the family.  Every 30 s a cleanup deletes families whose time has  *)
(* passed.  The row lock of the family serializes all of them, but the       *)
(* cleanup chooses its families from a snapshot taken before it locks them.   *)
(* now() is the start of a transaction and a JWT is signed at any time in it;  *)
(* a transaction is taken to be shorter than a unit of the clock (10 minutes   *)
(* in the code's proportions), so it sees at most one tick.                    *)
(***************************************************************************)
EXTENDS Naturals

CONSTANTS
  Families, Calls,
  NoCall,        \* holder of an unlocked family
  MaxGen,        \* bound on the tokens of a family
  AccessLife, RefreshLife,
  Grace,         \* how long the cleanup keeps a revoked or a young family
  MaxTime        \* bound on the clock

ASSUME NamesAssumption == NoCall \notin Calls
ASSUME LivesAssumption ==
  /\ AccessLife \in Nat /\ RefreshLife \in Nat /\ Grace \in Nat
  /\ MaxGen \in Nat /\ MaxTime \in Nat
  /\ AccessLife < RefreshLife /\ AccessLife <= Grace

VARIABLES
  now,
  family,      \* auth_families, with created_at or revoked_at
  last,        \* how many refresh tokens the family has
  token,       \* refresh_tokens, by family and generation
  access,      \* expiry of the access token signed with each generation
  denied,      \* access_denylist
  lock,        \* whose transaction holds each family's row
  call,        \* each refresh or logout in progress
  sweep,       \* the cleanup: the families its snapshot found due
  told,        \* pairs a client has received
  made,        \* history: pairs made from each token
  caught,      \* history: families in which a used token was answered
  out,         \* history: access tokens whose logout was answered
  cleared      \* history: tokens the cleanup's snapshot saw alive

Gens == 1..MaxGen
CliAccess == 0   \* the access token of the operator's issue-token command
AccessIds == {CliAccess} \cup Gens
NoAccess == 0

authTables == <<family, last, token, access, denied>>
history == <<told, made, caught, out, cleared>>
vars == <<now, authTables, lock, call, sweep, history>>

Idle == [at |-> "idle"]
CallStates ==
  {Idle} \cup [at : {"asked", "rotating"}, f : Families, n : Gens, born : Nat]
         \cup [at : {"leaving"}, f : Families, n : AccessIds, born : Nat]

FamilyRows == [is : {"none", "live", "revoked", "deleted"}, at : Nat]

TypeOK ==
  /\ now \in Nat
  /\ family \in [Families -> FamilyRows]
  /\ last \in [Families -> 0..MaxGen]
  /\ token \in [Families \X Gens -> [is : {"none", "fresh", "used"}, until : Nat]]
  /\ access \in [Families \X AccessIds -> Nat]
  /\ denied \in SUBSET (Families \X AccessIds)
  /\ lock \in [Families -> Calls \cup {NoCall}]
  /\ call \in [Calls -> CallStates]
  /\ sweep \in SUBSET (Families \X FamilyRows)
  /\ told \in SUBSET (Families \X Gens)
  /\ made \in [Families \X Gens -> Nat]
  /\ caught \in SUBSET Families
  /\ out \in SUBSET (Families \X AccessIds)
  /\ cleared \in SUBSET (Families \X Gens)

Init ==
  /\ now = 0
  /\ family = [f \in Families |-> [is |-> "none", at |-> 0]]
  /\ last = [f \in Families |-> 0]
  /\ token = [t \in Families \X Gens |-> [is |-> "none", until |-> 0]]
  /\ access = [a \in Families \X AccessIds |-> NoAccess]
  /\ denied = {}
  /\ lock = [f \in Families |-> NoCall]
  /\ call = [c \in Calls |-> Idle]
  /\ sweep = {}
  /\ told = {} /\ made = [t \in Families \X Gens |-> 0]
  /\ caught = {} /\ out = {} /\ cleared = {}

-----------------------------------------------------------------------------
Is(f, states) == family[f].is \in states
SetFamily(f, state, at) == family' = [family EXCEPT ![f] = [is |-> state, at |-> at]]
Return(c) == call' = [call EXCEPT ![c] = Idle]
Alive(f, n) == token[<<f, n>>].is # "none" /\ token[<<f, n>>].until > now

(* authenticate(): the family's row exists and is not revoked, the jti is    *)
(* not denied and the JWT has not expired.                                     *)
Acceptable(f, n) == Is(f, {"live"}) /\ <<f, n>> \notin denied /\ access[<<f, n>>] > now

(* pair(): the family's next refresh token, of a transaction begun at `born`, *)
(* and the access token signed with it.                                        *)
AddPair(f, born) ==
  LET n == last[f] + 1 IN
  /\ last' = [last EXCEPT ![f] = n]
  /\ \E signed \in born..now : access' = [access EXCEPT ![<<f, n>>] = signed + AccessLife]

(* login(): the family and its first pair commit together. *)
Login(f) ==
  /\ Is(f, {"none"}) /\ MaxGen > 0
  /\ SetFamily(f, "live", now)
  /\ AddPair(f, now)
  /\ token' = [token EXCEPT ![<<f, 1>>] = [is |-> "fresh", until |-> now + RefreshLife]]
  /\ told' = told \cup {<<f, 1>>}
  /\ UNCHANGED <<now, denied, lock, call, sweep, made, caught, out, cleared>>

(* issue-token.ts: a family with an access token only. *)
IssueToken(f) ==
  /\ Is(f, {"none"})
  /\ SetFamily(f, "live", now)
  /\ access' = [access EXCEPT ![<<f, CliAccess>>] = now + AccessLife]
  /\ UNCHANGED <<now, last, token, denied, lock, call, sweep, history>>

(* refresh() is called with a token the client got once, used or not; the    *)
(* last one MaxGen allows is kept.                                             *)
Present(c, f, n) ==
  /\ call[c] = Idle /\ <<f, n>> \in told /\ n < MaxGen
  /\ call' = [call EXCEPT ![c] = [at |-> "asked", f |-> f, n |-> n, born |-> now]]
  /\ UNCHANGED <<now, authTables, lock, sweep, history>>

Asked(c) == call[c].at = "asked"
Its(c) == <<call[c].f, call[c].n>>

(* The family is locked, the token read again is unused and not expired.     *)
Rotate(c) ==
  LET f == call[c].f IN
  /\ Asked(c) /\ lock[f] = NoCall /\ Is(f, {"live"})
  /\ token[Its(c)].is = "fresh" /\ token[Its(c)].until > now
  /\ lock' = [lock EXCEPT ![f] = c]
  /\ call' = [call EXCEPT ![c].at = "rotating"]
  /\ UNCHANGED <<now, authTables, sweep, history>>

\* CommitRotation with a fault, for the checks.
CommitRotationKeepingLock(c) ==
  LET f == call[c].f
      n == last[f] + 1
  IN
  /\ call[c].at = "rotating"
  /\ AddPair(f, call[c].born)
  /\ token' = [token EXCEPT
                 ![Its(c)].is = "used",
                 ![<<f, n>>] = [is |-> "fresh", until |-> call[c].born + RefreshLife]]
  /\ made' = [made EXCEPT ![Its(c)] = @ + 1]
  /\ told' \in {told, told \cup {<<f, n>>}}
  /\ Return(c)
  /\ UNCHANGED <<now, family, denied, lock, sweep, caught, out, cleared>>

(* COMMIT of the rotation; its answer may be lost. *)
CommitRotation(c) ==
  LET f == call[c].f
      n == last[f] + 1
  IN
  /\ call[c].at = "rotating"
  /\ AddPair(f, call[c].born)
  /\ token' = [token EXCEPT
                 ![Its(c)].is = "used",
                 ![<<f, n>>] = [is |-> "fresh", until |-> call[c].born + RefreshLife]]
  /\ made' = [made EXCEPT ![Its(c)] = @ + 1]
  /\ told' \in {told, told \cup {<<f, n>>}}
  /\ lock' = [lock EXCEPT ![f] = NoCall]
  /\ Return(c)
  /\ UNCHANGED <<now, family, denied, sweep, caught, out, cleared>>

\* Reuse with a fault, for the checks.
ReuseRolledBack(c) ==
  LET f == call[c].f IN
  /\ Asked(c) /\ lock[f] = NoCall /\ Is(f, {"live"}) /\ token[Its(c)].is = "used"
  /\ caught' = caught \cup {f}
  /\ Return(c)
  /\ UNCHANGED <<now, authTables, lock, sweep, told, made, out, cleared>>

(* A used token of a living family: revoke(), COMMIT, and only then 401. *)
Reuse(c) ==
  LET f == call[c].f IN
  /\ Asked(c) /\ lock[f] = NoCall /\ Is(f, {"live"}) /\ token[Its(c)].is = "used"
  /\ SetFamily(f, "revoked", call[c].born)
  /\ caught' = caught \cup {f}
  /\ Return(c)
  /\ UNCHANGED <<now, last, token, access, denied, lock, sweep, told, made, out, cleared>>

(* No family any more, a revoked one, or an expired token: 401. *)
Refuse(c) ==
  LET f == call[c].f IN
  /\ Asked(c)
  /\ \/ Is(f, {"deleted"})
     \/ /\ lock[f] = NoCall
        /\ Is(f, {"revoked"}) \/ (token[Its(c)].is = "fresh" /\ token[Its(c)].until <= now)
  /\ Return(c)
  /\ UNCHANGED <<now, authTables, lock, sweep, history>>

(* A logout whose access token the guard has just accepted. *)
BeginLogout(c, f, n) ==
  /\ call[c] = Idle /\ Acceptable(f, n)
  /\ call' = [call EXCEPT ![c] = [at |-> "leaving", f |-> f, n |-> n, born |-> now]]
  /\ UNCHANGED <<now, authTables, lock, sweep, history>>

Unexpired(S) == {a \in S : access[a] > now}

(* logout(): under the family's lock, revoke it, deny the jti and prune the  *)
(* denylist, in one COMMIT.                                                    *)
Logout(c) ==
  LET f == call[c].f IN
  /\ call[c].at = "leaving"
  /\ IF Is(f, {"deleted"}) THEN UNCHANGED family
     ELSE lock[f] = NoCall /\ SetFamily(f, "revoked", call[c].born)
  /\ denied' = Unexpired(denied \cup {Its(c)})
  /\ out' = out \cup {Its(c)}
  /\ Return(c)
  /\ UNCHANGED <<now, last, token, access, lock, sweep, told, made, caught, cleared>>

(* A query, the session or the process of a call fails: ROLLBACK. *)
Abort(c) ==
  /\ call[c] # Idle
  /\ lock' = [f \in Families |-> IF lock[f] = c THEN NoCall ELSE lock[f]]
  /\ Return(c)
  /\ UNCHANGED <<now, authTables, sweep, history>>

-----------------------------------------------------------------------------
OldEnough(f) == family[f].at + Grace <= now

\* Due with a fault, for the checks.
DueIgnoringTokens(f) == Is(f, {"live", "revoked"}) /\ OldEnough(f)

(* What the cleanup's WHERE finds in its snapshot. *)
Due(f) ==
  \/ Is(f, {"revoked"}) /\ OldEnough(f)
  \/ Is(f, {"live"}) /\ OldEnough(f) /\ \A n \in Gens : ~Alive(f, n)

(* cleanupExpiredAuth(): the denylist is pruned, the snapshot is taken...    *)
CleanupLook ==
  /\ sweep = {}
  /\ sweep' = {<<f, family[f]>> : f \in {g \in Families : Due(g)}}
  /\ denied' = Unexpired(denied)
  /\ cleared' = {t \in Families \X Gens : Alive(t[1], t[2])}
  /\ UNCHANGED <<now, family, last, token, access, lock, call, told, made, caught, out>>

(* ... and of the rows it found, those nobody holds and nobody has updated   *)
(* since are locked and deleted with their tokens.  A row that was only      *)
(* locked in between is taken as the snapshot saw it.  Any of them may have   *)
(* been held at its turn, and the cleanup may fail.                            *)
CleanupDelete ==
  /\ sweep # {}
  /\ \E gone \in SUBSET {f \in Families : lock[f] = NoCall /\ <<f, family[f]>> \in sweep} :
       family' = [f \in Families |-> IF f \in gone THEN [family[f] EXCEPT !.is = "deleted"]
                                     ELSE family[f]]
  /\ sweep' = {}
  /\ UNCHANGED <<now, last, token, access, denied, lock, call, history>>

Tick ==
  /\ now < MaxTime
  /\ \A c \in Calls : call[c] # Idle => call[c].born = now
  /\ now' = now + 1
  /\ UNCHANGED <<authTables, lock, call, sweep, history>>

Step(c) == Rotate(c) \/ CommitRotation(c) \/ Reuse(c) \/ Refuse(c) \/ Logout(c)

Next ==
  \/ \E f \in Families : Login(f) \/ IssueToken(f)
  \/ \E c \in Calls :
       \/ \E f \in Families : \/ \E n \in Gens : Present(c, f, n)
                              \/ \E n \in AccessIds : BeginLogout(c, f, n)
       \/ Step(c) \/ Abort(c)
  \/ CleanupLook \/ CleanupDelete \/ Tick

Spec == Init /\ [][Next]_vars

(* PostgreSQL grants a row lock to those waiting in turn, so a call passed    *)
(* over by others again and again gets it: strong fairness.                   *)
FairSpec == Spec /\ \A c \in Calls : SF_vars(Step(c))

-----------------------------------------------------------------------------
(* A token makes one pair: however many refreshes present it at once, a       *)
(* family has one unused token, its newest, and no second line of successors. *)
OneHeir ==
  /\ \A t \in Families \X Gens : made[t] <= 1
  /\ \A f \in Families, n \in Gens :
       /\ token[<<f, n>>].is = "fresh" => n = last[f]
       /\ made[<<f, n>>] = 1 => token[<<f, n>>].is = "used"

(* The revocation is committed before the 401: once a reused token has been  *)
(* answered its family accepts nothing.                                        *)
ReuseEndsTheFamily == \A f \in caught : Is(f, {"revoked", "deleted"})

(* After a logout was answered neither the access token nor any refresh token *)
(* of the family works, with two independent safeguards while the JWT lives.   *)
LogoutSticks ==
  \A a \in out : /\ Is(a[1], {"revoked", "deleted"})
                 /\ access[a] > now => a \in denied

(* Who holds a family, and what a rotation in progress knows. *)
RotationOwnsFamily ==
  /\ \A c \in Calls : call[c].at = "rotating" =>
       /\ lock[call[c].f] = c
       /\ Is(call[c].f, {"live"})
       /\ token[Its(c)].is = "fresh" /\ call[c].n < MaxGen
  /\ \A f \in Families : lock[f] # NoCall =>
       call[lock[f]].at = "rotating" /\ call[lock[f]].f = f

(* Tokens exist up to the newest, and only those can be presented. *)
TokensInOrder ==
  /\ \A f \in Families, n \in Gens : token[<<f, n>>].is # "none" <=> n <= last[f]
  /\ \A f \in Families : Is(f, {"none"}) => last[f] = 0
  /\ \A t \in told : t[2] <= last[t[1]]
  /\ \A c \in Calls : call[c].at \in {"asked", "rotating"} =>
       call[c].n <= last[call[c].f] /\ call[c].n < MaxGen

(* A logout in progress was accepted for a family that exists or existed.    *)
LeavingIsKnown == \A c \in Calls : call[c].at = "leaving" => ~Is(call[c].f, {"none"})

(* The inductive invariant: whoever rotates holds the family, so the token it *)
(* read is still the newest and unused when it commits.                        *)
AuthInv ==
  /\ TypeOK
  /\ TokensInOrder
  /\ RotationOwnsFamily
  /\ OneHeir
  /\ ReuseEndsTheFamily
  /\ LogoutSticks
  /\ LeavingIsKnown

(* What the cleanup relies on: an access token never outlives the refresh     *)
(* token it was signed with, since its transaction saw at most one tick, and    *)
(* what a snapshot found due stays due.                                        *)
CleanupInv ==
  /\ \A c \in Calls : call[c] # Idle => now <= call[c].born + 1
  /\ \A f \in Families, n \in Gens :
       /\ access[<<f, n>>] <= token[<<f, n>>].until
       /\ token[<<f, n>>].is = "none" => token[<<f, n>>].until = 0
  /\ \A f \in Families :
       /\ Is(f, {"none"}) => access[<<f, CliAccess>>] = NoAccess
       /\ Is(f, {"live"}) => access[<<f, CliAccess>>] <= family[f].at + AccessLife
  /\ \A due \in sweep :
       /\ due[2].at + Grace <= now
       /\ due[2].is = "live" => \A n \in Gens : <<due[1], n>> \notin cleared

Deleted(f) == ~Is(f, {"deleted"}) /\ family'[f].is = "deleted"

(* The cleanup keeps revoked families for their grace and takes no other      *)
(* family with a refresh or an access token its snapshot saw alive: the used  *)
(* ancestors of a living token stay as evidence of reuse.                      *)
CleanupKeepsSessions ==
  [][\A f \in Families : Deleted(f) =>
       /\ OldEnough(f)
       /\ Is(f, {"live"}) => \A n \in AccessIds :
            access[<<f, n>>] > now \/ (n \in Gens /\ Alive(f, n)) =>
              n \in Gens /\ <<f, n>> \notin cleared /\ Alive(f, n)]_vars

(* README.md: a family that is not revoked is kept until every refresh token  *)
(* of it has expired.                                                           *)
KeptWhileTokensLive ==
  [][\A f \in Families : Deleted(f) /\ Is(f, {"live"}) =>
       \A n \in Gens : ~Alive(f, n)]_vars

(* Every refresh and logout is answered. *)
CallsEnd == \A c \in Calls : call[c] # Idle ~> call[c] = Idle
=============================================================================
