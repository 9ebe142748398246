------------------------- MODULE AuthFamiliesProofs -------------------------
(***************************************************************************)
(* Proofs about AuthFamilies, for any families, calls, lives and clock: a     *)
(* token makes one pair, a reused token ends its family, and so does a logout. *)
(***************************************************************************)
EXTENDS AuthFamilies, TLAPS

Rotations == [at : {"asked", "rotating"}, f : Families, n : Gens, born : Nat]
Logouts == [at : {"leaving"}, f : Families, n : AccessIds, born : Nat]

LEMMA CallType ==
  ASSUME TypeOK, NEW c \in Calls
  PROVE  /\ call[c].at \in {"asked", "rotating"} => call[c] \in Rotations
         /\ call[c].at = "leaving" => call[c] \in Logouts
         /\ call[c].at \in {"idle", "asked", "rotating", "leaving"}
         /\ call[c] = Idle <=> call[c].at = "idle"
  BY DEF TypeOK, CallStates, Rotations, Logouts, Idle

LEMMA GensType == MaxGen \in Nat /\ Gens \subseteq Nat \ {0} /\ Gens \subseteq AccessIds
                  /\ 0 \in AccessIds /\ CliAccess = 0
  BY LivesAssumption DEF Gens, AccessIds, CliAccess

(* What is known and presented stays within the tokens that exist, as new     *)
(* ones are added.                                                             *)
LEMMA NewTokensKeepOrder ==
  ASSUME TypeOK, TokensInOrder, last' \in [Families -> 0..MaxGen],
         \A g \in Families : last[g] <= last'[g]
  PROVE  /\ \A t \in told : t[2] <= last'[t[1]]
         /\ \A d \in Calls : call[d].at \in {"asked", "rotating"} =>
              call[d].n <= last'[call[d].f] /\ call[d].n < MaxGen
<1>1. \A g \in Families : last[g] \in Nat /\ last'[g] \in Nat
  BY GensType DEF TypeOK
<1>2. ASSUME NEW t \in told PROVE t[2] <= last'[t[1]]
  <2>1. t[1] \in Families /\ t[2] \in Nat /\ t[2] <= last[t[1]]
    BY GensType DEF TypeOK, TokensInOrder
  <2> QED
    BY <2>1, <1>1
<1>3. ASSUME NEW d \in Calls, call[d].at \in {"asked", "rotating"}
      PROVE  call[d].n <= last'[call[d].f] /\ call[d].n < MaxGen
  <2>1. /\ call[d].f \in Families /\ call[d].n \in Nat
        /\ call[d].n <= last[call[d].f] /\ call[d].n < MaxGen
    BY <1>3, CallType, GensType DEF Rotations, TokensInOrder
  <2> QED
    BY <2>1, <1>1
<1> QED
  BY <1>2, <1>3

(* login() and issue-token.ts open a family nobody knows of. *)
LEMMA LoginKeepsInv ==
  ASSUME AuthInv, NEW f \in Families, Login(f)
  PROVE  AuthInv'
<1> USE DEF AuthInv
<1>1. /\ family[f].is = "none" /\ last[f] = 0 /\ 1 \in Gens
      /\ UNCHANGED <<now, denied, lock, call, sweep, made, caught, out, cleared>>
      /\ told' = told \cup {<<f, 1>>}
  BY GensType DEF Login, Is, TokensInOrder, Gens
<1>2. /\ family' \in [Families -> FamilyRows] /\ family'[f].is = "live"
      /\ \A g \in Families \ {f} : family'[g] = family[g]
  BY DEF Login, SetFamily, TypeOK, FamilyRows
<1>3. /\ last' \in [Families -> 0..MaxGen] /\ last'[f] = 1
      /\ \A g \in Families \ {f} : last'[g] = last[g]
  BY <1>1, GensType DEF Login, AddPair, TypeOK, Gens
<1>4. /\ access' \in [Families \X AccessIds -> Nat]
      /\ \A a \in Families \X AccessIds : a # <<f, 1>> => access'[a] = access[a]
  BY <1>1, GensType, LivesAssumption DEF Login, AddPair, TypeOK
<1>5. /\ token' \in [Families \X Gens -> [is : {"none", "fresh", "used"}, until : Nat]]
      /\ token'[<<f, 1>>].is = "fresh"
      /\ \A t \in Families \X Gens : t # <<f, 1>> => token'[t] = token[t]
  BY <1>1, GensType, LivesAssumption DEF Login, TypeOK
<1>6. TypeOK'
  BY <1>1, <1>2, <1>3, <1>4, <1>5 DEF TypeOK
<1>7. TokensInOrder'
  <2>1. ASSUME NEW g \in Families, NEW n \in Gens
        PROVE  token'[<<g, n>>].is # "none" <=> n <= last'[g]
    <3>1. CASE g = f
      BY <3>1, <1>1, <1>3, <1>5, GensType DEF TokensInOrder
    <3>2. CASE g # f
      BY <3>2, <1>3, <1>5 DEF TokensInOrder
    <3> QED
      BY <3>1, <3>2
  <2>2. \A g \in Families : family'[g].is = "none" => last'[g] = 0
    BY <1>2, <1>3 DEF TokensInOrder, Is
  <2>3. \A g \in Families : last[g] <= last'[g]
    BY <1>1, <1>3, GensType DEF TypeOK
  <2>4. \A t \in told' : t[2] <= last'[t[1]]
    BY <1>1, <1>3, <2>3, NewTokensKeepOrder
  <2>5. \A c \in Calls : call[c].at \in {"asked", "rotating"} =>
          call[c].n <= last'[call[c].f] /\ call[c].n < MaxGen
    BY <1>3, <2>3, NewTokensKeepOrder
  <2> QED
    BY <1>1, <2>1, <2>2, <2>4, <2>5 DEF TokensInOrder, Is
<1>8. RotationOwnsFamily'
  BY <1>1, <1>2, <1>5, CallType DEF RotationOwnsFamily, Is, Its, Rotations, TypeOK
<1>9. OneHeir'
  BY <1>1, <1>3, <1>5, GensType, SMTT(30) DEF OneHeir, TokensInOrder, TypeOK, Gens
<1>10. ReuseEndsTheFamily'
  BY <1>1, <1>2 DEF ReuseEndsTheFamily, Is, TypeOK
<1>12. LogoutSticks'
  <2> SUFFICES ASSUME NEW a \in out
               PROVE  family'[a[1]].is \in {"revoked", "deleted"} /\ (access'[a] > now => a \in denied)
    BY <1>1 DEF LogoutSticks, Is
  <2>1. a \in Families \X AccessIds /\ family[a[1]].is \in {"revoked", "deleted"}
        /\ (access[a] > now => a \in denied)
    BY DEF LogoutSticks, TypeOK, Is
  <2>2. a[1] # f /\ a # <<f, 1>>
    BY <2>1, <1>1
  <2> QED
    BY <2>1, <2>2, <1>2, <1>4
<1>11. LeavingIsKnown'
  BY <1>1, <1>2, CallType DEF LeavingIsKnown, Is, Logouts
<1> QED
  BY <1>6, <1>7, <1>8, <1>9, <1>10, <1>11, <1>12

LEMMA IssueTokenKeepsInv ==
  ASSUME AuthInv, NEW f \in Families, IssueToken(f)
  PROVE  AuthInv'
<1> USE DEF AuthInv
<1>1. /\ family[f].is = "none"
      /\ UNCHANGED <<now, last, token, denied, lock, call, sweep, told, made, caught, out, cleared>>
  BY DEF IssueToken, Is, history
<1>2. /\ family' \in [Families -> FamilyRows] /\ family'[f].is = "live"
      /\ \A g \in Families \ {f} : family'[g] = family[g]
  BY DEF IssueToken, SetFamily, TypeOK, FamilyRows
<1>3. /\ access' \in [Families \X AccessIds -> Nat]
      /\ \A a \in Families \X AccessIds : a[1] # f => access'[a] = access[a]
  BY GensType, LivesAssumption DEF IssueToken, TypeOK
<1>4. TypeOK'
  BY <1>1, <1>2, <1>3 DEF TypeOK
<1>5. TokensInOrder' /\ OneHeir'
  BY <1>1, <1>2 DEF TokensInOrder, OneHeir, Is
<1>6. RotationOwnsFamily'
  BY <1>1, <1>2, CallType DEF RotationOwnsFamily, Is, Its, Rotations
<1>7. ReuseEndsTheFamily' /\ LogoutSticks'
  BY <1>1, <1>2, <1>3 DEF ReuseEndsTheFamily, LogoutSticks, Is, TypeOK
<1>8. LeavingIsKnown'
  BY <1>1, <1>2, CallType DEF LeavingIsKnown, Is, Logouts
<1> QED
  BY <1>4, <1>5, <1>6, <1>7, <1>8

(* A call begins, or a step only locks or unlocks: the tables stay.          *)
LEMMA PresentKeepsInv ==
  ASSUME AuthInv, NEW c \in Calls, NEW f \in Families, NEW n \in Gens, Present(c, f, n)
  PROVE  AuthInv'
<1> USE DEF AuthInv
<1>1. /\ call[c] = Idle /\ <<f, n>> \in told /\ n < MaxGen
      /\ UNCHANGED <<now, authTables, lock, sweep, history>>
  BY DEF Present
<1>2. /\ call' \in [Calls -> CallStates]
      /\ call'[c] = [at |-> "asked", f |-> f, n |-> n, born |-> now]
      /\ \A d \in Calls \ {c} : call'[d] = call[d]
  BY DEF Present, TypeOK, CallStates
<1>3. TypeOK'
  BY <1>1, <1>2 DEF TypeOK, authTables, history
<1>4. TokensInOrder'
  BY <1>1, <1>2 DEF TokensInOrder, authTables, history, Is
<1>5. RotationOwnsFamily'
  <2>1. \A g \in Families : lock[g] # c
    BY <1>1, NamesAssumption DEF RotationOwnsFamily, Idle, TypeOK
  <2> QED
    BY <1>1, <1>2, <2>1 DEF RotationOwnsFamily, authTables, Is, Its, TypeOK
<1>6. OneHeir' /\ ReuseEndsTheFamily' /\ LogoutSticks' /\ LeavingIsKnown'
  BY <1>1, <1>2 DEF OneHeir, ReuseEndsTheFamily, LogoutSticks, LeavingIsKnown, authTables, history, Is
<1> QED
  BY <1>3, <1>4, <1>5, <1>6

LEMMA BeginLogoutKeepsInv ==
  ASSUME AuthInv, NEW c \in Calls, NEW f \in Families, NEW n \in AccessIds, BeginLogout(c, f, n)
  PROVE  AuthInv'
<1> USE DEF AuthInv
<1>1. /\ call[c] = Idle /\ family[f].is = "live"
      /\ UNCHANGED <<now, authTables, lock, sweep, history>>
  BY DEF BeginLogout, Acceptable, Is
<1>2. /\ call' \in [Calls -> CallStates]
      /\ call'[c] = [at |-> "leaving", f |-> f, n |-> n, born |-> now]
      /\ \A d \in Calls \ {c} : call'[d] = call[d]
  BY DEF BeginLogout, TypeOK, CallStates
<1>3. TypeOK'
  BY <1>1, <1>2 DEF TypeOK, authTables, history
<1>4. TokensInOrder'
  BY <1>1, <1>2 DEF TokensInOrder, authTables, history, Is
<1>5. RotationOwnsFamily'
  <2>1. \A g \in Families : lock[g] # c
    BY <1>1, NamesAssumption DEF RotationOwnsFamily, Idle, TypeOK
  <2> QED
    BY <1>1, <1>2, <2>1 DEF RotationOwnsFamily, authTables, Is, Its, TypeOK
<1>6. OneHeir' /\ ReuseEndsTheFamily' /\ LogoutSticks'
  BY <1>1 DEF OneHeir, ReuseEndsTheFamily, LogoutSticks, authTables, history, Is
<1>7. LeavingIsKnown'
  BY <1>1, <1>2 DEF LeavingIsKnown, authTables, Is
<1> QED
  BY <1>3, <1>4, <1>5, <1>6, <1>7

(* The read under the family's lock. *)
LEMMA RotateKeepsInv ==
  ASSUME AuthInv, NEW c \in Calls, Rotate(c)
  PROVE  AuthInv'
<1> USE DEF AuthInv
<1> DEFINE f == call[c].f
<1>1. /\ call[c].at = "asked" /\ call[c] \in Rotations /\ f \in Families
      /\ lock[f] = NoCall /\ family[f].is = "live" /\ token[Its(c)].is = "fresh"
      /\ UNCHANGED <<now, authTables, sweep, history>>
  BY CallType DEF Rotate, Asked, Is, Rotations
<1>2. /\ call' \in [Calls -> CallStates]
      /\ call'[c] = [call[c] EXCEPT !.at = "rotating"]
      /\ \A d \in Calls \ {c} : call'[d] = call[d]
  BY <1>1 DEF Rotate, TypeOK, CallStates, Rotations
<1>3. /\ lock' \in [Families -> Calls \cup {NoCall}] /\ lock'[f] = c
      /\ \A g \in Families \ {f} : lock'[g] = lock[g]
  BY <1>1 DEF Rotate, TypeOK
<1>4. /\ call'[c].at = "rotating" /\ call'[c].f = f /\ call'[c].n = call[c].n /\ Its(c)' = Its(c)
  BY <1>1, <1>2 DEF Its, Rotations
<1>5. TypeOK'
  BY <1>1, <1>2, <1>3 DEF TypeOK, authTables, history
<1>6. TokensInOrder'
  BY <1>1, <1>2, <1>4 DEF TokensInOrder, authTables, history, Is
<1>7. RotationOwnsFamily'
  <2>1. ASSUME NEW d \in Calls, call'[d].at = "rotating"
        PROVE  /\ lock'[call'[d].f] = d /\ family[call'[d].f].is = "live"
               /\ token[Its(d)'].is = "fresh" /\ call'[d].n < MaxGen
    <3>1. CASE d = c
      BY <3>1, <1>1, <1>3, <1>4 DEF TokensInOrder
    <3>2. CASE d # c
      <4>1. call'[d] = call[d] /\ Its(d)' = Its(d) /\ call[d].f \in Families
        BY <2>1, <3>2, <1>2, CallType DEF Its, Rotations
      <4>2. call[d].f # f
        BY <2>1, <4>1, <1>1, NamesAssumption DEF RotationOwnsFamily
      <4> QED
        BY <2>1, <4>1, <4>2, <1>3 DEF RotationOwnsFamily, Is
    <3> QED
      BY <3>1, <3>2
  <2>2. ASSUME NEW g \in Families, lock'[g] # NoCall
        PROVE  call'[lock'[g]].at = "rotating" /\ call'[lock'[g]].f = g
    <3>1. CASE g = f
      BY <3>1, <1>3, <1>4
    <3>2. CASE g # f
      BY <2>2, <3>2, <1>1, <1>2, <1>3 DEF RotationOwnsFamily, TypeOK
    <3> QED
      BY <3>1, <3>2
  <2> QED
    BY <1>1, <2>1, <2>2 DEF RotationOwnsFamily, Is, authTables
<1>8. OneHeir' /\ ReuseEndsTheFamily' /\ LogoutSticks'
  BY <1>1 DEF OneHeir, ReuseEndsTheFamily, LogoutSticks, authTables, history, Is
<1>9. LeavingIsKnown'
  <2>1. family' = family
    BY <1>1 DEF authTables
  <2> QED
    BY <2>1, <1>2, <1>4 DEF LeavingIsKnown, Is
<1> QED
  BY <1>5, <1>6, <1>7, <1>8, <1>9

(* The COMMIT of a rotation: the token it read is still the newest. *)
LEMMA CommitRotationKeepsInv ==
  ASSUME AuthInv, NEW c \in Calls, CommitRotation(c)
  PROVE  AuthInv'
<1> USE DEF AuthInv
<1> DEFINE f == call[c].f
           old == call[c].n
           new == last[f] + 1
<1>1. /\ call[c].at = "rotating" /\ call[c] \in Rotations
      /\ f \in Families /\ old \in Gens /\ Its(c) = <<f, old>>
      /\ UNCHANGED <<now, family, denied, sweep, caught, out, cleared>>
  BY CallType DEF CommitRotation, Rotations, Its
<1>2. /\ lock[f] = c /\ family[f].is = "live" /\ token[<<f, old>>].is = "fresh"
      /\ old < MaxGen /\ old = last[f]
  BY <1>1 DEF RotationOwnsFamily, OneHeir, Is
<1>3. new \in Gens /\ new = old + 1 /\ new # old
  BY <1>1, <1>2, GensType DEF Gens
<1>19. old \in Nat /\ new \in Nat
  BY <1>1, <1>3, GensType
<1>4. token[<<f, new>>].is = "none" /\ made[<<f, old>>] = 0
  <2>1. token[<<f, new>>].is = "none"
    <3>1. ~(new <= last[f])
      BY <1>2, <1>3, <1>19
    <3> QED
      BY <3>1, <1>1, <1>3 DEF TokensInOrder
  <2>2. made[<<f, old>>] # 1 /\ made[<<f, old>>] \in Nat /\ made[<<f, old>>] <= 1
    BY <1>1, <1>2 DEF OneHeir, TypeOK
  <2> QED
    BY <2>1, <2>2
<1>5. /\ last' \in [Families -> 0..MaxGen] /\ last'[f] = new
      /\ \A g \in Families \ {f} : last'[g] = last[g]
  BY <1>1, <1>3, GensType DEF CommitRotation, AddPair, TypeOK, Gens
<1>6. /\ access' \in [Families \X AccessIds -> Nat]
      /\ \A a \in Families \X AccessIds : a # <<f, new>> => access'[a] = access[a]
  <2>1. call[c].born \in Nat /\ now \in Nat /\ <<f, new>> \in Families \X AccessIds
    BY <1>1, <1>3, GensType DEF Rotations, TypeOK
  <2>2. PICK signed \in call[c].born..now :
          access' = [access EXCEPT ![<<f, new>>] = signed + AccessLife]
    BY DEF CommitRotation, AddPair
  <2> QED
    BY <2>1, <2>2, LivesAssumption DEF TypeOK
<1>7. /\ token' \in [Families \X Gens -> [is : {"none", "fresh", "used"}, until : Nat]]
      /\ token'[<<f, old>>].is = "used" /\ token'[<<f, new>>].is = "fresh"
      /\ \A t \in Families \X Gens : t \notin {<<f, old>>, <<f, new>>} => token'[t] = token[t]
  <2>1. call[c].born + RefreshLife \in Nat
    BY <1>1, LivesAssumption DEF Rotations
  <2>2. token' = [token EXCEPT ![<<f, old>>].is = "used",
                    ![<<f, new>>] = [is |-> "fresh", until |-> call[c].born + RefreshLife]]
    BY <1>1 DEF CommitRotation
  <2>3. <<f, old>> \in Families \X Gens /\ <<f, new>> \in Families \X Gens /\ <<f, old>> # <<f, new>>
    BY <1>1, <1>3
  <2> QED
    BY <2>1, <2>2, <2>3, ZenonT(40) DEF TypeOK
<1>8. /\ made' \in [Families \X Gens -> Nat] /\ made'[<<f, old>>] = 1
      /\ \A t \in Families \X Gens : t # <<f, old>> => made'[t] = made[t]
  BY <1>1, <1>4 DEF CommitRotation, TypeOK
<1>9. told' \in {told, told \cup {<<f, new>>}}
  BY DEF CommitRotation
<1>10. /\ lock' \in [Families -> Calls \cup {NoCall}] /\ lock'[f] = NoCall
       /\ \A g \in Families \ {f} : lock'[g] = lock[g]
  BY <1>1 DEF CommitRotation, TypeOK
<1>11. /\ call' \in [Calls -> CallStates] /\ call'[c] = Idle
       /\ \A d \in Calls \ {c} : call'[d] = call[d]
  BY DEF CommitRotation, Return, TypeOK, CallStates
<1>12. TypeOK'
  <2>1. told' \in SUBSET (Families \X Gens)
    BY <1>1, <1>3, <1>9 DEF TypeOK
  <2> QED
    BY <1>1, <1>5, <1>6, <1>7, <1>8, <1>10, <1>11, <2>1 DEF TypeOK
<1>13. TokensInOrder'
  <2>1. ASSUME NEW g \in Families, NEW n \in Gens
        PROVE  token'[<<g, n>>].is # "none" <=> n <= last'[g]
    <3>1. CASE g = f /\ n \in {old, new}
      BY <3>1, <1>3, <1>5, <1>7, GensType, SMTT(30)
    <3>2. CASE g = f /\ n \notin {old, new}
      <4>1. n <= last[f] <=> n <= new
        <5>1. n \in Nat /\ old \in Nat /\ n # old + 1
          BY <3>2, <1>1, <1>3, GensType
        <5> QED
          BY <3>2, <5>1, <1>2, <1>3
      <4> QED
        BY <3>2, <4>1, <1>5, <1>7 DEF TokensInOrder
    <3>3. CASE g # f
      BY <3>3, <1>5, <1>7 DEF TokensInOrder
    <3> QED
      BY <3>1, <3>2, <3>3
  <2>2. \A g \in Families : family[g].is = "none" => last'[g] = 0
    BY <1>2, <1>5 DEF TokensInOrder, Is
  <2>3. \A g \in Families : last[g] <= last'[g]
    BY <1>1, <1>5, GensType DEF TypeOK
  <2>4. \A t \in told' : t[2] <= last'[t[1]]
    <3>1. \A t \in told : t[2] <= last'[t[1]]
      BY <1>5, <2>3, NewTokensKeepOrder
    <3>2. new <= new
      BY <1>19
    <3> QED
      BY <3>1, <3>2, <1>5, <1>9
  <2>5. ASSUME NEW d \in Calls, call'[d].at \in {"asked", "rotating"}
        PROVE  call'[d].n <= last'[call'[d].f] /\ call'[d].n < MaxGen
    <3>1. call'[d] = call[d]
      BY <2>5, <1>11 DEF Idle
    <3> QED
      BY <2>5, <3>1, <1>5, <2>3, NewTokensKeepOrder
  <2> QED
    BY <1>1, <2>1, <2>2, <2>4, <2>5 DEF TokensInOrder, Is
<1>14. RotationOwnsFamily'
  <2>1. ASSUME NEW d \in Calls, call'[d].at = "rotating"
        PROVE  /\ lock'[call'[d].f] = d /\ family[call'[d].f].is = "live"
               /\ token'[Its(d)'].is = "fresh" /\ call'[d].n < MaxGen
    <3>1. d # c /\ call'[d] = call[d] /\ Its(d)' = Its(d)
      BY <2>1, <1>11 DEF Idle, Its
    <3>2. call[d].f \in Families /\ call[d].n \in Gens /\ Its(d) = <<call[d].f, call[d].n>>
      BY <2>1, <3>1, CallType DEF Rotations, Its
    <3>3. lock[call[d].f] = d
      BY <2>1, <3>1 DEF RotationOwnsFamily
    <3>4. call[d].f # f
      BY <3>1, <3>3, <1>2
    <3> QED
      BY <2>1, <3>1, <3>2, <3>3, <3>4, <1>7, <1>10 DEF RotationOwnsFamily, Is
  <2>2. ASSUME NEW g \in Families, lock'[g] # NoCall
        PROVE  call'[lock'[g]].at = "rotating" /\ call'[lock'[g]].f = g
    <3>1. g # f /\ lock'[g] = lock[g] /\ lock[g] \in Calls
      BY <2>2, <1>10 DEF TypeOK
    <3>2. call[lock[g]].at = "rotating" /\ call[lock[g]].f = g
      BY <2>2, <3>1 DEF RotationOwnsFamily
    <3> QED
      BY <3>1, <3>2, <1>11
  <2> QED
    BY <1>1, <2>1, <2>2 DEF RotationOwnsFamily, Is
<1>15. OneHeir'
  <2>1. ASSUME NEW t \in Families \X Gens PROVE made'[t] <= 1
    <3>1. CASE t = <<f, old>>
      BY <3>1, <1>8
    <3>2. CASE t # <<f, old>>
      BY <3>2, <1>8 DEF OneHeir
    <3> QED
      BY <3>1, <3>2
  <2>2. ASSUME NEW g \in Families, NEW n \in Gens
        PROVE  /\ token'[<<g, n>>].is = "fresh" => n = last'[g]
               /\ made'[<<g, n>>] = 1 => token'[<<g, n>>].is = "used"
    <3>1. CASE g = f /\ n \in {old, new}
      <4>1. made[<<f, new>>] # 1
        BY <1>1, <1>3, <1>4 DEF OneHeir
      <4> QED
        BY <3>1, <4>1, <1>1, <1>3, <1>5, <1>7, <1>8, ZenonT(40)
    <3>2. CASE g = f /\ n \notin {old, new}
      BY <3>2, <1>2, <1>5, <1>7, <1>8 DEF OneHeir
    <3>3. CASE g # f
      BY <3>3, <1>5, <1>7, <1>8 DEF OneHeir
    <3> QED
      BY <3>1, <3>2, <3>3
  <2> QED
    BY <2>1, <2>2 DEF OneHeir
<1>16. ReuseEndsTheFamily'
  BY <1>1 DEF ReuseEndsTheFamily, Is
<1>17. LogoutSticks'
  <2> SUFFICES ASSUME NEW a \in out
               PROVE  family[a[1]].is \in {"revoked", "deleted"} /\ (access'[a] > now => a \in denied)
    BY <1>1 DEF LogoutSticks, Is
  <2>1. a \in Families \X AccessIds /\ family[a[1]].is \in {"revoked", "deleted"}
        /\ (access[a] > now => a \in denied)
    BY DEF LogoutSticks, TypeOK, Is
  <2>2. a[1] # f /\ a # <<f, new>>
    BY <2>1, <1>2
  <2> QED
    BY <2>1, <2>2, <1>6
<1>18. LeavingIsKnown'
  BY <1>1, <1>11 DEF LeavingIsKnown, Is, Idle
<1> QED
  BY <1>12, <1>13, <1>14, <1>15, <1>16, <1>17, <1>18

(* A call that ends without a new pair; it may revoke an unlocked family.    *)
LEMMA EndingKeepsShape ==
  ASSUME AuthInv, NEW c \in Calls, call[c].at \in {"asked", "leaving"}, Return(c),
         \/ family' = family
         \/ /\ lock[call[c].f] = NoCall /\ family[call[c].f].is # "none"
            /\ SetFamily(call[c].f, "revoked", call[c].born),
         UNCHANGED <<now, last, token, access, lock, sweep, told, made, cleared>>,
         denied' \in SUBSET (Families \X AccessIds),
         caught' \in SUBSET Families, out' \in SUBSET (Families \X AccessIds)
  PROVE  /\ TypeOK' /\ TokensInOrder' /\ RotationOwnsFamily' /\ OneHeir' /\ LeavingIsKnown'
         /\ \A g \in Families :
              family[g].is \in {"revoked", "deleted"} => family'[g].is \in {"revoked", "deleted"}
<1> USE DEF AuthInv
<1> DEFINE f == call[c].f
<1>1. f \in Families /\ call[c].born \in Nat
  BY CallType DEF Rotations, Logouts
<1>2. /\ call' \in [Calls -> CallStates] /\ call'[c] = Idle
      /\ \A d \in Calls \ {c} : call'[d] = call[d]
  BY DEF Return, TypeOK, CallStates
<1>3. /\ family' \in [Families -> FamilyRows]
      /\ \A g \in Families : \/ family'[g] = family[g]
                             \/ /\ g = f /\ lock[f] = NoCall /\ family[f].is # "none"
                                /\ family'[f].is = "revoked"
  BY <1>1, SMTT(30) DEF SetFamily, TypeOK, FamilyRows
<1>4. TypeOK'
  BY <1>2, <1>3 DEF TypeOK
<1>5. TokensInOrder'
  <2>1. \A g \in Families : family'[g].is = "none" => family[g].is = "none"
    BY <1>3
  <2>2. \A d \in Calls : call'[d].at \in {"asked", "rotating"} => call'[d] = call[d]
    BY <1>2 DEF Idle
  <2> QED
    BY <2>1, <2>2 DEF TokensInOrder, Is
<1>6. RotationOwnsFamily'
  <2>1. ASSUME NEW d \in Calls, call'[d].at = "rotating"
        PROVE  /\ lock[call'[d].f] = d /\ family'[call'[d].f].is = "live"
               /\ token[Its(d)'].is = "fresh" /\ call'[d].n < MaxGen
    <3>1. call'[d] = call[d] /\ Its(d)' = Its(d)
      BY <2>1, <1>2 DEF Idle, Its
    <3>2. call[d].f \in Families /\ lock[call[d].f] = d /\ family[call[d].f].is = "live"
      BY <2>1, <3>1, CallType DEF RotationOwnsFamily, Rotations, Is
    <3>3. family'[call[d].f] = family[call[d].f]
      BY <3>2, <1>3, NamesAssumption
    <3> QED
      BY <2>1, <3>1, <3>2, <3>3 DEF RotationOwnsFamily
  <2>2. ASSUME NEW g \in Families, lock[g] # NoCall
        PROVE  call'[lock[g]].at = "rotating" /\ call'[lock[g]].f = g
    <3>1. lock[g] \in Calls /\ call[lock[g]].at = "rotating" /\ call[lock[g]].f = g
      BY <2>2 DEF RotationOwnsFamily, TypeOK
    <3> QED
      BY <3>1, <1>2
  <2> QED
    BY <2>1, <2>2 DEF RotationOwnsFamily, Is
<1>7. OneHeir'
  BY DEF OneHeir
<1>8. LeavingIsKnown'
  <2> SUFFICES ASSUME NEW d \in Calls, call'[d].at = "leaving" PROVE family'[call'[d].f].is # "none"
    BY DEF LeavingIsKnown, Is
  <2>1. call'[d] = call[d]
    BY <1>2 DEF Idle
  <2>2. call[d].f \in Families /\ family[call[d].f].is # "none"
    BY <2>1, CallType DEF LeavingIsKnown, Is, Logouts
  <2> QED
    BY <2>1, <2>2, <1>3
<1> QED
  BY <1>3, <1>4, <1>5, <1>6, <1>7, <1>8

(* A used token: its family is revoked before the answer. *)
LEMMA ReuseKeepsInv ==
  ASSUME AuthInv, NEW c \in Calls, Reuse(c) \/ Refuse(c)
  PROVE  AuthInv'
<1> USE DEF AuthInv
<1>1. /\ call[c].at = "asked" /\ Return(c) /\ call[c].f \in Families
      /\ UNCHANGED <<now, last, token, access, denied, lock, sweep, told, made, out, cleared>>
  BY CallType DEF Reuse, Refuse, Asked, authTables, history, Rotations
<1>2. \/ family' = family /\ caught' = caught
      \/ /\ lock[call[c].f] = NoCall /\ family[call[c].f].is # "none"
         /\ SetFamily(call[c].f, "revoked", call[c].born)
         /\ caught' = caught \cup {call[c].f}
  BY DEF Reuse, Refuse, authTables, history, Is
<1>3. caught' \in SUBSET Families
  BY <1>1, <1>2 DEF TypeOK
<1>4. /\ TypeOK' /\ TokensInOrder' /\ RotationOwnsFamily' /\ OneHeir' /\ LeavingIsKnown'
      /\ \A g \in Families :
           family[g].is \in {"revoked", "deleted"} => family'[g].is \in {"revoked", "deleted"}
  <2>1. denied' \in SUBSET (Families \X AccessIds) /\ out' \in SUBSET (Families \X AccessIds)
    BY <1>1 DEF TypeOK
  <2> QED
    BY <1>1, <1>2, <1>3, <2>1, EndingKeepsShape
<1>5. ReuseEndsTheFamily'
  <2>1. \A g \in caught : family'[g].is \in {"revoked", "deleted"}
    BY <1>4 DEF ReuseEndsTheFamily, Is, TypeOK
  <2>2. caught' # caught => family'[call[c].f].is = "revoked"
    BY <1>1, <1>2 DEF SetFamily, TypeOK
  <2> QED
    BY <2>1, <2>2, <1>2 DEF ReuseEndsTheFamily, Is
<1>6. LogoutSticks'
  BY <1>1, <1>4 DEF LogoutSticks, Is, TypeOK
<1> QED
  BY <1>4, <1>5, <1>6

(* A logout: the family is revoked and the access token denied in one COMMIT. *)
LEMMA LogoutKeepsInv ==
  ASSUME AuthInv, NEW c \in Calls, Logout(c)
  PROVE  AuthInv'
<1> USE DEF AuthInv
<1>1. /\ call[c].at = "leaving" /\ Return(c) /\ call[c].f \in Families
      /\ Its(c) \in Families \X AccessIds /\ Its(c)[1] = call[c].f
      /\ UNCHANGED <<now, last, token, access, lock, sweep, told, made, caught, cleared>>
      /\ denied' = Unexpired(denied \cup {Its(c)}) /\ out' = out \cup {Its(c)}
  BY CallType DEF Logout, Logouts, Its
<1>2. \/ family' = family /\ family[call[c].f].is = "deleted"
      \/ /\ lock[call[c].f] = NoCall /\ family[call[c].f].is # "none"
         /\ SetFamily(call[c].f, "revoked", call[c].born)
  BY <1>1 DEF Logout, LeavingIsKnown, Is
<1>3. denied' \in SUBSET (Families \X AccessIds) /\ out' \in SUBSET (Families \X AccessIds)
  BY <1>1 DEF Unexpired, TypeOK
<1>4. /\ TypeOK' /\ TokensInOrder' /\ RotationOwnsFamily' /\ OneHeir' /\ LeavingIsKnown'
      /\ \A g \in Families :
           family[g].is \in {"revoked", "deleted"} => family'[g].is \in {"revoked", "deleted"}
  <2>1. caught' \in SUBSET Families
    BY <1>1 DEF TypeOK
  <2> QED
    BY <1>1, <1>2, <1>3, <2>1, EndingKeepsShape
<1>5. ReuseEndsTheFamily'
  BY <1>1, <1>4 DEF ReuseEndsTheFamily, Is, TypeOK
<1>6. LogoutSticks'
  <2>1. family'[call[c].f].is \in {"revoked", "deleted"}
    BY <1>1, <1>2 DEF SetFamily, TypeOK
  <2>2. ASSUME NEW a \in out'
        PROVE  family'[a[1]].is \in {"revoked", "deleted"} /\ (access[a] > now => a \in denied')
    <3>1. CASE a = Its(c)
      BY <3>1, <2>1, <1>1 DEF Unexpired
    <3>2. CASE a # Its(c)
      <4>1. a \in out /\ a[1] \in Families
        BY <3>2, <1>1 DEF TypeOK
      <4> QED
        BY <4>1, <1>1, <1>4 DEF LogoutSticks, Is, Unexpired
    <3> QED
      BY <3>1, <3>2
  <2> QED
    BY <2>2, <1>1 DEF LogoutSticks, Is
<1> QED
  BY <1>4, <1>5, <1>6

(* ROLLBACK: the tables stay, the lock goes. *)
LEMMA AbortKeepsInv ==
  ASSUME AuthInv, NEW c \in Calls, Abort(c)
  PROVE  AuthInv'
<1> USE DEF AuthInv
<1>1. UNCHANGED <<now, family, last, token, access, denied, sweep, told, made, caught, out, cleared>>
  BY DEF Abort, authTables, history
<1>2. /\ call' \in [Calls -> CallStates] /\ call'[c] = Idle
      /\ \A d \in Calls \ {c} : call'[d] = call[d]
  BY DEF Abort, Return, TypeOK, CallStates
<1>3. /\ lock' \in [Families -> Calls \cup {NoCall}]
      /\ \A g \in Families : lock'[g] = IF lock[g] = c THEN NoCall ELSE lock[g]
  BY DEF Abort, TypeOK
<1>4. TypeOK'
  BY <1>1, <1>2, <1>3 DEF TypeOK
<1>5. \A d \in Calls : call'[d].at # "idle" => d # c /\ call'[d] = call[d] /\ Its(d)' = Its(d)
  BY <1>2 DEF Idle, Its
<1>6. TokensInOrder' /\ LeavingIsKnown'
  BY <1>1, <1>5 DEF TokensInOrder, LeavingIsKnown, Is
<1>7. RotationOwnsFamily'
  <2>1. ASSUME NEW d \in Calls, call'[d].at = "rotating"
        PROVE  /\ lock'[call'[d].f] = d /\ family[call'[d].f].is = "live"
               /\ token[Its(d)'].is = "fresh" /\ call'[d].n < MaxGen
    <3>1. d # c /\ call'[d] = call[d] /\ Its(d)' = Its(d) /\ call[d].f \in Families
      BY <2>1, <1>5, CallType DEF Rotations
    <3> QED
      BY <2>1, <3>1, <1>3 DEF RotationOwnsFamily, Is
  <2>2. ASSUME NEW g \in Families, lock'[g] # NoCall
        PROVE  call'[lock'[g]].at = "rotating" /\ call'[lock'[g]].f = g
    <3>1. lock'[g] = lock[g] /\ lock[g] # c /\ lock[g] \in Calls
      BY <2>2, <1>3 DEF TypeOK
    <3> QED
      BY <2>2, <3>1, <1>2 DEF RotationOwnsFamily
  <2> QED
    BY <1>1, <2>1, <2>2 DEF RotationOwnsFamily, Is
<1>8. OneHeir' /\ ReuseEndsTheFamily' /\ LogoutSticks'
  BY <1>1 DEF OneHeir, ReuseEndsTheFamily, LogoutSticks, Is
<1> QED
  BY <1>4, <1>6, <1>7, <1>8

(* The cleanup: what it prunes has expired, what it deletes nobody holds.     *)
LEMMA CleanupLookKeepsInv == AuthInv /\ CleanupLook => AuthInv'
<1> SUFFICES ASSUME AuthInv, CleanupLook PROVE AuthInv'
  OBVIOUS
<1> USE DEF AuthInv
<1>1. UNCHANGED <<now, family, last, token, access, lock, call, told, made, caught, out>>
  BY DEF CleanupLook
<1>2. /\ denied' = Unexpired(denied) /\ denied' \in SUBSET (Families \X AccessIds)
      /\ sweep' \in SUBSET (Families \X FamilyRows) /\ cleared' \in SUBSET (Families \X Gens)
  BY DEF CleanupLook, Unexpired, TypeOK
<1>3. TypeOK'
  BY <1>1, <1>2 DEF TypeOK
<1>4. TokensInOrder' /\ RotationOwnsFamily' /\ OneHeir' /\ ReuseEndsTheFamily' /\ LeavingIsKnown'
  BY <1>1 DEF TokensInOrder, RotationOwnsFamily, OneHeir, ReuseEndsTheFamily, LeavingIsKnown, Is, Its
<1>5. LogoutSticks'
  BY <1>1, <1>2 DEF LogoutSticks, Unexpired, Is
<1> QED
  BY <1>3, <1>4, <1>5

LEMMA CleanupDeleteType ==
  ASSUME AuthInv, CleanupDelete
  PROVE  /\ UNCHANGED <<now, last, token, access, denied, lock, call>> /\ UNCHANGED history
         /\ sweep' = {} /\ family' \in [Families -> FamilyRows]
         /\ \A f \in Families : \/ family'[f] = family[f]
                                \/ /\ lock[f] = NoCall /\ <<f, family[f]>> \in sweep
                                   /\ family'[f].is = "deleted"
<1>1. PICK gone \in SUBSET {f \in Families : lock[f] = NoCall /\ <<f, family[f]>> \in sweep} :
        family' = [f \in Families |-> IF f \in gone THEN [family[f] EXCEPT !.is = "deleted"]
                                      ELSE family[f]]
  BY DEF CleanupDelete
<1>2. \A f \in Families : family[f] \in FamilyRows
  BY DEF AuthInv, TypeOK
<1> QED
  BY <1>1, <1>2 DEF CleanupDelete, FamilyRows

LEMMA CleanupDeleteKeepsInv == AuthInv /\ CleanupDelete => AuthInv'
<1> SUFFICES ASSUME AuthInv, CleanupDelete PROVE AuthInv'
  OBVIOUS
<1> USE DEF AuthInv
<1>1. /\ UNCHANGED <<now, last, token, access, denied, lock, call, told, made, caught, out, cleared>>
      /\ sweep' = {} /\ family' \in [Families -> FamilyRows]
      /\ \A f \in Families : family'[f] = family[f] \/ (lock[f] = NoCall /\ family'[f].is = "deleted")
  BY CleanupDeleteType DEF history
<1>2. TypeOK'
  BY <1>1 DEF TypeOK
<1>3. TokensInOrder' /\ OneHeir'
  BY <1>1 DEF TokensInOrder, OneHeir, Is
<1>4. RotationOwnsFamily'
  <2>1. ASSUME NEW d \in Calls, call[d].at = "rotating" PROVE family'[call[d].f].is = "live"
    <3>1. call[d].f \in Families /\ lock[call[d].f] = d /\ family[call[d].f].is = "live"
      BY <2>1, CallType DEF RotationOwnsFamily, Rotations, Is
    <3> QED
      BY <3>1, <1>1, NamesAssumption
  <2> QED
    BY <2>1, <1>1 DEF RotationOwnsFamily, Is, Its
<1>5. ReuseEndsTheFamily' /\ LogoutSticks'
  BY <1>1 DEF ReuseEndsTheFamily, LogoutSticks, Is, TypeOK
<1>6. LeavingIsKnown'
  BY <1>1, CallType DEF LeavingIsKnown, Is, Logouts
<1> QED
  BY <1>2, <1>3, <1>4, <1>5, <1>6

LEMMA TickKeepsInv == AuthInv /\ Tick => AuthInv'
<1> SUFFICES ASSUME AuthInv, Tick PROVE AuthInv'
  OBVIOUS
<1> USE DEF AuthInv
<1>1. /\ now \in Nat /\ now' = now + 1
      /\ UNCHANGED <<family, last, token, access, denied, lock, call, sweep,
                     told, made, caught, out, cleared>>
  BY DEF Tick, authTables, history, TypeOK
<1>2. TypeOK'
  BY <1>1 DEF TypeOK
<1>3. TokensInOrder' /\ RotationOwnsFamily' /\ OneHeir' /\ ReuseEndsTheFamily' /\ LeavingIsKnown'
  BY <1>1 DEF TokensInOrder, RotationOwnsFamily, OneHeir, ReuseEndsTheFamily, LeavingIsKnown, Is, Its
<1>4. LogoutSticks'
  <2>1. \A a \in out : access[a] \in Nat
    BY DEF TypeOK
  <2> QED
    BY <1>1, <2>1 DEF LogoutSticks, Is
<1> QED
  BY <1>2, <1>3, <1>4

(* Every step keeps the invariant: one case per action of Next. *)
LEMMA AuthStep == AuthInv /\ [Next]_vars => AuthInv'
<1> SUFFICES ASSUME AuthInv, [Next]_vars PROVE AuthInv'
  OBVIOUS
<1>1. CASE UNCHANGED vars
  BY <1>1 DEF vars, authTables, history, AuthInv, TypeOK, TokensInOrder, RotationOwnsFamily,
              OneHeir, ReuseEndsTheFamily, LogoutSticks, LeavingIsKnown, Is, Its
<1>2. ASSUME NEW c \in Calls, Step(c) \/ Abort(c) PROVE AuthInv'
  BY <1>2, RotateKeepsInv, CommitRotationKeepsInv, ReuseKeepsInv, LogoutKeepsInv, AbortKeepsInv
  DEF Step
<1> QED
  BY <1>1, <1>2, LoginKeepsInv, IssueTokenKeepsInv, PresentKeepsInv, BeginLogoutKeepsInv,
     CleanupLookKeepsInv, CleanupDeleteKeepsInv, TickKeepsInv DEF Next

(* AuthInv holds in every reachable state. *)
THEOREM AuthInvariant == Spec => []AuthInv
<1>1. Init => AuthInv
  <2> SUFFICES ASSUME Init PROVE AuthInv
    OBVIOUS
  <2>1. TypeOK
    BY GensType DEF Init, TypeOK, FamilyRows, CallStates, Idle, NoAccess
  <2>2. TokensInOrder
    BY GensType DEF Init, TokensInOrder, Idle
  <2>3. RotationOwnsFamily /\ OneHeir /\ ReuseEndsTheFamily /\ LogoutSticks /\ LeavingIsKnown
    BY DEF Init, RotationOwnsFamily, OneHeir, ReuseEndsTheFamily, LogoutSticks, LeavingIsKnown,
           Idle, Is
  <2> QED
    BY <2>1, <2>2, <2>3 DEF AuthInv
<1> QED
  BY <1>1, AuthStep, PTL DEF Spec

(* However many refreshes present a token at once, it makes one pair, and a   *)
(* family has no second line of successors.                                    *)
THEOREM NoForkedFamily == Spec => []OneHeir
  BY AuthInvariant, PTL DEF AuthInv

(* After a logout nothing of the family works. *)
THEOREM LogoutIsFinal == Spec => []LogoutSticks
  BY AuthInvariant, PTL DEF AuthInv

-----------------------------------------------------------------------------
(* A step that adds a pair: the access token expires no later than the        *)
(* refresh token it was signed with.                                           *)
LEMMA PairsExpireInOrder ==
  ASSUME AuthInv, CleanupInv, NEW f \in Families, NEW n \in Gens,
         NEW born \in Nat, NEW signed \in born..now, now <= born + 1,
         access' = [access EXCEPT ![<<f, n>>] = signed + AccessLife],
         \A t \in Families \X Gens : t # <<f, n>> =>
           token'[t].until = token[t].until /\ (token'[t].is = "none" => token[t].is = "none"),
         token'[<<f, n>>] = [is |-> "fresh", until |-> born + RefreshLife]
  PROVE  /\ \A g \in Families, m \in Gens :
              /\ access'[<<g, m>>] <= token'[<<g, m>>].until
              /\ token'[<<g, m>>].is = "none" => token'[<<g, m>>].until = 0
         /\ \A g \in Families : access'[<<g, CliAccess>>] = access[<<g, CliAccess>>]
<1>1. /\ \A a \in Families \X AccessIds : a # <<f, n>> => access'[a] = access[a]
      /\ access'[<<f, n>>] = signed + AccessLife
  BY GensType DEF AuthInv, TypeOK
<1>2. signed + AccessLife <= born + RefreshLife
  BY LivesAssumption DEF AuthInv, TypeOK
<1>3. n # CliAccess
  BY GensType
<1>4. ASSUME NEW g \in Families, NEW m \in Gens
      PROVE  /\ access'[<<g, m>>] <= token'[<<g, m>>].until
             /\ token'[<<g, m>>].is = "none" => token'[<<g, m>>].until = 0
  <2>1. CASE <<g, m>> = <<f, n>>
    BY <2>1, <1>1, <1>2
  <2>2. CASE <<g, m>> # <<f, n>>
    BY <2>2, <1>1, GensType DEF CleanupInv
  <2> QED
    BY <2>1, <2>2
<1> QED
  BY <1>1, <1>3, <1>4, GensType

(* A step of a call that adds no pair and deletes nothing. *)
LEMMA OthersKeepCleanupInv ==
  ASSUME AuthInv, CleanupInv, UNCHANGED <<now, last, token, access, sweep, cleared>>,
         \A c \in Calls : call'[c] # Idle => call'[c].born \in {call[c].born, now}
                                             /\ (call'[c].born # now => call[c] # Idle),
         \A f \in Families : \/ family'[f] = family[f]
                             \/ family'[f].is \in {"revoked", "deleted"}
  PROVE  CleanupInv'
<1>1. \A c \in Calls : call'[c] # Idle => now <= call'[c].born + 1
  BY DEF CleanupInv, AuthInv, TypeOK
<1> QED
  BY <1>1 DEF CleanupInv, Is

LEMMA CleanupInvStep == AuthInv /\ CleanupInv /\ [Next]_vars => CleanupInv'
<1> SUFFICES ASSUME AuthInv, CleanupInv, [Next]_vars PROVE CleanupInv'
  OBVIOUS
<1>1. now \in Nat /\ \A f \in Families : family[f].at \in Nat
  BY DEF AuthInv, TypeOK, FamilyRows
<1>2. ASSUME NEW f \in Families, Login(f) PROVE CleanupInv'
  <2>1. /\ UNCHANGED <<now, call, sweep, cleared>> /\ last[f] = 0 /\ family[f].is = "none"
        /\ 1 \in Gens
    BY <1>2, GensType DEF Login, Is, AuthInv, TokensInOrder, Gens
  <2>2. PICK signed \in now..now : access' = [access EXCEPT ![<<f, 1>>] = signed + AccessLife]
    BY <1>2, <2>1 DEF Login, AddPair
  <2>3. /\ token'[<<f, 1>>] = [is |-> "fresh", until |-> now + RefreshLife]
        /\ \A t \in Families \X Gens : t # <<f, 1>> => token'[t] = token[t]
    BY <1>2, <2>1 DEF Login, AuthInv, TypeOK
  <2>4. now <= now + 1
    BY <1>1
  <2>5. /\ \A g \in Families, m \in Gens :
             /\ access'[<<g, m>>] <= token'[<<g, m>>].until
             /\ token'[<<g, m>>].is = "none" => token'[<<g, m>>].until = 0
        /\ \A g \in Families : access'[<<g, CliAccess>>] = access[<<g, CliAccess>>]
    <3>1. \A t \in Families \X Gens : t # <<f, 1>> =>
            token'[t].until = token[t].until /\ (token'[t].is = "none" => token[t].is = "none")
      BY <2>3
    <3>2. /\ 1 \in Gens /\ now \in Nat /\ signed \in now..now /\ now <= now + 1
          /\ token'[<<f, 1>>] = [is |-> "fresh", until |-> now + RefreshLife]
      BY <1>1, <2>1, <2>3, <2>4
    <3> QED
      BY <2>2, <3>1, <3>2, PairsExpireInOrder, ZenonT(40)
  <2>6. /\ family'[f] = [is |-> "live", at |-> now]
        /\ \A g \in Families \ {f} : family'[g] = family[g]
    BY <1>2 DEF Login, SetFamily, AuthInv, TypeOK
  <2>7. access[<<f, CliAccess>>] = 0 /\ 0 <= now + AccessLife
    BY <2>1, <1>1, LivesAssumption DEF CleanupInv, Is, NoAccess
  <2>8. ASSUME NEW g \in Families
        PROVE  /\ family'[g].is = "none" => access'[<<g, CliAccess>>] = NoAccess
               /\ family'[g].is = "live" => access'[<<g, CliAccess>>] <= family'[g].at + AccessLife
    <3>1. CASE g = f
      BY <3>1, <2>5, <2>6, <2>7
    <3>2. CASE g # f
      BY <3>2, <2>5, <2>6 DEF CleanupInv, Is
    <3> QED
      BY <3>1, <3>2
  <2> QED
    BY <2>1, <2>5, <2>8 DEF CleanupInv, Is
<1>3. ASSUME NEW f \in Families, IssueToken(f) PROVE CleanupInv'
  <2>1. /\ UNCHANGED <<now, token, call, sweep, cleared>> /\ family[f].is = "none"
        /\ access' = [access EXCEPT ![<<f, CliAccess>>] = now + AccessLife]
        /\ family' = [family EXCEPT ![f] = [is |-> "live", at |-> now]]
    BY <1>3 DEF IssueToken, SetFamily, Is, history
  <2>2. /\ \A g \in Families, m \in Gens : access'[<<g, m>>] = access[<<g, m>>]
        /\ \A g \in Families \ {f} : access'[<<g, CliAccess>>] = access[<<g, CliAccess>>]
        /\ access'[<<f, CliAccess>>] = now + AccessLife
    BY <2>1, GensType DEF AuthInv, TypeOK
  <2>3. ASSUME NEW g \in Families
        PROVE  /\ family'[g].is = "none" => access'[<<g, CliAccess>>] = NoAccess
               /\ family'[g].is = "live" => access'[<<g, CliAccess>>] <= family'[g].at + AccessLife
    <3>1. CASE g = f
      BY <3>1, <2>1, <2>2, <1>1, LivesAssumption DEF AuthInv, TypeOK
    <3>2. CASE g # f
      BY <3>2, <2>1, <2>2 DEF CleanupInv, Is, AuthInv, TypeOK
    <3> QED
      BY <3>1, <3>2
  <2> QED
    BY <2>1, <2>2, <2>3 DEF CleanupInv, Is
<1>4. ASSUME NEW c \in Calls, CommitRotation(c) PROVE CleanupInv'
  <2> DEFINE f == call[c].f
             new == last[f] + 1
             born == call[c].born
  <2>1. /\ UNCHANGED <<now, family, sweep, cleared>>
        /\ call[c].at = "rotating" /\ f \in Families /\ born \in Nat /\ call[c].n \in Gens
        /\ Its(c) = <<f, call[c].n>> /\ now <= born + 1
    BY <1>4, CallType DEF CommitRotation, AuthInv, Rotations, Its, CleanupInv, Idle
  <2>2. new \in Gens /\ new # call[c].n
    <3>1. call[c].n = last[f] /\ call[c].n < MaxGen
      BY <2>1 DEF AuthInv, RotationOwnsFamily, OneHeir
    <3>2. call[c].n \in Nat
      BY <2>1, GensType
    <3> QED
      BY <3>1, <3>2, GensType DEF Gens
  <2>3. PICK signed \in born..now : access' = [access EXCEPT ![<<f, new>>] = signed + AccessLife]
    BY <1>4 DEF CommitRotation, AddPair
  <2>4. /\ token'[<<f, new>>] = [is |-> "fresh", until |-> born + RefreshLife]
        /\ \A t \in Families \X Gens : t # <<f, new>> =>
             token'[t].until = token[t].until /\ (token'[t].is = "none" => token[t].is = "none")
    <3>1. token' = [token EXCEPT ![<<f, call[c].n>>].is = "used",
                      ![<<f, new>>] = [is |-> "fresh", until |-> born + RefreshLife]]
      BY <1>4, <2>1 DEF CommitRotation
    <3>2. <<f, new>> \in Families \X Gens /\ <<f, call[c].n>> # <<f, new>>
      BY <2>1, <2>2
    <3> QED
      BY <3>1, <3>2 DEF AuthInv, TypeOK
  <2>5. /\ \A g \in Families, m \in Gens :
             /\ access'[<<g, m>>] <= token'[<<g, m>>].until
             /\ token'[<<g, m>>].is = "none" => token'[<<g, m>>].until = 0
        /\ \A g \in Families : access'[<<g, CliAccess>>] = access[<<g, CliAccess>>]
    BY <2>1, <2>2, <2>3, <2>4, PairsExpireInOrder
  <2>6. \A d \in Calls : call'[d] # Idle => call'[d] = call[d]
    BY <1>4 DEF CommitRotation, Return, AuthInv, TypeOK
  <2> QED
    BY <2>1, <2>5, <2>6 DEF CleanupInv, Is
<1>5. ASSUME NEW c \in Calls, Rotate(c) \/ Reuse(c) \/ Refuse(c) \/ Logout(c) \/ Abort(c)
      PROVE  CleanupInv'
  <2>1. UNCHANGED <<now, last, token, access, sweep, cleared>>
    BY <1>5 DEF Rotate, Reuse, Refuse, Logout, Abort, authTables, history
  <2>2. \A d \in Calls : call'[d] # Idle => call'[d].born = call[d].born /\ call[d] # Idle
    <3>1. CASE Rotate(c)
      <4>1. call[c] \in Rotations /\ call' = [call EXCEPT ![c].at = "rotating"]
        BY <3>1, CallType DEF Rotate, Asked, AuthInv
      <4> QED
        BY <4>1 DEF Rotations, Idle, AuthInv, TypeOK
    <3>2. CASE Return(c)
      BY <3>2 DEF Return, AuthInv, TypeOK
    <3> QED
      BY <1>5, <3>1, <3>2 DEF Reuse, Refuse, Logout, Abort
  <2>3. \A f \in Families : family'[f] = family[f] \/ family'[f].is = "revoked"
    BY <1>5 DEF Rotate, Reuse, Refuse, Logout, Abort, authTables, SetFamily, AuthInv, TypeOK
  <2> QED
    BY <2>1, <2>2, <2>3, OthersKeepCleanupInv
<1>6. ASSUME NEW c \in Calls, NEW f \in Families, NEW n \in AccessIds,
             (n \in Gens /\ Present(c, f, n)) \/ BeginLogout(c, f, n)
      PROVE  CleanupInv'
  <2>1. /\ UNCHANGED <<now, family, last, token, access, sweep, cleared>>
        /\ \A d \in Calls \ {c} : call'[d] = call[d]
        /\ call'[c].born = now
    BY <1>6 DEF Present, BeginLogout, authTables, history, AuthInv, TypeOK
  <2>2. \A d \in Calls : call'[d] # Idle =>
          call'[d].born \in {call[d].born, now} /\ (call'[d].born # now => call[d] # Idle)
    BY <2>1
  <2> QED
    BY <2>1, <2>2, OthersKeepCleanupInv
<1>7. CASE CleanupLook
  <2>1. /\ UNCHANGED <<now, family, token, access, call>>
        /\ sweep' = {<<f, family[f]>> : f \in {g \in Families : Due(g)}}
        /\ cleared' = {t \in Families \X Gens : Alive(t[1], t[2])}
    BY <1>7 DEF CleanupLook
  <2>2. ASSUME NEW due \in sweep'
        PROVE  /\ due[2].at + Grace <= now
               /\ due[2].is = "live" => \A n \in Gens : <<due[1], n>> \notin cleared'
    <3>1. PICK f \in Families : due = <<f, family[f]>> /\ Due(f)
      BY <2>1
    <3> QED
      BY <3>1, <2>1 DEF Due, OldEnough, Is
  <2> QED
    BY <2>1, <2>2 DEF CleanupInv, Is
<1>8. CASE CleanupDelete
  <2>1. /\ UNCHANGED <<now, token, access, call>> /\ sweep' = {}
        /\ \A f \in Families : family'[f] = family[f] \/ family'[f].is = "deleted"
    BY <1>8, CleanupDeleteType
  <2> QED
    BY <2>1 DEF CleanupInv, Is
<1>9. CASE Tick
  <2>1. /\ now' = now + 1 /\ UNCHANGED <<family, token, access, call, sweep, cleared>>
        /\ \A c \in Calls : call[c] # Idle => call[c].born = now
    BY <1>9 DEF Tick, authTables, history
  <2>2. \A due \in sweep : due[2].at \in Nat
    BY DEF AuthInv, TypeOK, FamilyRows
  <2>3. \A due \in sweep : due[2].at + Grace <= now'
    BY <1>1, <2>1, <2>2, LivesAssumption DEF CleanupInv
  <2> QED
    BY <1>1, <2>1, <2>3 DEF CleanupInv, Is
<1>10. CASE UNCHANGED vars
  BY <1>10 DEF vars, authTables, history, CleanupInv, Is
<1> QED
  BY <1>2, <1>3, <1>4, <1>5, <1>6, <1>7, <1>8, <1>9, <1>10, GensType DEF Next, Step

(* The cleanup deletes what its snapshot found due, and nothing of that has   *)
(* a token the snapshot saw alive or an access token without a refresh token.  *)
LEMMA DeletionsSpareSessions ==
  ASSUME AuthInv, CleanupInv, CleanupDelete, NEW f \in Families, Deleted(f)
  PROVE  /\ OldEnough(f)
         /\ Is(f, {"live"}) => \A n \in AccessIds :
              access[<<f, n>>] > now \/ (n \in Gens /\ Alive(f, n)) =>
                n \in Gens /\ <<f, n>> \notin cleared /\ Alive(f, n)
<1>1. <<f, family[f]>> \in sweep
  BY CleanupDeleteType DEF Deleted, Is
<1>2. /\ now \in Nat /\ family[f].at \in Nat
      /\ \A n \in Gens : token[<<f, n>>].until \in Nat
      /\ \A n \in AccessIds : access[<<f, n>>] \in Nat
  BY DEF AuthInv, TypeOK, FamilyRows
<1>3. family[f].at + Grace <= now
  BY <1>1 DEF CleanupInv
<1>4. ASSUME family[f].is = "live", NEW n \in AccessIds,
             access[<<f, n>>] > now \/ (n \in Gens /\ Alive(f, n))
      PROVE  n \in Gens /\ <<f, n>> \notin cleared /\ Alive(f, n)
  <2>1. n \in Gens
    <3>1. CASE n = CliAccess
      <4>1. access[<<f, n>>] <= family[f].at + AccessLife
        BY <3>1, <1>4 DEF CleanupInv, Is
      <4>2. access[<<f, n>>] <= now
        BY <4>1, <1>2, <1>3, LivesAssumption
      <4>3. n \notin Gens
        BY <3>1, GensType
      <4> QED
        BY <4>2, <4>3, <1>2, <1>4
    <3> QED
      BY <3>1 DEF AccessIds
  <2>2. <<f, n>> \notin cleared
    BY <2>1, <1>1, <1>4 DEF CleanupInv
  <2>3. Alive(f, n)
    <3>1. CASE access[<<f, n>>] > now
      <4>1. token[<<f, n>>].until > now
        BY <3>1, <2>1, <1>2 DEF CleanupInv
      <4>2. token[<<f, n>>].is # "none"
        BY <4>1, <2>1, <1>2 DEF CleanupInv
      <4> QED
        BY <4>1, <4>2 DEF Alive
    <3> QED
      BY <3>1, <1>4
  <2> QED
    BY <2>1, <2>2, <2>3
<1> QED
  BY <1>3, <1>4 DEF OldEnough, Is

LEMMA OnlyTheCleanupDeletes ==
  ASSUME AuthInv, Next, NEW f \in Families, Deleted(f)
  PROVE  CleanupDelete
<1> USE DEF AuthInv
<1>1. family'[f] # family[f] /\ family'[f].is = "deleted"
  BY DEF Deleted, Is
<1>2. ASSUME NEW g \in Families, Login(g) \/ IssueToken(g) PROVE FALSE
  BY <1>1, <1>2 DEF Login, IssueToken, SetFamily, TypeOK
<1>3. ASSUME NEW c \in Calls, Step(c) \/ Abort(c) PROVE FALSE
  BY <1>1, <1>3 DEF Step, Rotate, CommitRotation, Reuse, Refuse, Logout, Abort, authTables,
                    SetFamily, TypeOK
<1> QED
  BY <1>1, <1>2, <1>3 DEF Next, Present, BeginLogout, CleanupLook, Tick, authTables

(* The cleanup takes revoked families after their grace, and of the others    *)
(* only those without a token its snapshot saw alive.  A session that a refresh *)
(* makes after the snapshot is not protected by it (KeptWhileTokensLive).       *)
THEOREM CleanupSparesSessions == Spec => CleanupKeepsSessions
<1>1. Init => CleanupInv
  BY GensType, LivesAssumption DEF Init, CleanupInv, Is, NoAccess, Idle
<1>2. AuthInv /\ CleanupInv /\ [Next]_vars =>
        [\A f \in Families : Deleted(f) =>
           /\ OldEnough(f)
           /\ Is(f, {"live"}) => \A n \in AccessIds :
                access[<<f, n>>] > now \/ (n \in Gens /\ Alive(f, n)) =>
                  n \in Gens /\ <<f, n>> \notin cleared /\ Alive(f, n)]_vars
  BY DeletionsSpareSessions, OnlyTheCleanupDeletes
<1> QED
  BY <1>1, <1>2, AuthInvariant, CleanupInvStep, PTL DEF Spec, CleanupKeepsSessions
=============================================================================
