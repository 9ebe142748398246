------------------------- MODULE InboxEffectProofs -------------------------
(***************************************************************************)
(* Proofs about InboxEffect, for any number of handlers and events: its       *)
(* inductive invariant, and that it implements the promise NotifyOnce.  Both  *)
(* transports build on them: OrderConsumerProofs extends this module,         *)
(* OrderPipelineProofs instantiates it.                                        *)
(***************************************************************************)
EXTENDS InboxEffect, TLAPS

(* Only open transactions and outcomes carry an event. *)
LEMMA TxEvent ==
  ASSUME TypeOK, NEW h \in Handlers, tx[h].at # "idle"
  PROVE  tx[h].ev \in Events /\ tx[h] = [at |-> tx[h].at, ev |-> tx[h].ev]
  BY DEF TypeOK, TxStates, NoTx

(* No transaction is open and nothing is committed at first. *)
LEMMA InboxInvInit == Init => InboxInv
  BY DEF Init, EffectInit, InboxInv, TypeOK, TxStates, NoTx, Open, Outcomes,
         ProcessedMeansNotified, NotifiedAtMostOnce, SkippedMeansNotified,
         ClaimsAreExclusive, Claims, At

(* A commit is the one step that changes both tables: it turns the claim it  *)
(* holds into an inbox row and its inserted row into the only notification.  *)
LEMMA CommitRowsKeepsInv ==
  ASSUME InboxInv, NEW h \in Handlers, CommitRows(h), UNCHANGED placed,
         NEW place \in {"applied", "skipped", "failed"}, Goto(h, place)
  PROVE  InboxInv'
<1> DEFINE e == tx[h].ev
<1>1. /\ tx[h].at \in {"notified", "yielded"}
      /\ e \in Events
      /\ tx[h] = [at |-> tx[h].at, ev |-> e]
  BY TxEvent DEF InboxInv, CommitRows, At
<1>2. e \in placed /\ e \notin inbox /\ Claims(h, e)
  BY <1>1 DEF InboxInv, ClaimsAreExclusive, Claims, At, Open
<1>3. notices'[e] = 1 /\ \A d \in Events \ {e} : notices'[d] = notices[d]
  BY <1>1 DEF InboxInv, TypeOK, ClaimsAreExclusive, CommitRows, At
<1>4. inbox' = inbox \cup {e}
  BY DEF CommitRows
<1>5. /\ tx'[h] = [at |-> place, ev |-> e]
      /\ \A g \in Handlers \ {h} : tx'[g] = tx[g]
  BY DEF InboxInv, TypeOK, Goto
<1>6. TypeOK'
  BY <1>1, <1>3, <1>4 DEF InboxInv, TypeOK, CommitRows, Goto, TxStates, Open,
                          Outcomes, At
<1>7. ProcessedMeansNotified'
  BY <1>3, <1>4 DEF InboxInv, TypeOK, ProcessedMeansNotified
<1>8. NotifiedAtMostOnce'
  BY <1>2, <1>3 DEF InboxInv, NotifiedAtMostOnce
<1>9. SkippedMeansNotified'
  BY <1>3, <1>5, TxEvent DEF InboxInv, SkippedMeansNotified, At, TypeOK
<1>10. ClaimsAreExclusive'
  <2>1. \A g \in Handlers, d \in Events :
          Claims(g, d)' => g # h /\ Claims(g, d) /\ d # e
    BY <1>2, <1>5 DEF InboxInv, ClaimsAreExclusive, Claims, At
  <2>2. \A g \in Handlers \ {h} : At(g, Open)' => tx'[g] = tx[g] /\ At(g, Open)
    BY <1>5 DEF At
  <2>3. ~At(h, Open)'
    BY <1>5 DEF At, Open
  <2>4. ASSUME NEW g \in Handlers, At(g, {"notified", "yielded"})'
        PROVE  g # h /\ tx'[g] = tx[g] /\ tx[g].ev \in Events \ {e}
    <3>1. g # h /\ tx'[g] = tx[g] /\ tx[g].at \in {"notified", "yielded"}
      BY <1>5, <2>4 DEF At
    <3>2. tx[g].ev \in Events
      BY <3>1, TxEvent DEF InboxInv
    <3>3. tx[g].ev # e
      BY <1>1, <1>2, <3>1, <3>2 DEF InboxInv, ClaimsAreExclusive, Claims, At
    <3> QED
      BY <3>1, <3>2, <3>3
  <2> QED
    BY <1>3, <1>4, <1>5, <2>1, <2>2, <2>3, <2>4
    DEF InboxInv, ClaimsAreExclusive, Claims, At, Open
<1> QED
  BY <1>6, <1>7, <1>8, <1>9, <1>10 DEF InboxInv

(* The steps of a handler, one case per action. *)
LEMMA HandlerKeepsInv ==
  ASSUME InboxInv, NEW h \in Handlers, UNCHANGED placed,
         \/ \E e \in Events : Start(h, e)
         \/ Run(h) \/ Fail(h) \/ CommitUnanswered(h) \/ Leave(h)
  PROVE  InboxInv'
<1> USE DEF InboxInv, TypeOK, TxStates, NoTx, Open, Outcomes, Goto, At, Claims,
            ProcessedMeansNotified, NotifiedAtMostOnce, SkippedMeansNotified,
            ClaimsAreExclusive
<1>1. CASE \E e \in Events : Start(h, e)
  BY <1>1 DEF Start
<1>2. CASE Match(h)
  BY <1>2, TxEvent DEF Match
<1>3. CASE Claim(h)
  BY <1>3, TxEvent DEF Claim
<1>4. CASE Notify(h)
  BY <1>4, TxEvent DEF Notify
<1>5. CASE Commit(h)
  BY <1>5, CommitRowsKeepsInv DEF Commit
<1>6. CASE CommitUnanswered(h)
  BY <1>6, CommitRowsKeepsInv DEF CommitUnanswered
<1>7. CASE Fail(h)
  BY <1>7, TxEvent DEF Fail
<1>8. CASE Leave(h)
  BY <1>8 DEF Leave
<1> QED
  BY <1>1, <1>2, <1>3, <1>4, <1>5, <1>6, <1>7, <1>8 DEF Run

(* What a statement of a handler does to its transaction and the tables. *)
LEMMA HandlerStep ==
  ASSUME InboxInv, NEW h \in Handlers, Run(h) \/ Fail(h) \/ CommitUnanswered(h)
  PROVE  /\ ~At(h, {"idle"}) /\ ~At(h, {"idle"})'
         /\ tx'[h].ev = tx[h].ev /\ tx[h].ev \in Events
         /\ \A g \in Handlers \ {h} : tx'[g] = tx[g]
         /\ tx'[h].at = "invalid" => tx[h].ev \notin placed
         /\ \A e \in Events : notices[e] = 1 => notices'[e] = 1
<1>1. tx[h].at \in Open
  BY DEF Run, Match, Claim, Notify, Commit, CommitUnanswered, CommitRows, Fail, At, Open
<1>2. tx[h].ev \in Events /\ tx[h].at # "idle"
  BY <1>1, TxEvent DEF InboxInv, Open
<1>3. PICK place \in (Open \cup Outcomes) :
        Goto(h, place) /\ (place = "invalid" => tx[h].ev \notin placed)
  BY DEF Run, Match, Claim, Notify, Commit, CommitUnanswered, Fail, Open, Outcomes
<1>4. tx'[h] = [at |-> place, ev |-> tx[h].ev] /\ \A g \in Handlers \ {h} : tx'[g] = tx[g]
  <2>1. tx' = [tx EXCEPT ![h] = [at |-> place, ev |-> tx[h].ev]]
    BY <1>3 DEF Goto
  <2>2. tx \in [Handlers -> TxStates]
    BY DEF InboxInv, TypeOK
  <2> QED
    BY <2>1, <2>2
<1>5. \A e \in Events : notices[e] = 1 => notices'[e] = 1
  <2>1. CASE CommitRows(h)
    BY <1>2, <2>1 DEF CommitRows, InboxInv, ClaimsAreExclusive, TypeOK, At
  <2>2. CASE notices' = notices
    BY <2>2
  <2> QED
    BY <2>1, <2>2 DEF Run, Match, Claim, Notify, Commit, CommitUnanswered, Fail
<1>6. place # "idle"
  BY DEF Open, Outcomes
<1>7. tx'[h].at = place /\ tx'[h].ev = tx[h].ev
  BY <1>4
<1>8. tx'[h].at = "invalid" => tx[h].ev \notin placed
  BY <1>3, <1>7
<1>9. ~At(h, {"idle"}) /\ ~At(h, {"idle"})'
  BY <1>2, <1>6, <1>7 DEF At
<1> QED
  BY <1>2, <1>4, <1>5, <1>7, <1>8, <1>9

(* Handlers vanish with their process: rollbacks, all at once. *)
LEMMA VanishingKeepsInv ==
  ASSUME InboxInv, NEW gone \in SUBSET Handlers, UNCHANGED <<placed, inbox, notices>>,
         tx' = [h \in Handlers |-> IF h \in gone THEN NoTx ELSE tx[h]]
  PROVE  InboxInv'
<1>1. tx' \in [Handlers -> TxStates]
  BY DEF InboxInv, TypeOK, TxStates
<1>2. \A h \in Handlers : tx'[h].at # "idle" => tx'[h] = tx[h]
  BY DEF NoTx
<1>3. TypeOK' /\ ProcessedMeansNotified' /\ NotifiedAtMostOnce'
  BY <1>1 DEF InboxInv, TypeOK, ProcessedMeansNotified, NotifiedAtMostOnce
<1>4. SkippedMeansNotified' /\ ClaimsAreExclusive'
  BY <1>2 DEF InboxInv, SkippedMeansNotified, ClaimsAreExclusive, Claims, At, Open
<1> QED
  BY <1>3, <1>4 DEF InboxInv

(* Placing an order and pruning the inbox touch no transaction. *)
LEMMA EnvironmentKeepsInv ==
  ASSUME InboxInv,
         \/ \E o \in Orders : Place(o)
         \/ UNCHANGED placed /\ \E e \in Events : PruneInbox(e)
  PROVE  InboxInv'
  BY DEF Place, PruneInbox, effectVars, InboxInv, TypeOK, TxStates, NoTx, At,
         Claims, ProcessedMeansNotified, NotifiedAtMostOnce,
         SkippedMeansNotified, ClaimsAreExclusive

(* InboxInv holds in every reachable state, for every set of handlers and    *)
(* events: no interleaving, failure or retention step leaves an event         *)
(* processed without its effect or notified twice.                            *)
THEOREM InboxInvariant == Spec => []InboxInv
<1>1. InboxInv /\ [Next]_vars => InboxInv'
  <2> SUFFICES ASSUME InboxInv, [Next]_vars
               PROVE  InboxInv'
    OBVIOUS
  <2>1. CASE UNCHANGED vars
    BY <2>1 DEF vars, effectVars, InboxInv, TypeOK, TxStates, NoTx, At, Claims,
                ProcessedMeansNotified, NotifiedAtMostOnce,
                SkippedMeansNotified, ClaimsAreExclusive
  <2> QED
    BY <2>1, HandlerKeepsInv, EnvironmentKeepsInv DEF Next
<1> QED
  BY <1>1, InboxInvInit, PTL DEF Spec

(* An event is notified at most once and only for a committed order. *)
THEOREM AtMostOnce == Spec => []NotifiedAtMostOnce
  BY InboxInvariant, PTL DEF InboxInv

(* An inbox row is never committed without its notification. *)
THEOREM InboxIsTruthful == Spec => []ProcessedMeansNotified
  BY InboxInvariant, PTL DEF InboxInv

-----------------------------------------------------------------------------
(* A step of applyOrderPlaced is a step of NotifyOnce or changes nothing it  *)
(* can see.  Only a commit of a freshly inserted row is visible, and it is    *)
(* the first notification of a committed order.                               *)
LEMMA CommitNotifies ==
  ASSUME InboxInv, NEW h \in Handlers, CommitRows(h), UNCHANGED placed
  PROVE  [Promise!Next]_<<placed, [o \in Orders |-> notices[o]]>>
<1> DEFINE e == tx[h].ev
<1>1. e \in Events /\ e \in placed /\ e \in Orders
  BY TxEvent DEF InboxInv, TypeOK, ClaimsAreExclusive, CommitRows, At, Open
<1>2. CASE At(h, {"notified"})
  <2>0. notices[e] = 0
    BY <1>2 DEF InboxInv, ClaimsAreExclusive
  <2>1. notices' = [notices EXCEPT ![e] = 1]
    BY <1>2, <2>0 DEF CommitRows
  <2>2. Promise!Notify(e)
    BY <1>1, <2>0, <2>1 DEF Promise!Notify, InboxInv, TypeOK, Events
  <2>3. Promise!Next
    BY <1>1, <2>2 DEF Promise!Next, Promise!Notify
  <2> QED
    BY <2>3
<1>3. CASE ~At(h, {"notified"})
  BY <1>1, <1>3 DEF CommitRows, InboxInv, TypeOK, Events
<1> QED
  BY <1>2, <1>3

(* applyOrderPlaced, under any concurrency and failure the model has,         *)
(* implements "notify a committed order at most once".                        *)
THEOREM ImplementsPromise == Spec => Promised
<1>1. Init => Promise!Init
  BY DEF Init, EffectInit, Promise!Init, Events
<1>2. InboxInv /\ [Next]_vars => [Promise!Next]_<<placed, [o \in Orders |-> notices[o]]>>
  <2> SUFFICES ASSUME InboxInv, [Next]_vars
               PROVE  [Promise!Next]_<<placed, [o \in Orders |-> notices[o]]>>
    OBVIOUS
  <2>1. ASSUME NEW o \in Orders, Place(o)
        PROVE  Promise!Next
    BY <2>1 DEF Place, Promise!Next, Promise!Place, effectVars
  <2>2. ASSUME NEW h \in Handlers, Commit(h) \/ CommitUnanswered(h), UNCHANGED placed
        PROVE  [Promise!Next]_<<placed, [o \in Orders |-> notices[o]]>>
    BY <2>2, CommitNotifies DEF Commit, CommitUnanswered
  <2>3. CASE UNCHANGED <<placed, notices>>
    BY <2>3
  <2> QED
    BY <2>1, <2>2, <2>3
    DEF Next, Run, Start, Match, Claim, Notify, Fail, Leave, PruneInbox,
        vars, effectVars
<1> QED
  BY <1>1, <1>2, InboxInvariant, PTL DEF Spec, Promised, Promise!Spec
=============================================================================
