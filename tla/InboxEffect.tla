---------------------------- MODULE InboxEffect ----------------------------
(***************************************************************************)
(* applyOrderPlaced (src/marketplace/src/async/effect.ts): the transaction  *)
(* in which a consumer records an event in the inbox and inserts the        *)
(* order's notification.  Any number of handlers may run it for the same    *)
(* event, in one process or in several.  PostgreSQL is modelled by its      *)
(* committed rows and by what each open transaction has inserted: an INSERT  *)
(* ... ON CONFLICT DO NOTHING waits for another transaction's uncommitted    *)
(* row with the same key.                                                    *)
(***************************************************************************)
EXTENDS Naturals

CONSTANTS
  Orders,     \* orders; the genuine event of an order is the order itself
  Forged,     \* events that match no committed order
  Handlers    \* concurrent executions of applyOrderPlaced

ASSUME EventsAssumption == Orders \cap Forged = {}

Events == Orders \cup Forged

VARIABLES
  placed,     \* committed rows of orders
  inbox,      \* committed rows of processed_messages
  notices,    \* committed rows of order_notifications, per event
  tx          \* each handler's transaction: where it is and for which event

effectVars == <<inbox, notices, tx>>
vars == <<placed, effectVars>>

(* "applied", "skipped", "invalid" and "failed" are what the caller sees:    *)
(* true, false, an InvalidEventError or any other error.                     *)
Open == {"begin", "matched", "claimed", "notified", "yielded"}
Outcomes == {"applied", "skipped", "invalid", "failed"}
NoTx == [at |-> "idle"]
TxStates == {NoTx} \cup [at : Open \cup Outcomes, ev : Events]

TypeOK ==
  /\ placed \subseteq Orders
  /\ inbox \subseteq Events
  /\ notices \in [Events -> Nat]
  /\ tx \in [Handlers -> TxStates]

EffectInit ==
  /\ inbox = {}
  /\ notices = [e \in Events |-> 0]
  /\ tx = [h \in Handlers |-> NoTx]

Init == placed = {} /\ EffectInit

-----------------------------------------------------------------------------
At(h, places) == tx[h].at \in places
Goto(h, place) == tx' = [tx EXCEPT ![h] = [at |-> place, ev |-> tx[h].ev]]

(* Uncommitted rows other transactions hold. *)
Claims(h, e) == At(h, {"claimed", "notified", "yielded"}) /\ tx[h].ev = e
Inserted(h, e) == At(h, {"notified"}) /\ tx[h].ev = e

Start(h, e) ==
  /\ At(h, {"idle"})
  /\ tx' = [tx EXCEPT ![h] = [at |-> "begin", ev |-> e]]
  /\ UNCHANGED <<inbox, notices>>

(* SELECT the order: a missing row or other buyer, total or event id is an  *)
(* InvalidEventError and a rollback.                                         *)
Match(h) ==
  /\ At(h, {"begin"})
  /\ Goto(h, IF tx[h].ev \in placed THEN "matched" ELSE "invalid")
  /\ UNCHANGED <<inbox, notices>>

\* Claim with a fault, for the checks.
ClaimWithoutWaiting(h) ==
  /\ At(h, {"matched"})
  /\ Goto(h, IF tx[h].ev \in inbox \/ \E g \in Handlers : Claims(g, tx[h].ev)
             THEN "skipped" ELSE "claimed")
  /\ UNCHANGED <<inbox, notices>>

(* INSERT INTO processed_messages ... ON CONFLICT DO NOTHING. *)
Claim(h) ==
  /\ At(h, {"matched"})
  /\ \A g \in Handlers : ~Claims(g, tx[h].ev)
  /\ Goto(h, IF tx[h].ev \in inbox THEN "skipped" ELSE "claimed")
  /\ UNCHANGED <<inbox, notices>>

\* Notify with a fault, for the checks.
NotifyWithoutNaturalKey(h) ==
  /\ At(h, {"claimed"})
  /\ Goto(h, "notified")
  /\ UNCHANGED <<inbox, notices>>

(* INSERT INTO order_notifications ... ON CONFLICT(order_id) DO NOTHING. *)
Notify(h) ==
  /\ At(h, {"claimed"})
  /\ \A g \in Handlers : ~Inserted(g, tx[h].ev)
  /\ Goto(h, IF notices[tx[h].ev] > 0 THEN "yielded" ELSE "notified")
  /\ UNCHANGED <<inbox, notices>>

CommitRows(h) ==
  /\ At(h, {"notified", "yielded"})
  /\ inbox' = inbox \cup {tx[h].ev}
  /\ notices' = [notices EXCEPT ![tx[h].ev] =
                   @ + (IF At(h, {"notified"}) THEN 1 ELSE 0)]

Commit(h) ==
  /\ CommitRows(h)
  /\ Goto(h, IF At(h, {"notified"}) THEN "applied" ELSE "skipped")

(* The commit took effect, its answer did not arrive. *)
CommitUnanswered(h) ==
  /\ CommitRows(h)
  /\ Goto(h, "failed")

(* A statement fails, or the session is lost: everything is rolled back. *)
Fail(h) ==
  /\ At(h, Open)
  /\ Goto(h, "failed")
  /\ UNCHANGED <<inbox, notices>>

(* The caller is done with the outcome, or its process died at any point.    *)
Leave(h) ==
  /\ tx' = [tx EXCEPT ![h] = NoTx]
  /\ UNCHANGED <<inbox, notices>>

(* An operator removes an old inbox row; the natural key stays. *)
PruneInbox(e) ==
  /\ e \in inbox
  /\ inbox' = inbox \ {e}
  /\ UNCHANGED <<notices, tx>>

Place(o) ==
  /\ o \notin placed
  /\ placed' = placed \cup {o}
  /\ UNCHANGED effectVars

-----------------------------------------------------------------------------
\* Run with a fault, for the checks.
RunBlindly(h) ==
  \/ Match(h)
  \/ At(h, {"matched"}) /\ Goto(h, "notified") /\ UNCHANGED <<inbox, notices>>
  \/ Commit(h)
Run(h) == Match(h) \/ Claim(h) \/ Notify(h) \/ Commit(h)

Next ==
  \/ \E o \in Orders : Place(o)
  \/ /\ UNCHANGED placed
     /\ \/ \E h \in Handlers, e \in Events : Start(h, e)
        \/ \E h \in Handlers : \/ Run(h) \/ Fail(h) \/ CommitUnanswered(h)
                               \/ ~At(h, {"idle"}) /\ Leave(h)
        \/ \E e \in Events : PruneInbox(e)

Spec == Init /\ [][Next]_vars

-----------------------------------------------------------------------------
(* An event's inbox row and its notification commit together or not at all:  *)
(* no handler can find the event processed while the effect is missing.      *)
ProcessedMeansNotified == \A e \in inbox : notices[e] = 1

(* However many handlers race on one event, and even after its inbox row is  *)
(* gone, it is notified at most once, and only for a committed order.         *)
NotifiedAtMostOnce ==
  \A e \in Events : notices[e] <= 1 /\ (notices[e] = 1 => e \in placed)

(* A handler told "skipped" may drop its message: the effect is committed.   *)
SkippedMeansNotified ==
  \A h \in Handlers : At(h, {"applied", "skipped"}) => notices[tx[h].ev] = 1

(* What open transactions know: one claim per event, on an event that is not *)
(* processed yet, and a notification row inserted only where there is none.  *)
ClaimsAreExclusive ==
  /\ \A g, h \in Handlers, e \in Events : Claims(g, e) /\ Claims(h, e) => g = h
  /\ \A h \in Handlers : At(h, Open \ {"begin"}) => tx[h].ev \in placed
  /\ \A h \in Handlers, e \in Events : Claims(h, e) => e \notin inbox
  /\ \A h \in Handlers : At(h, {"notified"}) => notices[tx[h].ev] = 0
  /\ \A h \in Handlers : At(h, {"yielded"}) => notices[tx[h].ev] = 1

InboxInv ==
  /\ TypeOK
  /\ ProcessedMeansNotified
  /\ NotifiedAtMostOnce
  /\ SkippedMeansNotified
  /\ ClaimsAreExclusive

(* The effect is the notification promised by NotifyOnce. *)
Promise == INSTANCE NotifyOnce WITH notices <- [o \in Orders |-> notices[o]]
Promised == Promise!Spec
=============================================================================
