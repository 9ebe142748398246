------------------------ MODULE OrderConsumerProofs ------------------------
(***************************************************************************)
(* Proofs about the RabbitMQ consumers of order.placed, for any number of     *)
(* consumers, message copies and events: acknowledgements, lost links,        *)
(* crashes and restarts keep the invariant of applyOrderPlaced, and the       *)
(* consumers implement NotifyOnce.                                             *)
(***************************************************************************)
EXTENDS OrderConsumer, InboxEffectProofs

(* A handler of a consumer, and what it does to the tables. *)
LEMMA HandlerOf == ASSUME NEW c \in Consumers, NEW m \in Msgs PROVE <<c, m>> \in Handlers
  BY HandlersAssumption

LEMMA CopyType ==
  ASSUME ConsumerTypeOK, NEW m \in Msgs
  PROVE  /\ msg[m].at \in {"none"} \cup Places
         /\ ~Is(m, "none") => msg[m] \in Copies
         /\ Is(m, "none") => msg[m] = NoMsg
  BY DEF ConsumerTypeOK, Copies, NoMsg, Is, Places

(* Handlers vanish with their process: rollbacks, all at once. *)
LEMMA VanishingKeepsInboxInv ==
  ASSUME InboxInv, NEW c \in Consumers, DropHandlers(c)
  PROVE  /\ InboxInv'
         /\ \A h \in Handlers : tx'[h] = NoTx \/ (tx'[h] = tx[h] /\ h[1] # c)
<1> DEFINE gone == {h \in Handlers : h[1] = c}
<1>1. tx' = [h \in Handlers |-> IF h \in gone THEN NoTx ELSE tx[h]]
  BY DEF DropHandlers
<1>2. InboxInv'
  BY <1>1, VanishingKeepsInv DEF DropHandlers
<1> QED
  BY <1>2 DEF DropHandlers

(* What a requeued copy looks like. *)
LEMMA RequeuedType ==
  ASSUME NEW x \in Copies, x.returns <= DeliveryLimit
  PROVE  /\ Requeued(x) \in Copies /\ Requeued(x).ev = x.ev
         /\ Requeued(x).at \in {"ready", "dlq"}
         /\ Requeued(x).at = "ready" => Requeued(x).returns <= DeliveryLimit
         /\ Requeued(x).at = "dlq" => Requeued(x).returns > DeliveryLimit
<1>1. x.returns + 1 \in 0..(DeliveryLimit + 1)
  BY LimitsAssumption DEF Copies
<1>2. x.at \in Places /\ x.to \in Consumers \cup {NoConsumer}
  BY DEF Copies
<1>3. x.returns \in Nat /\ DeliveryLimit \in Nat
  BY LimitsAssumption DEF Copies
<1>4. x.ev \in Events
  BY DEF Copies
<1>5. Requeued(x) \in Copies
  BY <1>1, <1>2, <1>4 DEF Requeued, Copies, Places
<1>6. /\ Requeued(x).at = IF x.returns = DeliveryLimit THEN "dlq" ELSE "ready"
      /\ Requeued(x).ev = x.ev /\ Requeued(x).returns = x.returns + 1
  BY DEF Requeued, Copies
<1> QED
  BY <1>3, <1>5, <1>6

(* The channel of a consumer ends: nothing else than its copies moves. *)
LEMMA RequeueType ==
  ASSUME ConsumerInv, NEW c \in Consumers, RequeueAllOf(c)
  PROVE  /\ msg' \in [Msgs -> {NoMsg} \cup Copies]
         /\ \A m \in Msgs :
              IF msg[m].at = "unacked" /\ msg[m].to = c
              THEN /\ msg'[m].at \in {"ready", "dlq"} /\ msg'[m].ev = msg[m].ev
                   /\ msg'[m].at = "ready" => msg'[m].returns <= DeliveryLimit
                   /\ msg'[m].at = "dlq" => msg'[m].returns > DeliveryLimit
              ELSE msg'[m] = msg[m]
<1>1. \A m \in Msgs : msg'[m] = IF msg[m].at = "unacked" /\ msg[m].to = c
                                THEN Requeued(msg[m]) ELSE msg[m]
  BY DEF RequeueAllOf, Unacked, Is
<1>2. ASSUME NEW m \in Msgs, msg[m].at = "unacked"
      PROVE  msg[m] \in Copies /\ msg[m].returns <= DeliveryLimit
  BY <1>2, CopyType DEF ConsumerInv, InHand, Is
<1>3. \A m \in Msgs : msg'[m] \in {NoMsg} \cup Copies
  BY <1>1, <1>2, RequeuedType DEF ConsumerInv, ConsumerTypeOK
<1> QED
  BY <1>1, <1>2, <1>3, RequeuedType DEF RequeueAllOf

(* The inductive invariant: the database's, the consumers', and that no copy  *)
(* is acknowledged without its effect.                                         *)
Reliable == InboxInv /\ ConsumerInv /\ AckedMeansNotified

(* Orders, prunings and publications move no copy that exists. *)
LEMMA EnvironmentKeepsReliable ==
  ASSUME Reliable,
         \/ \E o \in Orders : Order(o)
         \/ \E e \in Events : Prune(e)
         \/ \E m \in Msgs, e \in Events : Publish(m, e)
  PROVE  Reliable'
<1> USE DEF Reliable, ConsumerInv
<1>1. ASSUME NEW o \in Orders, Order(o) PROVE Reliable'
  <2>1. /\ UNCHANGED <<inbox, notices, tx, msg, link, faults>> /\ placed' = placed \cup {o}
    BY <1>1 DEF Order, Place, effectVars
  <2>2. InboxInv'
    BY <1>1, EnvironmentKeepsInv DEF Order
  <2> QED
    BY <2>1, <2>2 DEF ConsumerTypeOK, InboxInv, InHand, DeadLettersAreJustified, UnackedIsHandled,
       DownIsQuiet, AckedMeansNotified, Attached, Busy, Unacked, Is, At
<1>2. ASSUME NEW e \in Events, Prune(e) PROVE Reliable'
  <2>1. UNCHANGED <<placed, notices, tx, msg, link>> /\ faults' \in 0..MaxFaults
    BY <1>2, LimitsAssumption DEF Prune, PruneInbox, OneFault, ConsumerTypeOK
  <2>2. InboxInv'
    BY <1>2, EnvironmentKeepsInv DEF Prune
  <2> QED
    BY <2>1, <2>2 DEF ConsumerTypeOK, InboxInv, InHand, DeadLettersAreJustified, UnackedIsHandled,
       DownIsQuiet, AckedMeansNotified, Attached, Busy, Unacked, Is, At
<1>3. ASSUME NEW m \in Msgs, NEW e \in Events, Publish(m, e) PROVE Reliable'
  <2>1. /\ UNCHANGED <<placed, inbox, notices, tx, link, faults>>
        /\ msg[m].at = "none" /\ e \in placed \cup Forged
        /\ msg' = [msg EXCEPT ![m] = [at |-> "ready", ev |-> e, to |-> NoConsumer, returns |-> 0]]
    BY <1>3 DEF Publish, vars, effectVars, Is
  <2>2. /\ msg'[m] = [at |-> "ready", ev |-> e, to |-> NoConsumer, returns |-> 0]
        /\ \A x \in Msgs \ {m} : msg'[x] = msg[x]
        /\ msg' \in [Msgs -> {NoMsg} \cup Copies]
    BY <2>1, LimitsAssumption DEF ConsumerTypeOK, Copies, Places
  <2>3. InboxInv' /\ ConsumerTypeOK'
    BY <2>1, <2>2 DEF ConsumerTypeOK, InboxInv, TypeOK, ProcessedMeansNotified,
       NotifiedAtMostOnce, SkippedMeansNotified, ClaimsAreExclusive, Claims, At
  <2>4. InHand'
    BY <2>1, <2>2, LimitsAssumption DEF InHand, Attached, Is, At
  <2>5. DeadLettersAreJustified' /\ AckedMeansNotified'
    BY <2>1, <2>2 DEF DeadLettersAreJustified, AckedMeansNotified, Is
  <2>6. UnackedIsHandled' /\ DownIsQuiet'
    BY <2>1, <2>2 DEF UnackedIsHandled, DownIsQuiet, Attached, Busy, Unacked, Is, At
  <2> QED
    BY <2>3, <2>4, <2>5, <2>6
<1> QED
  BY <1>1, <1>2, <1>3

(* A copy is handed to an open consumer. *)
LEMMA DeliverKeepsReliable ==
  ASSUME Reliable, NEW c \in Consumers, NEW m \in Msgs, Deliver(c, m)
  PROVE  Reliable'
<1> USE DEF Reliable, ConsumerInv
<1> DEFINE h == <<c, m>>
<1>1. /\ link[c] = "open" /\ msg[m].at = "ready" /\ tx[h].at = "idle"
      /\ UNCHANGED <<placed, inbox, notices, link, faults>> /\ Start(h, msg[m].ev)
  BY DEF Deliver, Start, Is, At
<1>2. msg[m] \in Copies /\ h \in Handlers /\ msg[m].ev \in Events
  BY <1>1, CopyType, HandlerOf DEF Is, Copies
<1>3. /\ msg' \in [Msgs -> {NoMsg} \cup Copies]
      /\ msg'[m].at = "unacked" /\ msg'[m].to = c
      /\ msg'[m].ev = msg[m].ev /\ msg'[m].returns = msg[m].returns
      /\ \A x \in Msgs \ {m} : msg'[x] = msg[x]
  BY <1>2 DEF Deliver, ConsumerTypeOK, Copies, Places
<1>4. /\ tx'[h] = [at |-> "begin", ev |-> msg[m].ev]
      /\ \A g \in Handlers \ {h} : tx'[g] = tx[g]
  BY <1>1, <1>2 DEF Start, InboxInv, TypeOK
<1>5. InboxInv'
  BY <1>1, <1>2, HandlerKeepsInv
<1>6. ConsumerTypeOK'
  BY <1>1, <1>3, <1>5 DEF ConsumerTypeOK, InboxInv
<1>7. InHand'
  <2>1. ASSUME NEW d \in Consumers, NEW x \in Msgs, Attached(d)', ~At(<<d, x>>, {"idle"})'
        PROVE  msg'[x].at = "unacked" /\ msg'[x].to = d /\ msg'[x].ev = tx'[<<d, x>>].ev
    <3>1. CASE <<d, x>> = h
      BY <3>1, <1>3, <1>4
    <3>2. CASE <<d, x>> # h
      <4>1. tx'[<<d, x>>] = tx[<<d, x>>]
        BY <3>2, <1>4, HandlerOf
      <4>2. msg[x].at = "unacked" /\ msg[x].to = d /\ msg[x].ev = tx[<<d, x>>].ev
        BY <2>1, <4>1, <1>1 DEF InHand, Attached, At, Is
      <4>3. x # m
        BY <4>2, <1>1
      <4> QED
        BY <4>1, <4>2, <4>3, <1>3
    <3> QED
      BY <3>1, <3>2
  <2>2. ASSUME NEW x \in Msgs
        PROVE  /\ msg'[x].at = "unacked" => msg'[x].to \in Consumers
               /\ msg'[x].at \in {"ready", "unacked"} => msg'[x].returns <= DeliveryLimit
               /\ msg'[x].at # "none" => msg'[x].ev \in placed \cup Forged
    BY <1>1, <1>3 DEF InHand, Is
  <2>3. ASSUME NEW g \in Handlers
        PROVE  /\ tx'[g].at # "idle" => tx'[g].ev \in placed \cup Forged
               /\ tx'[g].at = "invalid" => tx'[g].ev \in Forged
    BY <1>1, <1>4 DEF InHand, Is, At
  <2> QED
    BY <1>1, <2>1, <2>2, <2>3 DEF InHand, Is, At, Attached
<1>8. DeadLettersAreJustified' /\ AckedMeansNotified'
  BY <1>1, <1>3 DEF DeadLettersAreJustified, AckedMeansNotified, Is
<1>9. UnackedIsHandled'
  <2> SUFFICES ASSUME NEW x \in Msgs, msg'[x].at = "unacked"
               PROVE  link[msg'[x].to] \in {"open", "stopping"} /\ tx'[<<msg'[x].to, x>>].at # "idle"
    BY <1>1 DEF UnackedIsHandled, Attached, Busy, Is, At
  <2>1. CASE x = m
    BY <2>1, <1>1, <1>3, <1>4
  <2>2. CASE x # m
    <3>1. msg'[x] = msg[x] /\ msg[x].to \in Consumers /\ <<msg[x].to, x>> \in Handlers
      BY <2>2, <1>3, HandlerOf DEF InHand, Is
    <3> QED
      BY <2>2, <3>1, <1>4 DEF UnackedIsHandled, Attached, Busy, Is, At
  <2> QED
    BY <2>1, <2>2
<1>10. DownIsQuiet'
  <2> SUFFICES ASSUME NEW d \in Consumers, link[d] = "down", NEW x \in Msgs
               PROVE  tx'[<<d, x>>].at = "idle" /\ ~(msg'[x].at = "unacked" /\ msg'[x].to = d)
    BY <1>1 DEF DownIsQuiet, Busy, Unacked, Is, At
  <2>1. d # c
    BY <1>1
  <2> QED
    BY <2>1, <1>3, <1>4, HandlerOf DEF DownIsQuiet, Busy, Unacked, Is, At
<1> QED
  BY <1>5, <1>6, <1>7, <1>8, <1>9, <1>10

(* A statement of applyOrderPlaced, answered or not. *)
LEMMA ApplyKeepsReliable ==
  ASSUME Reliable, NEW c \in Consumers, NEW m \in Msgs, Apply(c, m) \/ ApplyFails(c, m)
  PROVE  Reliable'
<1> USE DEF Reliable, ConsumerInv
<1> DEFINE h == <<c, m>>
<1>1. /\ h \in Handlers /\ UNCHANGED <<placed, msg, link>> /\ faults' \in 0..MaxFaults
      /\ Run(h) \/ Fail(h) \/ CommitUnanswered(h)
  BY HandlerOf, LimitsAssumption DEF Apply, ApplyFails, OneFault, ConsumerTypeOK
<1>2. /\ tx[h].at # "idle" /\ tx'[h].at # "idle" /\ tx'[h].ev = tx[h].ev
      /\ \A g \in Handlers \ {h} : tx'[g] = tx[g]
      /\ tx'[h].at = "invalid" => tx[h].ev \notin placed
      /\ \A e \in Events : notices[e] = 1 => notices'[e] = 1
  BY <1>1, HandlerStep DEF At
<1>3. InboxInv'
  BY <1>1, HandlerKeepsInv
<1>4. ConsumerTypeOK'
  BY <1>1, <1>3 DEF ConsumerTypeOK, InboxInv
<1>5. \A g \in Handlers : /\ tx'[g].at = "idle" <=> tx[g].at = "idle"
                          /\ tx'[g].ev = tx[g].ev
  BY <1>2
<1>6. InHand'
  <2>1. ASSUME NEW g \in Handlers
        PROVE  /\ tx'[g].at # "idle" => tx'[g].ev \in placed \cup Forged
               /\ tx'[g].at = "invalid" => tx'[g].ev \in Forged
    BY <1>2 DEF InHand, At
  <2>2. \A d \in Consumers, x \in Msgs : Attached(d)' /\ ~At(<<d, x>>, {"idle"})' =>
          Is(x, "unacked")' /\ msg'[x].to = d /\ msg'[x].ev = tx'[<<d, x>>].ev
    BY <1>1, <1>5, HandlerOf DEF InHand, Attached, Is, At
  <2> QED
    BY <1>1, <2>1, <2>2 DEF InHand, Is, At
<1>7. DeadLettersAreJustified'
  BY <1>1 DEF DeadLettersAreJustified, Is
<1>8. AckedMeansNotified'
  <2>1. \A x \in Msgs : msg[x].at = "acked" => msg[x].ev \in Events
    BY CopyType DEF Is, Copies
  <2> QED
    BY <1>1, <1>2, <2>1 DEF AckedMeansNotified, Is
<1>9. UnackedIsHandled' /\ DownIsQuiet'
  BY <1>1, <1>5, HandlerOf DEF UnackedIsHandled, DownIsQuiet, Attached, Busy, Unacked, InHand, Is, At
<1> QED
  BY <1>3, <1>4, <1>6, <1>7, <1>8, <1>9

(* The verdict of a handler is about the copy it holds. *)
LEMMA SettleKeepsReliable ==
  ASSUME Reliable, NEW c \in Consumers, NEW m \in Msgs, Settle(c, m)
  PROVE  Reliable'
<1> USE DEF Reliable, ConsumerInv
<1> DEFINE h == <<c, m>>
           e == tx[h].ev
<1>1. /\ h \in Handlers /\ UNCHANGED <<placed, inbox, notices, link, faults>> /\ Leave(h)
      /\ Attached(c) /\ tx[h].at \in Outcomes
  BY HandlerOf DEF Settle, Leave, At
<1>2. /\ msg[m].at = "unacked" /\ msg[m].to = c /\ msg[m].ev = e /\ msg[m] \in Copies
      /\ msg[m].returns <= DeliveryLimit
  <2>1. ~At(h, {"idle"})
    BY <1>1 DEF Outcomes, At
  <2>2. msg[m].at = "unacked" /\ msg[m].to = c /\ msg[m].ev = e
    BY <1>1, <2>1 DEF InHand, Is
  <2> QED
    BY <2>2, CopyType DEF InHand, Is
<1>3. /\ msg' \in [Msgs -> {NoMsg} \cup Copies]
      /\ msg'[m].ev = e
      /\ msg'[m].at \in {"ready", "acked", "dlq"}
      /\ msg'[m].at = "ready" => msg'[m].returns <= DeliveryLimit
      /\ msg'[m].at = "acked" => tx[h].at \in {"applied", "skipped"}
      /\ msg'[m].at = "dlq" => tx[h].at = "invalid" \/ msg'[m].returns > DeliveryLimit
      /\ \A x \in Msgs \ {m} : msg'[x] = msg[x]
  <2> DEFINE y == Verdict(msg[m], tx[h].at)
  <2>1. /\ y \in Copies /\ y.ev = e /\ y.at \in {"ready", "acked", "dlq"}
        /\ y.at = "ready" => y.returns <= DeliveryLimit
        /\ y.at = "acked" => tx[h].at \in {"applied", "skipped"}
        /\ y.at = "dlq" => tx[h].at = "invalid" \/ y.returns > DeliveryLimit
    <3>1. CASE tx[h].at \in {"applied", "skipped"}
      <4>1. y = Settled(msg[m], "acked")
        BY <3>1 DEF Verdict
      <4> QED
        BY <3>1, <4>1, <1>2 DEF Settled, Copies, Places
    <3>2. CASE tx[h].at = "invalid"
      <4>1. y = Settled(msg[m], "dlq")
        BY <3>2 DEF Verdict
      <4> QED
        BY <3>2, <4>1, <1>2 DEF Settled, Copies, Places
    <3>3. CASE tx[h].at = "failed"
      <4>1. y = Requeued(msg[m])
        BY <3>3 DEF Verdict
      <4> QED
        BY <3>3, <4>1, <1>2, RequeuedType
    <3> QED
      BY <1>1, <3>1, <3>2, <3>3 DEF Outcomes
  <2>2. msg' = [msg EXCEPT ![m] = y]
    BY DEF Settle
  <2> QED
    BY <2>1, <2>2 DEF ConsumerTypeOK
<1>4. tx'[h] = NoTx /\ \A g \in Handlers \ {h} : tx'[g] = tx[g]
  BY <1>1 DEF Leave, InboxInv, TypeOK
<1>5. InboxInv'
  BY <1>1, HandlerKeepsInv
<1>6. ConsumerTypeOK'
  BY <1>1, <1>3, <1>5 DEF ConsumerTypeOK, InboxInv
<1>7. InHand'
  <2>1. ASSUME NEW d \in Consumers, NEW x \in Msgs, Attached(d)', ~At(<<d, x>>, {"idle"})'
        PROVE  msg'[x].at = "unacked" /\ msg'[x].to = d /\ msg'[x].ev = tx'[<<d, x>>].ev
    <3>1. <<d, x>> # h /\ <<d, x>> \in Handlers /\ tx'[<<d, x>>] = tx[<<d, x>>]
      BY <2>1, <1>4, HandlerOf DEF At, NoTx
    <3>2. msg[x].at = "unacked" /\ msg[x].to = d /\ msg[x].ev = tx[<<d, x>>].ev
      BY <2>1, <3>1, <1>1 DEF InHand, Attached, At, Is
    <3>3. x # m
      BY <3>1, <3>2, <1>2
    <3> QED
      BY <3>1, <3>2, <3>3, <1>3
  <2>2. ASSUME NEW x \in Msgs
        PROVE  /\ msg'[x].at = "unacked" => msg'[x].to \in Consumers
               /\ msg'[x].at \in {"ready", "unacked"} => msg'[x].returns <= DeliveryLimit
               /\ msg'[x].at # "none" => msg'[x].ev \in placed \cup Forged
    BY <1>2, <1>3 DEF InHand, Is
  <2>3. ASSUME NEW g \in Handlers
        PROVE  /\ tx'[g].at # "idle" => tx'[g].ev \in placed \cup Forged
               /\ tx'[g].at = "invalid" => tx'[g].ev \in Forged
    BY <1>4 DEF InHand, At, NoTx
  <2> QED
    BY <1>1, <2>1, <2>2, <2>3 DEF InHand, Is, At, Attached
<1>8. DeadLettersAreJustified'
  <2>1. tx[h].at = "invalid" => e \in Forged
    BY <1>1 DEF InHand, At
  <2> QED
    BY <1>3, <2>1 DEF DeadLettersAreJustified, Is
<1>9. AckedMeansNotified'
  <2>1. tx[h].at \in {"applied", "skipped"} => notices[e] = 1
    BY <1>1 DEF InboxInv, SkippedMeansNotified, At
  <2> QED
    BY <1>1, <1>3, <2>1 DEF AckedMeansNotified, Is
<1>10. UnackedIsHandled'
  <2> SUFFICES ASSUME NEW x \in Msgs, msg'[x].at = "unacked"
               PROVE  link[msg'[x].to] \in {"open", "stopping"} /\ tx'[<<msg'[x].to, x>>].at # "idle"
    BY <1>1 DEF UnackedIsHandled, Attached, Busy, Is, At
  <2>1. x # m /\ msg'[x] = msg[x]
    BY <1>3
  <2>2. msg[x].to \in Consumers /\ <<msg[x].to, x>> \in Handlers /\ <<msg[x].to, x>> # h
    BY <2>1, HandlerOf DEF InHand, Is
  <2> QED
    BY <2>1, <2>2, <1>4 DEF UnackedIsHandled, Attached, Busy, Is, At
<1>11. DownIsQuiet'
  <2> SUFFICES ASSUME NEW d \in Consumers, link[d] = "down", NEW x \in Msgs
               PROVE  tx'[<<d, x>>].at = "idle" /\ ~(msg'[x].at = "unacked" /\ msg'[x].to = d)
    BY <1>1 DEF DownIsQuiet, Busy, Unacked, Is, At
  <2>1. /\ tx[<<d, x>>].at = "idle" /\ ~(msg[x].at = "unacked" /\ msg[x].to = d)
        /\ <<d, x>> \in Handlers
    BY HandlerOf DEF DownIsQuiet, Busy, Unacked, Is, At
  <2> QED
    BY <2>1, <1>3, <1>4 DEF NoTx
<1> QED
  BY <1>5, <1>6, <1>7, <1>8, <1>9, <1>10, <1>11

(* A consumer loses its link, its process, or is stopped and started.        *)
LEMMA LifecycleKeepsReliable ==
  ASSUME Reliable, NEW c \in Consumers,
         Lifecycle(c) \/ LinkLost(c) \/ Crash(c) \/ Stop(c)
  PROVE  Reliable'
<1> USE DEF Reliable, ConsumerInv
<1>1. PICK to \in Links : link' = [link EXCEPT ![c] = to] /\ link[c] # to
  BY DEF Lifecycle, Exit, Stopped, Restart, LinkLost, Crash, Stop, Links, Attached
<1>2. link' \in [Consumers -> Links] /\ link'[c] = to /\ \A d \in Consumers \ {c} : link'[d] = link[d]
  BY <1>1 DEF ConsumerTypeOK
<1>3. UNCHANGED <<placed, inbox, notices>> /\ faults' \in 0..MaxFaults
  BY LimitsAssumption DEF Lifecycle, Exit, Stopped, Restart, LinkLost, Crash, Stop, OneFault,
     DropHandlers, vars, effectVars, ConsumerTypeOK
<1>4. /\ InboxInv' /\ \A h \in Handlers : tx'[h] = tx[h] \/ (tx'[h] = NoTx /\ to = "down" /\ h[1] = c)
      /\ (Exit(c) \/ Crash(c)) => \A x \in Msgs : tx'[<<c, x>>].at = "idle"
  <2>1. CASE DropHandlers(c) /\ (Exit(c) \/ Crash(c))
    <3>1. to = "down"
      BY <2>1, <1>1, <1>2 DEF Exit, Crash, ConsumerTypeOK
    <3>2. \A h \in Handlers : tx'[h] = IF h[1] = c THEN NoTx ELSE tx[h]
      BY <2>1 DEF DropHandlers
    <3>3. InboxInv'
      BY <2>1, VanishingKeepsInboxInv
    <3> QED
      BY <3>1, <3>2, <3>3, HandlerOf DEF NoTx
  <2>2. CASE UNCHANGED vars /\ ~(Exit(c) \/ Crash(c))
    BY <2>2 DEF vars, effectVars, InboxInv, TypeOK, ProcessedMeansNotified, NotifiedAtMostOnce,
       SkippedMeansNotified, ClaimsAreExclusive, Claims, At
  <2> QED
    BY <2>1, <2>2 DEF Lifecycle, Exit, Stopped, Restart, LinkLost, Crash, Stop
<1>5. /\ msg' \in [Msgs -> {NoMsg} \cup Copies]
      /\ \A m \in Msgs :
           \/ msg'[m] = msg[m]
              /\ (to \in {"cut", "down"} => ~(msg[m].at = "unacked" /\ msg[m].to = c))
           \/ /\ msg[m].at = "unacked" /\ msg[m].to = c
              /\ to \in {"cut", "down"}
              /\ msg'[m].at \in {"ready", "dlq"} /\ msg'[m].ev = msg[m].ev
              /\ msg'[m].at = "ready" => msg'[m].returns <= DeliveryLimit
              /\ msg'[m].at = "dlq" => msg'[m].returns > DeliveryLimit
  <2>1. CASE LinkLost(c) \/ Crash(c)
    <3>1. to \in {"cut", "down"}
      BY <2>1, <1>1, <1>2 DEF LinkLost, Crash, ConsumerTypeOK
    <3>2. RequeueAllOf(c)
      BY <2>1 DEF LinkLost, Crash
    <3> QED
      BY <3>1, <3>2, RequeueType
  <2>2. CASE Exit(c) \/ Stopped(c)
    <3>1. \A m \in Msgs : ~(msg[m].at = "unacked" /\ msg[m].to = c)
      BY <2>2 DEF Exit, Stopped, UnackedIsHandled, Attached, Is
    <3> QED
      BY <2>2, <3>1 DEF Exit, Stopped, ConsumerTypeOK
  <2>3. CASE Restart(c) \/ Stop(c)
    <3>1. to \in {"open", "stopping"}
      BY <2>3, <1>1, <1>2 DEF Restart, Stop, ConsumerTypeOK
    <3> QED
      BY <2>3, <3>1 DEF Restart, Stop, ConsumerTypeOK
  <2> QED
    BY <2>1, <2>2, <2>3 DEF Lifecycle
<1>6. /\ to = "down" => \A m \in Msgs : tx'[<<c, m>>].at = "idle"
      /\ to \in {"open", "stopping"} =>
           Attached(c) \/ \A m \in Msgs : tx[<<c, m>>].at = "idle"
  <2>1. CASE Exit(c) \/ Crash(c)
    BY <2>1, <1>1, <1>2, <1>4 DEF Exit, Crash, ConsumerTypeOK
  <2>2. CASE Stopped(c)
    BY <2>2, <1>1, <1>2, <1>4, HandlerOf DEF Stopped, Busy, At, NoTx, ConsumerTypeOK
  <2>3. CASE Restart(c)
    BY <2>3, <1>1, <1>2 DEF Restart, DownIsQuiet, Busy, At, ConsumerTypeOK
  <2>4. CASE LinkLost(c) \/ Stop(c)
    BY <2>4, <1>1, <1>2 DEF LinkLost, Stop, Attached, ConsumerTypeOK
  <2> QED
    BY <2>1, <2>2, <2>3, <2>4 DEF Lifecycle
<1>7. ConsumerTypeOK'
  BY <1>2, <1>3, <1>4, <1>5 DEF ConsumerTypeOK, InboxInv
<1>8. InHand'
  <2>1. ASSUME NEW d \in Consumers, NEW x \in Msgs, Attached(d)', ~At(<<d, x>>, {"idle"})'
        PROVE  msg'[x].at = "unacked" /\ msg'[x].to = d /\ msg'[x].ev = tx'[<<d, x>>].ev
    <3>1. tx'[<<d, x>>] = tx[<<d, x>>] /\ tx[<<d, x>>].at # "idle"
      BY <2>1, <1>4, HandlerOf DEF At, NoTx
    <3>2. Attached(d)
      BY <2>1, <3>1, <1>2, <1>6 DEF Attached
    <3>3. msg[x].at = "unacked" /\ msg[x].to = d /\ msg[x].ev = tx[<<d, x>>].ev
      BY <3>1, <3>2 DEF InHand, At, Is
    <3>4. msg'[x] = msg[x]
      BY <2>1, <3>3, <1>2, <1>5 DEF Attached
    <3> QED
      BY <3>1, <3>3, <3>4
  <2>2. ASSUME NEW x \in Msgs
        PROVE  /\ msg'[x].at = "unacked" => msg'[x].to \in Consumers
               /\ msg'[x].at \in {"ready", "unacked"} => msg'[x].returns <= DeliveryLimit
               /\ msg'[x].at # "none" => msg'[x].ev \in placed \cup Forged
    BY <1>5 DEF InHand, Is
  <2>3. ASSUME NEW g \in Handlers
        PROVE  /\ tx'[g].at # "idle" => tx'[g].ev \in placed \cup Forged
               /\ tx'[g].at = "invalid" => tx'[g].ev \in Forged
    BY <1>4 DEF InHand, At, NoTx
  <2> QED
    BY <1>3, <2>1, <2>2, <2>3 DEF InHand, Is, At
<1>9. DeadLettersAreJustified' /\ AckedMeansNotified'
  BY <1>3, <1>5 DEF DeadLettersAreJustified, AckedMeansNotified, Is
<1>10. UnackedIsHandled'
  <2> SUFFICES ASSUME NEW x \in Msgs, msg'[x].at = "unacked"
               PROVE  link'[msg'[x].to] \in {"open", "stopping"} /\ tx'[<<msg'[x].to, x>>].at # "idle"
    BY DEF UnackedIsHandled, Attached, Busy, Is, At
  <2>1. msg'[x] = msg[x] /\ msg[x].at = "unacked" /\ msg[x].to \in Consumers
    BY <1>5 DEF InHand, Is
  <2>2. /\ link[msg[x].to] \in {"open", "stopping"} /\ tx[<<msg[x].to, x>>].at # "idle"
        /\ <<msg[x].to, x>> \in Handlers
    BY <2>1, HandlerOf DEF UnackedIsHandled, Attached, Busy, Is, At
  <2>3. CASE msg[x].to # c
    BY <2>1, <2>2, <2>3, <1>2, <1>4
  <2>4. CASE msg[x].to = c
    <3>1. to \in {"open", "stopping"}
      BY <2>1, <2>4, <1>5 DEF Links
    <3> QED
      BY <2>1, <2>2, <2>4, <3>1, <1>2, <1>4
  <2> QED
    BY <2>3, <2>4
<1>11. DownIsQuiet'
  <2> SUFFICES ASSUME NEW d \in Consumers, link'[d] = "down", NEW x \in Msgs
               PROVE  tx'[<<d, x>>].at = "idle" /\ ~(msg'[x].at = "unacked" /\ msg'[x].to = d)
    BY DEF DownIsQuiet, Busy, Unacked, Is, At
  <2>1. CASE d = c
    BY <2>1, <1>2, <1>5, <1>6
  <2>2. CASE d # c
    <3>1. tx[<<d, x>>].at = "idle" /\ ~(msg[x].at = "unacked" /\ msg[x].to = d)
      BY <2>2, <1>2 DEF DownIsQuiet, Busy, Unacked, Is, At
    <3> QED
      BY <3>1, <1>4, <1>5, HandlerOf DEF NoTx
  <2> QED
    BY <2>1, <2>2
<1> QED
  BY <1>4, <1>7, <1>8, <1>9, <1>10, <1>11

(* Every step keeps it: one case per action of ConsumerNext. *)
LEMMA ReliableStep == Reliable /\ [ConsumerNext]_consumerVars => Reliable'
<1> SUFFICES ASSUME Reliable, [ConsumerNext]_consumerVars PROVE Reliable'
  OBVIOUS
<1>1. CASE UNCHANGED consumerVars
  BY <1>1 DEF consumerVars, vars, effectVars, Reliable, ConsumerInv, AckedMeansNotified, InboxInv,
     TypeOK, ProcessedMeansNotified, NotifiedAtMostOnce, SkippedMeansNotified, ClaimsAreExclusive,
     Claims, At, ConsumerTypeOK, InHand, DeadLettersAreJustified, UnackedIsHandled, DownIsQuiet,
     Attached, Busy, Unacked, Is
<1> QED
  BY <1>1, EnvironmentKeepsReliable, DeliverKeepsReliable, ApplyKeepsReliable, SettleKeepsReliable,
     LifecycleKeepsReliable DEF ConsumerNext, Handle

(* With any number of consumers and copies, and whatever is lost, redelivered *)
(* or restarted: Reliable holds in every reachable state.                      *)
THEOREM ReliableInvariant == ConsumerSpec => []Reliable
<1>1. ConsumerInit => Reliable
  <2> SUFFICES ASSUME ConsumerInit PROVE Reliable
    OBVIOUS
  <2>1. InboxInv
    BY InboxInvInit DEF ConsumerInit
  <2>2. ConsumerTypeOK
    BY <2>1, LimitsAssumption DEF ConsumerInit, ConsumerTypeOK, InboxInv, Links
  <2>3. InHand /\ DeadLettersAreJustified /\ UnackedIsHandled /\ DownIsQuiet /\ AckedMeansNotified
    BY HandlerOf DEF ConsumerInit, Init, EffectInit, InHand, DeadLettersAreJustified,
       UnackedIsHandled, DownIsQuiet, AckedMeansNotified, NoMsg, NoTx, Is, At
  <2> QED
    BY <2>1, <2>2, <2>3 DEF Reliable, ConsumerInv
<1> QED
  BY <1>1, ReliableStep, PTL DEF ConsumerSpec

(* The database's invariant, under the consumers. *)
THEOREM ConsumedInboxInvariant == ConsumerSpec => []InboxInv
  BY ReliableInvariant, PTL DEF Reliable

(* The consumers': nothing stranded, dead letters justified, stops quiet.    *)
THEOREM ConsumerInvariant == ConsumerSpec => []ConsumerInv
  BY ReliableInvariant, PTL DEF Reliable

(* A copy leaves the queue as handled only when its effect is durable.       *)
THEOREM AcknowledgedIsDurable == ConsumerSpec => []AckedMeansNotified
  BY ReliableInvariant, PTL DEF Reliable

(* The consumers implement "notify a committed order at most once".          *)
THEOREM ConsumersImplementPromise == ConsumerSpec => Promised
<1>1. ConsumerInit => Promise!Init
  BY DEF ConsumerInit, Init, EffectInit, Promise!Init, Events
<1>2. Reliable /\ [ConsumerNext]_consumerVars =>
        [Promise!Next]_<<placed, [o \in Orders |-> notices[o]]>>
  <2> SUFFICES ASSUME Reliable, [ConsumerNext]_consumerVars
               PROVE  [Promise!Next]_<<placed, [o \in Orders |-> notices[o]]>>
    OBVIOUS
  <2>1. ASSUME NEW o \in Orders, Order(o) PROVE Promise!Next
    BY <2>1 DEF Order, Place, Promise!Next, Promise!Place, effectVars
  <2>2. ASSUME NEW c \in Consumers, NEW m \in Msgs, Apply(c, m) \/ ApplyFails(c, m)
        PROVE  [Promise!Next]_<<placed, [o \in Orders |-> notices[o]]>>
    <3>1. <<c, m>> \in Handlers /\ UNCHANGED placed
      BY <2>2, HandlerOf DEF Apply, ApplyFails
    <3>2. CASE CommitRows(<<c, m>>)
      BY <3>1, <3>2, CommitNotifies DEF Reliable
    <3>3. CASE ~CommitRows(<<c, m>>)
      BY <2>2, <3>1, <3>3 DEF Apply, ApplyFails, Run, Match, Claim, Notify, Commit, CommitUnanswered, Fail
    <3> QED
      BY <3>2, <3>3
  <2>3. CASE UNCHANGED <<placed, notices>>
    BY <2>3
  <2> QED
    BY <2>1, <2>2, <2>3 DEF ConsumerNext, Handle, Publish, Deliver, Start, Settle, Leave, Lifecycle,
       Exit, Stopped, Restart, LinkLost, Crash, Stop, DropHandlers, Prune, PruneInbox,
       consumerVars, vars, effectVars
<1> QED
  BY <1>1, <1>2, ReliableInvariant, PTL DEF ConsumerSpec, Promised, Promise!Spec
=============================================================================
