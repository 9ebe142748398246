------------------------ MODULE OrderRequestsProofs ------------------------
(***************************************************************************)
(* Proofs about OrderRequests, for any calls, keys, bodies, lock numbers and *)
(* pool: one order per Idempotency-Key, and answers that agree.               *)
(***************************************************************************)
EXTENDS OrderRequests, TLAPS

LEMMA SlotType == ASSUME TypeOK, NEW c \in Calls PROVE Slot(c) \in Slots /\ ask[c].key \in Keys
  BY SlotAssumption DEF TypeOK, Asks, Slot

LEMMA TellType ==
  ASSUME TypeOK, NEW c \in Calls, NEW kind \in Kinds, NEW order \in Calls \cup {NoOrder},
         Tell(c, kind, order)
  PROVE  /\ answer' \in [Calls -> [kind: Kinds, order: Calls \cup {NoOrder}]]
         /\ answer'[c] = Told(kind, order)
         /\ \A d \in Calls \ {c} : answer'[d] = answer[d]
  BY DEF TypeOK, Tell, Told

LEMMA GotoType ==
  ASSUME TypeOK, NEW c \in Calls,
         NEW step \in {"idle", "invalidate", "ended"} \cup InTransaction, Goto(c, step)
  PROVE  /\ pc' \in [Calls -> {"idle", "invalidate", "ended"} \cup InTransaction]
         /\ pc'[c] = step
         /\ \A d \in Calls \ {c} : pc'[d] = pc[d]
  BY DEF TypeOK, Goto

LEMMA EndTransactionType ==
  ASSUME TypeOK, NEW c \in Calls, EndTransaction(c)
  PROVE  /\ lock' \in [Slots -> Calls \cup {Nobody}] /\ guest' \in Calls \cup {Nobody}
         /\ \A s \in Slots : lock[s] # c => lock'[s] = lock[s]
  BY DEF TypeOK, EndTransaction

(* A call that is answered without writing: the answer must be true. *)
LEMMA AnswerKeepsInv ==
  ASSUME RequestInv, NEW c \in Calls, EndTransaction(c), Goto(c, "ended"),
         NEW kind \in Kinds, NEW order \in Calls \cup {NoOrder}, Tell(c, kind, order),
         UNCHANGED <<db, ask>>, faulted' \in SUBSET Calls, faulted \subseteq faulted',
         kind \in {"created", "replayed"} =>
           order \in orders /\ Previous(c) = [body |-> ask[c].body, order |-> order],
         kind = "conflict" => Previous(c) # NoRequest /\ Previous(c).body # ask[c].body,
         kind = "failed" => c \in faulted'
  PROVE  RequestInv'
<1> USE DEF RequestInv, db
<1>1. TypeOK'
  BY EndTransactionType, TellType, GotoType DEF TypeOK
<1>2. pc'[c] = "ended" /\ \A d \in Calls \ {c} : pc'[d] = pc[d]
  BY GotoType
<1>3. answer'[c] = Told(kind, order) /\ \A d \in Calls \ {c} : answer'[d] = answer[d]
  BY TellType
<1>4. LockedAndNew'
  <2>1. ASSUME NEW d \in Calls, d # c, pc[d] \in InTransaction \ {"lock"}
        PROVE  lock'[Slot(d)] = d
    BY <2>1, SlotType, EndTransactionType DEF LockedAndNew
  <2> QED
    BY <1>2, <2>1 DEF LockedAndNew, InTransaction, Slot, Previous
<1>5. CallShape'
  BY <1>2, <1>3 DEF CallShape, InTransaction
<1>6. OneOrderPerKey'
  BY DEF OneOrderPerKey
<1>7. AnswersAgree'
  BY <1>3 DEF AnswersAgree, Previous, Told
<1>8. RacesAreNotErrors'
  BY <1>3 DEF RacesAreNotErrors, Told
<1> QED
  BY <1>1, <1>4, <1>5, <1>6, <1>7, <1>8

(* A step within the transaction, which writes nothing anybody can see. *)
LEMMA AdvanceKeepsInv ==
  ASSUME RequestInv, NEW c \in Calls, NEW step \in InTransaction, Goto(c, step),
         pc[c] \in {"idle"} \cup InTransaction, UNCHANGED <<db, ask, answer, faulted>>,
         lock' \in [Slots -> Calls \cup {Nobody}], guest' \in Calls \cup {Nobody},
         \A s \in Slots : lock[s] # Nobody => lock'[s] = lock[s],
         step # "lock" => lock'[Slot(c)] = c,
         step \in {"guest", "create", "record", "commit"} => Previous(c) = NoRequest,
         step \in {"record", "commit"} => ask[c].body \notin Rejected
  PROVE  RequestInv'
<1> USE DEF RequestInv, db
<1>1. TypeOK'
  BY GotoType DEF TypeOK
<1>2. pc'[c] = step /\ \A d \in Calls \ {c} : pc'[d] = pc[d]
  BY GotoType
<1>3. LockedAndNew'
  <2>1. ASSUME NEW d \in Calls, d # c, pc[d] \in InTransaction \ {"lock"}
        PROVE  lock'[Slot(d)] = d
    BY <2>1, SlotType, NamesAssumption DEF LockedAndNew
  <2> QED
    BY <1>2, <2>1 DEF LockedAndNew, Slot, Previous
<1>4. CallShape'
  BY <1>2 DEF CallShape, InTransaction
<1>5. OneOrderPerKey' /\ AnswersAgree' /\ RacesAreNotErrors'
  BY DEF OneOrderPerKey, AnswersAgree, RacesAreNotErrors, Previous
<1> QED
  BY <1>1, <1>3, <1>4, <1>5

(* The COMMIT of a new order: its lock kept the key free until now. *)
LEMMA CommitKeepsInv ==
  ASSUME RequestInv, NEW c \in Calls, Commit(c) \/ CommitUnanswered(c)
  PROVE  RequestInv'
<1> USE DEF RequestInv
<1> DEFINE k == ask[c].key
           new == [body |-> ask[c].body, order |-> c]
<1>1. /\ k \in Keys /\ ask[c].body \in Bodies /\ Slot(c) \in Slots
      /\ request' = [request EXCEPT ![k] = new] /\ ask' = ask
      /\ orders' = orders \cup {c} /\ events' = events \cup {c} /\ EndTransaction(c)
      /\ pc[c] = "commit"
  BY SlotType DEF Commit, CommitUnanswered, CommitEffects, TypeOK, Asks
<1>2. request[k] = NoRequest /\ lock[Slot(c)] = c /\ new # NoRequest /\ c \notin orders
  BY <1>1, NamesAssumption DEF LockedAndNew, Previous, InTransaction, CallShape, NoRequest
<1>3. request'[k] = new /\ \A l \in Keys \ {k} : request'[l] = request[l]
  BY <1>1 DEF TypeOK
<1>4. PICK step \in {"invalidate", "ended"} : Goto(c, step)
  BY DEF Commit, CommitUnanswered
<1>5. pc'[c] = step /\ \A d \in Calls \ {c} : pc'[d] = pc[d]
  BY <1>4, GotoType
<1>6. /\ answer' \in [Calls -> [kind: Kinds, order: Calls \cup {NoOrder}]]
      /\ faulted' \in SUBSET Calls /\ faulted \subseteq faulted'
      /\ \A d \in Calls \ {c} : answer'[d] = answer[d]
      /\ \/ answer'[c] = Told("none", NoOrder)
         \/ answer'[c] = Told("failed", NoOrder) /\ step = "ended" /\ c \in faulted'
  <2>1. CASE Commit(c)
    BY <2>1, <1>1 DEF Commit, CallShape, TypeOK, InTransaction
  <2>2. CASE CommitUnanswered(c)
    <3>1. step = "ended"
      BY <2>2, <1>5, GotoType DEF CommitUnanswered
    <3>2. "failed" \in Kinds /\ NoOrder \in Calls \cup {NoOrder}
      BY DEF Kinds
    <3> QED
      BY <2>2, <3>1, <3>2, TellType DEF CommitUnanswered, TypeOK
  <2> QED
    BY <2>1, <2>2
<1>7. TypeOK'
  <2>1. request' \in [Keys -> [body: Bodies, order: Calls] \cup {NoRequest}]
    BY <1>1 DEF TypeOK
  <2>2. orders' \in SUBSET Calls /\ events' \in SUBSET Calls
    BY <1>1 DEF TypeOK
  <2>3. pc' \in [Calls -> {"idle", "invalidate", "ended"} \cup InTransaction]
    BY <1>4, GotoType
  <2> QED
    BY <1>1, <1>6, <2>1, <2>2, <2>3, EndTransactionType DEF TypeOK
<1>8. LockedAndNew'
  <2>1. ASSUME NEW d \in Calls, d # c, pc[d] \in InTransaction \ {"lock"}
        PROVE  lock'[Slot(d)] = d /\ ask[d].key \in Keys /\ ask[d].key # k
    <3>1. lock[Slot(d)] = d /\ Slot(d) \in Slots /\ ask[d].key \in Keys
      BY <2>1, SlotType DEF LockedAndNew
    <3>2. Slot(d) # Slot(c)
      BY <1>2, <2>1, <3>1
    <3> QED
      BY <1>1, <2>1, <3>1, <3>2, EndTransactionType DEF Slot
  <2> QED
    BY <1>1, <1>3, <1>5, <2>1 DEF LockedAndNew, Slot, Previous, InTransaction
<1>9. CallShape'
  BY <1>1, <1>5, <1>6 DEF CallShape, InTransaction
<1>10. ASSUME NEW d \in orders PROVE d \in Calls /\ ask[d].key \in Keys /\ ask[d].key # k
  <2>1. d \in Calls /\ d # NoOrder
    BY NamesAssumption DEF TypeOK
  <2>2. request[ask[d].key] # NoRequest
    <3>1. request[ask[d].key] = [body |-> ask[d].body, order |-> d]
      BY DEF OneOrderPerKey
    <3>2. request[ask[d].key].order = d
      BY <3>1
    <3>3. NoRequest.order = NoOrder
      BY DEF NoRequest
    <3> QED
      BY <2>1, <3>2, <3>3
  <2> QED
    BY <1>2, <2>1, <2>2, SlotType
<1>11. OneOrderPerKey'
  <2>1. \A d \in orders' : request'[ask[d].key] = [body |-> ask[d].body, order |-> d]
    BY <1>1, <1>3, <1>10 DEF OneOrderPerKey
  <2>2. ASSUME NEW l \in Keys, request'[l] # NoRequest PROVE request'[l].order \in orders'
    BY <1>1, <1>3, <2>2 DEF OneOrderPerKey
  <2> QED
    BY <1>1, <2>1, <2>2 DEF OneOrderPerKey
<1>12. AnswersAgree'
  <2>1. ASSUME NEW d \in Calls, answer'[d].kind \in {"created", "replayed", "conflict"}
        PROVE  /\ answer'[d] = answer[d]
               /\ Previous(d) # NoRequest
               /\ request'[ask[d].key] = request[ask[d].key]
    <3>1. d # c /\ answer'[d] = answer[d]
      BY <1>6, <2>1 DEF Told
    <3>2. Previous(d) # NoRequest
      <4>1. CASE answer[d].kind = "conflict"
        BY <4>1 DEF AnswersAgree
      <4>2. CASE answer[d].kind # "conflict"
        <5>1. /\ answer[d].order \in orders
              /\ Previous(d) = [body |-> ask[d].body, order |-> answer[d].order]
          BY <2>1, <3>1, <4>2 DEF AnswersAgree
        <5> QED
          BY <5>1, NamesAssumption DEF TypeOK, NoRequest
      <4> QED
        BY <4>1, <4>2
    <3>3. ask[d].key \in Keys /\ ask[d].key # k
      BY <1>2, <3>2, SlotType DEF Previous
    <3> QED
      BY <1>3, <3>1, <3>2, <3>3
  <2> QED
    BY <1>1, <2>1 DEF AnswersAgree, Previous
<1>13. RacesAreNotErrors'
  BY <1>6 DEF RacesAreNotErrors, Told
<1> QED
  BY <1>7, <1>8, <1>9, <1>11, <1>12, <1>13

(* Every step keeps the invariant: one case per action of Next. *)
LEMMA RequestStep == RequestInv /\ [Next]_vars => RequestInv'
<1> SUFFICES ASSUME RequestInv, [Next]_vars PROVE RequestInv'
  OBVIOUS
<1>1. ASSUME NEW c \in Calls, Begin(c) PROVE RequestInv'
  BY <1>1, AdvanceKeepsInv DEF Begin, RequestInv, TypeOK, InTransaction
<1>2. ASSUME NEW c \in Calls, Lock(c) PROVE RequestInv'
  <2>1. /\ lock' \in [Slots -> Calls \cup {Nobody}] /\ lock'[Slot(c)] = c
        /\ \A s \in Slots : lock[s] # Nobody => lock'[s] = lock[s]
    BY <1>2, SlotType DEF Lock, RequestInv, TypeOK
  <2> QED
    BY <1>2, <2>1, AdvanceKeepsInv DEF Lock, RequestInv, TypeOK, InTransaction
<1>3. ASSUME NEW c \in Calls, LookNew(c) PROVE RequestInv'
  <2>1. PICK step \in {"guest", "create"} : Goto(c, step)
    BY <1>3 DEF LookNew
  <2>2. lock[Slot(c)] = c
    BY <1>3 DEF LookNew, RequestInv, LockedAndNew, InTransaction
  <2> QED
    BY <1>3, <2>1, <2>2, AdvanceKeepsInv DEF LookNew, RequestInv, TypeOK, InTransaction
<1>4. ASSUME NEW c \in Calls, LockGuest(c) \/ Create(c) PROVE RequestInv'
  <2>1. PICK step \in {"create", "record"} : Goto(c, step)
    BY <1>4 DEF LockGuest, Create
  <2>2. /\ pc[c] \in {"guest", "create"} /\ lock' = lock /\ guest' \in {guest, c}
        /\ UNCHANGED <<db, ask, answer, faulted>>
    BY <1>4 DEF LockGuest, Create
  <2>3. lock[Slot(c)] = c /\ Previous(c) = NoRequest
    BY <2>2 DEF RequestInv, LockedAndNew, InTransaction
  <2> QED
    <3>1. step \in {"record", "commit"} => ask[c].body \notin Rejected
      BY <1>4, <2>1, <2>3 DEF LockGuest, Create, Goto, RequestInv, TypeOK
    <3> QED
      BY <2>1, <2>2, <2>3, <3>1, AdvanceKeepsInv DEF RequestInv, TypeOK, InTransaction
<1>5. ASSUME NEW c \in Calls, Record(c) PROVE RequestInv'
  <2>1. lock[Slot(c)] = c /\ Previous(c) = NoRequest
    BY <1>5 DEF Record, RequestInv, LockedAndNew, InTransaction
  <2> QED
    BY <1>5, <2>1, AdvanceKeepsInv DEF Record, RequestInv, TypeOK, InTransaction, CallShape
<1>6. ASSUME NEW c \in Calls, Replay(c) PROVE RequestInv'
  <2>1. /\ Previous(c) # NoRequest /\ ask[c].key \in Keys
        /\ Previous(c) = request[ask[c].key]
    BY <1>6, SlotType DEF Replay, RequestInv, Previous
  <2>2. Previous(c) \in [body: Bodies, order: Calls] /\ Previous(c).order \in orders
    BY <2>1 DEF RequestInv, TypeOK, OneOrderPerKey
  <2>3. Previous(c) = [body |-> ask[c].body, order |-> Previous(c).order]
    BY <1>6, <2>2 DEF Replay
  <2>4. "replayed" \in Kinds /\ Previous(c).order \in Calls \cup {NoOrder}
    BY <2>2 DEF Kinds
  <2> QED
    BY <1>6, <2>2, <2>3, <2>4, AnswerKeepsInv DEF Replay, RequestInv, TypeOK
<1>7. ASSUME NEW c \in Calls, Conflict(c) PROVE RequestInv'
  BY <1>7, AnswerKeepsInv DEF Conflict, RequestInv, TypeOK, Kinds
<1>8. ASSUME NEW c \in Calls, Refuse(c) PROVE RequestInv'
  BY <1>8, AnswerKeepsInv DEF Refuse, RequestInv, TypeOK, Kinds
<1>9. ASSUME NEW c \in Calls, Abort(c) PROVE RequestInv'
  <2>1. faulted' \in SUBSET Calls /\ faulted \subseteq faulted' /\ c \in faulted'
    BY <1>9 DEF Abort, RequestInv, TypeOK
  <2> QED
    BY <1>9, <2>1, AnswerKeepsInv DEF Abort, Kinds
<1>10. ASSUME NEW c \in Calls, Commit(c) \/ CommitUnanswered(c) PROVE RequestInv'
  BY <1>10, CommitKeepsInv
<1>11. ASSUME NEW c \in Calls, Return(c) PROVE RequestInv'
  <2>1. c \in orders /\ Previous(c) = [body |-> ask[c].body, order |-> c]
    BY <1>11 DEF Return, RequestInv, CallShape, OneOrderPerKey, Previous
  <2>2. "created" \in Kinds /\ "ended" \in {"idle", "invalidate", "ended"} \cup InTransaction
    BY DEF Kinds
  <2>3. /\ pc'[c] = "ended" /\ \A d \in Calls \ {c} : pc'[d] = pc[d]
        /\ pc' \in [Calls -> {"idle", "invalidate", "ended"} \cup InTransaction]
    BY <1>11, <2>2, GotoType DEF Return, RequestInv
  <2>4. /\ answer'[c] = Told("created", c) /\ \A d \in Calls \ {c} : answer'[d] = answer[d]
        /\ answer' \in [Calls -> [kind: Kinds, order: Calls \cup {NoOrder}]]
    BY <1>11, <2>2, TellType DEF Return, RequestInv
  <2>5. TypeOK' /\ OneOrderPerKey'
    BY <1>11, <2>3, <2>4 DEF Return, RequestInv, TypeOK, OneOrderPerKey, db
  <2>6. LockedAndNew'
    BY <1>11, <2>3 DEF Return, RequestInv, LockedAndNew, Slot, Previous, InTransaction, db
  <2>7. CallShape'
    BY <1>11, <2>3, <2>4 DEF Return, RequestInv, CallShape, InTransaction, db
  <2>8. AnswersAgree' /\ RacesAreNotErrors'
    BY <1>11, <2>1, <2>4 DEF Return, RequestInv, AnswersAgree, RacesAreNotErrors,
                             Told, Previous, db
  <2> QED
    BY <2>5, <2>6, <2>7, <2>8 DEF RequestInv
<1>12. CASE UNCHANGED vars
  BY <1>12 DEF RequestInv, TypeOK, LockedAndNew, CallShape, OneOrderPerKey,
               AnswersAgree, RacesAreNotErrors, Slot, Previous, vars, db
<1> QED
  BY <1>1, <1>2, <1>3, <1>4, <1>5, <1>6, <1>7, <1>8, <1>9, <1>10, <1>11, <1>12
  DEF Next, Step, Finished

(* RequestInv holds in every reachable state. *)
THEOREM RequestInvariant == Spec => []RequestInv
<1>1. Init => RequestInv
  BY DEF Init, RequestInv, TypeOK, LockedAndNew, CallShape, OneOrderPerKey,
         AnswersAgree, RacesAreNotErrors, Told, Kinds, InTransaction
<1> QED
  BY <1>1, RequestStep, PTL DEF Spec

(* However often a call is repeated or races itself, its key has one order,  *)
(* recorded under the key and announced by one event.                          *)
THEOREM Idempotent == Spec => []OneOrderPerKey
  BY RequestInvariant, PTL DEF RequestInv

(* All answers to one key agree on its order. *)
THEOREM Agreement == Spec => []AnswersAgree
  BY RequestInvariant, PTL DEF RequestInv

(* The advisory lock settles every race: only a failure makes a call fail. *)
THEOREM NoSpuriousFailure == Spec => []RacesAreNotErrors
  BY RequestInvariant, PTL DEF RequestInv
-----------------------------------------------------------------------------
(* What the contract application's requests have been served. *)
served == [c \in Calls |-> ServedTo(c)]

LEMMA ServedType == served \in [Calls -> {ServedTo(c) : c \in Calls}]
                    /\ \A c \in Calls : served[c] = ServedTo(c)
  BY DEF served

(* A step that leaves the tables alone and answers nobody, or only with a     *)
(* failure or an order already made, is no step of the contract.               *)
LEMMA SilentSteps ==
  ASSUME UNCHANGED <<db, ask>>, \A c \in Calls : ServedTo(c)' = ServedTo(c)
  PROVE  UNCHANGED Contract!contractVars
<1>1. served' = served
  BY DEF served
<1> QED
  BY <1>1 DEF Contract!contractVars, served, db

(* A step that answers one call is the contract's, with the tables as they    *)
(* are then.                                                                   *)
LEMMA OneIsServed ==
  ASSUME NEW c \in Calls, NEW kind, NEW order,
         ServedTo(c) = Told("none", NoOrder), ServedTo(c)' = Told(kind, order),
         \A d \in Calls \ {c} : ServedTo(d)' = ServedTo(d)
  PROVE  Contract!Answer(c, kind, order)
<1>1. served[c] = Told("none", NoOrder)
  BY DEF served
<1>2. served' = [served EXCEPT ![c] = Told(kind, order)]
  BY DEF served
<1> QED
  BY <1>1, <1>2 DEF Contract!Answer, Contract!Served, Told, served

(* Every step of the calls is a step of the contract application or none. *)
LEMMA StepIsContracted ==
  RequestInv /\ [Next]_vars => [Contract!ContractNext]_Contract!contractVars
<1> SUFFICES ASSUME RequestInv, [Next]_vars
             PROVE  [Contract!ContractNext]_Contract!contractVars
  OBVIOUS
<1> DEFINE Stutters == UNCHANGED Contract!contractVars
<1>1. ASSUME UNCHANGED <<db, ask, answer>> PROVE Stutters
  BY <1>1, SilentSteps DEF ServedTo, db
<1>2. ASSUME NEW c \in Calls, Record(c) PROVE Stutters
  <2>1. Previous(c) = NoRequest
    BY <1>2 DEF Record, RequestInv, LockedAndNew, InTransaction
  <2> QED
    BY <1>2, <2>1, <1>1 DEF Record
<1>3. ASSUME NEW c \in Calls, pc[c] \in InTransaction, UNCHANGED <<db, ask>>,
             NEW kind \in {"replayed", "conflict", "rejected"},
             NEW order \in Calls \cup {NoOrder}, Tell(c, kind, order)
      PROVE  Contract!Answer(c, kind, order)
  <2>1. c \notin orders /\ answer[c] = Told("none", NoOrder)
    BY <1>3 DEF RequestInv, CallShape, InTransaction
  <2>2. answer'[c] = Told(kind, order) /\ \A d \in Calls \ {c} : answer'[d] = answer[d]
    BY <1>3 DEF Tell, RequestInv, TypeOK
  <2>3. ServedTo(c) = Told("none", NoOrder) /\ ServedTo(c)' = Told(kind, order)
    BY <1>3, <2>1, <2>2 DEF ServedTo, db, Told
  <2>4. \A d \in Calls \ {c} : ServedTo(d)' = ServedTo(d)
    BY <1>3, <2>2 DEF ServedTo, db
  <2> QED
    BY <2>3, <2>4, OneIsServed
<1>4. ASSUME NEW c \in Calls, Replay(c) PROVE Contract!SameBody(c)
  <2>1. Previous(c).order \in Calls
    <3>1. ask[c].key \in Keys /\ Previous(c) # NoRequest
      BY <1>4, SlotType DEF Replay, RequestInv
    <3> QED
      BY <3>1 DEF Previous, RequestInv, TypeOK
  <2>2. Contract!Answer(c, "replayed", Previous(c).order)
    BY <1>4, <2>1, <1>3 DEF Replay, InTransaction
  <2> QED
    BY <1>4, <2>2 DEF Replay, Contract!SameBody, Contract!Record, Contract!NoRecord,
                      NoRequest, Previous, db
<1>5. ASSUME NEW c \in Calls, Conflict(c) PROVE Contract!OtherBody(c)
  <2>1. Contract!Answer(c, "conflict", NoOrder)
    BY <1>5, <1>3 DEF Conflict, InTransaction
  <2> QED
    BY <1>5, <2>1 DEF Conflict, Contract!OtherBody, Contract!Record, Contract!NoRecord,
                      NoRequest, Previous, db
<1>6. ASSUME NEW c \in Calls, Refuse(c) PROVE Contract!UnknownProduct(c)
  <2>1. Contract!Answer(c, "rejected", NoOrder)
    BY <1>6, <1>3 DEF Refuse, InTransaction
  <2>2. Previous(c) = NoRequest
    BY <1>6 DEF Refuse, RequestInv, LockedAndNew, InTransaction
  <2> QED
    BY <1>6, <2>1, <2>2 DEF Refuse, Contract!UnknownProduct, Contract!Record,
                            Contract!NoRecord, NoRequest, Previous, db
<1>7. ASSUME NEW c \in Calls, CommitEffects(c), pc[c] = "commit",
             answer' = answer \/ Tell(c, "failed", NoOrder)
      PROVE  Contract!NewOrder(c)
  <2>1. /\ c \notin orders /\ answer[c] = Told("none", NoOrder) /\ Previous(c) = NoRequest
        /\ ask[c].body \notin Rejected
    BY <1>7 DEF RequestInv, CallShape, LockedAndNew, InTransaction
  <2>2. orders' = orders \cup {c} /\ \A d \in Calls \ {c} : answer'[d] = answer[d]
    BY <1>7 DEF CommitEffects, Tell, RequestInv, TypeOK
  <2>3. ServedTo(c) = Told("none", NoOrder) /\ ServedTo(c)' = Told("created", c)
    BY <2>1, <2>2 DEF ServedTo, Told
  <2>4. \A d \in Calls \ {c} : ServedTo(d)' = ServedTo(d)
    BY <2>2 DEF ServedTo
  <2>5. Contract!Answer(c, "created", c)
    BY <2>3, <2>4, OneIsServed
  <2> QED
    BY <1>7, <2>1, <2>5 DEF CommitEffects, Contract!NewOrder, Contract!Record,
                            Contract!NoRecord, NoRequest, Previous
<1>8. ASSUME NEW c \in Calls, Return(c) PROVE Stutters
  <2>1. c \in orders /\ UNCHANGED <<db, ask>>
    BY <1>8 DEF Return, RequestInv, CallShape
  <2>2. \A d \in Calls \ {c} : answer'[d] = answer[d]
    BY <1>8 DEF Return, Tell, RequestInv, TypeOK
  <2>3. \A d \in Calls : ServedTo(d)' = ServedTo(d)
    BY <2>1, <2>2 DEF ServedTo, db
  <2> QED
    BY <2>1, <2>3, SilentSteps
<1>9. ASSUME NEW c \in Calls, Abort(c) PROVE Stutters
  <2>1. UNCHANGED <<db, ask>> /\ answer[c] = Told("none", NoOrder)
    BY <1>9 DEF Abort, RequestInv, CallShape, InTransaction
  <2>2. /\ answer'[c] = Told("failed", NoOrder)
        /\ \A d \in Calls \ {c} : answer'[d] = answer[d]
    BY <1>9 DEF Abort, Tell, RequestInv, TypeOK
  <2>3. \A d \in Calls : ServedTo(d)' = ServedTo(d)
    BY <2>1, <2>2 DEF ServedTo, db, Told
  <2> QED
    BY <2>1, <2>3, SilentSteps
<1>10. CASE UNCHANGED vars
  BY <1>10, SilentSteps DEF vars, ServedTo, db
<1>11. ASSUME NEW c \in Calls, Step(c) \/ CommitUnanswered(c) \/ Abort(c)
       PROVE  [Contract!ContractNext]_Contract!contractVars
  <2>1. CASE Begin(c) \/ Lock(c) \/ LookNew(c) \/ LockGuest(c) \/ Create(c)
    BY <2>1, <1>1 DEF Begin, Lock, LookNew, LockGuest, Create
  <2>2. CASE Record(c) \/ Return(c) \/ Abort(c)
    BY <2>2, <1>2, <1>8, <1>9
  <2>3. CASE Replay(c) \/ Conflict(c) \/ Refuse(c)
    BY <2>3, <1>4, <1>5, <1>6 DEF Contract!ContractNext
  <2>4. CASE Commit(c) \/ CommitUnanswered(c)
    <3>1. CommitEffects(c) /\ pc[c] = "commit"
          /\ (answer' = answer \/ Tell(c, "failed", NoOrder))
      BY <2>4 DEF Commit, CommitUnanswered, CommitEffects
    <3> QED
      BY <3>1, <1>7 DEF Contract!ContractNext
  <2> QED
    BY <1>11, <2>1, <2>2, <2>3, <2>4 DEF Step
<1> QED
  BY <1>10, <1>11 DEF Next, Finished

(* The calls are answered as the in-memory contract application would answer  *)
(* them one at a time: the detailed specification implements ContractApp.      *)
THEOREM ImplementsContract == Spec => Contracted
<1>1. Init => Contract!ContractInit
  BY DEF Init, Contract!ContractInit, Contract!NoRecord, NoRequest, Contract!Served, Told,
         ServedTo, Asks
<1> QED
  BY <1>1, RequestInvariant, StepIsContracted, PTL DEF Spec, Contracted, Contract!ContractSpec
=============================================================================
