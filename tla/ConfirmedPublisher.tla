------------------------- MODULE ConfirmedPublisher -------------------------
(***************************************************************************)
(* ConfirmedPublisher (src/marketplace/src/async/publisher.ts): publications *)
(* of one confirm channel, one at a time.  A call sends a persistent,        *)
(* mandatory message and waits for every confirm the channel still owes, at   *)
(* most two seconds; the broker answers an unroutable message with a return   *)
(* before its ack.  A late confirm of an earlier call, or the return of an     *)
(* earlier message with the same event id, arrives during a later call.        *)
(***************************************************************************)
EXTENDS Naturals, Sequences

CONSTANTS
  Publications,   \* calls of publish(); each sends one message
  EventOf         \* the event id of each

ASSUME EventOfAssumption == DOMAIN EventOf = Publications

VARIABLES
  tail,        \* the calls chained on this.tail, the running one first
  call,        \* what became of each
  awaited,     \* messages whose confirms the running call waits for
  returned,    \* what its listener has seen
  unconfirmed, \* messages the channel has had no confirm for
  fate,        \* where the broker put each message
  frames,      \* answers on their way to the client, in order
  routed,      \* whether a queue is bound
  channel

publisherVars == <<tail, call, awaited, returned, unconfirmed, fate, frames, routed, channel>>
clientVars == <<tail, call, awaited, returned, unconfirmed>>
brokerVars == <<fate, frames, routed, channel>>

Ended == {"resolved", "rejected"}
PublisherTypeOK ==
  /\ tail \in Seq(Publications)
  /\ call \in [Publications -> {"new", "chained", "sent"} \cup Ended]
  /\ awaited \subseteq Publications /\ unconfirmed \subseteq Publications
  /\ returned \in BOOLEAN /\ routed \in BOOLEAN
  /\ fate \in [Publications -> {"none", "sent", "queued", "dropped"}]
  /\ frames \in Seq([kind : {"return", "ack", "nack"}, of : Publications])
  /\ channel \in {"open", "closed"}

PublisherInit ==
  /\ tail = <<>> /\ awaited = {} /\ unconfirmed = {} /\ returned = FALSE
  /\ call = [p \in Publications |-> "new"]
  /\ fate = [p \in Publications |-> "none"]
  /\ frames = <<>> /\ routed \in BOOLEAN /\ channel = "open"

-----------------------------------------------------------------------------
Running == tail # <<>> /\ call[Head(tail)] = "sent"
Frame(kind, p) == [kind |-> kind, of |-> p]

(* The operation ends: listener off, timer cleared, the next one may begin.  *)
Finish(p, outcome) ==
  /\ call' = [call EXCEPT ![p] = outcome]
  /\ tail' = Tail(tail) /\ awaited' = {} /\ returned' = FALSE

(* publish(): this.tail.then(...). *)
Chain(p) ==
  /\ call[p] = "new"
  /\ call' = [call EXCEPT ![p] = "chained"]
  /\ tail' = Append(tail, p)
  /\ UNCHANGED <<awaited, returned, unconfirmed, brokerVars>>

(* channel.publish and waitForConfirms; a closed channel throws.             *)
Send ==
  /\ tail # <<>> /\ ~Running
  /\ LET p == Head(tail) IN
       IF channel = "open"
       THEN /\ call' = [call EXCEPT ![p] = "sent"]
            /\ unconfirmed' = unconfirmed \cup {p} /\ awaited' = unconfirmed'
            /\ fate' = [fate EXCEPT ![p] = "sent"]
            /\ UNCHANGED <<tail, returned>>
       ELSE Finish(p, "rejected") /\ UNCHANGED <<unconfirmed, fate>>
  /\ UNCHANGED <<frames, routed, channel>>

(* The timer wins the race; the confirm is still owed. *)
TimeOut ==
  /\ Running /\ Finish(Head(tail), "rejected")
  /\ UNCHANGED <<unconfirmed, brokerVars>>

(* The broker (external) takes a message: a bound queue keeps it, or it is    *)
(* returned; or the queue refuses it.                                         *)
Route(p) ==
  /\ channel = "open" /\ fate[p] = "sent"
  /\ \/ /\ routed /\ fate' = [fate EXCEPT ![p] = "queued"]
        /\ frames' = Append(frames, Frame("ack", p))
     \/ /\ ~routed /\ fate' = [fate EXCEPT ![p] = "dropped"]
        /\ frames' = frames \o <<Frame("return", p), Frame("ack", p)>>
     \/ /\ routed /\ fate' = [fate EXCEPT ![p] = "dropped"]
        /\ frames' = Append(frames, Frame("nack", p))
  /\ UNCHANGED <<clientVars, routed, channel>>

(* Consumers bring the topology up, or an operator removes the queue.        *)
Rebind == routed' = ~routed /\ UNCHANGED <<clientVars, fate, frames, channel>>

(* The next answer reaches the client.                                        *)
Received(kind, p) ==
  /\ frames # <<>> /\ Head(frames) = Frame(kind, p)
  /\ frames' = Tail(frames)
  /\ UNCHANGED <<fate, routed, channel>>

Return(p) ==
  /\ Received("return", p)
  /\ returned' = (returned \/ (Running /\ EventOf[Head(tail)] = EventOf[p]))
  /\ UNCHANGED <<tail, call, awaited, unconfirmed>>

(* The last awaited confirm resolves waitForConfirms. *)
\* Outcome with a fault, for the checks.
OutcomeUnchecked(wasReturned) == "resolved"
Outcome(wasReturned) == IF wasReturned THEN "rejected" ELSE "resolved"
Ack(p) ==
  /\ Received("ack", p)
  /\ unconfirmed' = unconfirmed \ {p}
  /\ IF Running /\ awaited = {p} THEN Finish(Head(tail), Outcome(returned))
     ELSE awaited' = awaited \ {p} /\ UNCHANGED <<tail, call, returned>>

(* A refused message, its own or an earlier one's, rejects the wait at once.  *)
Nack(p) ==
  /\ Received("nack", p)
  /\ unconfirmed' = unconfirmed \ {p}
  /\ IF Running /\ p \in awaited THEN Finish(Head(tail), "rejected")
     ELSE UNCHANGED <<tail, call, awaited, returned>>

(* The broker or the network ends the channel: answers on their way are lost, *)
(* a message on its way may be lost or queued, and the wait is rejected.  Its   *)
(* graceful end, close(), comes only when no wait is open.                      *)
Close ==
  /\ channel = "open" /\ channel' = "closed" /\ frames' = <<>>
  /\ \E kept \in SUBSET {p \in Publications : fate[p] = "sent" /\ routed} :
       fate' = [p \in Publications |-> IF p \in kept THEN "queued"
                                       ELSE IF fate[p] = "sent" THEN "dropped" ELSE fate[p]]
  /\ IF Running THEN Finish(Head(tail), "rejected")
     ELSE UNCHANGED <<tail, call, awaited, returned>>
  /\ UNCHANGED <<unconfirmed, routed>>

PublisherNext ==
  \/ \E p \in Publications : Chain(p) \/ Route(p) \/ Return(p) \/ Ack(p) \/ Nack(p)
  \/ Send \/ TimeOut \/ Rebind \/ Close

PublisherSpec == PublisherInit /\ [][PublisherNext]_publisherVars

-----------------------------------------------------------------------------
(* A publication that resolved is in a queue: whatever answers of earlier     *)
(* messages arrive meanwhile, and although an unroutable message is acked      *)
(* too.  This is what the relay relies on when it marks the row.               *)
ResolvedMeansQueued ==
  \A p \in Publications : call[p] = "resolved" => fate[p] = "queued"

(* Why: only the first of the chain runs, what it waits for is unanswered,     *)
(* and its message, if dropped, has its return or nack ahead of its ack.        *)
AnswersAreDue ==
  /\ awaited \subseteq unconfirmed
  /\ awaited # {} => Running
  /\ \A p \in Publications : call[p] = "sent" => Running /\ p = Head(tail)
  /\ Running =>
       LET p == Head(tail) IN
       /\ p \in awaited \/ returned \/ fate[p] = "queued"
       /\ fate[p] = "dropped" /\ ~returned =>
            \E i \in 1..Len(frames) : frames[i].of = p /\ frames[i].kind # "ack"

(* The chain holds each call once, waiting for its turn or running at its      *)
(* head, and nothing of a call is on its way before its turn.                  *)
OneTurnEach ==
  /\ \A i, j \in 1..Len(tail) : tail[i] = tail[j] => i = j
  /\ \A i \in 1..Len(tail) : call[tail[i]] = "chained" \/ (i = 1 /\ call[tail[i]] = "sent")
  /\ \A p \in Publications : call[p] \in {"new", "chained"} => fate[p] = "none"

(* An answer follows the broker's decision, and a dropped message's return or  *)
(* nack goes ahead of its ack.                                                 *)
AnswersInOrder ==
  /\ \A i \in 1..Len(frames) : fate[frames[i].of] \in {"queued", "dropped"}
  /\ Running /\ ~returned /\ fate[Head(tail)] = "dropped" =>
       \A j \in 1..Len(frames) : frames[j] = Frame("ack", Head(tail)) =>
         \E i \in 1..(j - 1) : frames[i].of = Head(tail) /\ frames[i].kind # "ack"

PublisherInv ==
  PublisherTypeOK /\ ResolvedMeansQueued /\ AnswersAreDue /\ OneTurnEach /\ AnswersInOrder
=============================================================================
