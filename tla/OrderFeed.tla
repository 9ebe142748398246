----------------------------- MODULE OrderFeed -----------------------------
(***************************************************************************)
(* Order status changes and their feed (src/marketplace/src/realtime).  In   *)
(* one process PATCH /orders/:id/status queues the changes of an order,      *)
(* commits each in PostgreSQL and then publishes an event, which goes to a    *)
(* ring of the order's latest events, to the SSE streams subscribed to it     *)
(* and to the Socket.IO sockets in its room.  The queues, rings and           *)
(* subscriptions live in memory and start anew with the process.              *)
(***************************************************************************)
EXTENDS Integers, Sequences

CONSTANTS
  Orders, Calls, Streams, Sockets,
  Statuses,
  capacity,      \* events kept per order; 500 in the code
  NoEvent,       \* an unused cell of the ring
  NoCursor,      \* a request without Last-Event-ID
  Gone,          \* 410
  MaxEvents,     \* bound on the events of a process
  MaxRestarts    \* bound on the restarts

ASSUME CapacityAssumption == capacity \in Nat \ {0}
ASSUME BoundsAssumption == MaxEvents \in Nat /\ MaxRestarts \in Nat

VARIABLES
  status,     \* orders.status
  tails,      \* the calls queued for each order, the running one first
  change,     \* each change in progress
  sequence,   \* the last event id
  histories,  \* the ring of each order
  stream,     \* each SSE request
  wire,       \* events written to a stream and not yet received
  socket,     \* each Socket.IO connection
  joining,    \* the room its join handler is checking
  rooms,      \* the rooms the server lists it in
  restarts,
  base,       \* history: each order's status when the process started
  log,        \* history: all events of each order in this process
  missed      \* history: orders changed without an event in this process

feed == <<sequence, histories, log>>
changes == <<status, tails, change, base, missed>>
streaming == <<stream, wire>>
socketing == <<socket, joining, rooms>>
feedVars == <<changes, feed, streaming, socketing, restarts>>

Event == [id : Nat, previous : Statuses, status : Statuses]
Ring == [events : [0..(capacity - 1) -> Event \cup {NoEvent}],
         start : 0..(capacity - 1), size : 0..capacity, evictedThrough : Nat]

Idle == [at |-> "idle"]
Busy == [at : {"queued", "locked", "committed", "invalidating"},
         o : Orders, want : Statuses, previous : Statuses]
Closed == [at |-> "closed"]
Asked == [at : {"asked"}, o : Orders, last : Nat \cup {NoCursor}]
Subscribed == [at : {"open"}, o : Orders, seen : Nat]
NoRoom == "none"

FeedTypeOK ==
  /\ status \in [Orders -> Statuses]
  /\ tails \in [Orders -> Seq(Calls)]
  /\ change \in [Calls -> {Idle} \cup Busy]
  /\ sequence \in Nat
  /\ histories \in [Orders -> Ring]
  /\ stream \in [Streams -> {Closed} \cup Asked \cup Subscribed]
  /\ wire \in [Streams -> Seq(Event)]
  /\ socket \in [Sockets -> {"new", "connected", "gone"}]
  /\ joining \in [Sockets -> Orders \cup {NoRoom}]
  /\ rooms \in [Sockets -> SUBSET Orders]
  /\ restarts \in 0..MaxRestarts
  /\ base \in [Orders -> Statuses] /\ missed \in SUBSET Orders
  /\ log \in [Orders -> Seq(Event)]

EmptyRing == [events |-> [i \in 0..(capacity - 1) |-> NoEvent],
              start |-> 0, size |-> 0, evictedThrough |-> 0]

FeedInit ==
  /\ status \in [Orders -> Statuses] /\ base = status
  /\ tails = [o \in Orders |-> <<>>]
  /\ change = [c \in Calls |-> Idle]
  /\ sequence = 0
  /\ histories = [o \in Orders |-> EmptyRing]
  /\ stream = [s \in Streams |-> Closed]
  /\ wire = [s \in Streams |-> <<>>]
  /\ socket = [k \in Sockets |-> "new"]
  /\ joining = [k \in Sockets |-> NoRoom]
  /\ rooms = [k \in Sockets |-> {}]
  /\ restarts = 0 /\ missed = {}
  /\ log = [o \in Orders |-> <<>>]

-----------------------------------------------------------------------------
(* The ring. *)

(* publish(): a full ring drops its oldest event and remembers its id.       *)
AddToRing(ring, event) ==
  IF ring.size = capacity
  THEN [ring EXCEPT !.evictedThrough = ring.events[ring.start].id,
                    !.events[ring.start] = event,
                    !.start = (ring.start + 1) % capacity]
  ELSE [ring EXCEPT !.events[(ring.start + ring.size) % capacity] = event,
                    !.size = @ + 1]

KeptEvents(ring) == [n \in 1..ring.size |-> ring.events[(ring.start + n - 1) % capacity]]

(* The events of a list whose ids are greater, one after another. *)
After(events, lastId) ==
  LET replay[n \in 0..Len(events)] ==
        IF n = 0 THEN <<>>
        ELSE IF events[n].id > lastId THEN Append(replay[n - 1], events[n]) ELSE replay[n - 1]
  IN replay[Len(events)]

(* replay(): what a cursor of this process has missed; nothing for one ahead *)
(* of it; 410 when some of it is no longer kept.                               *)
Replay(o, lastId) ==
  IF lastId > sequence THEN <<>>
  ELSE IF lastId < histories[o].evictedThrough THEN Gone
  ELSE After(KeptEvents(histories[o]), lastId)

-----------------------------------------------------------------------------
(* Status changes. *)

HasTurn(c) == change[c].at # "idle" /\ Head(tails[change[c].o]) = c
LeaveQueue(c) ==
  /\ change' = [change EXCEPT ![c] = Idle]
  /\ tails' = [tails EXCEPT ![change[c].o] = Tail(@)]

(* inOrder(): the change joins the queue of its order. *)
ChangeStatus(c, o, want) ==
  /\ change[c] = Idle
  /\ change' = [change EXCEPT ![c] = [at |-> "queued", o |-> o, want |-> want, previous |-> want]]
  /\ tails' = [tails EXCEPT ![o] = Append(@, c)]
  /\ UNCHANGED <<status, base, missed, feed, streaming, socketing, restarts>>

RowFree(o) == \A c \in Calls : change[c].at = "locked" => change[c].o # o

\* Lock with a fault, for the checks.
LockOutOfTurn(c) ==
  /\ change[c].at = "queued" /\ RowFree(change[c].o)
  /\ change' = [change EXCEPT ![c].at = "locked", ![c].previous = status[change[c].o]]
  /\ UNCHANGED <<status, tails, base, missed, feed, streaming, socketing, restarts>>

(* SELECT ... FOR UPDATE at its turn; the order is the caller's. *)
Lock(c) ==
  /\ change[c].at = "queued" /\ HasTurn(c) /\ RowFree(change[c].o)
  /\ change' = [change EXCEPT ![c].at = "locked", ![c].previous = status[change[c].o]]
  /\ UNCHANGED <<status, tails, base, missed, feed, streaming, socketing, restarts>>

(* UPDATE unless the order has the status already, and COMMIT. *)
Commit(c) ==
  /\ change[c].at = "locked"
  /\ status' = [status EXCEPT ![change[c].o] = change[c].want]
  /\ change' = [change EXCEPT ![c].at = "committed"]
  /\ UNCHANGED <<tails, base, missed, feed, streaming, socketing, restarts>>

Changed(c) == change[c].want # change[c].previous

(* COMMIT took effect but failed for the caller: 500 and no event. *)
CommitUnanswered(c) ==
  /\ change[c].at = "locked"
  /\ status' = [status EXCEPT ![change[c].o] = change[c].want]
  /\ missed' = IF Changed(c) THEN missed \cup {change[c].o} ELSE missed
  /\ LeaveQueue(c)
  /\ UNCHANGED <<base, feed, streaming, socketing, restarts>>

\* Fail with a fault, for the checks.
FailForgettingTurn(c) ==
  /\ change[c].at = "locked"
  /\ change' = [change EXCEPT ![c] = Idle]
  /\ UNCHANGED <<status, tails, base, missed, feed, streaming, socketing, restarts>>

(* No such order, another owner, or a failed query: ROLLBACK, and the turn   *)
(* is passed on all the same.                                                  *)
Fail(c) ==
  /\ change[c].at \in {"queued", "locked"} /\ HasTurn(c)
  /\ LeaveQueue(c)
  /\ UNCHANGED <<status, base, missed, feed, streaming, socketing, restarts>>

(* publish(): number the event, keep it and write it to every subscriber.    *)
PublishEvent(c) ==
  LET o == change[c].o
      event == [id |-> sequence + 1, previous |-> change[c].previous, status |-> change[c].want]
  IN
  /\ change[c].at = "committed" /\ Changed(c) /\ sequence < MaxEvents
  /\ sequence' = sequence + 1
  /\ histories' = [histories EXCEPT ![o] = AddToRing(@, event)]
  /\ log' = [log EXCEPT ![o] = Append(@, event)]
  /\ wire' = [s \in Streams |-> IF stream[s].at = "open" /\ stream[s].o = o
                                THEN Append(wire[s], event) ELSE wire[s]]
  /\ change' = [change EXCEPT ![c].at = "invalidating"]
  /\ UNCHANGED <<status, tails, base, missed, stream, socketing, restarts>>

(* Orders nobody watches here take numbers from the same sequence. *)
PublishElsewhere ==
  /\ sequence < MaxEvents
  /\ sequence' = sequence + 1
  /\ UNCHANGED <<changes, histories, log, streaming, socketing, restarts>>

(* The cards of the order's products have been invalidated, or nothing had   *)
(* changed: answer, and pass the turn on.                                      *)
FinishChange(c) ==
  /\ change[c].at = "invalidating" \/ (change[c].at = "committed" /\ ~Changed(c))
  /\ LeaveQueue(c)
  /\ UNCHANGED <<status, base, missed, feed, streaming, socketing, restarts>>

-----------------------------------------------------------------------------
(* Server-sent events. *)

(* GET /orders/:id/events with any cursor; the caller is being authorized.   *)
Ask(s, o, last) ==
  /\ stream[s] = Closed
  /\ stream' = [stream EXCEPT ![s] = [at |-> "asked", o |-> o, last |-> last]]
  /\ UNCHANGED <<changes, feed, wire, socketing, restarts>>

Replayed(s) ==
  IF stream[s].last = NoCursor THEN <<>> ELSE Replay(stream[s].o, stream[s].last)

Opened(s, replay) ==
  LET last == stream[s].last IN
  /\ stream' = [stream EXCEPT ![s] =
       [at |-> "open", o |-> stream[s].o,
        seen |-> IF last = NoCursor \/ last > sequence THEN sequence ELSE last]]
  /\ wire' = [wire EXCEPT ![s] = replay]

\* Open with a fault, for the checks.
OpenWithoutReplay(s) ==
  /\ stream[s].at = "asked" /\ Replayed(s) # Gone
  /\ Opened(s, <<>>)
  /\ UNCHANGED <<changes, feed, socketing, restarts>>

(* Replay and subscription happen without an await between them. *)
Open(s) ==
  /\ stream[s].at = "asked" /\ Replayed(s) # Gone
  /\ Opened(s, Replayed(s))
  /\ UNCHANGED <<changes, feed, socketing, restarts>>

(* 410, or the caller is refused. *)
Refuse(s) ==
  /\ stream[s].at = "asked"
  /\ stream' = [stream EXCEPT ![s] = Closed]
  /\ UNCHANGED <<changes, feed, wire, socketing, restarts>>

Receive(s) ==
  /\ stream[s].at = "open" /\ wire[s] # <<>>
  /\ stream' = [stream EXCEPT ![s].seen = Head(wire[s]).id]
  /\ wire' = [wire EXCEPT ![s] = Tail(@)]
  /\ UNCHANGED <<changes, feed, socketing, restarts>>

(* The connection ends, or the token expires: unsubscribe. *)
CloseStream(s) ==
  /\ stream[s].at = "open"
  /\ stream' = [stream EXCEPT ![s] = Closed]
  /\ wire' = [wire EXCEPT ![s] = <<>>]
  /\ UNCHANGED <<changes, feed, socketing, restarts>>

-----------------------------------------------------------------------------
(* Socket.IO rooms. *)

Connect(k) ==
  /\ socket[k] = "new"
  /\ socket' = [socket EXCEPT ![k] = "connected"]
  /\ UNCHANGED <<changes, feed, streaming, joining, rooms, restarts>>

(* join: the owner is checked in the database... *)
Join(k, o) ==
  /\ socket[k] = "connected" /\ joining[k] = NoRoom
  /\ joining' = [joining EXCEPT ![k] = o]
  /\ UNCHANGED <<changes, feed, streaming, socket, rooms, restarts>>

(* ... and a socket that is still connected enters the room. *)
Joined(k) ==
  /\ joining[k] # NoRoom
  /\ rooms' = IF socket[k] = "connected" THEN [rooms EXCEPT ![k] = @ \cup {joining[k]}]
              ELSE rooms
  /\ joining' = [joining EXCEPT ![k] = NoRoom]
  /\ UNCHANGED <<changes, feed, streaming, socket, restarts>>

(* The order is not the caller's, the token has expired or the query fails.  *)
JoinRefused(k) ==
  /\ joining[k] # NoRoom
  /\ joining' = [joining EXCEPT ![k] = NoRoom]
  /\ UNCHANGED <<changes, feed, streaming, socket, rooms, restarts>>

(* The client leaves or the expiry timer fires. *)
Disconnect(k) ==
  /\ socket[k] = "connected"
  /\ socket' = [socket EXCEPT ![k] = "gone"]
  /\ rooms' = [rooms EXCEPT ![k] = {}]
  /\ UNCHANGED <<changes, feed, streaming, joining, restarts>>

-----------------------------------------------------------------------------
(* The process ends and starts again; open transactions roll back. *)
Restart ==
  /\ restarts < MaxRestarts
  /\ restarts' = restarts + 1
  /\ tails' = [o \in Orders |-> <<>>]
  /\ change' = [c \in Calls |-> Idle]
  /\ sequence' = 0
  /\ histories' = [o \in Orders |-> EmptyRing]
  /\ stream' = [s \in Streams |-> Closed]
  /\ wire' = [s \in Streams |-> <<>>]
  /\ socket' = [k \in Sockets |-> IF socket[k] = "new" THEN "new" ELSE "gone"]
  /\ joining' = [k \in Sockets |-> NoRoom]
  /\ rooms' = [k \in Sockets |-> {}]
  /\ base' = status /\ missed' = {}
  /\ log' = [o \in Orders |-> <<>>]
  /\ UNCHANGED status

Advance(c) == Lock(c) \/ Commit(c) \/ PublishEvent(c) \/ FinishChange(c)

FeedNext ==
  \/ \E c \in Calls : \/ \E o \in Orders, want \in Statuses : ChangeStatus(c, o, want)
                      \/ Advance(c) \/ CommitUnanswered(c) \/ Fail(c)
  \/ \E s \in Streams :
       \/ \E o \in Orders, last \in 0..(MaxEvents + 1) \cup {NoCursor} : Ask(s, o, last)
       \/ Open(s) \/ Refuse(s) \/ Receive(s) \/ CloseStream(s)
  \/ \E k \in Sockets : \/ Connect(k) \/ Disconnect(k) \/ Joined(k) \/ JoinRefused(k)
                        \/ \E o \in Orders : Join(k, o)
  \/ PublishElsewhere \/ Restart

FeedSpec == FeedInit /\ [][FeedNext]_feedVars

(* PostgreSQL and Redis answer, and the event loop runs every continuation.  *)
FairFeedSpec == FeedSpec /\ \A c \in Calls : WF_feedVars(Advance(c))

-----------------------------------------------------------------------------
Settled(o) == \A c \in Calls : ~(change[c].at = "committed" /\ change[c].o = o)
Before(o, i) == IF i = 1 THEN base[o] ELSE log[o][i - 1].status

(* Events are published in the order of their commits: each starts where the *)
(* one before it ended and the last one tells the row's status, unless a      *)
(* commit was applied whose answer was lost.                                   *)
EventsFollowCommits ==
  \A o \in Orders \ missed :
    /\ \A i \in DOMAIN log[o] : log[o][i].previous = Before(o, i)
    /\ Settled(o) => status[o] = Before(o, Len(log[o]) + 1)

(* For every cursor of this process replay() returns exactly the order's      *)
(* later events, in order, or 410 when one of them is no longer kept: other    *)
(* orders' events neither take part nor evict.                                 *)
ReplayIsExact ==
  \A o \in Orders, lastId \in 0..sequence :
    LET later == After(log[o], lastId) IN
    Replay(o, lastId) = IF Len(later) > capacity THEN Gone ELSE later

(* What an open stream has not delivered yet is exactly what the order        *)
(* published after the last event its client has seen: replay and             *)
(* subscription leave no gap and repeat nothing.                               *)
StreamsAreGapless ==
  \A s \in Streams : stream[s].at = "open" =>
    wire[s] = After(log[stream[s].o], stream[s].seen)

(* A socket that disconnected while its join was being checked is not listed *)
(* in the room afterwards.                                                     *)
GoneSocketsLeave == \A k \in Sockets : socket[k] = "gone" => rooms[k] = {}

(* The calls queued for an order are those changing it, each once; one that   *)
(* holds the row or has yet to publish is the first of them.                   *)
TurnsAreTaken ==
  /\ \A o \in Orders : \A i \in 1..Len(tails[o]) :
       /\ change[tails[o][i]].at # "idle" /\ change[tails[o][i]].o = o
       /\ \A j \in 1..Len(tails[o]) : tails[o][i] = tails[o][j] => i = j
  /\ \A c \in Calls : change[c].at # "idle" =>
       LET queue == tails[change[c].o] IN
       /\ \E i \in 1..Len(queue) : queue[i] = c
       /\ change[c].at \in {"locked", "committed", "invalidating"} => Head(queue) = c

(* So it found the status as the change before it left it. *)
FoundAsLeft ==
  \A c \in Calls :
    LET o == change[c].o IN
    /\ change[c].at = "locked" => change[c].previous = status[o]
    /\ change[c].at = "committed" /\ o \notin missed =>
         status[o] = change[c].want /\ change[c].previous = Before(o, Len(log[o]) + 1)

(* The ring holds the latest of an order's events, whose ids grow.            *)
RingKeepsLatest ==
  \A o \in Orders :
    LET ring == histories[o]
        n == Len(log[o])
    IN
    /\ \A i \in 1..n : /\ log[o][i].id \in 1..sequence
                      /\ \A j \in 1..(i - 1) : log[o][j].id < log[o][i].id
    /\ ring.size = IF n < capacity THEN n ELSE capacity
    /\ ring.evictedThrough = IF n <= capacity THEN 0 ELSE log[o][n - capacity].id
    /\ \A k \in 1..ring.size :
         ring.events[(ring.start + k - 1) % capacity] = log[o][n - ring.size + k]

(* The types and the invariants of the server's side, together. *)
FeedInv ==
  /\ FeedTypeOK /\ EventsFollowCommits /\ ReplayIsExact /\ GoneSocketsLeave
  /\ TurnsAreTaken /\ FoundAsLeft /\ RingKeepsLatest
  /\ \A s \in Streams : stream[s].at = "open" => stream[s].seen <= sequence

(* Whatever becomes of the changes before it, a queued change gets its turn   *)
(* and is answered, while the events fit the bound.                            *)
ChangesEnd ==
  \A c \in Calls : change[c].at = "queued" ~> (change[c] = Idle \/ sequence = MaxEvents)
=============================================================================
