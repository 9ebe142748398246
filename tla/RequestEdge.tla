---------------------------- MODULE RequestEdge ----------------------------
(***************************************************************************)
(* What a request passes before its handler (src/marketplace/src:            *)
(* configure-app.ts, redis/http.ts, redis/ratelimit.ts, redis/session.ts,     *)
(* redis/service.ts): the sliding-window limiter and the session middleware   *)
(* over one state Redis that several API processes share.  Every command may  *)
(* fail, applied or not, or be sent again; the requests of a client overlap.   *)
(***************************************************************************)
EXTENDS Integers, FiniteSets

CONSTANTS
  Requests, Clients,   \* requests, numbered as they arrive, and their addresses
  Sids,                \* session ids, the random ones drawn and those in cookies
  Admissions,          \* the limiter's limit
  Window, Second,      \* windowMs and a second, in ticks of the Redis clock
  Ttl,                 \* ttlSeconds, in ticks
  MaxClock,            \* bound on the clock
  MaxResends           \* bound on how often a request's commands are sent again

ASSUME EdgeAssumption ==
  /\ Requests \subseteq Nat \ {0} /\ IsFiniteSet(Sids) /\ {MaxClock, MaxResends} \subseteq Nat
  /\ {Admissions, Window, Second, Ttl} \subseteq Nat \ {0}

VARIABLES
  api,         \* whether the process serves, and whether REDIS_QUEUE_URL is set
  clock,       \* TIME of Redis
  req,         \* each request
  entries,     \* the sorted set of each client: requests, scored by entered
  entered,     \* when each was last let in (history once it has left its set)
  refusals,    \* history: what the limiter answered when it refused
  session,     \* each session's key: when it expires, and who created it
  resent       \* history: how often a command of each request ran and was sent again

edgeVars == <<api, clock, req, entries, entered, refusals, session, resent>>
limiterVars == <<entries, entered, refusals>>

None == "none"
NoOne == 0
Never == -1
Stages == {"new", "limiter", "session", "fresh", "handler", "tooMany", "unavailable"}
(* GET /session, another limited route, one with sessions only, a health one. *)
Routes == {"session", "products", "auth", "health"}
NewRequest == [at |-> "new", of |-> None, route |-> None, sid |-> None, touched |-> Never,
               made |-> NoOne]

EdgeTypeOK ==
  /\ api \in [is : {"starting", "up", "failed"}, state : BOOLEAN]
  /\ clock \in 0..MaxClock
  /\ req \in [Requests ->
       [at : Stages, of : Clients \cup {None}, route : Routes \cup {None},
        sid : Sids \cup {None}, touched : Never..MaxClock, made : Requests \cup {NoOne}]]
  /\ entries \in [Clients -> SUBSET Requests]
  /\ entered \in [Requests -> Never..MaxClock]
  /\ refusals \subseteq [of : Clients, until : Nat, seen : SUBSET Requests]
  /\ session \in [Sids -> [expires : 0..(MaxClock + Ttl), by : Requests \cup {NoOne}]]
  /\ resent \in [Requests -> 0..MaxResends]

EdgeInit ==
  /\ api \in [is : {"starting"}, state : BOOLEAN]
  /\ clock = 0
  /\ req = [r \in Requests |-> NewRequest]
  /\ entries = [c \in Clients |-> {}]
  /\ entered = [r \in Requests |-> Never]
  /\ refusals = {}
  /\ session = [s \in Sids |-> [expires |-> 0, by |-> NoOne]]
  /\ resent = [r \in Requests |-> 0]

-----------------------------------------------------------------------------
(* onModuleInit: a cache that is down is no obstacle, the state Redis is.    *)
Boot ==
  /\ api.is = "starting"
  /\ \/ api' = [api EXCEPT !.is = "up"]
     \/ api.state /\ api' = [api EXCEPT !.is = "failed"]
  /\ UNCHANGED <<clock, req, limiterVars, session, resent>>

Limited == {"session", "products"}
Create(r) == req[r].route = "session"

(* The middleware a request meets first; health routes meet none.  Only the   *)
(* session middleware reads the cookie, and one that no session ever had is as *)
(* good as none.  Without sessions the handler of GET /session answers 503.    *)
Arrive(r, c, route, cookie) ==
  /\ api.is = "up" /\ req[r].at = "new"
  /\ \A q \in Requests : q < r => req[q].at # "new"
  /\ cookie # None => session[cookie].by # NoOne /\ api.state /\ route # "health"
  /\ req' = [req EXCEPT ![r].of = c, ![r].route = route, ![r].sid = cookie,
       ![r].at = CASE route = "health" -> "handler"
                   [] ~api.state       -> IF route = "session" THEN "unavailable" ELSE "handler"
                   [] OTHER            -> IF route \in Limited THEN "limiter" ELSE "session"]
  /\ UNCHANGED <<api, clock, limiterVars, session, resent>>

(* The script, one command of Redis. *)
Client(r) == req[r].of
\* Current with a fault, for the checks.
CurrentLate(c) == {q \in entries[c] : entered[q] > clock - Window + 1}
Current(c) == {q \in entries[c] : entered[q] > clock - Window}
First(c) == CHOOSE t \in {entered[q] : q \in Current(c)} : \A q \in Current(c) : t <= entered[q]
CeilDiv(n, d) == (n + d - 1) \div d
RetryAfter(c) ==
  LET seconds == CeilDiv(First(c) + Window - clock, Second)
  IN IF seconds > 1 THEN seconds ELSE 1

Admit(r) ==
  /\ Cardinality(Current(Client(r))) < Admissions
  /\ entries' = [entries EXCEPT ![Client(r)] = Current(Client(r)) \cup {r}]
  /\ entered' = [entered EXCEPT ![r] = clock]
  /\ UNCHANGED refusals
Refused(r) ==
  /\ Cardinality(Current(Client(r))) >= Admissions
  /\ entries' = [entries EXCEPT ![Client(r)] = Current(Client(r))]
  /\ refusals' = refusals \cup {[of |-> Client(r), seen |-> Current(Client(r)),
                                 until |-> clock + Second * RetryAfter(Client(r))]}
  /\ UNCHANGED entered

Moves(r, from, to) == req[r].at = from /\ req' = [req EXCEPT ![r].at = to]

(* rateLimitMiddleware; an error, before or after the script ran, is a 503.  *)
Consume(r) ==
  /\ req[r].at = "limiter"
  /\ \/ Admit(r) /\ Moves(r, "limiter", "session")
     \/ Refused(r) /\ Moves(r, "limiter", "tooMany")
     \/ Admit(r) /\ Moves(r, "limiter", "unavailable")
     \/ UNCHANGED limiterVars /\ Moves(r, "limiter", "unavailable")
  /\ UNCHANGED <<api, clock, session, resent>>

-----------------------------------------------------------------------------
Live(s) == session[s].expires > clock
Known(r) == req[r].sid # None /\ Live(req[r].sid)
Extend(s) == session' = [session EXCEPT ![s].expires = clock + Ttl]
Make(r, s) == session' = [session EXCEPT ![s] = [expires |-> clock + Ttl, by |-> r]]
Holds(r, s, made, to) ==
  req' = [req EXCEPT ![r].at = to, ![r].sid = s, ![r].touched = clock, ![r].made = made]

(* sessionMiddleware: GETEX of the cookie's session slides its expiry...     *)
Touch(r) ==
  /\ req[r].at = "session" /\ Known(r)
  /\ Extend(req[r].sid)
  /\ \/ Holds(r, req[r].sid, session[req[r].sid].by, "handler")
     \/ Moves(r, "session", "unavailable")
  /\ UNCHANGED <<api, clock, limiterVars, resent>>

(* ... and without one only GET /session goes on to make one. *)
NoSession(r) ==
  /\ req[r].at = "session" /\ ~Known(r)
  /\ Moves(r, "session", IF Create(r) THEN "fresh" ELSE "handler")
  /\ UNCHANGED <<api, clock, limiterVars, session, resent>>

(* SET NX of a random id, again while it is taken. *)
Fresh(r, s) ==
  /\ req[r].at = "fresh" /\ ~Live(s)
  /\ Make(r, s)
  /\ \/ Holds(r, s, r, "handler")
     \/ Moves(r, "fresh", "unavailable")
  /\ UNCHANGED <<api, clock, limiterVars, resent>>

StoreFails(r) ==
  /\ \/ Moves(r, "session", "unavailable") /\ (req[r].sid # None \/ Create(r))
     \/ Moves(r, "fresh", "unavailable")
  /\ UNCHANGED <<api, clock, limiterVars, session, resent>>

(* A command ran, but the connection broke before its reply: ioredis sends it *)
(* again when the connection is back, so the request is where it was.  The     *)
(* script runs with the same member, GETEX once more, and the SET NX that finds *)
(* its own session answers as if the id were taken: the loop draws another.    *)
SentAgain(r) ==
  /\ resent[r] < MaxResends /\ resent' = [resent EXCEPT ![r] = @ + 1]
  /\ \/ req[r].at = "limiter" /\ Admit(r) /\ UNCHANGED session
     \/ req[r].at = "session" /\ Known(r) /\ Extend(req[r].sid) /\ UNCHANGED limiterVars
     \/ /\ req[r].at = "fresh" /\ UNCHANGED limiterVars
        /\ \E s \in Sids : ~Live(s) /\ Make(r, s)
  /\ UNCHANGED <<api, clock, req>>

EdgeTick ==
  /\ clock < MaxClock /\ clock' = clock + 1
  /\ UNCHANGED <<api, req, limiterVars, session, resent>>

EdgeNext ==
  \/ Boot \/ EdgeTick
  \/ \E r \in Requests :
       \/ \E c \in Clients, route \in Routes, cookie \in Sids \cup {None} :
            Arrive(r, c, route, cookie)
       \/ Consume(r) \/ Touch(r) \/ NoSession(r) \/ StoreFails(r) \/ SentAgain(r)
       \/ \E s \in Sids : Fresh(r, s)

EdgeSpec == EdgeInit /\ [][EdgeNext]_edgeVars

-----------------------------------------------------------------------------
(* In no window of time, wherever it starts, are more than the limit of a     *)
(* client's requests let in, however they are spread over processes.           *)
NoBurst ==
  \A c \in Clients, t \in 0..MaxClock :
    Cardinality({r \in Requests : /\ req[r].of = c /\ entered[r] # Never
                                  /\ entered[r] > t - Window /\ entered[r] <= t}) <= Admissions

(* Who waits as long as Retry-After says finds that a request which stood in *)
(* the way has left the window, or that its script ran again and was told so   *)
(* late: then it stands there anew.                                            *)
RetryAfterSuffices ==
  \A f \in refusals : clock >= f.until =>
    \E q \in f.seen : entered[q] + Window <= clock \/ resent[q] > 0

(* Anonymous state is made only by admitted requests of GET /session, one     *)
(* each and one more for every command that had to be sent again; and a        *)
(* request keeps the session it was given for its whole TTL.                    *)
MadeBy(r) == {s \in Sids : session[s].by = r}
SessionsAreEarned ==
  /\ \A s \in Sids : LET r == session[s].by IN r # NoOne => Create(r) /\ entered[r] # Never
  /\ \A r \in Requests : Cardinality(MadeBy(r)) <= 1 + resent[r]
  /\ \A r \in Requests : req[r].made # NoOne /\ clock < req[r].touched + Ttl =>
       session[req[r].sid].by = req[r].made /\ Live(req[r].sid)

(* A request is let in once unless its script ran again, and stays in its    *)
(* client's set for the window.                                               *)
WindowIsKept ==
  /\ \A r \in Requests :
       /\ req[r].at # "new" => req[r].of \in Clients
       /\ req[r].at \in {"new", "limiter"} => entered[r] = Never \/ resent[r] > 0
       /\ req[r].at = "new" => resent[r] = 0
       /\ entered[r] <= clock
       /\ entered[r] # Never /\ entered[r] > clock - Window => r \in entries[req[r].of]
  /\ IsFiniteSet({r \in Requests : entered[r] # Never})
  /\ \A c \in Clients :
       IsFiniteSet(entries[c]) /\ \A r \in entries[c] : entered[r] # Never

(* When a refusal ends, a request it counted has left the window or was let   *)
(* in again.                                                                    *)
RefusalsEnd ==
  \A f \in refusals : \E q \in f.seen :
    entered[q] # Never /\ (entered[q] + Window <= f.until \/ resent[q] > 0)

(* A request makes its session after the limiter let it in, as its last step; *)
(* the session it holds lasts a TTL from when it was given.                    *)
SessionsComeLast ==
  /\ \A r \in Requests :
       /\ req[r].at \in {"new", "limiter", "session", "fresh"} =>
            req[r].made = NoOne /\ Cardinality(MadeBy(r)) <= resent[r]
       /\ req[r].at \in {"new", "limiter", "session"} => MadeBy(r) = {}
       /\ req[r].at = "session" /\ Create(r) => entered[r] # Never
       /\ req[r].at = "fresh" => Create(r) /\ entered[r] # Never
       /\ req[r].touched <= clock
       /\ req[r].made # NoOne => req[r].sid \in Sids
       /\ req[r].made # NoOne /\ clock < req[r].touched + Ttl =>
            /\ session[req[r].sid].by = req[r].made
            /\ session[req[r].sid].expires >= req[r].touched + Ttl

EdgeInv ==
  /\ EdgeTypeOK /\ NoBurst /\ RetryAfterSuffices /\ SessionsAreEarned
  /\ WindowIsKept /\ RefusalsEnd /\ SessionsComeLast
=============================================================================
