---------------------------- MODULE WorkerFront -----------------------------
(***************************************************************************)
(* The requests of POST /v1/responses in the workers of one service: the   *)
(* rate limiter of middleware/rate_limit.py, then the state chain of       *)
(* api/responses.py, both over the StateStore.  An action is what the      *)
(* coroutine does between two awaits, or what Redis does with a command.   *)
(***************************************************************************)
EXTENDS StateStore

CONSTANTS
  Callers,       \* Authorization values
  Limit,         \* settings.rate_limit_per_minute
  Window,        \* the seconds of a window
  MaxLocal,      \* the local table is cleared when it holds more keys
  MaxResends     \* bound: INCRs the client library sends once more

ASSUME FrontAssumption ==
  /\ {Limit, Window, MaxLocal, MaxResends} \subseteq Nat
  /\ Limit > 0 /\ Window > 0
  /\ CounterKeys = Callers \X (0..(Horizon \div Window))

VARIABLES
  req,       \* the coroutines, see Coroutine; their names are the ids of turns
  home,      \* the worker a request runs in
  caller,    \* its Authorization value
  buckets,   \* _local_counters of each worker: the length of each bucket
  resends,
  arrived,   \* history: requests that entered the limiter, by key
  admitted,  \* history: those of them that were let through
  stored     \* history: until when each turn was kept

frontVars == <<req, home, caller, buckets, resends, arrived, admitted, stored>>
vars == <<storeVars, frontVars>>

Requests == Turns
None == "none"

\* A coroutine: where it is, the window it arrived in, the count it got from
\* Redis, the id its client passes and whether that turn was found.
Coroutine(where) ==
  [pc |-> where, window |-> 0, count |-> 0, previous |-> None, found |-> FALSE]

At(c, where) == [c EXCEPT !.pc = where]
Steps(r, c) == req' = [req EXCEPT ![r] = c]

Init ==
  /\ StoreInit
  /\ req = [r \in Requests |-> Coroutine("new")]
  /\ home \in [Requests -> Workers]
  /\ caller \in [Requests -> Callers]
  /\ buckets = [w \in Workers |-> [k \in CounterKeys |-> 0]]
  /\ resends = 0
  /\ arrived = [k \in CounterKeys |-> 0]
  /\ admitted = [k \in CounterKeys |-> 0]
  /\ stored = [r \in Requests |-> 0]

-----------------------------------------------------------------------------
(* The rate limiter.                                                        *)

WholeHistoryKey(r, window) == <<caller[r], 0>>
KeyOf(r, window) == <<caller[r], window>>
Key(r) == KeyOf(r, req[r].window)

\* What follows the limiter: the chain is read only for a client that passes an
\* id, and by the worker itself while it does without Redis.
Chain(w, c, ready) ==
  IF c.previous = None THEN At(c, "work")
  ELSE IF ready THEN At(c, "get")
  ELSE [At(c, "work") EXCEPT !.found = MemHas(w, c.previous)]

LetThroughUpTo(count) == count <= Limit + 1
LetThrough(count) == count <= Limit

Decide(r, c, k, count, ready) ==
  IF LetThrough(count)
    THEN Steps(r, Chain(home[r], c, ready)) /\ admitted' = [admitted EXCEPT ![k] = @ + 1]
    ELSE Steps(r, At(c, "rejected")) /\ UNCHANGED admitted

\* The request is counted in its worker.  A table that has grown too large is
\* cleared after the count, whatever it holds.
Counted(w, k) ==
  LET held == [buckets[w] EXCEPT ![k] = @ + 1]
  IN IF Cardinality({j \in CounterKeys : held[j] > 0}) > MaxLocal
     THEN [j \in CounterKeys |-> 0] ELSE held

Started(w, k) == IF buckets[w][k] = 0 THEN [lives EXCEPT ![k] = @ + 1] ELSE lives

\* incr_window gave no count, so its worker does without Redis for now.
CountLocally(r, c, k) ==
  /\ buckets' = [buckets EXCEPT ![home[r]] = Counted(home[r], k)]
  /\ lives' = Started(home[r], k)
  /\ Decide(r, c, k, buckets[home[r]][k] + 1, FALSE)

\* A client passes no id, or the id of a response it was given.
Arrive(r) ==
  /\ req[r].pc = "new"
  /\ \E p \in {None} \cup {q \in Requests : req[q].pc = "done"} :
       LET c == [req[r] EXCEPT !.window = now \div Window, !.previous = p]
           k == KeyOf(r, now \div Window)
       IN /\ arrived' = [arrived EXCEPT ![<<caller[r], now \div Window>>] = @ + 1]
          /\ IF Ready(home[r])
               THEN Steps(r, At(c, "incr")) /\ UNCHANGED <<admitted, buckets, lives>>
               ELSE CountLocally(r, c, k)
  /\ UNCHANGED <<now, shared, turns, mem, retryAt, faults, home, caller, resends, stored>>

IncrApplied(r) ==
  /\ req[r].pc = "incr"
  /\ Incr(Key(r))
  /\ Steps(r, [At(req[r], "counted") EXCEPT !.count = Incremented(Key(r)).n])
  /\ UNCHANGED <<now, turns, mem, retryAt, faults, home, caller, buckets, resends, arrived,
                 admitted, stored>>

\* The first count of a counter gives it its TTL before it is used.
IncrAnswers(r) ==
  /\ req[r].pc = "counted"
  /\ IF req[r].count = 1 THEN Steps(r, At(req[r], "expire")) /\ UNCHANGED admitted
     ELSE Decide(r, [req[r] EXCEPT !.count = 0], Key(r), req[r].count,
             Ready(home[r]))
  /\ UNCHANGED <<storeVars, home, caller, buckets, resends, arrived, stored>>

\* The connection breaks before the answer, and the client library sends the
\* command again.
IncrSentAgain(r) ==
  /\ req[r].pc = "counted"
  /\ resends < MaxResends
  /\ resends' = resends + 1
  /\ Steps(r, [At(req[r], "incr") EXCEPT !.count = 0])
  /\ UNCHANGED <<storeVars, home, caller, buckets, arrived, admitted, stored>>

ExpireAnswers(r) ==
  /\ req[r].pc = "expire"
  /\ Expire(Key(r))
  /\ Decide(r, [req[r] EXCEPT !.count = 0], Key(r), req[r].count,
             Ready(home[r]))
  /\ UNCHANGED <<now, turns, mem, retryAt, faults, lives, home, caller, buckets, resends,
                 arrived, stored>>

\* INCR or EXPIRE fails, whether it was carried out or not: the worker counts
\* the request itself.
CountFails(r) ==
  /\ req[r].pc \in {"incr", "counted", "expire"}
  /\ MarkDown(home[r])
  /\ \/ req[r].pc = "expire" /\ Expire(Key(r))
     \/ UNCHANGED shared
  /\ CountLocally(r, [req[r] EXCEPT !.count = 0], Key(r))
  /\ UNCHANGED <<now, turns, mem, home, caller, resends, arrived, stored>>

-----------------------------------------------------------------------------
(* The state chain.                                                         *)

GetAnswers(r) ==
  /\ req[r].pc = "get"
  /\ Steps(r, [At(req[r], "work") EXCEPT !.found = SharedHas(req[r].previous)])
  /\ UNCHANGED <<storeVars, home, caller, buckets, resends, arrived, admitted, stored>>

GetFails(r) ==
  /\ req[r].pc = "get"
  /\ MarkDown(home[r])
  /\ Steps(r, [At(req[r], "work") EXCEPT !.found = MemHas(home[r], req[r].previous)])
  /\ UNCHANGED <<now, shared, turns, mem, lives, home, caller, buckets, resends, arrived,
                 admitted, stored>>

\* adapt() answers or raises; an answer's turn is stored before the client has it.
Keep(r) == stored' = [stored EXCEPT ![r] = now + TurnTTL]

Adapted(r) ==
  /\ req[r].pc = "work"
  /\ \/ /\ Ready(home[r])
        /\ Steps(r, At(Coroutine("set"), "set"))
        /\ UNCHANGED <<mem, stored>>
     \/ /\ ~Ready(home[r])
        /\ SetMem(home[r], r)
        /\ Keep(r)
        /\ Steps(r, Coroutine("done"))
     \/ /\ Steps(r, Coroutine("failed"))
        /\ UNCHANGED <<mem, stored>>
  /\ UNCHANGED <<now, shared, turns, retryAt, faults, lives, home, caller, buckets, resends,
                 arrived, admitted>>

SetAnswers(r) ==
  /\ req[r].pc = "set"
  /\ SetShared(r)
  /\ Keep(r)
  /\ Steps(r, Coroutine("done"))
  /\ UNCHANGED <<now, shared, mem, retryAt, faults, lives, home, caller, buckets, resends,
                 arrived, admitted>>

SetFails(r) ==
  /\ req[r].pc = "set"
  /\ MarkDown(home[r])
  /\ SetShared(r) \/ UNCHANGED turns
  /\ SetMem(home[r], r)
  /\ Keep(r)
  /\ Steps(r, Coroutine("done"))
  /\ UNCHANGED <<now, shared, lives, home, caller, buckets, resends, arrived, admitted>>

-----------------------------------------------------------------------------
Ended == {"done", "failed", "rejected"}

Restart(w) ==
  /\ StoreRestart(w)
  /\ buckets' = [buckets EXCEPT ![w] = [k \in CounterKeys |-> 0]]
  /\ req' = [r \in Requests |->
              IF home[r] = w /\ req[r].pc \notin Ended \cup {"new"}
              THEN Coroutine("failed") ELSE req[r]]
  /\ UNCHANGED <<home, caller, resends, arrived, admitted, stored>>

HealthProbe(w) == Ping(w) /\ UNCHANGED frontVars
Tick == StoreTick /\ UNCHANGED frontVars
Finished == (\A r \in Requests : req[r].pc \in Ended) /\ UNCHANGED vars

Next ==
  \/ \E r \in Requests :
       \/ Arrive(r) \/ IncrApplied(r) \/ IncrAnswers(r) \/ IncrSentAgain(r)
       \/ ExpireAnswers(r) \/ CountFails(r)
       \/ GetAnswers(r) \/ GetFails(r) \/ Adapted(r) \/ SetAnswers(r) \/ SetFails(r)
  \/ \E w \in Workers : Restart(w) \/ HealthProbe(w)
  \/ Tick
  \/ Finished

Spec == Init /\ [][Next]_vars

-----------------------------------------------------------------------------
Coroutines ==
  [pc : Ended \cup {"new", "incr", "counted", "expire", "get", "work", "set"},
   window : 0..Horizon, count : Nat, previous : Requests \cup {None}, found : BOOLEAN]

\* The store, the coroutines, the local tables and the histories keep their types.
TypeOK ==
  /\ StoreTypeOK
  /\ req \in [Requests -> Coroutines]
  /\ home \in [Requests -> Workers] /\ caller \in [Requests -> Callers]
  /\ buckets \in [Workers -> [CounterKeys -> Nat]]
  /\ resends \in 0..MaxResends
  /\ arrived \in [CounterKeys -> Nat] /\ admitted \in [CounterKeys -> Nat]
  /\ stored \in [Requests -> Nat]

\* The ceiling.  A caller gets through a window Limit times for every counter
\* that was started for it: one in Redis, and one more for each worker that had
\* to count by itself, for each table that was cleared or lost with its worker,
\* and for each counter that expired under a late request.
AdmittedWithinCounters ==
  /\ TypeOK
  /\ \A k \in CounterKeys : admitted[k] <= Limit * lives[k]

\* Nobody is turned away for what others did, in another window, or twice for the
\* same request: a rejection means that the caller's own requests of that window,
\* and the commands that were sent again, exceed the limit.
RejectedForOwnRequests ==
  \A r \in Requests :
     req[r].pc = "rejected" =>
       arrived[<<caller[r], req[r].window>>] + resends > Limit

\* While nothing fails, a client that passes the id of a response finds its turn
\* from any worker until it expires.
ChainHolds ==
  \A r \in Requests :
     (faults = 0 /\ req[r].pc = "work" /\ req[r].previous # None
        /\ now < stored[req[r].previous]) => req[r].found
=============================================================================
