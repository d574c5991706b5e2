----------------------------- MODULE StateStore -----------------------------
(***************************************************************************)
(* StateStore of adapter/state_store.py, one instance per worker over one  *)
(* Redis: counters for the rate limiter and the turns of the responses     *)
(* chain.  A command that fails puts the worker on its own memory until    *)
(* the retry time, which a successful health probe clears.                 *)
(***************************************************************************)
EXTENDS Integers, FiniteSets

CONSTANTS
  Workers,
  Turns,         \* the ids of responses: one per request
  CounterKeys,   \* a caller and a window
  CounterTTL,    \* the `ttl` of incr_window
  TurnTTL,       \* settings.resp_ctx_ttl
  RetryAfter,    \* _REDIS_RETRY_AFTER
  Horizon,       \* bound: the clock stops here
  MaxFaults      \* bound: commands that fail, and worker restarts

ASSUME StoreAssumption ==
  /\ {CounterTTL, TurnTTL, RetryAfter, Horizon, MaxFaults} \subseteq Nat
  /\ CounterTTL > 0 /\ TurnTTL > 0 /\ RetryAfter > 0

VARIABLES
  now,
  shared,   \* Redis: the counters, with the time they expire
  turns,    \* Redis: the time each turn expires, 0 for a turn it does not hold
  mem,      \* _mem of each worker, likewise
  retryAt,  \* _redis_retry_at of each worker
  faults,
  lives     \* history: the counters that were ever started for a key

storeVars == <<now, shared, turns, mem, retryAt, faults, lives>>

\* A counter without a TTL stays for good.
Forever == Horizon + CounterTTL + 1
NoCounter == [n |-> 0, until |-> 0]

StoreInit ==
  /\ now = 0
  /\ shared = [k \in CounterKeys |-> NoCounter]
  /\ turns = [t \in Turns |-> 0]
  /\ mem = [w \in Workers |-> [t \in Turns |-> 0]]
  /\ retryAt = [w \in Workers |-> 0]
  /\ faults = 0
  /\ lives = [k \in CounterKeys |-> 0]

-----------------------------------------------------------------------------
ReadyAgain(w) == now > retryAt[w]
Ready(w) == now >= retryAt[w]

\* Whatever the command was, its failure starts the backoff anew.
MarkDown(w) ==
  /\ faults < MaxFaults
  /\ faults' = faults + 1
  /\ retryAt' = [retryAt EXCEPT ![w] = now + RetryAfter]

\* INCR, at the server.
Incremented(k) == IF shared[k].n = 0 THEN [n |-> 1, until |-> Forever]
                  ELSE [shared[k] EXCEPT !.n = @ + 1]
Incr(k) ==
  /\ shared' = [shared EXCEPT ![k] = Incremented(k)]
  /\ lives' = IF shared[k].n = 0 THEN [lives EXCEPT ![k] = @ + 1] ELSE lives

\* EXPIRE, at the server; a counter that is gone has nothing to expire.
Expire(k) ==
  shared' = [shared EXCEPT ![k].until = IF shared[k].n = 0 THEN 0 ELSE now + CounterTTL]

SharedHas(t) == turns[t] > now
MemHas(w, t) == mem[w][t] # 0 /\ mem[w][t] >= now

SetShared(t) == turns' = [turns EXCEPT ![t] = now + TurnTTL]
SetMem(w, t) == mem' = [mem EXCEPT ![w][t] = now + TurnTTL]

\* The health probe of a worker: answered, it ends the backoff; not answered in
\* time, it changes nothing.
Ping(w) ==
  /\ retryAt' = [retryAt EXCEPT ![w] = 0]
  /\ UNCHANGED <<now, shared, turns, mem, faults, lives>>

\* A worker is restarted: its memory and its backoff are gone.
StoreRestart(w) ==
  /\ faults < MaxFaults
  /\ faults' = faults + 1
  /\ mem' = [mem EXCEPT ![w] = [t \in Turns |-> 0]]
  /\ retryAt' = [retryAt EXCEPT ![w] = 0]
  /\ UNCHANGED <<now, shared, turns, lives>>

\* Time passes, and Redis drops what has expired.
StoreTick ==
  /\ now < Horizon
  /\ now' = now + 1
  /\ shared' = [k \in CounterKeys |->
                 IF shared[k].until > now' THEN shared[k] ELSE NoCounter]
  /\ turns' = [t \in Turns |-> IF turns[t] > now' THEN turns[t] ELSE 0]
  /\ UNCHANGED <<mem, retryAt, faults, lives>>

StoreTypeOK ==
  /\ now \in 0..Horizon
  /\ shared \in [CounterKeys -> [n : Nat, until : 0..Forever]]
  /\ turns \in [Turns -> Nat] /\ mem \in [Workers -> [Turns -> Nat]]
  /\ retryAt \in [Workers -> Nat]
  /\ faults \in 0..MaxFaults
  /\ lives \in [CounterKeys -> Nat]
=============================================================================
