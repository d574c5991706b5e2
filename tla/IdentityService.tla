--------------------------- MODULE IdentityService --------------------------
(***************************************************************************)
(* tools/identity_service.py: the pool of guest identities, the thread     *)
(* that refills it from a browser, and the main thread from warm-up to     *)
(* shutdown.  take() and depth() hold the pool's lock from end to end, so  *)
(* each is one step; a mint runs for seconds without the lock.             *)
(***************************************************************************)
EXTENDS Integers, SequencesExt

CONSTANTS
  Target,      \* --pool
  MaxUses,     \* --max-uses
  Ttl,         \* --ttl
  WarmUp,      \* --warmup, at most Target
  WarmUpTime,  \* --warmup-timeout
  Horizon,     \* bound: the clock stops here
  MaxFaults    \* bound: how often the browser dies or a service is stopped

ASSUME IdentityAssumption ==
  /\ {Target, MaxUses, Ttl, WarmUp, WarmUpTime, Horizon, MaxFaults} \subseteq Nat
  /\ Target > 0 /\ MaxUses > 0 /\ Ttl > 0 /\ WarmUp <= Target

VARIABLES
  now,
  pool,       \* _items: [id, uses, born], and as a history the `others` that were
              \* live when it was handed out and have not been since
  refill,     \* where the refill thread is
  browser,    \* _browser: "none", "live", or an object whose process is "dead"
  main,       \* where main() is
  since,      \* when it was started
  faults

identityVars == <<pool, refill, browser, main, since>>

IdentityInit ==
  /\ pool = <<>>
  /\ refill = "loop" /\ browser = "none"
  /\ main = "warming" /\ since = 0 /\ faults = 0

-----------------------------------------------------------------------------
(* The pool.                                                                *)

\* What is neither used up nor too old.
Usable(e) == e.uses < MaxUses /\ now - e.born < Ttl
Ids(items) == {items[i].id : i \in DOMAIN items}

\* What a list has at some of its positions.  (No SelectSeq: the provers know nothing
\* of what it returns.)
Picked(s, positions) ==
  LET upTo[n \in 0..Len(s)] ==
        IF n = 0 THEN <<>>
        ELSE IF n \in positions THEN Append(upTo[n - 1], s[n]) ELSE upTo[n - 1]
  IN upTo[Len(s)]

Live ==
  LET kept == Picked(pool, {i \in DOMAIN pool : Usable(pool[i])})
  IN [i \in DOMAIN kept |-> [kept[i] EXCEPT !.others = @ \cap Ids(kept)]]

Prune == pool' = Live

InPlace(items, item) == <<item>> \o Tail(items)
Rotated(items, item) == Append(Tail(items), item)

\* take() with something to give; the identity is the first one.
Take ==
  LET item == [Head(Live) EXCEPT !.uses = @ + 1, !.others = Ids(Tail(Live))]
      others == [i \in DOMAIN Live |-> [Live[i] EXCEPT !.others = @ \ {item.id}]]
  IN Live # <<>> /\ pool' = Rotated(others, item)

\* A mint's outcome is new; here it gets the least name that is free.
Stock ==
  LET free == CHOOSE n \in 1..(Len(pool) + 1) :
                n \notin Ids(pool) /\ 1..(n - 1) \subseteq Ids(pool)
  IN pool' = Append(pool, [id |-> free, uses |-> 0, born |-> now, others |-> {}])

-----------------------------------------------------------------------------
(* The refill thread.                                                       *)

Stopping == main \notin {"warming", "serving"}

\* The top of _refill_once's loop, or of _loop's.
RefillLooks ==
  /\ refill = "loop"
  /\ IF Stopping THEN refill' = "ended" /\ UNCHANGED pool
     ELSE /\ Prune
          /\ refill' = IF Len(Live) < Target THEN "browser" ELSE "waiting"
  /\ UNCHANGED <<browser, main, since>>

RefillWakes ==
  /\ refill = "waiting" /\ refill' = "loop"
  /\ UNCHANGED <<pool, browser, main, since>>

\* _ensure_browser: a browser that is alive is kept, a dead one is closed first.
Present == browser # "none"
Alive == browser = "live"

BrowserIsKept ==
  /\ refill = "browser" /\ Alive /\ refill' = "page"
  /\ UNCHANGED <<pool, browser, main, since>>

BrowserStarts ==
  /\ refill = "browser" /\ ~Alive
  /\ browser' = "live" /\ refill' = "page"
  /\ UNCHANGED <<pool, main, since>>

BrowserDoesNotStart ==
  /\ refill = "browser" /\ ~Alive
  /\ browser' = "none" /\ refill' = "waiting"
  /\ UNCHANGED <<pool, main, since>>

\* A page of a new context gives all three fields, or the mint fails and the thread
\* waits for its next round.
PageGivesIdentity ==
  /\ refill = "page" /\ browser = "live" /\ refill' = "stock"
  /\ UNCHANGED <<pool, browser, main, since>>

MintFails ==
  /\ refill = "page" /\ refill' = "waiting"
  /\ UNCHANGED <<pool, browser, main, since>>

RefillStocks ==
  /\ refill = "stock" /\ refill' = "loop"
  /\ Stock
  /\ UNCHANGED <<browser, main, since>>

RefillStep == RefillLooks \/ RefillWakes \/ BrowserIsKept \/ RefillStocks
RefillFails == BrowserDoesNotStart \/ MintFails

BrowserDies ==
  /\ browser = "live"
  /\ browser' = "dead"
  /\ UNCHANGED <<pool, refill, main, since>>

-----------------------------------------------------------------------------
(* main().                                                                  *)

\* Enough identities, or the wait is over: the service serves either way.
Listens ==
  /\ main = "warming"
  /\ Len(Live) >= WarmUp \/ now >= since + WarmUpTime
  /\ main' = "serving" /\ Prune
  /\ UNCHANGED <<refill, browser, since>>

Health ==
  /\ main = "serving" /\ Live # pool /\ Prune
  /\ UNCHANGED <<refill, browser, main, since>>

Interrupted ==
  /\ main = "serving"
  /\ main' = "stopping"
  /\ UNCHANGED <<pool, refill, browser, since>>

\* pool.stop() waits for the thread for five seconds, and goes on without it.
ClosesBrowser ==
  /\ main = "stopping" /\ main' = "closed"
  /\ browser' = "none"
  /\ UNCHANGED <<pool, refill, since>>

\* The process ends with whatever threads it has, and a new one is started.
Reborn ==
  /\ main' = "warming" /\ since' = now
  /\ pool' = <<>> /\ refill' = "loop" /\ browser' = "none"

IdentityRestarts == main = "closed" /\ Reborn
IdentityKilled == main \in {"warming", "serving"} /\ Reborn

MainStep == Listens \/ ClosesBrowser \/ IdentityRestarts

IdentityTypeOK ==
  /\ Len(pool) <= Target
  /\ \A i, j \in DOMAIN pool : i # j => pool[i].id # pool[j].id
  /\ \A i \in DOMAIN pool : pool[i].uses \in 0..MaxUses /\ pool[i].born \in 0..now
  /\ refill \in {"loop", "waiting", "browser", "page", "stock", "ended"}
  /\ browser \in {"none", "live", "dead"}
  /\ main \in {"warming", "serving", "stopping", "closed"}
  /\ since \in 0..now 
=============================================================================
