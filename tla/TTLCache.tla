------------------------------- MODULE TTLCache -------------------------------
(***************************************************************************)
(* TTLCache of context.py: the in-process byte cache that the scripts of   *)
(* every request of a worker share when Redis is not configured.  Each     *)
(* operation runs under the lock, so it is one step.                       *)
(***************************************************************************)
EXTENDS Integers, SequencesExt

CONSTANTS
  Keys,
  Values,      \* the byte strings scripts store
  Size,        \* the length of each value
  MaxEntries,  \* TTLCache(max_entries=...)
  MaxBytes,    \* settings.asset_cache_max_bytes
  TTLs         \* the `ex` arguments

ASSUME CacheAssumption ==
  /\ Size \in [Values -> Nat]
  /\ MaxEntries \in Nat \ {0} /\ MaxBytes \in Nat \ {0}
  /\ TTLs \subseteq Nat /\ TTLs # {}

VARIABLES
  entries,  \* _entries, least recently used first
  bytes,    \* _bytes
  latest,   \* history: the last value set for each key, "none" before that
  recency   \* history: the pairs of keys <<k, l>> of which l was set or hit last

cacheVars == <<entries, bytes, latest, recency>>

\* `left` is expires_at minus the time; an entry is served while it is not
\* negative, and how long it has been expired does not matter.
Expired == -1
Entry == [key : Keys, value : Values, left : Nat \cup {Expired}]

CacheInit ==
  /\ entries = <<>>
  /\ bytes = 0
  /\ latest = [k \in Keys |-> "none"]
  /\ recency = {}

-----------------------------------------------------------------------------
Holds(k) == \E i \in DOMAIN entries : entries[i].key = k
Position(k) == CHOOSE i \in DOMAIN entries : entries[i].key = k
EntryOf(k) == entries[Position(k)]
Without(k) == IF Holds(k) THEN RemoveAt(entries, Position(k)) ELSE entries

\* What the first n entries hold, for each n, and all of them.
Sums(s) ==
  LET sum[n \in 0..Len(s)] == IF n = 0 THEN 0 ELSE sum[n - 1] + Size[s[n].value]
  IN sum
Bytes(s) == Sums(s)[Len(s)]

Touch(k) ==
  recency' = {p \in recency : k \notin {p[1], p[2]}} \cup ((Keys \ {k}) \X {k})

\* A hit makes the entry the most recently used one.
KeptInPlace(k) == entries
Refreshed(k) == Append(Without(k), EntryOf(k))

Hit(k) ==
  /\ Holds(k)
  /\ EntryOf(k).left # Expired
  /\ entries' = Refreshed(k)
  /\ Touch(k)
  /\ UNCHANGED <<bytes, latest>>

Miss(k) == ~Holds(k) /\ UNCHANGED cacheVars

\* An expired entry is dropped by the get that finds it, and not before.
Expire(k) ==
  /\ Holds(k)
  /\ EntryOf(k).left = Expired
  /\ entries' = Without(k)
  /\ bytes' = bytes - Size[EntryOf(k).value]
  /\ UNCHANGED <<latest, recency>>

Get(k) == Hit(k) \/ Miss(k) \/ Expire(k)

\* What set() gives back for the entry it replaces.
NothingFreed(k) == 0
Freed(k) == IF Holds(k) THEN Size[EntryOf(k).value] ELSE 0

OnlyEntriesCount(s, total) == Len(s) > MaxEntries
OverLimit(s, total) == Len(s) > MaxEntries \/ total > MaxBytes

\* The first i entries go, while there are any and a limit is exceeded.
EvictFirst(i, s, total) ==
  LET rest(j) == SubSeq(s, j + 1, Len(s))
      left(j) == total - Sums(s)[j]
  IN  /\ \A j \in 0..(i - 1) : OverLimit(rest(j), left(j))
      /\ i = Len(s) \/ ~OverLimit(rest(i), left(i))
      /\ entries' = rest(i)
      /\ bytes' = left(i)

\* The old value goes first, so it is gone even if the new one is refused.
TooBig(v) == Size[v] > MaxBytes
RefuseBeforeDropping(k) == UNCHANGED <<entries, bytes>>
Drop(k) == entries' = Without(k) /\ bytes' = bytes - Freed(k)

Set(k, v, ttl) ==
  /\ latest' = [latest EXCEPT ![k] = v]
  /\ IF TooBig(v)
       THEN Drop(k) /\ UNCHANGED recency
       ELSE LET added == Append(Without(k), [key |-> k, value |-> v, left |-> ttl])
            IN  /\ \E i \in 0..Len(added) :
                     EvictFirst(i, added, bytes - Freed(k) + Size[v])
                /\ Touch(k)

\* aclose() at shutdown, which nothing outlives.
Close ==
  /\ entries' = <<>>
  /\ bytes' = 0
  /\ UNCHANGED <<latest, recency>>

AgeEntries ==
  /\ entries' = [i \in DOMAIN entries |->
       [entries[i] EXCEPT !.left = IF @ = Expired THEN @ ELSE @ - 1]]
  /\ UNCHANGED <<bytes, latest, recency>>

CacheNext ==
  \/ \E k \in Keys : Get(k)
  \/ \E k \in Keys, v \in Values, ttl \in TTLs : Set(k, v, ttl)
  \/ Close
  \/ AgeEntries

CacheSpec == CacheInit /\ [][CacheNext]_cacheVars

-----------------------------------------------------------------------------
\* Every variable stays in its type, and a key has one entry at most.
CacheTypeOK ==
  /\ \A i \in DOMAIN entries : entries[i] \in Entry
  /\ \A i, j \in DOMAIN entries : entries[i].key = entries[j].key => i = j
  /\ bytes \in Nat
  /\ latest \in [Keys -> Values \cup {"none"}]
  /\ recency \subseteq Keys \X Keys /\ \A p \in recency : <<p[2], p[1]>> \notin recency

\* The running byte count is the sum over the entries, through replacements,
\* refusals, evictions and expiries: drift would end in a cache that evicts
\* everything or that never evicts.  (Within the type invariant.)
BytesAreAccounted == CacheTypeOK /\ bytes = Bytes(entries)

\* "an unbounded dict ... grew without limit": neither limit is ever exceeded.
WithinLimits == Len(entries) <= MaxEntries /\ Bytes(entries) <= MaxBytes

\* What a get can return is the value last set for the key, never one that a
\* later set has replaced, not even a set that was refused for its size.
NeverStale == \A i \in DOMAIN entries : entries[i].value = latest[entries[i].key]

\* A set keeps what it stores, and gives up the least recently used keys only.
UsedBefore(k, l) == <<k, l>> \in recency
KeysIn(s) == {s[i].key : i \in DOMAIN s}
EvictsLeastRecent ==
  [][\A k \in Keys, v \in Values, ttl \in TTLs :
       (Set(k, v, ttl) /\ Size[v] <= MaxBytes) =>
         /\ k \in KeysIn(entries')
         /\ \A out \in KeysIn(entries) \ KeysIn(entries'), kept \in KeysIn(entries') \ {k} :
              UsedBefore(out, kept)]_cacheVars
===============================================================================
