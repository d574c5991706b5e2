-------------------------- MODULE WorkerFront_proofs --------------------------
(***************************************************************************)
(* Proofs about WorkerFront, for any number of workers, requests, callers  *)
(* and windows, any limit and any place of the failures: the ceiling on    *)
(* what a caller gets through a window, that nobody is rejected for what   *)
(* others did, and that the chain of turns holds while nothing fails.      *)
(*                                                                         *)
(* The ceiling is a balance.  A counter that is started, in Redis or in a  *)
(* worker, brings Limit places; a place is free, asked for by a request    *)
(* that has its count but no decision yet, or taken.                       *)
(***************************************************************************)
EXTENDS WorkerFront, FiniteSetTheorems, TLAPS

USE StoreAssumption, FrontAssumption

\* The requests that hold a count of Redis which will let them through.
Numbered == {"counted", "expire"}
Asked(k) ==
  {r \in Requests : Key(r) = k /\ req[r].pc \in Numbered /\ LetThrough(req[r].count)}

\* The places left in the counter of Redis, and in those of the workers.
Left(n) == IF n \in 1..Limit THEN Limit - n ELSE 0
FreeLocally(k) ==
  {f \in Workers \X (1..Limit) : buckets[f[1]][k] > 0 /\ f[2] > buckets[f[1]][k]}

\* The requests whose INCR is on its way, and those that a worker may still have to
\* count itself.
Asking(k) == {r \in Requests : Key(r) = k /\ req[r].pc = "incr"}
Counting(w, k) ==
  {r \in Requests : Key(r) = k /\ home[r] = w /\ req[r].pc \in {"incr"} \cup Numbered}

Balance(k) ==
  /\ IsFiniteSet(Asked(k)) /\ IsFiniteSet(FreeLocally(k))
  /\ admitted[k] + Cardinality(Asked(k)) + Left(shared[k].n) + Cardinality(FreeLocally(k))
       <= Limit * lives[k]

\* No counter is ahead of the requests of its key and the commands sent again.
OwnCounts(k) ==
  /\ IsFiniteSet(Asking(k))
  /\ shared[k].n + Cardinality(Asking(k)) <= arrived[k] + resends
  /\ \A w \in Workers : /\ IsFiniteSet(Counting(w, k))
                        /\ buckets[w][k] + Cardinality(Counting(w, k)) <= arrived[k]

OwnCount(r) ==
  /\ req[r].window \in 0..(Horizon \div Window)
  /\ req[r].pc \in Numbered => req[r].count <= arrived[Key(r)] + resends
  /\ req[r].pc = "rejected" => arrived[Key(r)] + resends > Limit

\* An id that a client passes is that of an answered request; and while nothing fails
\* every worker uses Redis, which holds the turns it was given until they expire.
Follows(r) == req[r].previous # None => /\ req[r].previous \in Requests
                                        /\ req[req[r].previous].pc = "done"
Chained ==
  faults = 0 => /\ \A w \in Workers : retryAt[w] = 0
                /\ \A t \in Turns : now < stored[t] => turns[t] = stored[t]

FrontInv ==
  /\ TypeOK
  /\ \A k \in CounterKeys : Balance(k) /\ OwnCounts(k)
  /\ \A r \in Requests : OwnCount(r) /\ Follows(r)
  /\ Chained /\ ChainHolds

-----------------------------------------------------------------------------
(* Numbers of places, and of the sets they are counted in.                  *)

\* A set with no more members, with one more at most, and with one less.
LEMMA Fewer ==
  ASSUME NEW S, NEW T, IsFiniteSet(S), T \subseteq S
  PROVE  /\ IsFiniteSet(T) /\ Cardinality(S) \in Nat /\ Cardinality(T) \in Nat
         /\ Cardinality(T) <= Cardinality(S)
BY FS_Subset, FS_CardinalityType

LEMMA OneMore ==
  ASSUME NEW S, NEW T, NEW x, IsFiniteSet(S), T \subseteq S \cup {x}
  PROVE  /\ IsFiniteSet(T) /\ Cardinality(S) \in Nat /\ Cardinality(T) \in Nat
         /\ Cardinality(T) <= Cardinality(S) + 1
<1>1. /\ IsFiniteSet(S \cup {x}) /\ Cardinality(S) \in Nat
      /\ Cardinality(S \cup {x}) <= Cardinality(S) + 1
  <2>1. Cardinality(S) \in Nat
    BY FS_CardinalityType
  <2>2. /\ IsFiniteSet(S \cup {x})
        /\ Cardinality(S \cup {x}) \in {Cardinality(S), Cardinality(S) + 1}
    BY FS_AddElement
  <2> QED
    BY <2>1, <2>2
<1>2. /\ IsFiniteSet(T) /\ Cardinality(T) \in Nat /\ Cardinality(S \cup {x}) \in Nat
      /\ Cardinality(T) <= Cardinality(S \cup {x})
  BY <1>1, Fewer
<1> QED
  BY <1>1, <1>2

LEMMA OneLess ==
  ASSUME NEW S, NEW T, NEW x \in S, IsFiniteSet(S), T \subseteq S \ {x}
  PROVE  /\ IsFiniteSet(T) /\ Cardinality(S) \in Nat /\ Cardinality(T) \in Nat
         /\ Cardinality(T) + 1 <= Cardinality(S)
<1>1. /\ IsFiniteSet(S \ {x}) /\ Cardinality(S) \in Nat
      /\ Cardinality(S \ {x}) = Cardinality(S) - 1
  BY FS_RemoveElement, FS_CardinalityType
<1>2. /\ IsFiniteSet(T) /\ Cardinality(T) \in Nat
      /\ Cardinality(T) <= Cardinality(S \ {x})
  BY <1>1, Fewer
<1> QED
  BY <1>1, <1>2

\* A counter that is started brings Limit places, of which each count takes one.
LEMMA PlacesOfCounter ==
  /\ \A l \in Nat : Limit * l \in Nat /\ Limit * (l + 1) = Limit * l + Limit
  /\ \A n \in Nat : Left(n) \in Nat
  /\ Left(0) = 0 /\ Left(1) = Limit - 1
  /\ \A n \in Nat : n > 0 => IF n + 1 <= Limit THEN Left(n + 1) = Left(n) - 1
                                             ELSE Left(n + 1) = 0
BY DEF Left

LEMMA NextPlace ==
  ASSUME NEW n \in Nat, NEW l \in Nat
  PROVE  /\ Limit * (l + 1) = Limit * l + Limit
         /\ n = 0 => Left(n) = 0 /\ Left(n + 1) = Limit - 1
         /\ n # 0 /\ n + 1 <= Limit => Left(n + 1) = Left(n) - 1
         /\ ~(n + 1 <= Limit) => Left(n + 1) = 0 /\ n # 0
BY DEF Left

\* A key names a caller and a window of the clock.
LEMMA KeyTyped ==
  ASSUME TypeOK, NEW r \in Requests
  PROVE  /\ now \div Window \in 0..Horizon /\ now \div Window \in 0..(Horizon \div Window)
         /\ \A i \in 0..(Horizon \div Window) : KeyOf(r, i) \in CounterKeys
<1>1. now \in Nat /\ Horizon \in Nat /\ now <= Horizon /\ Window \in Nat \ {0}
  BY DEF TypeOK, StoreTypeOK
<1>2. \A a, b \in Nat : a <= b => a \div Window <= b \div Window
  BY <1>1
<1>3. now \div Window \in Nat /\ Horizon \div Window \in Nat /\ now \div Window <= now
  BY <1>1
<1>4. caller[r] \in Callers
  BY DEF TypeOK
<1> QED
  BY <1>1, <1>2, <1>3, <1>4 DEF KeyOf

\* A table that counts one more request of a key uses one of its places for it; the
\* other keys may lose theirs.
CountedHere(w, k) ==
  buckets' = [buckets EXCEPT ![w] = Counted(w, k)] /\ lives' = Started(w, k)

LEMMA LocalPlaces ==
  ASSUME TypeOK, NEW w \in Workers, NEW k \in CounterKeys, CountedHere(w, k),
         \A j \in CounterKeys : IsFiniteSet(FreeLocally(j))
  PROVE  /\ buckets' \in [Workers -> [CounterKeys -> Nat]] /\ lives' \in [CounterKeys -> Nat]
         /\ \A v \in Workers, j \in CounterKeys :
              buckets'[v][j] <= buckets[v][j] + (IF v = w /\ j = k THEN 1 ELSE 0)
         /\ \A j \in CounterKeys \ {k} :
              /\ lives'[j] = lives[j] /\ FreeLocally(j)' \subseteq FreeLocally(j)
         /\ IsFiniteSet(FreeLocally(k)')
         /\ Limit * lives[k] + Cardinality(FreeLocally(k)')
              + (IF LetThrough(buckets[w][k] + 1) THEN 1 ELSE 0)
              <= Limit * lives'[k] + Cardinality(FreeLocally(k))
<1> DEFINE n == buckets[w][k]
           held == Counted(w, k)
<1>0. buckets' = [buckets EXCEPT ![w] = held] /\ lives' = Started(w, k)
  BY DEF CountedHere
<1>1. /\ n \in Nat /\ lives[k] \in Nat /\ buckets \in [Workers -> [CounterKeys -> Nat]]
      /\ lives \in [CounterKeys -> Nat]
  BY DEF TypeOK, StoreTypeOK
<1>2. /\ held \in [CounterKeys -> Nat] /\ held[k] \in {0, n + 1}
      /\ \A j \in CounterKeys \ {k} : held[j] \in {0, buckets[w][j]}
  BY <1>1 DEF Counted
<1> HIDE DEF held
<1>3. /\ buckets' \in [Workers -> [CounterKeys -> Nat]] /\ buckets'[w] = held
      /\ \A v \in Workers \ {w} : buckets'[v] = buckets[v]
  BY <1>0, <1>1, <1>2
<1>4. /\ lives' \in [CounterKeys -> Nat]
      /\ lives'[k] = IF n = 0 THEN lives[k] + 1 ELSE lives[k]
      /\ \A j \in CounterKeys \ {k} : lives'[j] = lives[j]
  BY <1>0, <1>1 DEF Started
<1>5. ASSUME NEW v \in Workers, NEW j \in CounterKeys
      PROVE  buckets'[v][j] <= buckets[v][j] + (IF v = w /\ j = k THEN 1 ELSE 0)
  BY <1>1, <1>2, <1>3
<1>6. ASSUME NEW j \in CounterKeys \ {k}
      PROVE  FreeLocally(j)' \subseteq FreeLocally(j)
  <2>1. \A v \in Workers : buckets'[v][j] = buckets[v][j] \/ buckets'[v][j] = 0
    BY <1>2, <1>3
  <2> QED
    BY <2>1 DEF FreeLocally
<1>7. ASSUME NEW v \in Workers
      PROVE  \/ buckets'[v][k] = 0
             \/ v # w /\ buckets'[v][k] = buckets[v][k]
             \/ v = w /\ buckets'[v][k] = n + 1
  BY <1>2, <1>3
<1>8. CASE n = 0
  <2> DEFINE Brought == {w} \X (2..Limit)
  <2>1. FreeLocally(k)' \subseteq FreeLocally(k) \cup Brought
    BY <1>7, <1>8 DEF FreeLocally
  <2>2. IsFiniteSet(Brought) /\ Cardinality(Brought) = Limit - 1
    <3>1. IsFiniteSet(2..Limit) /\ Cardinality(2..Limit) = Limit - 1
      <4>1. 2 \in Int /\ Limit \in Int /\ Limit > 0
        OBVIOUS
      <4>2. /\ IsFiniteSet(2..Limit)
            /\ Cardinality(2..Limit) = IF 2 > Limit THEN 0 ELSE Limit - 2 + 1
        BY <4>1, FS_Interval
      <4> QED
        BY <4>1, <4>2
    <3>2. IsFiniteSet({w}) /\ Cardinality({w}) = 1
      BY FS_Singleton
    <3>3. /\ IsFiniteSet({w} \X (2..Limit))
          /\ Cardinality({w} \X (2..Limit)) = 1 * (Limit - 1)
      BY <3>1, <3>2, FS_Product
    <3> QED
      BY <3>3
  <2> HIDE DEF Brought
  <2>3. /\ IsFiniteSet(FreeLocally(k) \cup Brought)
        /\ Cardinality(FreeLocally(k) \cup Brought) <= Cardinality(FreeLocally(k)) + Limit - 1
    <3>1. /\ IsFiniteSet(FreeLocally(k) \cup Brought)
          /\ Cardinality(FreeLocally(k) \cup Brought)
               = Cardinality(FreeLocally(k)) + Cardinality(Brought)
                   - Cardinality(FreeLocally(k) \cap Brought)
      BY <2>2, FS_Union
    <3>2. Cardinality(FreeLocally(k) \cap Brought) \in Nat /\ Cardinality(FreeLocally(k)) \in Nat
      BY <2>2, Fewer
    <3> QED
      BY <2>2, <3>1, <3>2
  <2>4. /\ IsFiniteSet(FreeLocally(k)') /\ Cardinality(FreeLocally(k)') \in Nat
        /\ Cardinality(FreeLocally(k)') <= Cardinality(FreeLocally(k) \cup Brought)
        /\ Cardinality(FreeLocally(k) \cup Brought) \in Nat
    BY <2>1, <2>3, Fewer
  <2>5. Cardinality(FreeLocally(k)) \in Nat
    BY Fewer
  <2>6. Limit * lives'[k] = Limit * lives[k] + Limit /\ Limit * lives[k] \in Nat
    BY <1>1, <1>4, <1>8, PlacesOfCounter
  <2> QED
    BY <1>3, <1>4, <1>5, <1>6, <2>3, <2>4, <2>5, <2>6
<1>9. CASE n > 0 /\ LetThrough(n + 1)
  <2>1. <<w, n + 1>> \in FreeLocally(k)
    BY <1>1, <1>9 DEF FreeLocally, LetThrough
  <2>2. FreeLocally(k)' \subseteq FreeLocally(k) \ {<<w, n + 1>>}
    <3>1. ASSUME NEW f \in FreeLocally(k)'
          PROVE  f \in FreeLocally(k) /\ f # <<w, n + 1>>
      <4>1. /\ f \in Workers \X (1..Limit) /\ f[1] \in Workers /\ f[2] \in Int
            /\ buckets'[f[1]][k] > 0 /\ f[2] > buckets'[f[1]][k]
        BY DEF FreeLocally
      <4>2. /\ buckets[f[1]][k] > 0 /\ f[2] > buckets[f[1]][k]
            /\ f[1] = w => f[2] > n + 1
        BY <1>1, <1>7, <1>9, <4>1
      <4>3. f # <<w, n + 1>>
        BY <1>1, <4>1, <4>2
      <4> QED
        BY <4>1, <4>2, <4>3 DEF FreeLocally
    <3> QED
      BY <3>1
  <2>3. /\ IsFiniteSet(FreeLocally(k)') /\ Cardinality(FreeLocally(k)') \in Nat
        /\ Cardinality(FreeLocally(k)) \in Nat
        /\ Cardinality(FreeLocally(k)') + 1 <= Cardinality(FreeLocally(k))
    BY <2>1, <2>2, OneLess
  <2>4. lives'[k] = lives[k] /\ Limit * lives[k] \in Nat
    BY <1>1, <1>4, <1>9, PlacesOfCounter
  <2> QED
    BY <1>3, <1>4, <1>5, <1>6, <1>9, <2>3, <2>4
<1>10. CASE n > 0 /\ ~LetThrough(n + 1)
  <2>1. FreeLocally(k)' \subseteq FreeLocally(k)
    <3>1. ASSUME NEW f \in FreeLocally(k)'
          PROVE  f \in FreeLocally(k)
      <4>1. /\ f \in Workers \X (1..Limit) /\ f[1] \in Workers /\ f[2] \in Int
            /\ buckets'[f[1]][k] > 0 /\ f[2] > buckets'[f[1]][k]
        BY DEF FreeLocally
      <4>2. buckets[f[1]][k] > 0 /\ f[2] > buckets[f[1]][k]
        BY <1>1, <1>7, <1>10, <4>1
      <4> QED
        BY <4>1, <4>2 DEF FreeLocally
    <3> QED
      BY <3>1
  <2>2. /\ IsFiniteSet(FreeLocally(k)') /\ Cardinality(FreeLocally(k)') \in Nat
        /\ Cardinality(FreeLocally(k)) \in Nat
        /\ Cardinality(FreeLocally(k)') <= Cardinality(FreeLocally(k))
    BY <2>1, Fewer
  <2>3. lives'[k] = lives[k] /\ Limit * lives[k] \in Nat
    BY <1>1, <1>4, <1>10, PlacesOfCounter
  <2> QED
    BY <1>3, <1>4, <1>5, <1>6, <1>10, <2>2, <2>3
<1>11. n = 0 \/ (n > 0 /\ LetThrough(n + 1)) \/ (n > 0 /\ ~LetThrough(n + 1))
  BY <1>1
<1> QED
  BY <1>8, <1>9, <1>10, <1>11

-----------------------------------------------------------------------------
(* What a step does to a coroutine, and to the sets its request is counted  *)
(* in.                                                                      *)

\* A coroutine that only moves.
LEMMA AtTyped ==
  ASSUME NEW c \in Coroutines,
         NEW where \in Ended \cup {"new", "incr", "counted", "expire", "get", "work", "set"}
  PROVE  /\ At(c, where) \in Coroutines /\ At(c, where).pc = where
         /\ At(c, where).window = c.window /\ At(c, where).count = c.count
         /\ At(c, where).previous = c.previous /\ At(c, where).found = c.found
BY DEF At, Coroutines

LEMMA CoroutineTyped ==
  ASSUME NEW where \in Ended \cup {"new", "set"}
  PROVE  /\ Coroutine(where) \in Coroutines /\ Coroutine(where).pc = where
         /\ Coroutine(where).window = 0 /\ Coroutine(where).previous = None
         /\ Coroutine(where).found = FALSE
<1>1. 0 \in 0..Horizon /\ 0 \in Nat
  OBVIOUS
<1> QED
  BY <1>1 DEF Coroutine, Coroutines

\* The limiter lets a request through, to the chain or past it, or rejects it.
LEMMA DecideMoves ==
  ASSUME TypeOK, NEW r \in Requests, NEW c \in Coroutines, NEW k \in CounterKeys,
         NEW count \in Nat, NEW ready \in BOOLEAN, Decide(r, c, k, count, ready)
  PROVE  \E d \in Coroutines :
           /\ Steps(r, d) /\ d.window = c.window /\ d.previous = c.previous
           /\ IF LetThrough(count)
              THEN d.pc \in {"get", "work"} /\ admitted' = [admitted EXCEPT ![k] = @ + 1]
              ELSE d.pc = "rejected" /\ admitted' = admitted
           /\ d.pc = "work" /\ d.previous # None => ~ready
<1>1. CASE ~LetThrough(count)
  BY <1>1, AtTyped DEF Decide, Ended
<1>2. CASE LetThrough(count)
  <2> DEFINE d == Chain(home[r], c, ready)
             found == MemHas(home[r], c.previous)
  <2>1. Steps(r, d) /\ admitted' = [admitted EXCEPT ![k] = @ + 1]
    BY <1>2 DEF Decide
  <2>2. /\ d \in Coroutines /\ d.window = c.window /\ d.previous = c.previous
        /\ d.pc \in {"get", "work"} /\ (d.pc = "work" /\ d.previous # None => ~ready)
    <3>1. CASE c.previous = None \/ ready
      BY <3>1, AtTyped DEF Chain
    <3>2. CASE c.previous # None /\ ~ready
      <4>1. d = [At(c, "work") EXCEPT !.found = found]
        BY <3>2 DEF Chain
      <4>2. At(c, "work") \in Coroutines /\ found \in BOOLEAN
        BY AtTyped DEF MemHas
      <4> HIDE DEF found
      <4>3. /\ d \in Coroutines /\ d.pc = At(c, "work").pc
            /\ d.window = At(c, "work").window /\ d.previous = At(c, "work").previous
        BY <4>1, <4>2 DEF Coroutines
      <4> QED
        BY <3>2, <4>3, AtTyped
    <3> QED
      BY <3>1, <3>2
  <2> HIDE DEF d
  <2> QED
    BY <1>2, <2>1, <2>2
<1> QED
  BY <1>1, <1>2

\* A request enters and leaves the sets of the key it has then.
LEMMA SetsMove ==
  ASSUME TypeOK, NEW r \in Requests, NEW c, Steps(r, c), UNCHANGED <<home, caller>>
  PROVE  /\ req'[r] = c /\ Key(r)' = KeyOf(r, c.window)
         /\ \A q \in Requests \ {r} : req'[q] = req[q] /\ Key(q)' = Key(q)
         /\ \A k \in CounterKeys :
              /\ Asked(k)' \subseteq
                   IF c.pc \in Numbered /\ LetThrough(c.count) /\ k = KeyOf(r, c.window)
                   THEN Asked(k) \cup {r} ELSE Asked(k) \ {r}
              /\ Asking(k)' \subseteq
                   IF c.pc = "incr" /\ k = KeyOf(r, c.window)
                   THEN Asking(k) \cup {r} ELSE Asking(k) \ {r}
              /\ \A w \in Workers :
                   Counting(w, k)' \subseteq
                     IF /\ c.pc \in {"incr"} \cup Numbered
                        /\ w = home[r] /\ k = KeyOf(r, c.window)
                     THEN Counting(w, k) \cup {r} ELSE Counting(w, k) \ {r}
<1>1. /\ req'[r] = c /\ Key(r)' = KeyOf(r, c.window)
      /\ \A q \in Requests \ {r} : req'[q] = req[q] /\ Key(q)' = Key(q)
  BY DEF TypeOK, Steps, Key, KeyOf
<1>2. ASSUME NEW k \in CounterKeys
      PROVE  /\ \A q \in Requests \ {r} : q \in Asked(k)' => q \in Asked(k)
             /\ \A q \in Requests \ {r} : q \in Asking(k)' => q \in Asking(k)
             /\ \A q \in Requests \ {r}, w \in Workers : q \in Counting(w, k)' => q \in Counting(w, k)
  BY <1>1 DEF Asked, Asking, Counting, LetThrough
<1>3. ASSUME NEW k \in CounterKeys
      PROVE  /\ r \in Asked(k)' =>
                  c.pc \in Numbered /\ LetThrough(c.count) /\ k = KeyOf(r, c.window)
             /\ r \in Asking(k)' => c.pc = "incr" /\ k = KeyOf(r, c.window)
             /\ \A w \in Workers : r \in Counting(w, k)' =>
                  /\ c.pc \in {"incr"} \cup Numbered
                  /\ w = home[r] /\ k = KeyOf(r, c.window)
  BY <1>1 DEF Asked, Asking, Counting, LetThrough
<1>4. ASSUME NEW k \in CounterKeys
      PROVE  /\ Asked(k)' \subseteq Requests /\ Asking(k)' \subseteq Requests
             /\ \A w \in Workers : Counting(w, k)' \subseteq Requests
  BY DEF Asked, Asking, Counting
<1> QED
  BY <1>1, <1>2, <1>3, <1>4

-----------------------------------------------------------------------------
(* Types.                                                                   *)

\* What is known of a request before a step.
LEMMA BeforeStep ==
  ASSUME FrontInv, NEW r \in Requests
  PROVE  /\ req[r] \in Coroutines /\ home[r] \in Workers /\ caller[r] \in Callers
         /\ Key(r) \in CounterKeys /\ req[r].count \in Nat
         /\ now \in Nat /\ now <= Horizon
         /\ [req[r] EXCEPT !.count = 0] \in Coroutines
         /\ [req[r] EXCEPT !.count = 0].window = req[r].window
         /\ [req[r] EXCEPT !.count = 0].previous = req[r].previous
<1>1. req[r] \in Coroutines /\ home[r] \in Workers /\ caller[r] \in Callers
  BY DEF FrontInv, TypeOK
<1>2. Key(r) \in CounterKeys
  BY KeyTyped DEF FrontInv, OwnCount, Key
<1>3. now \in Nat /\ now <= Horizon
  BY DEF FrontInv, TypeOK, StoreTypeOK
<1> QED
  BY <1>1, <1>2, <1>3 DEF Coroutines

\* A client arrives with a window of the clock and an id it knows.
LEMMA ArrivesTyped ==
  ASSUME FrontInv, NEW r \in Requests, NEW p \in {None} \cup Requests
  PROVE  /\ [req[r] EXCEPT !.window = now \div Window, !.previous = p] \in Coroutines
         /\ [req[r] EXCEPT !.window = now \div Window, !.previous = p].window = now \div Window
         /\ [req[r] EXCEPT !.window = now \div Window, !.previous = p].previous = p
         /\ [req[r] EXCEPT !.window = now \div Window, !.previous = p].count = req[r].count
         /\ KeyOf(r, now \div Window) \in CounterKeys
<1> DEFINE i == now \div Window
<1>1. i \in 0..Horizon /\ KeyOf(r, i) \in CounterKeys
  BY KeyTyped DEF FrontInv
<1> HIDE DEF i
<1>2. req[r] \in Coroutines
  BY BeforeStep
<1>3. /\ [req[r] EXCEPT !.window = i, !.previous = p] \in Coroutines
      /\ [req[r] EXCEPT !.window = i, !.previous = p].window = i
      /\ [req[r] EXCEPT !.window = i, !.previous = p].previous = p
      /\ [req[r] EXCEPT !.window = i, !.previous = p].count = req[r].count
  BY <1>1, <1>2 DEF Coroutines
<1> QED
  BY <1>1, <1>3 DEF i

\* Redis counts.
LEMMA IncrTyped ==
  ASSUME TypeOK, NEW k \in CounterKeys
  PROVE  /\ Incremented(k) \in [n : Nat, until : 0..Forever]
         /\ Incremented(k).n = shared[k].n + 1
         /\ Incr(k) => /\ shared' \in [CounterKeys -> [n : Nat, until : 0..Forever]]
                       /\ lives' \in [CounterKeys -> Nat]
         /\ Expire(k) => shared' \in [CounterKeys -> [n : Nat, until : 0..Forever]]
         /\ Expire(k) => \A j \in CounterKeys : shared'[j].n = shared[j].n
<1>1. /\ shared \in [CounterKeys -> [n : Nat, until : 0..Forever]] /\ lives \in [CounterKeys -> Nat]
      /\ Forever \in 0..Forever /\ 0 \in 0..Forever /\ now + CounterTTL \in 0..Forever
  BY DEF TypeOK, StoreTypeOK, Forever
<1>2. /\ Incremented(k) \in [n : Nat, until : 0..Forever]
      /\ Incremented(k).n = shared[k].n + 1
  BY <1>1 DEF Incremented
<1>3. Incr(k) => /\ shared' \in [CounterKeys -> [n : Nat, until : 0..Forever]]
                 /\ lives' \in [CounterKeys -> Nat]
  BY <1>1, <1>2 DEF Incr
<1>4. ASSUME Expire(k)
      PROVE  /\ shared' \in [CounterKeys -> [n : Nat, until : 0..Forever]]
             /\ \A j \in CounterKeys : shared'[j].n = shared[j].n
  <2> DEFINE until == IF shared[k].n = 0 THEN 0 ELSE now + CounterTTL
  <2>1. until \in 0..Forever /\ shared' = [shared EXCEPT ![k].until = until]
    BY <1>1, <1>4 DEF Expire
  <2> HIDE DEF until
  <2> QED
    BY <1>1, <2>1
<1> QED
  BY <1>2, <1>3, <1>4

\* The steps of the limiter.
LEMMA LimiterTyped ==
  ASSUME FrontInv, NEW r \in Requests,
         \/ Arrive(r) \/ IncrApplied(r) \/ IncrAnswers(r) \/ IncrSentAgain(r)
         \/ ExpireAnswers(r) \/ CountFails(r)
  PROVE  TypeOK'
<1>1. /\ TypeOK /\ Key(r) \in CounterKeys /\ home[r] \in Workers /\ req[r] \in Coroutines
      /\ req[r].count \in Nat /\ [req[r] EXCEPT !.count = 0] \in Coroutines
  BY BeforeStep DEF FrontInv
<1>2. ASSUME NEW c \in Coroutines, Steps(r, c)
      PROVE  req' \in [Requests -> Coroutines]
  BY <1>1, <1>2 DEF TypeOK, Steps
<1>3. ASSUME NEW c \in Coroutines, NEW k \in CounterKeys, NEW count \in Nat,
             NEW ready \in BOOLEAN, Decide(r, c, k, count, ready)
      PROVE  req' \in [Requests -> Coroutines] /\ admitted' \in [CounterKeys -> Nat]
  <2>1. PICK d \in Coroutines :
          /\ Steps(r, d)
          /\ admitted' = [admitted EXCEPT ![k] = @ + 1] \/ admitted' = admitted
    BY <1>1, <1>3, DecideMoves
  <2>2. admitted \in [CounterKeys -> Nat]
    BY <1>1 DEF TypeOK
  <2> QED
    BY <1>2, <2>1, <2>2
<1>4. ASSUME NEW c \in Coroutines, NEW k \in CounterKeys, CountLocally(r, c, k)
      PROVE  /\ req' \in [Requests -> Coroutines] /\ admitted' \in [CounterKeys -> Nat]
             /\ buckets' \in [Workers -> [CounterKeys -> Nat]] /\ lives' \in [CounterKeys -> Nat]
  <2>1. buckets[home[r]][k] + 1 \in Nat /\ FALSE \in BOOLEAN
    BY <1>1 DEF TypeOK
  <2>2. req' \in [Requests -> Coroutines] /\ admitted' \in [CounterKeys -> Nat]
    BY <1>3, <1>4, <2>1 DEF CountLocally
  <2>3. \A j \in CounterKeys : IsFiniteSet(FreeLocally(j))
    BY DEF FrontInv, Balance
  <2> QED
    BY <1>1, <1>4, <2>2, <2>3, LocalPlaces DEF CountLocally, CountedHere
<1>5. CASE Arrive(r)
  <2>1. PICK p \in {None} \cup {q \in Requests : req[q].pc = "done"} :
          LET c == [req[r] EXCEPT !.window = now \div Window, !.previous = p]
              k == KeyOf(r, now \div Window)
          IN /\ arrived' = [arrived EXCEPT ![<<caller[r], now \div Window>>] = @ + 1]
             /\ IF Ready(home[r])
                  THEN Steps(r, At(c, "incr")) /\ UNCHANGED <<admitted, buckets, lives>>
                  ELSE CountLocally(r, c, k)
    BY <1>5 DEF Arrive
  <2> DEFINE c == [req[r] EXCEPT !.window = now \div Window, !.previous = p]
             k == KeyOf(r, now \div Window)
  <2>2. c \in Coroutines /\ k \in CounterKeys
    BY ArrivesTyped
  <2>3. arrived' \in [CounterKeys -> Nat]
    <3>1. arrived' = [arrived EXCEPT ![k] = @ + 1]
      BY <2>1 DEF KeyOf
    <3>2. arrived \in [CounterKeys -> Nat]
      BY <1>1 DEF TypeOK
    <3> HIDE DEF k
    <3> QED
      BY <2>2, <3>1, <3>2
  <2>4. /\ req' \in [Requests -> Coroutines] /\ admitted' \in [CounterKeys -> Nat]
        /\ buckets' \in [Workers -> [CounterKeys -> Nat]] /\ lives' \in [CounterKeys -> Nat]
    <3> HIDE DEF c, k
    <3>1. CASE Ready(home[r])
      <4>1. Steps(r, At(c, "incr")) /\ UNCHANGED <<admitted, buckets, lives>>
        BY <2>1, <3>1 DEF c
      <4> QED
        BY <1>1, <1>2, <2>2, <4>1, AtTyped DEF TypeOK, StoreTypeOK
    <3>2. CASE ~Ready(home[r])
      <4>1. CountLocally(r, c, k)
        BY <2>1, <3>2 DEF c, k
      <4> QED
        BY <1>4, <2>2, <4>1
    <3> QED
      BY <3>1, <3>2
  <2> QED
    BY <1>1, <1>5, <2>3, <2>4 DEF Arrive, TypeOK, StoreTypeOK, Forever
<1>6. CASE IncrApplied(r)
  <2> DEFINE c == [At(req[r], "counted") EXCEPT !.count = Incremented(Key(r)).n]
  <2>1. c \in Coroutines
    <3>1. At(req[r], "counted") \in Coroutines /\ Incremented(Key(r)).n \in Nat
      BY <1>1, AtTyped, IncrTyped
    <3> QED
      BY <3>1 DEF Coroutines
  <2>2. Steps(r, c) /\ Incr(Key(r))
    BY <1>6 DEF IncrApplied
  <2> HIDE DEF c
  <2>3. /\ req' \in [Requests -> Coroutines] /\ lives' \in [CounterKeys -> Nat]
        /\ shared' \in [CounterKeys -> [n : Nat, until : 0..Forever]]
    BY <1>1, <1>2, <2>1, <2>2, IncrTyped
  <2> QED
    BY <1>1, <1>6, <2>3 DEF IncrApplied, TypeOK, StoreTypeOK, Forever
<1>7. CASE IncrAnswers(r)
  <2>1. req' \in [Requests -> Coroutines] /\ admitted' \in [CounterKeys -> Nat]
    <3>1. CASE req[r].count = 1
      BY <1>1, <1>2, <1>7, <3>1, AtTyped DEF IncrAnswers, TypeOK
    <3>2. CASE req[r].count # 1
      <4>1. Decide(r, [req[r] EXCEPT !.count = 0], Key(r), req[r].count, Ready(home[r]))
        BY <1>7, <3>2 DEF IncrAnswers
      <4>2. Ready(home[r]) \in BOOLEAN
        BY DEF Ready
      <4> QED
        BY <1>1, <1>3, <4>1, <4>2
    <3> QED
      BY <3>1, <3>2
  <2> QED
    BY <1>1, <1>7, <2>1 DEF IncrAnswers, TypeOK, StoreTypeOK, storeVars, Forever
<1>8. CASE IncrSentAgain(r)
  <2> DEFINE c == [At(req[r], "incr") EXCEPT !.count = 0]
  <2>1. c \in Coroutines
    <3>1. At(req[r], "incr") \in Coroutines
      BY <1>1, AtTyped
    <3> QED
      BY <3>1 DEF Coroutines
  <2>2. req' \in [Requests -> Coroutines] /\ resends' \in 0..MaxResends
    BY <1>1, <1>2, <1>8, <2>1 DEF IncrSentAgain, TypeOK
  <2> QED
    BY <1>1, <1>8, <2>2 DEF IncrSentAgain, TypeOK, StoreTypeOK, storeVars, Forever
<1>9. CASE ExpireAnswers(r)
  <2>1. /\ Decide(r, [req[r] EXCEPT !.count = 0], Key(r), req[r].count, Ready(home[r]))
        /\ Ready(home[r]) \in BOOLEAN /\ Expire(Key(r))
    BY <1>9 DEF ExpireAnswers, Ready
  <2>2. /\ req' \in [Requests -> Coroutines] /\ admitted' \in [CounterKeys -> Nat]
        /\ shared' \in [CounterKeys -> [n : Nat, until : 0..Forever]]
    <3>1. req' \in [Requests -> Coroutines] /\ admitted' \in [CounterKeys -> Nat]
      BY <1>1, <1>3, <2>1
    <3>2. shared' \in [CounterKeys -> [n : Nat, until : 0..Forever]]
      BY <1>1, <2>1, IncrTyped
    <3> QED
      BY <3>1, <3>2
  <2> QED
    BY <1>1, <1>9, <2>2 DEF ExpireAnswers, TypeOK, StoreTypeOK, Forever
<1>10. CASE CountFails(r)
  <2>1. /\ CountLocally(r, [req[r] EXCEPT !.count = 0], Key(r)) /\ MarkDown(home[r])
        /\ Expire(Key(r)) \/ shared' = shared
    BY <1>10 DEF CountFails
  <2>2. /\ req' \in [Requests -> Coroutines] /\ admitted' \in [CounterKeys -> Nat]
        /\ buckets' \in [Workers -> [CounterKeys -> Nat]] /\ lives' \in [CounterKeys -> Nat]
    BY <1>1, <1>4, <2>1
  <2>3. shared' \in [CounterKeys -> [n : Nat, until : 0..Forever]]
    BY <1>1, <2>1, IncrTyped DEF TypeOK, StoreTypeOK
  <2>4. retryAt' \in [Workers -> Nat] /\ faults' \in 0..MaxFaults
    <3>1. now + RetryAfter \in Nat
      BY <1>1 DEF TypeOK, StoreTypeOK
    <3> QED
      BY <1>1, <2>1, <3>1 DEF MarkDown, TypeOK, StoreTypeOK
  <2> QED
    BY <1>1, <1>10, <2>2, <2>3, <2>4 DEF CountFails, TypeOK, StoreTypeOK, Forever
<1> QED
  BY <1>5, <1>6, <1>7, <1>8, <1>9, <1>10

\* The steps of the chain.
ChainStep(r) ==
  GetAnswers(r) \/ GetFails(r) \/ Adapted(r) \/ SetAnswers(r) \/ SetFails(r)

\* Such a step moves a coroutine that the limiter is done with.
LEMMA ChainMoves ==
  ASSUME FrontInv, NEW r \in Requests, ChainStep(r)
  PROVE  /\ req[r].pc \in {"get", "work", "set"}
         /\ \E c \in Coroutines :
              /\ Steps(r, c) /\ c.pc \in {"work", "set", "done", "failed"}
              /\ c.window \in {req[r].window, 0}
              /\ \/ c.previous = None /\ c.pc # "work"
                 \/ /\ c.previous = req[r].previous /\ c.pc = "work" /\ req[r].pc = "get"
                    /\ \/ c.found = SharedHas(req[r].previous)
                       \/ MarkDown(home[r])
         /\ UNCHANGED <<now, shared, lives, home, caller, buckets, resends, arrived, admitted>>
<1>1. req[r] \in Coroutines
  BY BeforeStep
<1>2. ASSUME NEW found \in BOOLEAN
      PROVE  /\ [At(req[r], "work") EXCEPT !.found = found] \in Coroutines
             /\ [At(req[r], "work") EXCEPT !.found = found].pc = "work"
             /\ [At(req[r], "work") EXCEPT !.found = found].window = req[r].window
             /\ [At(req[r], "work") EXCEPT !.found = found].previous = req[r].previous
             /\ [At(req[r], "work") EXCEPT !.found = found].found = found
  <2>1. /\ At(req[r], "work") \in Coroutines /\ At(req[r], "work").pc = "work"
        /\ At(req[r], "work").window = req[r].window
        /\ At(req[r], "work").previous = req[r].previous
    BY <1>1, AtTyped
  <2> QED
    BY <2>1 DEF Coroutines
<1>3. CASE GetAnswers(r)
  <2>1. SharedHas(req[r].previous) \in BOOLEAN
    BY DEF SharedHas
  <2>2. Steps(r, [At(req[r], "work") EXCEPT !.found = SharedHas(req[r].previous)])
    BY <1>3 DEF GetAnswers
  <2>3. /\ req[r].pc = "get"
        /\ UNCHANGED <<now, shared, lives, home, caller, buckets, resends, arrived, admitted>>
    BY <1>3 DEF GetAnswers, storeVars
  <2> QED
    BY <1>2, <2>1, <2>2, <2>3
<1>4. CASE GetFails(r)
  <2>1. MemHas(home[r], req[r].previous) \in BOOLEAN
    BY DEF MemHas
  <2>2. Steps(r, [At(req[r], "work") EXCEPT !.found = MemHas(home[r], req[r].previous)])
    BY <1>4 DEF GetFails
  <2>3. /\ req[r].pc = "get" /\ MarkDown(home[r])
        /\ UNCHANGED <<now, shared, lives, home, caller, buckets, resends, arrived, admitted>>
    BY <1>4 DEF GetFails
  <2> QED
    BY <1>2, <2>1, <2>2, <2>3
<1>5. CASE Adapted(r)
  <2>1. /\ At(Coroutine("set"), "set") \in Coroutines /\ At(Coroutine("set"), "set").pc = "set"
        /\ At(Coroutine("set"), "set").window = 0 /\ At(Coroutine("set"), "set").previous = None
    <3>1. /\ Coroutine("set") \in Coroutines /\ Coroutine("set").window = 0
          /\ Coroutine("set").previous = None
      BY CoroutineTyped
    <3> QED
      BY <3>1, AtTyped
  <2>2. /\ req[r].pc = "work"
        /\ UNCHANGED <<now, shared, lives, home, caller, buckets, resends, arrived, admitted>>
        /\ \/ Steps(r, At(Coroutine("set"), "set"))
           \/ \E where \in {"done", "failed"} : Steps(r, Coroutine(where))
    BY <1>5 DEF Adapted
  <2> QED
    BY <2>1, <2>2, CoroutineTyped DEF Ended
<1>6. CASE SetAnswers(r) \/ SetFails(r)
  <2>1. /\ req[r].pc = "set" /\ Steps(r, Coroutine("done"))
        /\ UNCHANGED <<now, shared, lives, home, caller, buckets, resends, arrived, admitted>>
    BY <1>6 DEF SetAnswers, SetFails
  <2> QED
    BY <2>1, CoroutineTyped DEF Ended
<1> QED
  BY <1>3, <1>4, <1>5, <1>6 DEF ChainStep

LEMMA ChainTyped ==
  ASSUME FrontInv, NEW r \in Requests, ChainStep(r)
  PROVE  TypeOK'
<1>1. TypeOK /\ home[r] \in Workers /\ now + TurnTTL \in Nat /\ now + RetryAfter \in Nat
  <2>1. now \in Nat /\ home[r] \in Workers
    BY BeforeStep
  <2>2. now + TurnTTL \in Nat /\ now + RetryAfter \in Nat
    BY <2>1
  <2> QED
    BY <2>1, <2>2 DEF FrontInv
<1>2. PICK c \in Coroutines :
        /\ Steps(r, c)
        /\ UNCHANGED <<now, shared, lives, home, caller, buckets, resends, arrived, admitted>>
  BY ChainMoves
<1>3. req' \in [Requests -> Coroutines]
  BY <1>1, <1>2 DEF Steps, TypeOK
<1>4. /\ turns' = turns \/ SetShared(r)
      /\ mem' = mem \/ SetMem(home[r], r)
      /\ stored' = stored \/ Keep(r)
      /\ UNCHANGED <<retryAt, faults>> \/ MarkDown(home[r])
  BY DEF ChainStep, GetAnswers, GetFails, Adapted, SetAnswers, SetFails, storeVars
<1>5. turns' \in [Turns -> Nat]
  BY <1>1, <1>4 DEF TypeOK, StoreTypeOK, SetShared
<1>6. mem' \in [Workers -> [Turns -> Nat]]
  <2>1. mem \in [Workers -> [Turns -> Nat]] /\ r \in Turns
    BY <1>1 DEF TypeOK, StoreTypeOK, Requests
  <2>2. CASE SetMem(home[r], r)
    BY <1>1, <2>1, <2>2 DEF SetMem
  <2> QED
    BY <1>4, <2>1, <2>2
<1>7. stored' \in [Requests -> Nat]
  BY <1>1, <1>4 DEF TypeOK, Keep
<1>8. retryAt' \in [Workers -> Nat] /\ faults' \in 0..MaxFaults
  <2>1. retryAt \in [Workers -> Nat] /\ faults \in 0..MaxFaults
    BY <1>1 DEF TypeOK, StoreTypeOK
  <2>2. CASE MarkDown(home[r])
    BY <1>1, <2>1, <2>2 DEF MarkDown
  <2> QED
    BY <1>4, <2>1, <2>2
<1> QED
  BY <1>1, <1>2, <1>3, <1>5, <1>6, <1>7, <1>8 DEF TypeOK, StoreTypeOK, Forever

\* The steps of the workers, and of time.
LEMMA WorkersTyped ==
  ASSUME FrontInv, (\E w \in Workers : Restart(w) \/ HealthProbe(w)) \/ Tick \/ UNCHANGED vars
  PROVE  TypeOK'
<1>1. TypeOK
  BY DEF FrontInv
<1>2. ASSUME NEW w \in Workers, Restart(w)
      PROVE  TypeOK'
  <2>1. Coroutine("failed") \in Coroutines
    BY CoroutineTyped DEF Ended
  <2>2. req' \in [Requests -> Coroutines]
    BY <1>1, <1>2, <2>1 DEF Restart, TypeOK
  <2>3. buckets' \in [Workers -> [CounterKeys -> Nat]]
    BY <1>1, <1>2 DEF Restart, TypeOK
  <2>4. mem' \in [Workers -> [Turns -> Nat]] /\ retryAt' \in [Workers -> Nat]
    BY <1>1, <1>2 DEF Restart, StoreRestart, TypeOK, StoreTypeOK
  <2>5. faults' \in 0..MaxFaults
    BY <1>1, <1>2 DEF Restart, StoreRestart, TypeOK, StoreTypeOK
  <2> QED
    BY <1>1, <1>2, <2>2, <2>3, <2>4, <2>5 DEF Restart, StoreRestart, TypeOK, StoreTypeOK, Forever
<1>3. ASSUME NEW w \in Workers, HealthProbe(w)
      PROVE  TypeOK'
  <2>1. retryAt' \in [Workers -> Nat]
    BY <1>1, <1>3 DEF HealthProbe, Ping, TypeOK, StoreTypeOK
  <2> QED
    BY <1>1, <1>3, <2>1 DEF HealthProbe, Ping, frontVars, TypeOK, StoreTypeOK, Forever
<1>4. ASSUME Tick
      PROVE  TypeOK'
  <2>1. now' \in 0..Horizon
    BY <1>1, <1>4 DEF Tick, StoreTick, TypeOK, StoreTypeOK
  <2>2. NoCounter \in [n : Nat, until : 0..Forever]
    BY DEF NoCounter, Forever
  <2>3. shared' \in [CounterKeys -> [n : Nat, until : 0..Forever]]
    BY <1>1, <1>4, <2>2 DEF Tick, StoreTick, TypeOK, StoreTypeOK
  <2>4. turns' \in [Turns -> Nat]
    BY <1>1, <1>4 DEF Tick, StoreTick, TypeOK, StoreTypeOK
  <2> QED
    BY <1>1, <1>4, <2>1, <2>3, <2>4 DEF Tick, StoreTick, frontVars, TypeOK, StoreTypeOK, Forever
<1>5. ASSUME UNCHANGED vars
      PROVE  TypeOK'
  BY <1>1, <1>5 DEF vars, storeVars, frontVars, TypeOK, StoreTypeOK, Forever
<1> QED
  BY <1>2, <1>3, <1>4, <1>5

-----------------------------------------------------------------------------
(* The balance of the places.                                               *)

LEMMA Numbers ==
  ASSUME TypeOK, NEW k \in CounterKeys
  PROVE  /\ admitted[k] \in Nat /\ shared[k].n \in Nat /\ lives[k] \in Nat /\ arrived[k] \in Nat
         /\ resends \in Nat /\ Left(shared[k].n) \in Nat /\ Limit * lives[k] \in Nat
         /\ \A w \in Workers : buckets[w][k] \in Nat
<1>1. /\ admitted[k] \in Nat /\ shared[k].n \in Nat /\ lives[k] \in Nat /\ arrived[k] \in Nat
      /\ resends \in Nat /\ \A w \in Workers : buckets[w][k] \in Nat
  BY DEF TypeOK, StoreTypeOK
<1> QED
  BY <1>1, PlacesOfCounter

\* A key that a step does not count for, though its requests may leave and its counters end.
LEMMA CountsStay ==
  ASSUME FrontInv, TypeOK', NEW k \in CounterKeys,
         Asked(k)' \subseteq Asked(k), FreeLocally(k)' \subseteq FreeLocally(k),
         Asking(k)' \subseteq Asking(k),
         \A w \in Workers : /\ Counting(w, k)' \subseteq Counting(w, k)
                            /\ buckets'[w][k] <= buckets[w][k],
         shared'[k].n \in {shared[k].n, 0}, lives'[k] = lives[k], admitted'[k] = admitted[k],
         arrived'[k] >= arrived[k], resends' >= resends
  PROVE  Balance(k)' /\ OwnCounts(k)'
<1>1. TypeOK /\ Balance(k) /\ OwnCounts(k)
  BY DEF FrontInv
<1>2. /\ admitted[k] \in Nat /\ shared[k].n \in Nat /\ arrived[k] \in Nat /\ resends \in Nat
      /\ Left(shared[k].n) \in Nat /\ Limit * lives[k] \in Nat
      /\ \A w \in Workers : buckets[w][k] \in Nat
  BY <1>1, Numbers
<1>3. arrived'[k] \in Nat /\ resends' \in Nat /\ \A w \in Workers : buckets'[w][k] \in Nat
  BY DEF TypeOK
<1>4. Balance(k)'
  <2>1. /\ IsFiniteSet(Asked(k)') /\ Cardinality(Asked(k)') <= Cardinality(Asked(k))
        /\ Cardinality(Asked(k)') \in Nat /\ Cardinality(Asked(k)) \in Nat
    BY <1>1, Fewer DEF Balance
  <2>2. /\ IsFiniteSet(FreeLocally(k)')
        /\ Cardinality(FreeLocally(k)') <= Cardinality(FreeLocally(k))
        /\ Cardinality(FreeLocally(k)') \in Nat /\ Cardinality(FreeLocally(k)) \in Nat
    BY <1>1, Fewer DEF Balance
  <2>3. Left(shared'[k].n) \in Nat /\ Left(shared'[k].n) <= Left(shared[k].n)
    BY <1>2, PlacesOfCounter
  <2>4. Limit * lives'[k] = Limit * lives[k] /\ admitted'[k] = admitted[k]
    OBVIOUS
  <2>5. admitted[k] + Cardinality(Asked(k)) + Left(shared[k].n) + Cardinality(FreeLocally(k))
          <= Limit * lives[k]
    BY <1>1 DEF Balance
  <2>6. admitted'[k] + Cardinality(Asked(k)') + Left(shared'[k].n) + Cardinality(FreeLocally(k)')
          <= Limit * lives'[k]
    BY <1>2, <2>1, <2>2, <2>3, <2>4, <2>5
  <2> QED
    BY <2>1, <2>2, <2>6 DEF Balance
<1>5. OwnCounts(k)'
  <2>1. /\ IsFiniteSet(Asking(k)') /\ Cardinality(Asking(k)') <= Cardinality(Asking(k))
        /\ Cardinality(Asking(k)') \in Nat /\ Cardinality(Asking(k)) \in Nat
    BY <1>1, Fewer DEF OwnCounts
  <2>2. shared'[k].n + Cardinality(Asking(k)') <= arrived'[k] + resends'
    BY <1>1, <1>2, <1>3, <2>1 DEF OwnCounts
  <2>3. ASSUME NEW w \in Workers
        PROVE  /\ IsFiniteSet(Counting(w, k)')
               /\ buckets'[w][k] + Cardinality(Counting(w, k)') <= arrived'[k]
    <3>1. IsFiniteSet(Counting(w, k)) /\ buckets[w][k] + Cardinality(Counting(w, k)) <= arrived[k]
      BY <1>1 DEF OwnCounts
    <3>2. /\ IsFiniteSet(Counting(w, k)')
          /\ Cardinality(Counting(w, k)') <= Cardinality(Counting(w, k))
          /\ Cardinality(Counting(w, k)') \in Nat /\ Cardinality(Counting(w, k)) \in Nat
      BY <3>1, Fewer
    <3> QED
      BY <1>2, <1>3, <3>1, <3>2
  <2> QED
    BY <2>1, <2>2, <2>3 DEF OwnCounts
<1> QED
  BY <1>4, <1>5

\* The count of a request stays accounted for.
LEMMA OwnCountStays ==
  ASSUME FrontInv, TypeOK', NEW r \in Requests, req'[r] = req[r], Key(r)' = Key(r),
         \A k \in CounterKeys : arrived'[k] >= arrived[k], resends' >= resends
  PROVE  OwnCount(r)'
<1>1. OwnCount(r) /\ TypeOK /\ Key(r) \in CounterKeys /\ req[r].count \in Nat
  BY BeforeStep DEF FrontInv
<1>2. /\ arrived[Key(r)] \in Nat /\ resends \in Nat
      /\ arrived'[Key(r)] \in Nat /\ resends' \in Nat
  BY <1>1, Numbers DEF TypeOK
<1>3. arrived'[Key(r)] >= arrived[Key(r)]
  BY <1>1
<1> QED
  BY <1>1, <1>2, <1>3 DEF OwnCount

Accounted ==
  /\ \A k \in CounterKeys : Balance(k) /\ OwnCounts(k)
  /\ \A r \in Requests : OwnCount(r)

\* INCR takes the next place of the counter, or starts one.
LEMMA IncrAccounted ==
  ASSUME FrontInv, TypeOK', NEW r \in Requests, IncrApplied(r)
  PROVE  Accounted'
<1>0. PICK k \in CounterKeys : k = Key(r)
  BY BeforeStep
<1> DEFINE c == [At(req[r], "counted") EXCEPT !.count = Incremented(k).n]
<1>1. /\ TypeOK /\ k \in CounterKeys /\ req[r] \in Coroutines /\ home[r] \in Workers
      /\ Balance(k) /\ OwnCounts(k) /\ OwnCount(r)
  BY BeforeStep DEF FrontInv
<1>2. /\ req[r].pc = "incr" /\ Incr(k) /\ Steps(r, c)
      /\ UNCHANGED <<home, caller, buckets, resends, arrived, admitted>>
  BY <1>0 DEF IncrApplied
<1>3. c.pc = "counted" /\ c.window = req[r].window /\ c.count = shared[k].n + 1
  <2>1. At(req[r], "counted") \in Coroutines /\ At(req[r], "counted").pc = "counted"
        /\ At(req[r], "counted").window = req[r].window
    BY <1>1, AtTyped
  <2>2. Incremented(k).n = shared[k].n + 1
    BY <1>1, IncrTyped
  <2> QED
    BY <2>1, <2>2 DEF Coroutines
<1> HIDE DEF c
<1>4. KeyOf(r, c.window) = k
  BY <1>0, <1>3 DEF Key
<1>5. /\ shared'[k].n = shared[k].n + 1
      /\ lives'[k] = IF shared[k].n = 0 THEN lives[k] + 1 ELSE lives[k]
      /\ \A j \in CounterKeys \ {k} : shared'[j] = shared[j] /\ lives'[j] = lives[j]
  BY <1>1, <1>2, IncrTyped DEF Incr, TypeOK, StoreTypeOK
<1>6. /\ req'[r] = c /\ Key(r)' = k
      /\ \A q \in Requests \ {r} : req'[q] = req[q] /\ Key(q)' = Key(q)
      /\ \A j \in CounterKeys :
           /\ Asked(j)' \subseteq IF LetThrough(c.count) /\ j = k THEN Asked(j) \cup {r}
                                                               ELSE Asked(j)
           /\ Asking(j)' \subseteq Asking(j) \ {r}
           /\ FreeLocally(j)' = FreeLocally(j)
  BY <1>1, <1>2, <1>3, <1>4, SetsMove DEF FreeLocally
<1>7. \A j \in CounterKeys, w \in Workers : Counting(w, j)' \subseteq Counting(w, j)
  <2>1. r \in Counting(home[r], k)
    BY <1>0, <1>2 DEF Counting
  <2> QED
    BY <1>1, <1>2, <1>4, <2>1, SetsMove
<1>8. /\ admitted[k] \in Nat /\ shared[k].n \in Nat /\ lives[k] \in Nat /\ arrived[k] \in Nat
      /\ resends \in Nat /\ Left(shared[k].n) \in Nat /\ Limit * lives[k] \in Nat
      /\ \A j \in CounterKeys, w \in Workers : buckets[w][j] \in Nat
      /\ \A j \in CounterKeys : arrived[j] \in Nat
  BY <1>1, Numbers
<1>9. ASSUME NEW j \in CounterKeys \ {k}
      PROVE  Balance(j)' /\ OwnCounts(j)'
  BY <1>2, <1>5, <1>6, <1>7, <1>8, <1>9, CountsStay
<1>10. Balance(k)'
  <2>1. /\ admitted[k] + Cardinality(Asked(k)) + Left(shared[k].n) + Cardinality(FreeLocally(k))
             <= Limit * lives[k]
        /\ IsFiniteSet(Asked(k)) /\ IsFiniteSet(FreeLocally(k))
    BY <1>1 DEF Balance
  <2>2. /\ Cardinality(FreeLocally(k)) \in Nat /\ FreeLocally(k)' = FreeLocally(k)
        /\ admitted'[k] = admitted[k]
    BY <1>1, <1>2, <1>6, <2>1, Fewer
  <2>3. CASE ~LetThrough(shared[k].n + 1)
    <3>1. /\ IsFiniteSet(Asked(k)') /\ Cardinality(Asked(k)') <= Cardinality(Asked(k))
          /\ Cardinality(Asked(k)') \in Nat /\ Cardinality(Asked(k)) \in Nat
      BY <1>1, <1>3, <1>6, <2>1, <2>3, Fewer
    <3>2. Left(shared'[k].n) = 0 /\ lives'[k] = lives[k]
      BY <1>5, <1>8, <2>3, NextPlace DEF LetThrough
    <3> QED
      BY <1>8, <2>1, <2>2, <3>1, <3>2 DEF Balance
  <2>4. CASE LetThrough(shared[k].n + 1)
    <3>1. /\ IsFiniteSet(Asked(k)') /\ Cardinality(Asked(k)') <= Cardinality(Asked(k)) + 1
          /\ Cardinality(Asked(k)') \in Nat /\ Cardinality(Asked(k)) \in Nat
      BY <1>1, <1>3, <1>6, <2>1, <2>4, OneMore
    <3>2. CASE shared[k].n = 0
      <4>1. /\ Left(shared'[k].n) = Limit - 1 /\ Left(shared[k].n) = 0
            /\ Limit * lives'[k] = Limit * lives[k] + Limit
        BY <1>5, <1>8, <3>2, NextPlace
      <4> QED
        BY <1>8, <2>1, <2>2, <3>1, <4>1 DEF Balance
    <3>3. CASE shared[k].n # 0
      <4>1. Left(shared'[k].n) = Left(shared[k].n) - 1 /\ lives'[k] = lives[k]
        BY <1>5, <1>8, <2>4, <3>3, NextPlace DEF LetThrough
      <4> QED
        BY <1>8, <2>1, <2>2, <3>1, <4>1 DEF Balance
    <3> QED
      BY <3>2, <3>3
  <2> QED
    BY <2>3, <2>4
<1>11. /\ IsFiniteSet(Asking(k)') /\ shared'[k].n + Cardinality(Asking(k)') <= arrived'[k] + resends'
       /\ shared[k].n + 1 <= arrived[k] + resends
  <2>1. IsFiniteSet(Asking(k)) /\ shared[k].n + Cardinality(Asking(k)) <= arrived[k] + resends
    BY <1>1 DEF OwnCounts
  <2>2. r \in Asking(k)
    BY <1>0, <1>2 DEF Asking
  <2>3. /\ IsFiniteSet(Asking(k)') /\ Cardinality(Asking(k)) \in Nat
        /\ Cardinality(Asking(k)') \in Nat /\ Cardinality(Asking(k)') + 1 <= Cardinality(Asking(k))
    BY <1>1, <1>6, <2>1, <2>2, OneLess
  <2> QED
    BY <1>2, <1>5, <1>8, <2>1, <2>3
<1>12. OwnCounts(k)'
  <2>1. ASSUME NEW w \in Workers
        PROVE  /\ IsFiniteSet(Counting(w, k)')
               /\ buckets'[w][k] + Cardinality(Counting(w, k)') <= arrived'[k]
    <3>1. IsFiniteSet(Counting(w, k)) /\ buckets[w][k] + Cardinality(Counting(w, k)) <= arrived[k]
      BY <1>1 DEF OwnCounts
    <3>2. /\ IsFiniteSet(Counting(w, k)')
          /\ Cardinality(Counting(w, k)') <= Cardinality(Counting(w, k))
          /\ Cardinality(Counting(w, k)') \in Nat /\ Cardinality(Counting(w, k)) \in Nat
      BY <1>1, <1>7, <3>1, Fewer
    <3> QED
      BY <1>1, <1>2, <1>8, <3>1, <3>2
  <2> QED
    BY <1>11, <2>1 DEF OwnCounts
<1>13. OwnCount(r)'
  BY <1>1, <1>2, <1>3, <1>6, <1>11 DEF OwnCount
<1>14. ASSUME NEW q \in Requests \ {r}
       PROVE  OwnCount(q)'
  BY <1>2, <1>6, <1>8, OwnCountStays
<1> QED
  BY <1>9, <1>10, <1>12, <1>13, <1>14 DEF Accounted

\* A request that Redis has counted is let through in the place it asked for, or rejected.
LEMMA DecidesAccounted ==
  ASSUME FrontInv, TypeOK', NEW r \in Requests, req[r].pc \in Numbered,
         Decide(r, [req[r] EXCEPT !.count = 0], Key(r), req[r].count, Ready(home[r])),
         \A k \in CounterKeys : shared'[k].n = shared[k].n,
         UNCHANGED <<home, caller, buckets, resends, arrived, lives>>
  PROVE  Accounted'
<1>0. PICK k \in CounterKeys : k = Key(r)
  BY BeforeStep
<1>1. /\ TypeOK /\ req[r].count \in Nat /\ OwnCount(r) /\ Balance(k)
      /\ Ready(home[r]) \in BOOLEAN
      /\ [req[r] EXCEPT !.count = 0] \in Coroutines
      /\ [req[r] EXCEPT !.count = 0].window = req[r].window
  BY BeforeStep DEF FrontInv, Ready
<1>2. PICK d \in Coroutines :
        /\ Steps(r, d) /\ d.window = req[r].window
        /\ IF LetThrough(req[r].count)
           THEN d.pc \in {"get", "work"} /\ admitted' = [admitted EXCEPT ![k] = @ + 1]
           ELSE d.pc = "rejected" /\ admitted' = admitted
  <2> DEFINE c == [req[r] EXCEPT !.count = 0]
  <2>1. /\ c \in Coroutines /\ c.window = req[r].window
        /\ Decide(r, c, k, req[r].count, Ready(home[r]))
    BY <1>0, <1>1
  <2> HIDE DEF c
  <2>2. PICK d \in Coroutines :
          /\ Steps(r, d) /\ d.window = c.window
          /\ IF LetThrough(req[r].count)
             THEN d.pc \in {"get", "work"} /\ admitted' = [admitted EXCEPT ![k] = @ + 1]
             ELSE d.pc = "rejected" /\ admitted' = admitted
    BY <1>1, <2>1, DecideMoves
  <2> QED
    BY <2>1, <2>2
<1>3. d.pc \notin {"incr"} \cup Numbered
  BY <1>2 DEF Numbered
<1>4. /\ req'[r] = d /\ Key(r)' = k
      /\ \A q \in Requests \ {r} : req'[q] = req[q] /\ Key(q)' = Key(q)
      /\ \A j \in CounterKeys :
           /\ Asked(j)' \subseteq Asked(j) \ {r}
           /\ Asking(j)' \subseteq Asking(j)
           /\ FreeLocally(j)' = FreeLocally(j)
           /\ \A w \in Workers : Counting(w, j)' \subseteq Counting(w, j)
  BY <1>0, <1>1, <1>2, <1>3, SetsMove DEF FreeLocally, Key
<1>5. /\ admitted[k] \in Nat /\ resends \in Nat /\ Left(shared[k].n) \in Nat
      /\ Limit * lives[k] \in Nat
      /\ \A j \in CounterKeys, w \in Workers : buckets[w][j] \in Nat
      /\ \A j \in CounterKeys : arrived[j] \in Nat
  BY <1>1, Numbers
<1>6. ASSUME NEW j \in CounterKeys, admitted'[j] = admitted[j]
      PROVE  Balance(j)' /\ OwnCounts(j)'
  BY <1>4, <1>5, <1>6, CountsStay
<1>7. \A j \in CounterKeys \ {k} : admitted'[j] = admitted[j]
  BY <1>1, <1>2 DEF TypeOK
<1>8. \A q \in Requests : OwnCount(q)'
  <2>1. ASSUME NEW q \in Requests \ {r}
        PROVE  OwnCount(q)'
    BY <1>4, <1>5, OwnCountStays
  <2>2. OwnCount(r)'
    <3>1. req[r].count <= arrived[k] + resends
      BY <1>0, <1>1 DEF OwnCount
    <3>2. d.pc = "rejected" => arrived[k] + resends > Limit
      BY <1>1, <1>2, <1>5, <3>1 DEF LetThrough
    <3> QED
      BY <1>1, <1>2, <1>3, <1>4, <3>2 DEF OwnCount
  <2> QED
    BY <2>1, <2>2
<1>9. CASE LetThrough(req[r].count)
  <2>1. admitted'[k] = admitted[k] + 1
    BY <1>1, <1>2, <1>9 DEF TypeOK
  <2>2. r \in Asked(k)
    BY <1>0, <1>9 DEF Asked
  <2>3. /\ admitted[k] + Cardinality(Asked(k)) + Left(shared[k].n) + Cardinality(FreeLocally(k))
             <= Limit * lives[k]
        /\ IsFiniteSet(Asked(k)) /\ IsFiniteSet(FreeLocally(k))
    BY <1>1 DEF Balance
  <2>4. /\ IsFiniteSet(Asked(k)') /\ Cardinality(Asked(k)') + 1 <= Cardinality(Asked(k))
        /\ Cardinality(Asked(k)') \in Nat /\ Cardinality(Asked(k)) \in Nat
    BY <1>4, <2>2, <2>3, OneLess
  <2>5. Cardinality(FreeLocally(k)) \in Nat /\ FreeLocally(k)' = FreeLocally(k)
    BY <1>4, <2>3, Fewer
  <2>6. Balance(k)'
    BY <1>5, <2>1, <2>3, <2>4, <2>5 DEF Balance
  <2>7. OwnCounts(k)'
    <3>1. OwnCounts(k)
      BY DEF FrontInv
    <3>2. /\ IsFiniteSet(Asking(k)') /\ Cardinality(Asking(k)') <= Cardinality(Asking(k))
          /\ Cardinality(Asking(k)') \in Nat /\ Cardinality(Asking(k)) \in Nat
      BY <1>4, <3>1, Fewer DEF OwnCounts
    <3>3. ASSUME NEW w \in Workers
          PROVE  /\ IsFiniteSet(Counting(w, k)')
                 /\ Cardinality(Counting(w, k)') <= Cardinality(Counting(w, k))
                 /\ Cardinality(Counting(w, k)') \in Nat /\ Cardinality(Counting(w, k)) \in Nat
      BY <1>4, <3>1, Fewer DEF OwnCounts
    <3>4. shared[k].n \in Nat
      BY <1>1, Numbers
    <3> QED
      BY <1>5, <3>1, <3>2, <3>3, <3>4 DEF OwnCounts
  <2> QED
    BY <1>6, <1>7, <2>6, <2>7, <1>8 DEF Accounted
<1>10. CASE ~LetThrough(req[r].count)
  BY <1>2, <1>6, <1>8, <1>10 DEF Accounted
<1> QED
  BY <1>9, <1>10

\* An answer is awaited, and a command that may have been carried out is sent again.
LEMMA AnswerAccounted ==
  ASSUME FrontInv, TypeOK', NEW r \in Requests,
         IncrAnswers(r) \/ ExpireAnswers(r) \/ IncrSentAgain(r)
  PROVE  Accounted'
<1>0. PICK k \in CounterKeys : k = Key(r)
  BY BeforeStep
<1>1. TypeOK /\ req[r] \in Coroutines /\ home[r] \in Workers /\ OwnCount(r)
  BY BeforeStep DEF FrontInv
<1>2. /\ resends \in Nat /\ \A j \in CounterKeys : arrived[j] \in Nat /\ shared[j].n \in Nat
      /\ \A j \in CounterKeys, w \in Workers : buckets[w][j] \in Nat
  BY <1>1, Numbers
<1>3. CASE IncrAnswers(r) /\ req[r].count = 1
  <2> DEFINE c == At(req[r], "expire")
  <2>1. /\ c.pc = "expire" /\ c.count = 1 /\ c.window = req[r].window
        /\ Steps(r, c) /\ req[r].pc = "counted"
        /\ UNCHANGED <<shared, lives, home, caller, buckets, resends, arrived, admitted>>
    BY <1>1, <1>3, AtTyped DEF IncrAnswers, storeVars
  <2> HIDE DEF c
  <2>2. r \in Asked(k) /\ r \in Counting(home[r], k)
    BY <1>0, <1>3, <2>1 DEF Asked, Counting, Numbered, LetThrough
  <2>3. KeyOf(r, c.window) = k
    BY <1>0, <2>1 DEF Key
  <2>4. /\ req'[r] = c /\ Key(r)' = k
        /\ \A q \in Requests \ {r} : req'[q] = req[q] /\ Key(q)' = Key(q)
    BY <1>1, <2>1, <2>3, SetsMove
  <2>5. ASSUME NEW j \in CounterKeys
        PROVE  /\ Asked(j)' \subseteq Asked(j) /\ Asking(j)' \subseteq Asking(j)
               /\ FreeLocally(j)' = FreeLocally(j)
               /\ \A w \in Workers : Counting(w, j)' \subseteq Counting(w, j)
    BY <1>1, <2>1, <2>2, <2>3, SetsMove DEF FreeLocally
  <2>6. ASSUME NEW j \in CounterKeys
        PROVE  Balance(j)' /\ OwnCounts(j)'
    BY <1>2, <2>1, <2>5, CountsStay
  <2>7. ASSUME NEW q \in Requests
        PROVE  OwnCount(q)'
    <3>1. CASE q = r
      <4>1. 1 <= arrived[k] + resends
        BY <1>0, <1>1, <1>3, <2>1 DEF OwnCount, Numbered
      <4> QED
        BY <1>1, <2>1, <2>4, <3>1, <4>1 DEF OwnCount
    <3>2. CASE q # r
      BY <1>2, <2>1, <2>4, <3>2, OwnCountStays
    <3> QED
      BY <3>1, <3>2
  <2> QED
    BY <2>6, <2>7 DEF Accounted
<1>4. CASE IncrAnswers(r) /\ req[r].count # 1
  BY <1>4, DecidesAccounted DEF IncrAnswers, storeVars, Numbered
<1>5. CASE ExpireAnswers(r)
  <2>1. \A j \in CounterKeys : shared'[j].n = shared[j].n
    BY <1>0, <1>1, <1>5, IncrTyped DEF ExpireAnswers
  <2> QED
    BY <1>5, <2>1, DecidesAccounted DEF ExpireAnswers, Numbered
<1>6. CASE IncrSentAgain(r)
  <2> DEFINE c == [At(req[r], "incr") EXCEPT !.count = 0]
  <2>1. c.pc = "incr" /\ c.window = req[r].window
    <3>1. /\ At(req[r], "incr") \in Coroutines /\ At(req[r], "incr").pc = "incr"
          /\ At(req[r], "incr").window = req[r].window
      BY <1>1, AtTyped
    <3> QED
      BY <3>1 DEF Coroutines
  <2>2. /\ Steps(r, c) /\ req[r].pc = "counted" /\ resends' = resends + 1
        /\ UNCHANGED <<shared, lives, home, caller, buckets, arrived, admitted>>
    BY <1>6 DEF IncrSentAgain, storeVars
  <2> HIDE DEF c
  <2>3. r \in Counting(home[r], k) /\ KeyOf(r, c.window) = k
    BY <1>0, <2>1, <2>2 DEF Counting, Numbered, Key
  <2>4. /\ req'[r] = c /\ Key(r)' = k
        /\ \A q \in Requests \ {r} : req'[q] = req[q] /\ Key(q)' = Key(q)
        /\ Asking(k)' \subseteq Asking(k) \cup {r}
    BY <1>1, <2>1, <2>2, <2>3, SetsMove
  <2>5. ASSUME NEW j \in CounterKeys
        PROVE  /\ Asked(j)' \subseteq Asked(j)
               /\ j # k => Asking(j)' \subseteq Asking(j)
               /\ FreeLocally(j)' = FreeLocally(j)
               /\ \A w \in Workers : Counting(w, j)' \subseteq Counting(w, j)
    BY <1>1, <2>1, <2>2, <2>3, SetsMove DEF FreeLocally, Numbered
  <2>6. ASSUME NEW j \in CounterKeys \ {k}
        PROVE  Balance(j)' /\ OwnCounts(j)'
    BY <1>2, <2>2, <2>5, CountsStay
  <2>7. Balance(k)' /\ OwnCounts(k)'
    <3>1. /\ Balance(k) /\ OwnCounts(k)
      BY DEF FrontInv
    <3>2. /\ IsFiniteSet(Asking(k)') /\ Cardinality(Asking(k)') <= Cardinality(Asking(k)) + 1
          /\ Cardinality(Asking(k)') \in Nat /\ Cardinality(Asking(k)) \in Nat
      BY <2>4, <3>1, OneMore DEF OwnCounts
    <3>3. ASSUME NEW w \in Workers
          PROVE  /\ IsFiniteSet(Counting(w, k)')
                 /\ Cardinality(Counting(w, k)') <= Cardinality(Counting(w, k))
                 /\ Cardinality(Counting(w, k)') \in Nat /\ Cardinality(Counting(w, k)) \in Nat
      BY <2>5, <3>1, Fewer DEF OwnCounts
    <3>4. OwnCounts(k)'
      BY <1>2, <2>2, <3>1, <3>2, <3>3 DEF OwnCounts
    <3>5. /\ IsFiniteSet(Asked(k)') /\ Cardinality(Asked(k)') <= Cardinality(Asked(k))
          /\ Cardinality(Asked(k)') \in Nat /\ Cardinality(Asked(k)) \in Nat
          /\ Cardinality(FreeLocally(k)) \in Nat
      BY <2>5, <3>1, Fewer DEF Balance
    <3>6. /\ admitted[k] \in Nat /\ Left(shared[k].n) \in Nat /\ Limit * lives[k] \in Nat
      BY <1>1, Numbers
    <3>7. Balance(k)'
      BY <2>2, <2>5, <3>1, <3>5, <3>6 DEF Balance
    <3> QED
      BY <3>4, <3>7
  <2>8. ASSUME NEW q \in Requests
        PROVE  OwnCount(q)'
    <3>1. CASE q = r
      BY <1>1, <2>1, <2>4, <3>1 DEF OwnCount, Numbered
    <3>2. CASE q # r
      BY <1>2, <2>2, <2>4, <3>2, OwnCountStays
    <3> QED
      BY <3>1, <3>2
  <2> QED
    BY <2>6, <2>7, <2>8 DEF Accounted
<1> QED
  BY <1>3, <1>4, <1>5, <1>6

\* A worker counts a request that has arrived, or whose count Redis did not give.
LEMMA LocalAccounted ==
  ASSUME FrontInv, TypeOK', NEW r \in Requests, NEW c \in Coroutines, NEW k \in CounterKeys,
         k = KeyOf(r, c.window), c.window \in 0..(Horizon \div Window), CountLocally(r, c, k),
         \A j \in CounterKeys : shared'[j].n = shared[j].n /\ arrived'[j] >= arrived[j],
         UNCHANGED <<home, caller, resends>>,
         r \in Counting(home[r], k) \/ arrived'[k] = arrived[k] + 1
  PROVE  Accounted'
<1>a. TypeOK /\ home[r] \in Workers /\ Balance(k) /\ OwnCounts(k)
  BY BeforeStep DEF FrontInv
<1>b. PICK w \in Workers : w = home[r]
  BY <1>a
<1>c. PICK count \in Nat : count = buckets[w][k] + 1
  <2>1. buckets[w][k] \in Nat
    BY <1>a, Numbers
  <2> QED
    BY <2>1
<1>1. /\ TypeOK /\ Balance(k) /\ OwnCounts(k)
      /\ buckets' = [buckets EXCEPT ![w] = Counted(w, k)] /\ lives' = Started(w, k)
      /\ Decide(r, c, k, count, FALSE)
  BY <1>a, <1>b, <1>c DEF CountLocally
<1>2. /\ admitted[k] \in Nat /\ resends \in Nat /\ Left(shared[k].n) \in Nat
      /\ Limit * lives[k] \in Nat
      /\ \A j \in CounterKeys, v \in Workers : buckets[v][j] \in Nat
      /\ \A j \in CounterKeys : arrived[j] \in Nat
      /\ lives \in [CounterKeys -> Nat] /\ shared[k].n \in Nat
  BY <1>1, Numbers DEF TypeOK, StoreTypeOK
<1>3. /\ \A j \in CounterKeys : arrived'[j] \in Nat /\ lives'[j] \in Nat /\ Limit * lives'[j] \in Nat
      /\ \A j \in CounterKeys, v \in Workers : buckets'[v][j] \in Nat
  BY PlacesOfCounter DEF TypeOK, StoreTypeOK
<1>4. /\ \A v \in Workers, j \in CounterKeys :
           buckets'[v][j] <= buckets[v][j] + (IF v = w /\ j = k THEN 1 ELSE 0)
      /\ \A j \in CounterKeys \ {k} :
           lives'[j] = lives[j] /\ FreeLocally(j)' \subseteq FreeLocally(j)
      /\ IsFiniteSet(FreeLocally(k)')
      /\ Limit * lives[k] + Cardinality(FreeLocally(k)') + (IF LetThrough(count) THEN 1 ELSE 0)
           <= Limit * lives'[k] + Cardinality(FreeLocally(k))
  <2>1. \A j \in CounterKeys : IsFiniteSet(FreeLocally(j))
    BY DEF FrontInv, Balance
  <2>2. CountedHere(w, k)
    BY <1>1 DEF CountedHere
  <2>3. LetThrough(count) <=> LetThrough(buckets[w][k] + 1)
    BY <1>c
  <2>4. /\ \A v \in Workers, j \in CounterKeys :
             buckets'[v][j] <= buckets[v][j] + (IF v = w /\ j = k THEN 1 ELSE 0)
        /\ \A j \in CounterKeys \ {k} :
             lives'[j] = lives[j] /\ FreeLocally(j)' \subseteq FreeLocally(j)
        /\ IsFiniteSet(FreeLocally(k)')
        /\ Limit * lives[k] + Cardinality(FreeLocally(k)')
             + (IF LetThrough(buckets[w][k] + 1) THEN 1 ELSE 0)
             <= Limit * lives'[k] + Cardinality(FreeLocally(k))
    BY <1>a, <2>1, <2>2, LocalPlaces
  <2> QED
    BY <2>3, <2>4
<1>5. PICK d \in Coroutines :
        /\ Steps(r, d) /\ d.window = c.window
        /\ IF LetThrough(count)
           THEN d.pc \in {"get", "work"} /\ admitted' = [admitted EXCEPT ![k] = @ + 1]
           ELSE d.pc = "rejected" /\ admitted' = admitted
  <2>1. ASSUME NEW ready \in BOOLEAN, Decide(r, c, k, count, ready)
        PROVE  \E d \in Coroutines :
                 /\ Steps(r, d) /\ d.window = c.window
                 /\ IF LetThrough(count)
                    THEN d.pc \in {"get", "work"} /\ admitted' = [admitted EXCEPT ![k] = @ + 1]
                    ELSE d.pc = "rejected" /\ admitted' = admitted
    BY <1>1, <2>1, DecideMoves
  <2>2. FALSE \in BOOLEAN /\ Decide(r, c, k, count, FALSE)
    BY <1>1
  <2> QED
    BY <2>1, <2>2
<1>6. d.pc \notin {"incr"} \cup Numbered
  BY <1>5 DEF Numbered
<1>7. /\ req'[r] = d /\ Key(r)' = k
      /\ \A q \in Requests \ {r} : req'[q] = req[q] /\ Key(q)' = Key(q)
      /\ \A j \in CounterKeys :
           /\ Asked(j)' \subseteq Asked(j)
           /\ Asking(j)' \subseteq Asking(j)
           /\ \A v \in Workers : Counting(v, j)' \subseteq Counting(v, j) \ {r}
  BY <1>1, <1>5, <1>6, SetsMove
<1>8. ASSUME NEW j \in CounterKeys \ {k}
      PROVE  Balance(j)' /\ OwnCounts(j)'
  <2>1. admitted'[j] = admitted[j]
    BY <1>1, <1>5 DEF TypeOK
  <2>2. \A v \in Workers : /\ Counting(v, j)' \subseteq Counting(v, j)
                           /\ buckets'[v][j] <= buckets[v][j]
    BY <1>2, <1>4, <1>7
  <2> QED
    BY <1>2, <1>4, <1>7, <2>1, <2>2, CountsStay
<1>9. Balance(k)'
  <2>1. /\ admitted[k] + Cardinality(Asked(k)) + Left(shared[k].n) + Cardinality(FreeLocally(k))
             <= Limit * lives[k]
        /\ IsFiniteSet(Asked(k)) /\ IsFiniteSet(FreeLocally(k))
    BY <1>1 DEF Balance
  <2>2. /\ IsFiniteSet(Asked(k)') /\ Cardinality(Asked(k)') <= Cardinality(Asked(k))
        /\ Cardinality(Asked(k)') \in Nat /\ Cardinality(Asked(k)) \in Nat
        /\ Cardinality(FreeLocally(k)) \in Nat /\ Cardinality(FreeLocally(k)') \in Nat
    BY <1>4, <1>7, <2>1, Fewer
  <2>3. admitted'[k] = admitted[k] + (IF LetThrough(count) THEN 1 ELSE 0)
    BY <1>1, <1>2, <1>5 DEF TypeOK
  <2>4. Left(shared'[k].n) = Left(shared[k].n)
    OBVIOUS
  <2>5. admitted'[k] + Cardinality(Asked(k)') + Left(shared'[k].n) + Cardinality(FreeLocally(k)')
          <= Limit * lives'[k]
    BY <1>2, <1>3, <1>4, <2>1, <2>2, <2>3, <2>4
  <2> QED
    BY <1>4, <2>2, <2>5 DEF Balance
<1>10. /\ OwnCounts(k)'
       /\ count <= arrived'[k]
  <2>1. ASSUME NEW v \in Workers
        PROVE  /\ IsFiniteSet(Counting(v, k)')
               /\ buckets'[v][k] + Cardinality(Counting(v, k)') <= arrived'[k]
               /\ v = w => count <= arrived'[k]
    <3>1. IsFiniteSet(Counting(v, k)) /\ buckets[v][k] + Cardinality(Counting(v, k)) <= arrived[k]
      BY <1>1 DEF OwnCounts
    <3>2. /\ IsFiniteSet(Counting(v, k)')
          /\ Cardinality(Counting(v, k)') <= Cardinality(Counting(v, k))
          /\ Cardinality(Counting(v, k)') \in Nat /\ Cardinality(Counting(v, k)) \in Nat
      BY <1>7, <3>1, Fewer
    <3>3. arrived'[k] \in Nat /\ arrived[k] \in Nat /\ arrived'[k] >= arrived[k]
      BY <1>2, <1>3
    <3>4. CASE v # w
      BY <1>2, <1>3, <1>4, <3>1, <3>2, <3>3, <3>4
    <3>5. CASE v = w /\ arrived'[k] = arrived[k] + 1
      BY <1>2, <1>3, <1>4, <1>c, <3>1, <3>2, <3>3, <3>5
    <3>6. CASE v = w /\ r \in Counting(w, k)
      <4>1. Cardinality(Counting(v, k)') + 1 <= Cardinality(Counting(v, k))
        BY <1>1, <1>7, <3>1, <3>6, OneLess
      <4> QED
        BY <1>2, <1>3, <1>4, <1>c, <3>1, <3>2, <3>3, <3>6, <4>1
    <3> QED
      BY <1>b, <3>4, <3>5, <3>6
  <2>2. /\ IsFiniteSet(Asking(k)') /\ Cardinality(Asking(k)') <= Cardinality(Asking(k))
        /\ Cardinality(Asking(k)') \in Nat /\ Cardinality(Asking(k)) \in Nat
        /\ shared[k].n + Cardinality(Asking(k)) <= arrived[k] + resends
    BY <1>1, <1>7, Fewer DEF OwnCounts
  <2>3. shared'[k].n + Cardinality(Asking(k)') <= arrived'[k] + resends'
    BY <1>2, <1>3, <2>2
  <2> QED
    BY <2>1, <2>2, <2>3 DEF OwnCounts
<1>11. ASSUME NEW q \in Requests \ {r}
       PROVE  OwnCount(q)'
  BY <1>2, <1>7, OwnCountStays
<1>12. OwnCount(r)'
  <2>1. d.pc = "rejected" => arrived'[k] + resends' > Limit
    BY <1>2, <1>3, <1>5, <1>10 DEF LetThrough
  <2> QED
    BY <1>5, <1>6, <1>7, <2>1 DEF OwnCount
<1> QED
  BY <1>8, <1>9, <1>10, <1>11, <1>12 DEF Accounted

\* A count that fails, and an arrival.
LEMMA FailedCountAccounted ==
  ASSUME FrontInv, TypeOK', NEW r \in Requests, CountFails(r)
  PROVE  Accounted'
<1> DEFINE c == [req[r] EXCEPT !.count = 0]
<1>0. PICK k \in CounterKeys : k = Key(r)
  BY BeforeStep
<1>1. /\ c \in Coroutines /\ c.window = req[r].window /\ TypeOK
      /\ req[r].window \in 0..(Horizon \div Window)
  BY BeforeStep DEF FrontInv, OwnCount
<1>2. /\ CountLocally(r, c, k) /\ UNCHANGED <<home, caller, resends, arrived>>
      /\ req[r].pc \in {"incr", "counted", "expire"}
  BY <1>0 DEF CountFails
<1>3. r \in Counting(home[r], k)
  BY <1>0, <1>2 DEF Counting, Numbered
<1>4. ASSUME NEW j \in CounterKeys
      PROVE  shared'[j].n = shared[j].n /\ arrived'[j] >= arrived[j]
  <2>1. shared' = shared \/ Expire(k)
    BY <1>0 DEF CountFails
  <2>2. arrived[j] \in Nat
    BY <1>1, Numbers
  <2> QED
    BY <1>1, <1>2, <2>1, <2>2, IncrTyped
<1>5. k = KeyOf(r, c.window)
  BY <1>0, <1>1 DEF Key
<1> HIDE DEF c
<1> QED
  BY <1>1, <1>2, <1>3, <1>4, <1>5, LocalAccounted

LEMMA ArrivalAccounted ==
  ASSUME FrontInv, TypeOK', NEW r \in Requests, Arrive(r)
  PROVE  Accounted'
<1>1. TypeOK /\ now \div Window \in 0..(Horizon \div Window)
  BY KeyTyped DEF FrontInv
<1>2. PICK i \in 0..(Horizon \div Window) : i = now \div Window
  BY <1>1
<1>3. PICK k \in CounterKeys : k = KeyOf(r, i)
  BY <1>1, <1>2, KeyTyped
<1>4. PICK p \in {None} \cup {q \in Requests : req[q].pc = "done"} :
        LET c == [req[r] EXCEPT !.window = i, !.previous = p]
        IN /\ arrived' = [arrived EXCEPT ![k] = @ + 1]
           /\ IF Ready(home[r])
                THEN Steps(r, At(c, "incr")) /\ UNCHANGED <<admitted, buckets, lives>>
                ELSE CountLocally(r, c, k)
  BY <1>2, <1>3 DEF Arrive, KeyOf
<1> DEFINE c == [req[r] EXCEPT !.window = i, !.previous = p]
<1>5. c \in Coroutines /\ c.window = i /\ k = KeyOf(r, c.window)
  <2>1. p \in {None} \cup Requests
    BY <1>4
  <2>2. c = [req[r] EXCEPT !.window = now \div Window, !.previous = p]
    BY <1>2
  <2> HIDE DEF c
  <2>3. c \in Coroutines /\ c.window = now \div Window
    BY <2>1, <2>2, ArrivesTyped
  <2> QED
    BY <1>2, <1>3, <2>3
<1>6. /\ arrived' = [arrived EXCEPT ![k] = @ + 1]
      /\ IF Ready(home[r]) THEN Steps(r, At(c, "incr")) /\ UNCHANGED <<admitted, buckets, lives>>
                           ELSE CountLocally(r, c, k)
      /\ UNCHANGED <<shared, home, caller, resends>>
  BY <1>4 DEF Arrive
<1> HIDE DEF c
<1>7. /\ arrived'[k] = arrived[k] + 1 /\ resends \in Nat
      /\ \A j \in CounterKeys : arrived[j] \in Nat /\ arrived'[j] >= arrived[j]
      /\ \A j \in CounterKeys \ {k} : arrived'[j] = arrived[j]
      /\ \A j \in CounterKeys : shared[j].n \in Nat /\ \A w \in Workers : buckets[w][j] \in Nat
  <2>1. arrived \in [CounterKeys -> Nat]
    BY <1>1 DEF TypeOK
  <2>2. /\ resends \in Nat
        /\ \A j \in CounterKeys : shared[j].n \in Nat /\ \A w \in Workers : buckets[w][j] \in Nat
    BY <1>1, Numbers
  <2>3. /\ arrived'[k] = arrived[k] + 1
        /\ \A j \in CounterKeys \ {k} : arrived'[j] = arrived[j]
    BY <1>6, <2>1
  <2> QED
    BY <2>1, <2>2, <2>3
<1>8. CASE ~Ready(home[r])
  BY <1>2, <1>5, <1>6, <1>7, <1>8, LocalAccounted
<1>9. CASE Ready(home[r])
  <2> DEFINE d == At(c, "incr")
  <2>1. /\ d.pc = "incr" /\ d.window = i /\ Steps(r, d) /\ UNCHANGED <<admitted, buckets, lives>>
        /\ k = KeyOf(r, d.window)
    BY <1>5, <1>6, <1>9, AtTyped
  <2> HIDE DEF d
  <2>2. /\ req'[r] = d /\ Key(r)' = k
        /\ \A q \in Requests \ {r} : req'[q] = req[q] /\ Key(q)' = Key(q)
        /\ Asking(k)' \subseteq Asking(k) \cup {r}
        /\ \A w \in Workers : Counting(w, k)' \subseteq Counting(w, k) \cup {r}
    BY <1>1, <1>6, <2>1, SetsMove
  <2>3. ASSUME NEW j \in CounterKeys
        PROVE  /\ Asked(j)' \subseteq Asked(j) /\ FreeLocally(j)' = FreeLocally(j)
               /\ j # k => Asking(j)' \subseteq Asking(j)
               /\ j # k => \A w \in Workers : Counting(w, j)' \subseteq Counting(w, j)
    BY <1>1, <1>6, <2>1, SetsMove DEF FreeLocally, Numbered
  <2>4. ASSUME NEW j \in CounterKeys \ {k}
        PROVE  Balance(j)' /\ OwnCounts(j)'
    BY <1>6, <1>7, <2>1, <2>3, CountsStay
  <2>5. Balance(k) /\ OwnCounts(k)
    BY DEF FrontInv
  <2>6. Balance(k)'
    <3>1. /\ IsFiniteSet(Asked(k)') /\ Cardinality(Asked(k)') <= Cardinality(Asked(k))
          /\ Cardinality(Asked(k)') \in Nat /\ Cardinality(Asked(k)) \in Nat
          /\ Cardinality(FreeLocally(k)) \in Nat
      BY <2>3, <2>5, Fewer DEF Balance
    <3>2. /\ admitted[k] \in Nat /\ Left(shared[k].n) \in Nat /\ Limit * lives[k] \in Nat
      BY <1>1, Numbers
    <3> QED
      BY <1>6, <2>1, <2>3, <2>5, <3>1, <3>2 DEF Balance
  <2>7. OwnCounts(k)'
    <3>1. /\ IsFiniteSet(Asking(k)') /\ Cardinality(Asking(k)') <= Cardinality(Asking(k)) + 1
          /\ Cardinality(Asking(k)') \in Nat /\ Cardinality(Asking(k)) \in Nat
      BY <2>2, <2>5, OneMore DEF OwnCounts
    <3>2. ASSUME NEW w \in Workers
          PROVE  /\ IsFiniteSet(Counting(w, k)')
                 /\ Cardinality(Counting(w, k)') <= Cardinality(Counting(w, k)) + 1
                 /\ Cardinality(Counting(w, k)') \in Nat /\ Cardinality(Counting(w, k)) \in Nat
      BY <2>2, <2>5, OneMore DEF OwnCounts
    <3> QED
      BY <1>6, <1>7, <2>1, <2>5, <3>1, <3>2 DEF OwnCounts
  <2>8. ASSUME NEW q \in Requests
        PROVE  OwnCount(q)'
    <3>1. CASE q = r
      BY <2>1, <2>2, <3>1 DEF OwnCount, Numbered
    <3>2. CASE q # r
      BY <1>6, <1>7, <2>2, <3>2, OwnCountStays
    <3> QED
      BY <3>1, <3>2
  <2> QED
    BY <2>4, <2>6, <2>7, <2>8 DEF Accounted
<1> QED
  BY <1>8, <1>9

\* The chain, restarts, probes and time take and bring no places.
LEMMA ChainAccounted ==
  ASSUME FrontInv, TypeOK', NEW r \in Requests, ChainStep(r)
  PROVE  Accounted'
<1>1. TypeOK /\ OwnCount(r)
  BY DEF FrontInv
<1>2. /\ req[r].pc \in {"get", "work", "set"}
      /\ UNCHANGED <<now, shared, lives, home, caller, buckets, resends, arrived, admitted>>
  BY ChainMoves
<1>3. PICK c \in Coroutines :
        /\ Steps(r, c) /\ c.pc \in {"work", "set", "done", "failed"}
        /\ c.window \in {req[r].window, 0}
  BY ChainMoves
<1>4. c.pc \notin {"incr"} \cup Numbered /\ c.pc # "rejected"
  BY <1>3 DEF Numbered
<1>5. /\ req'[r] = c /\ Key(r)' = KeyOf(r, c.window)
      /\ \A q \in Requests \ {r} : req'[q] = req[q] /\ Key(q)' = Key(q)
      /\ \A k \in CounterKeys :
           /\ Asked(k)' \subseteq Asked(k) /\ Asking(k)' \subseteq Asking(k)
           /\ \A w \in Workers : Counting(w, k)' \subseteq Counting(w, k)
           /\ FreeLocally(k)' = FreeLocally(k)
  BY <1>1, <1>2, <1>3, <1>4, SetsMove DEF FreeLocally
<1>6. /\ \A k \in CounterKeys : arrived[k] \in Nat /\ resends \in Nat
      /\ \A k \in CounterKeys, w \in Workers : buckets[w][k] \in Nat
  BY <1>1, Numbers
<1>7. ASSUME NEW k \in CounterKeys
      PROVE  Balance(k)' /\ OwnCounts(k)'
  BY <1>2, <1>5, <1>6, CountsStay
<1>8. ASSUME NEW q \in Requests
      PROVE  OwnCount(q)'
  <2>1. CASE q = r
    <3>1. 0 \in 0..(Horizon \div Window)
      BY <1>1, KeyTyped
    <3> QED
      BY <1>1, <1>3, <1>4, <1>5, <2>1, <3>1 DEF OwnCount
  <2>2. CASE q # r
    <3>1. resends \in Nat /\ resends' = resends
      BY <1>1, <1>2 DEF TypeOK
    <3> QED
      BY <1>2, <1>5, <1>6, <2>2, <3>1, OwnCountStays
  <2> QED
    BY <2>1, <2>2
<1> QED
  BY <1>7, <1>8 DEF Accounted

LEMMA WorkersAccounted ==
  ASSUME FrontInv, TypeOK',
         (\E w \in Workers : Restart(w) \/ HealthProbe(w)) \/ Tick \/ UNCHANGED vars
  PROVE  Accounted'
<1>1. TypeOK
  BY DEF FrontInv
<1>2. /\ \A k \in CounterKeys : arrived[k] \in Nat
      /\ \A k \in CounterKeys, w \in Workers : buckets[w][k] \in Nat
      /\ resends \in Nat
  <2>1. resends \in Nat
    BY <1>1 DEF TypeOK
  <2> QED
    BY <1>1, <2>1, Numbers
<1>3. ASSUME NEW w \in Workers, Restart(w)
      PROVE  Accounted'
  <2>1. UNCHANGED <<shared, lives, home, caller, resends, arrived, admitted>>
    BY <1>3 DEF Restart, StoreRestart
  <2>2. ASSUME NEW q \in Requests
        PROVE  \/ req'[q] = Coroutine("failed")
               \/ req'[q] = req[q] /\ Key(q)' = Key(q)
    BY <1>3, <2>1 DEF Restart, Key, KeyOf
  <2>3. /\ Coroutine("failed").pc = "failed" /\ Coroutine("failed").window = 0
    BY CoroutineTyped DEF Ended
  <2>4. ASSUME NEW v \in Workers, NEW k \in CounterKeys
        PROVE  buckets'[v][k] \in {buckets[v][k], 0}
    BY <1>1, <1>3 DEF Restart, TypeOK
  <2>5. ASSUME NEW k \in CounterKeys
        PROVE  Balance(k)' /\ OwnCounts(k)'
    <3>1. Asked(k)' \subseteq Asked(k) /\ Asking(k)' \subseteq Asking(k)
      BY <2>2, <2>3 DEF Asked, Asking, Numbered, LetThrough
    <3>2. ASSUME NEW v \in Workers
          PROVE  Counting(v, k)' \subseteq Counting(v, k) /\ buckets'[v][k] <= buckets[v][k]
      <4>1. Counting(v, k)' \subseteq Counting(v, k)
        BY <2>1, <2>2, <2>3 DEF Counting, Numbered
      <4> QED
        BY <1>2, <2>4, <4>1
    <3>3. FreeLocally(k)' \subseteq FreeLocally(k)
      <4>1. \A v \in Workers : buckets'[v][k] = buckets[v][k] \/ buckets'[v][k] = 0
        BY <2>4
      <4> QED
        BY <4>1 DEF FreeLocally
    <3> QED
      BY <1>2, <2>1, <3>1, <3>2, <3>3, CountsStay
  <2>6. ASSUME NEW q \in Requests
        PROVE  OwnCount(q)'
    <3>1. CASE req'[q] = Coroutine("failed")
      <4>1. 0 \in 0..(Horizon \div Window)
        BY <1>1, KeyTyped
      <4> QED
        BY <2>3, <3>1, <4>1 DEF OwnCount, Numbered
    <3>2. CASE req'[q] = req[q] /\ Key(q)' = Key(q)
      BY <1>2, <2>1, <3>2, OwnCountStays
    <3> QED
      BY <2>2, <3>1, <3>2
  <2> QED
    BY <2>5, <2>6 DEF Accounted
<1>4. ASSUME UNCHANGED <<lives, frontVars>>,
             \A k \in CounterKeys : shared'[k].n \in {shared[k].n, 0}
      PROVE  Accounted'
  <2>1. UNCHANGED <<req, home, caller, buckets, resends, arrived, admitted, lives>>
    BY <1>4 DEF frontVars
  <2>2. \A q \in Requests : req'[q] = req[q] /\ Key(q)' = Key(q)
    BY <2>1 DEF Key, KeyOf
  <2>3. ASSUME NEW k \in CounterKeys
        PROVE  Balance(k)' /\ OwnCounts(k)'
    <3>1. /\ Asked(k)' = Asked(k) /\ FreeLocally(k)' = FreeLocally(k)
          /\ Asking(k)' = Asking(k)
          /\ \A w \in Workers : Counting(w, k)' = Counting(w, k)
      BY <2>1 DEF Asked, FreeLocally, Asking, Counting, LetThrough, Key, KeyOf
    <3> QED
      BY <1>2, <1>4, <2>1, <3>1, CountsStay
  <2>4. ASSUME NEW q \in Requests
        PROVE  OwnCount(q)'
    BY <1>2, <2>1, <2>2, OwnCountStays
  <2> QED
    BY <2>3, <2>4 DEF Accounted
<1>5. ASSUME NEW w \in Workers, HealthProbe(w)
      PROVE  Accounted'
  BY <1>4, <1>5 DEF HealthProbe, Ping
<1>6. ASSUME Tick
      PROVE  Accounted'
  <2>1. \A k \in CounterKeys : shared'[k].n \in {shared[k].n, 0}
    BY <1>6 DEF Tick, StoreTick, NoCounter
  <2> QED
    BY <1>4, <1>6, <2>1 DEF Tick, StoreTick
<1>7. ASSUME UNCHANGED vars
      PROVE  Accounted'
  BY <1>4, <1>7 DEF vars, storeVars
<1> QED
  BY <1>3, <1>5, <1>6, <1>7

-----------------------------------------------------------------------------
(* The chain of turns.                                                      *)

Finds(r) ==
  (faults = 0 /\ req[r].pc = "work" /\ req[r].previous # None
     /\ now < stored[req[r].previous]) => req[r].found
Linked == Chained /\ \A r \in Requests : Follows(r) /\ Finds(r)

\* A coroutine that a step leaves alone keeps its link, and one that moves keeps it with
\* the id it had, or another answered request's.
LEMMA LinkStays ==
  ASSUME FrontInv, NEW r \in Requests,
         \A q \in Requests : req[q].pc = "done" => req'[q].pc = "done",
         req'[r].previous \in {None, req[r].previous} \cup {q \in Requests : req[q].pc = "done"}
  PROVE  Follows(r)'
<1>1. Follows(r)
  BY DEF FrontInv
<1> QED
  BY <1>1 DEF Follows

LEMMA FindingStays ==
  ASSUME FrontInv, TypeOK', NEW r \in Requests, req'[r] = req[r], now' >= now,
         faults' = 0 => faults = 0,
         \A q \in Requests : req[q].pc = "done" => stored'[q] = stored[q]
  PROVE  Finds(r)'
<1>1. Follows(r) /\ Finds(r) /\ TypeOK
  BY DEF FrontInv, ChainHolds, Finds
<1>2. now \in Nat /\ now' \in Nat /\ \A q \in Requests : stored[q] \in Nat
  BY <1>1 DEF TypeOK, StoreTypeOK
<1> QED
  BY <1>1, <1>2 DEF Follows, Finds

\* The steps of the limiter.
LimiterStep(r) ==
  \/ Arrive(r) \/ IncrApplied(r) \/ IncrAnswers(r) \/ IncrSentAgain(r)
  \/ ExpireAnswers(r) \/ CountFails(r)

\* What they do to the chain: while nothing fails, they leave the lookup to Redis.
LEMMA LimiterMoves ==
  ASSUME FrontInv, NEW r \in Requests, LimiterStep(r)
  PROVE  /\ req[r].pc # "done" /\ UNCHANGED <<now, turns, stored>>
         /\ UNCHANGED <<retryAt, faults>> \/ MarkDown(home[r])
         /\ \E d \in Coroutines :
              /\ Steps(r, d)
              /\ d.previous \in
                   {None, req[r].previous} \cup {q \in Requests : req[q].pc = "done"}
              /\ d.pc = "work" /\ d.previous # None =>
                   MarkDown(home[r]) \/ ~Ready(home[r])
<1>1. /\ TypeOK /\ Key(r) \in CounterKeys /\ req[r] \in Coroutines /\ req[r].count \in Nat
      /\ [req[r] EXCEPT !.count = 0] \in Coroutines /\ Ready(home[r]) \in BOOLEAN
      /\ [req[r] EXCEPT !.count = 0].previous = req[r].previous
  BY BeforeStep DEF FrontInv, Ready
<1>2. ASSUME NEW c \in Coroutines, NEW k \in CounterKeys, CountLocally(r, c, k)
      PROVE  \E d \in Coroutines : Steps(r, d) /\ d.previous = c.previous
  <2>1. PICK count \in Nat : count = buckets[home[r]][k] + 1
    <3>1. home[r] \in Workers
      BY BeforeStep
    <3>2. buckets[home[r]][k] \in Nat
      BY <1>1, <3>1, Numbers
    <3> QED
      BY <3>2
  <2>2. ASSUME NEW ready \in BOOLEAN, Decide(r, c, k, count, ready)
        PROVE  \E d \in Coroutines : Steps(r, d) /\ d.previous = c.previous
    BY <1>1, <2>2, DecideMoves
  <2>3. FALSE \in BOOLEAN /\ Decide(r, c, k, count, FALSE)
    BY <1>2, <2>1 DEF CountLocally
  <2> QED
    BY <2>2, <2>3
<1>3. CASE Arrive(r)
  <2>1. PICK p \in {None} \cup {q \in Requests : req[q].pc = "done"} :
          LET c == [req[r] EXCEPT !.window = now \div Window, !.previous = p]
              k == KeyOf(r, now \div Window)
          IN IF Ready(home[r]) THEN Steps(r, At(c, "incr")) ELSE CountLocally(r, c, k)
    BY <1>3 DEF Arrive
  <2> DEFINE c == [req[r] EXCEPT !.window = now \div Window, !.previous = p]
             k == KeyOf(r, now \div Window)
  <2>2. p \in {None} \cup Requests
    BY <2>1
  <2>3. c \in Coroutines /\ c.previous = p /\ k \in CounterKeys
    BY <2>2, ArrivesTyped
  <2>4. IF Ready(home[r]) THEN Steps(r, At(c, "incr")) ELSE CountLocally(r, c, k)
    BY <2>1
  <2>5. req[r].pc # "done" /\ UNCHANGED <<now, turns, stored, retryAt, faults>>
    BY <1>3 DEF Arrive
  <2> HIDE DEF c, k
  <2>6. CASE Ready(home[r])
    BY <2>1, <2>3, <2>4, <2>5, <2>6, AtTyped
  <2>7. CASE ~Ready(home[r])
    BY <1>2, <2>1, <2>3, <2>4, <2>5, <2>7
  <2> QED
    BY <2>6, <2>7
<1>4. CASE IncrApplied(r) \/ IncrSentAgain(r)
  <2>1. /\ At(req[r], "counted") \in Coroutines /\ At(req[r], "incr") \in Coroutines
        /\ At(req[r], "counted").previous = req[r].previous
        /\ At(req[r], "incr").previous = req[r].previous
        /\ At(req[r], "counted").pc = "counted" /\ At(req[r], "incr").pc = "incr"
    BY <1>1, AtTyped
  <2>2. Incremented(Key(r)).n \in Nat /\ 0 \in Nat
    BY <1>1, IncrTyped
  <2>3. PICK where \in {"counted", "incr"}, n \in Nat :
          Steps(r, [At(req[r], where) EXCEPT !.count = n])
    BY <1>4, <2>2 DEF IncrApplied, IncrSentAgain
  <2>4. /\ [At(req[r], where) EXCEPT !.count = n] \in Coroutines
        /\ [At(req[r], where) EXCEPT !.count = n].previous = req[r].previous
        /\ [At(req[r], where) EXCEPT !.count = n].pc = where
    BY <2>1 DEF Coroutines
  <2>5. req[r].pc # "done" /\ UNCHANGED <<now, turns, stored, retryAt, faults>>
    BY <1>4 DEF IncrApplied, IncrSentAgain, storeVars
  <2> QED
    BY <2>3, <2>4, <2>5
<1>5. CASE IncrAnswers(r) \/ ExpireAnswers(r)
  <2>1. req[r].pc # "done" /\ UNCHANGED <<now, turns, stored, retryAt, faults>>
    BY <1>5 DEF IncrAnswers, ExpireAnswers, storeVars
  <2>2. \/ Steps(r, At(req[r], "expire"))
        \/ Decide(r, [req[r] EXCEPT !.count = 0], Key(r), req[r].count, Ready(home[r]))
    BY <1>5 DEF IncrAnswers, ExpireAnswers
  <2>3. CASE Steps(r, At(req[r], "expire"))
    BY <1>1, <2>1, <2>3, AtTyped
  <2>4. CASE Decide(r, [req[r] EXCEPT !.count = 0], Key(r), req[r].count, Ready(home[r]))
    <3>1. PICK c \in Coroutines, ready \in BOOLEAN :
            /\ c.previous = req[r].previous /\ (ready <=> Ready(home[r]))
            /\ Decide(r, c, Key(r), req[r].count, ready)
      BY <1>1, <2>4
    <3>2. PICK d \in Coroutines :
            /\ Steps(r, d) /\ d.previous = c.previous
            /\ d.pc = "work" /\ d.previous # None => ~ready
      BY <1>1, <3>1, DecideMoves
    <3> QED
      BY <2>1, <3>1, <3>2
  <2> QED
    BY <2>2, <2>3, <2>4
<1>6. CASE CountFails(r)
  <2>1. /\ req[r].pc # "done" /\ UNCHANGED <<now, turns, stored>> /\ MarkDown(home[r])
        /\ CountLocally(r, [req[r] EXCEPT !.count = 0], Key(r))
    BY <1>6 DEF CountFails
  <2> QED
    BY <1>1, <1>2, <2>1
<1> QED
  BY <1>3, <1>4, <1>5, <1>6 DEF LimiterStep

LEMMA LimiterLinked ==
  ASSUME FrontInv, TypeOK', NEW r \in Requests, LimiterStep(r)
  PROVE  Linked'
<1>1. TypeOK /\ Chained /\ home[r] \in Workers
  BY BeforeStep DEF FrontInv
<1>2. PICK d \in Coroutines :
        /\ Steps(r, d)
        /\ d.previous \in {None, req[r].previous} \cup {q \in Requests : req[q].pc = "done"}
        /\ d.pc = "work" /\ d.previous # None => MarkDown(home[r]) \/ ~Ready(home[r])
  BY LimiterMoves
<1>3. /\ req[r].pc # "done" /\ UNCHANGED <<now, turns, stored>>
      /\ UNCHANGED <<retryAt, faults>> \/ MarkDown(home[r])
  BY LimiterMoves
<1>4. req'[r] = d /\ \A q \in Requests \ {r} : req'[q] = req[q]
  BY <1>1, <1>2 DEF Steps, TypeOK
<1>5. MarkDown(home[r]) => faults' # 0
  BY <1>1 DEF MarkDown, TypeOK, StoreTypeOK
<1>6. Chained'
  BY <1>1, <1>3, <1>5 DEF Chained
<1>7. ASSUME NEW q \in Requests
      PROVE  Follows(q)'
  BY <1>2, <1>3, <1>4, LinkStays
<1>8. ASSUME NEW q \in Requests
      PROVE  Finds(q)'
  <2>1. CASE q # r
    <3>1. now' >= now
      BY <1>1, <1>3 DEF TypeOK, StoreTypeOK
    <3> QED
      BY <1>3, <1>4, <1>5, <2>1, <3>1, FindingStays
  <2>2. CASE q = r
    <3>1. faults' = 0 => Ready(home[r]) /\ ~MarkDown(home[r])
      BY <1>1, <1>3, <1>5 DEF Chained, Ready, TypeOK, StoreTypeOK
    <3> QED
      BY <1>2, <1>4, <2>2, <3>1 DEF Finds
  <2> QED
    BY <2>1, <2>2
<1> QED
  BY <1>6, <1>7, <1>8 DEF Linked

LEMMA ChainLinked ==
  ASSUME FrontInv, TypeOK', NEW r \in Requests, ChainStep(r)
  PROVE  Linked'
<1>1. TypeOK /\ Chained /\ Follows(r) /\ home[r] \in Workers /\ now \in Nat
  BY BeforeStep DEF FrontInv
<1>2. /\ req[r].pc \in {"get", "work", "set"} /\ now' = now
  BY ChainMoves
<1>3. PICK c \in Coroutines :
        /\ Steps(r, c)
        /\ \/ c.previous = None /\ c.pc # "work"
           \/ /\ c.previous = req[r].previous /\ c.pc = "work" /\ req[r].pc = "get"
              /\ \/ c.found = SharedHas(req[r].previous)
                 \/ MarkDown(home[r])
  BY ChainMoves
<1>4. req'[r] = c /\ \A q \in Requests \ {r} : req'[q] = req[q]
  BY <1>1, <1>3 DEF Steps, TypeOK
<1>5. MarkDown(home[r]) => faults' # 0
  BY <1>1 DEF MarkDown, TypeOK, StoreTypeOK
<1>6. /\ UNCHANGED <<retryAt, faults>> \/ MarkDown(home[r])
      /\ \/ UNCHANGED <<turns, stored>>
         \/ SetShared(r) /\ Keep(r)
         \/ MarkDown(home[r])
         \/ ~Ready(home[r])
      /\ \A q \in Requests \ {r} : stored'[q] = stored[q]
      /\ req[r].pc = "get" => stored' = stored
  BY <1>1 DEF ChainStep, GetAnswers, GetFails, Adapted, SetAnswers, SetFails, storeVars, Keep,
              TypeOK
<1>7. faults' = 0 => faults = 0 /\ Ready(home[r]) /\ ~MarkDown(home[r])
  BY <1>1, <1>5, <1>6 DEF Chained, Ready
<1>8. Chained'
  <2>1. SUFFICES ASSUME faults' = 0
                 PROVE  /\ \A w \in Workers : retryAt'[w] = 0
                        /\ \A t \in Turns : now' < stored'[t] => turns'[t] = stored'[t]
    BY DEF Chained
  <2>2. /\ \A w \in Workers : retryAt[w] = 0
        /\ \A t \in Turns : now < stored[t] => turns[t] = stored[t]
    BY <1>1, <1>7, <2>1 DEF Chained
  <2>3. \A w \in Workers : retryAt'[w] = 0
    BY <1>6, <1>7, <2>1, <2>2
  <2>4. CASE UNCHANGED <<turns, stored>>
    BY <1>2, <2>2, <2>3, <2>4
  <2>5. CASE SetShared(r) /\ Keep(r)
    <3>1. turns \in [Turns -> Nat] /\ stored \in [Turns -> Nat] /\ r \in Turns
      BY <1>1 DEF TypeOK, StoreTypeOK, Requests
    <3> QED
      BY <1>2, <2>2, <2>3, <2>5, <3>1 DEF SetShared, Keep
  <2> QED
    BY <1>6, <1>7, <2>1, <2>4, <2>5
<1>9. ASSUME NEW q \in Requests
      PROVE  Follows(q)'
  BY <1>2, <1>3, <1>4, LinkStays
<1>10. ASSUME NEW q \in Requests
       PROVE  Finds(q)'
  <2>1. CASE q # r
    <3>1. now' >= now
      BY <1>1, <1>2
    <3>2. \A p \in Requests : req[p].pc = "done" => stored'[p] = stored[p]
      BY <1>2, <1>6
    <3> QED
      BY <1>4, <1>7, <2>1, <3>1, <3>2, FindingStays
  <2>2. CASE q = r
    <3>1. SUFFICES ASSUME faults' = 0, c.pc = "work", c.previous # None,
                          now' < stored'[c.previous]
                   PROVE  c.found
      BY <1>4, <2>2 DEF Finds
    <3>2. /\ c.previous = req[r].previous /\ req[r].pc = "get" /\ c.previous \in Turns
          /\ c.found = SharedHas(req[r].previous)
      BY <1>1, <1>3, <1>7, <3>1 DEF Follows, Requests
    <3>3. now < stored[c.previous] /\ turns[c.previous] = stored[c.previous]
      BY <1>1, <1>2, <1>6, <1>7, <3>1, <3>2 DEF Chained
    <3>4. turns[c.previous] \in Nat /\ turns[c.previous] > now
      BY <1>1, <3>2, <3>3 DEF TypeOK, StoreTypeOK
    <3> QED
      BY <3>2, <3>4 DEF SharedHas
  <2> QED
    BY <2>1, <2>2
<1> QED
  BY <1>8, <1>9, <1>10 DEF Linked

LEMMA WorkersLinked ==
  ASSUME FrontInv, TypeOK',
         (\E w \in Workers : Restart(w) \/ HealthProbe(w)) \/ Tick \/ UNCHANGED vars
  PROVE  Linked'
<1>0. TypeOK /\ Chained
  BY DEF FrontInv
<1>1. TypeOK /\ Chained /\ now \in Nat /\ faults \in Nat
  BY <1>0 DEF TypeOK, StoreTypeOK
<1>2. ASSUME NEW w \in Workers, Restart(w)
      PROVE  Linked'
  <2>1. faults' # 0
    BY <1>1, <1>2 DEF Restart, StoreRestart
  <2>2. /\ Coroutine("failed").previous = None
        /\ \A q \in Requests : req'[q] = req[q]
             \/ (req[q].pc # "done" /\ req'[q] = Coroutine("failed"))
    BY <1>2, CoroutineTyped DEF Restart, Ended
  <2>3. ASSUME NEW q \in Requests
        PROVE  Follows(q)'
    BY <2>2, LinkStays
  <2> QED
    BY <2>1, <2>3 DEF Linked, Chained, Finds
<1>3. ASSUME UNCHANGED <<req, stored, faults>>, now' >= now, Chained'
      PROVE  Linked'
  <2>1. ASSUME NEW q \in Requests
        PROVE  Follows(q)' /\ Finds(q)'
    BY <1>3, LinkStays, FindingStays
  <2> QED
    BY <1>3, <2>1 DEF Linked
<1>4. ASSUME NEW w \in Workers, HealthProbe(w)
      PROVE  Linked'
  <2>1. /\ UNCHANGED <<req, stored, faults, now, turns>>
        /\ \A v \in Workers : retryAt'[v] \in {retryAt[v], 0}
    BY <1>1, <1>4 DEF HealthProbe, Ping, frontVars, TypeOK, StoreTypeOK
  <2>2. Chained' /\ now' >= now
    BY <1>1, <2>1 DEF Chained
  <2> QED
    BY <1>3, <2>1, <2>2
<1>5. ASSUME Tick
      PROVE  Linked'
  <2>1. /\ UNCHANGED <<req, stored, faults, retryAt>> /\ now' = now + 1
        /\ turns' = [t \in Turns |-> IF turns[t] > now' THEN turns[t] ELSE 0]
    BY <1>5 DEF Tick, StoreTick, frontVars
  <2>2. \A t \in Turns : stored[t] \in Nat
    BY <1>1 DEF TypeOK, Requests
  <2>3. Chained'
    BY <1>1, <2>1, <2>2 DEF Chained
  <2>4. now' >= now
    BY <1>1, <2>1
  <2> QED
    BY <1>3, <2>1, <2>3, <2>4
<1>6. ASSUME UNCHANGED vars
      PROVE  Linked'
  <2>1. UNCHANGED <<req, stored, faults, retryAt, now, turns>>
    BY <1>6 DEF vars, storeVars, frontVars
  <2>2. Chained' /\ now' >= now
    BY <1>1, <2>1 DEF Chained
  <2> QED
    BY <1>3, <2>1, <2>2
<1> QED
  BY <1>2, <1>4, <1>5, <1>6

-----------------------------------------------------------------------------
(* The invariant.                                                           *)

LEMMA InitFront == Init => FrontInv
<1> SUFFICES ASSUME Init PROVE FrontInv
  OBVIOUS
<1>1. Coroutine("new") \in Coroutines /\ Coroutine("new").pc = "new"
      /\ Coroutine("new").window = 0 /\ Coroutine("new").previous = None
  BY CoroutineTyped
<1>2. TypeOK
  <2>1. 0 \in 0..Horizon /\ 0 \in 0..MaxResends /\ 0 \in 0..MaxFaults /\ 0 \in Nat
    OBVIOUS
  <2>2. NoCounter \in [n : Nat, until : 0..Forever]
    BY DEF NoCounter, Forever
  <2> QED
    BY <1>1, <2>1, <2>2 DEF Init, StoreInit, TypeOK, StoreTypeOK, Requests
<1>3. ASSUME NEW k \in CounterKeys
      PROVE  Balance(k) /\ OwnCounts(k)
  <2>1. /\ Asked(k) = {} /\ Asking(k) = {} /\ FreeLocally(k) = {}
        /\ \A w \in Workers : Counting(w, k) = {}
    BY <1>1 DEF Init, Asked, Asking, FreeLocally, Counting, Numbered
  <2>2. IsFiniteSet({}) /\ Cardinality({}) = 0
    BY FS_EmptySet
  <2>3. /\ admitted[k] = 0 /\ lives[k] = 0 /\ shared[k].n = 0 /\ arrived[k] = 0 /\ resends = 0
        /\ \A w \in Workers : buckets[w][k] = 0
    BY DEF Init, StoreInit, NoCounter
  <2>4. Left(shared[k].n) = 0 /\ Limit * lives[k] = 0
    BY <2>3, PlacesOfCounter
  <2>5. /\ Cardinality(Asked(k)) = 0 /\ Cardinality(FreeLocally(k)) = 0
        /\ IsFiniteSet(Asked(k)) /\ IsFiniteSet(FreeLocally(k))
        /\ Cardinality(Asking(k)) = 0 /\ IsFiniteSet(Asking(k))
        /\ \A w \in Workers : Cardinality(Counting(w, k)) = 0 /\ IsFiniteSet(Counting(w, k))
    BY <2>1, <2>2
  <2>6. Balance(k)
    BY <2>3, <2>4, <2>5 DEF Balance
  <2>7. OwnCounts(k)
    BY <2>3, <2>5 DEF OwnCounts
  <2> QED
    BY <2>6, <2>7
<1>4. ASSUME NEW r \in Requests
      PROVE  OwnCount(r) /\ Follows(r)
  <2>1. req[r] = Coroutine("new") /\ 0 \in 0..(Horizon \div Window)
    BY <1>2, KeyTyped DEF Init
  <2> QED
    BY <1>1, <2>1 DEF OwnCount, Follows, Numbered
<1>5. Chained /\ ChainHolds
  <2>1. \A r \in Requests : req[r].pc # "work"
    BY <1>1 DEF Init
  <2> QED
    BY <2>1 DEF Init, StoreInit, Chained, ChainHolds, Requests
<1> QED
  BY <1>2, <1>3, <1>4, <1>5 DEF FrontInv

LEMMA NextFront == FrontInv /\ [Next]_vars => FrontInv'
<1> SUFFICES ASSUME FrontInv, [Next]_vars PROVE FrontInv'
  OBVIOUS
<1>1. ASSUME TypeOK', Accounted', Linked'
      PROVE  FrontInv'
  BY <1>1 DEF FrontInv, Accounted, Linked, Finds, ChainHolds
<1>2. ASSUME NEW r \in Requests, LimiterStep(r)
      PROVE  FrontInv'
  <2>1. TypeOK'
    BY <1>2, LimiterTyped DEF LimiterStep
  <2>2. Accounted'
    BY <1>2, <2>1, IncrAccounted, AnswerAccounted, FailedCountAccounted, ArrivalAccounted
       DEF LimiterStep
  <2> QED
    BY <1>1, <1>2, <2>1, <2>2, LimiterLinked
<1>3. ASSUME NEW r \in Requests, ChainStep(r)
      PROVE  FrontInv'
  <2>1. TypeOK'
    BY <1>3, ChainTyped
  <2> QED
    BY <1>1, <1>3, <2>1, ChainAccounted, ChainLinked
<1>4. ASSUME (\E w \in Workers : Restart(w) \/ HealthProbe(w)) \/ Tick \/ UNCHANGED vars
      PROVE  FrontInv'
  <2>1. TypeOK'
    BY <1>4, WorkersTyped
  <2> QED
    BY <1>1, <1>4, <2>1, WorkersAccounted, WorkersLinked
<1> QED
  BY <1>2, <1>3, <1>4 DEF Next, Finished, LimiterStep, ChainStep

\* The counters balance, and the chain is linked, in every state.
THEOREM Invariance == Spec => []FrontInv
<1>1. Init => FrontInv
  BY InitFront
<1>2. FrontInv /\ [Next]_vars => FrontInv'
  BY NextFront
<1> QED
  BY <1>1, <1>2, PTL DEF Spec

\* Whatever fails, is sent again, is cleared, expires or restarts, a caller gets through
\* a window of the limiter at most Limit times for every counter that was started for it.
THEOREM CallersStayWithinCounters == Spec => []AdmittedWithinCounters
<1>1. FrontInv => AdmittedWithinCounters
  <2> SUFFICES ASSUME FrontInv, NEW k \in CounterKeys
               PROVE  TypeOK /\ admitted[k] <= Limit * lives[k]
    BY DEF FrontInv, AdmittedWithinCounters
  <2>1. /\ TypeOK /\ IsFiniteSet(Asked(k)) /\ IsFiniteSet(FreeLocally(k))
        /\ admitted[k] + Cardinality(Asked(k)) + Left(shared[k].n)
             + Cardinality(FreeLocally(k)) <= Limit * lives[k]
    BY DEF FrontInv, Balance
  <2>2. /\ Cardinality(Asked(k)) \in Nat /\ Cardinality(FreeLocally(k)) \in Nat
        /\ admitted[k] \in Nat /\ Left(shared[k].n) \in Nat /\ Limit * lives[k] \in Nat
    BY <2>1, Fewer, Numbers
  <2> QED
    BY <2>1, <2>2
<1> QED
  BY <1>1, Invariance, PTL

\* The limiter turns a request away only when the requests of the same caller in the same
\* window, with the commands the client library sent again, exceed the limit.
THEOREM NobodyPaysForOthers == Spec => []RejectedForOwnRequests
<1>1. FrontInv => RejectedForOwnRequests
  BY DEF FrontInv, OwnCount, RejectedForOwnRequests, Key, KeyOf
<1> QED
  BY <1>1, Invariance, PTL

\* While no command fails and no worker restarts, the turn of an answered response is
\* found from any worker until it expires.
THEOREM TurnsAreFound == Spec => []ChainHolds
<1>1. FrontInv => ChainHolds
  BY DEF FrontInv
<1> QED
  BY <1>1, Invariance, PTL
=============================================================================
