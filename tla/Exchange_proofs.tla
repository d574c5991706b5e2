--------------------------- MODULE Exchange_proofs ---------------------------
(***************************************************************************)
(* Proofs about Exchange, for any channels, bodies, slots, widths and      *)
(* numbers of requests: a request that was answered leaves nothing in the  *)
(* pocket, google's pocket is bounded, a client that did not reuse its     *)
(* request id gets the form it asked for, and a vendor is called with what *)
(* a loop over the references would have made of them.                     *)
(*                                                                         *)
(* The pocket is a dict: an entry a request id.  A request finds its own   *)
(* format in it because nobody else writes under its id, and because       *)
(* google's trim takes nothing before more requests began than it keeps.   *)
(* That in turn rests on a count: every id in use was given to a request   *)
(* of its own, or is the one id that requests share.                       *)
(***************************************************************************)
EXTENDS Exchange, FiniteSetTheorems, SequenceTheorems, WellFoundedInduction, TLAPS

Wanted == ResponseFormats \cup {Absent}
FormatsOf(c) == ResponseFormats \cup IF c.script \in {"google", "qwen"} THEN {Absent} ELSE {}

\* A dict of formats: no id twice.
Dict(p, F) ==
  /\ p \in Seq([rid : Nat, format : F])
  /\ \A i, j \in DOMAIN p : p[i].rid = p[j].rid => i = j
Rids(p) == {p[i].rid : i \in DOMAIN p}

\* What pocket p has for other ids than r, it had before.
OthersKept(p, old, r) == \A x \in Nat \ {r} : Found(p, x) = Found(old, x)

LEMMA CapFact ==
  PocketMax \in Nat /\ PocketMax > 1
BY ExchangeAssumption

LEMMA FunctionIsSeq ==
  ASSUME NEW S, NEW n \in Nat, NEW q \in [1..n -> S]
  PROVE  q \in Seq(S) /\ Len(q) = n
OBVIOUS

\* The invariant.  What google's script has parked may be gone.
Dropped(c, b) == c.script = "google" /\ b > PocketMax

PocketFits(c, p) ==
  /\ Dict(p, FormatsOf(c))
  /\ c.script = "volcengine_ark" => p = <<>>
  /\ c.script = "google" => Len(p) <= PocketMax + 1

Stages == {"free", "reading", "called", "replied", "shaping", "answered", "failed"}
Gone == {"free", "failed"}

TypeFits(b, q) ==
  /\ q = [at |-> q.at, rid |-> q.rid, body |-> q.body, error |-> q.error, jobs |-> q.jobs,
          wire |-> q.wire, want |-> q.want, items |-> q.items, blame |-> q.blame]
  /\ q.at \in Stages /\ q.rid \in 0..b
  /\ q.want \in Wanted /\ q.body.format \in Wanted
  /\ q.at # "failed" => q.blame = 0
  /\ q.blame \in {0} \cup DOMAIN q.jobs
  /\ q.at \in Gone => q.rid = Repeated
  /\ q.at \in {"called", "replied"} => q.jobs = <<>>

\* Between its phases a request finds the format it asked for, then it has it, and the
\* pocket has no more of it.
HoldsFormat(c, q) ==
  q.at \in {"called", "replied"} \/ (q.at = "reading" /\ c.script # "qwen")
Remembered(c, b, p, q) ==
  (HoldsFormat(c, q) /\ q.rid # Repeated /\ c.script # "volcengine_ark" /\ ~Dropped(c, b))
    => Found(p, q.rid) = q.body.format
Given(c, b, q) ==
  ((q.at = "shaping" \/ (q.at = "answered" /\ q.jobs # <<>>)) /\ q.rid # Repeated
      /\ c.script # "volcengine_ark" /\ ~Dropped(c, b))
    => q.want = q.body.format
Emptied(p, q) ==
  (q.at \in {"shaping", "answered"} /\ q.rid # Repeated) => q.rid \notin Rids(p)

\* The items are the vendor's, and each job comes to what becomes of its item.
ItemsFit(c, q) ==
  q.at \in {"replied", "shaping", "answered"} =>
    /\ q.at = "replied" => \A i \in 1..Len(q.items) : q.items[i] \in ItemKinds(c, q.body.format)
    /\ \A i \in DOMAIN q.jobs :
         /\ q.items[i] \in ItemKinds(c, q.body.format)
         /\ q.jobs[i] = Waiting \/ q.jobs[i] \in ItemOutcomes(c, q.want, q.items[i])
         /\ q.at = "answered" => q.jobs[i] \notin {Waiting, Failed}

\* Jobs that run one by one end in order, and the one that is blamed failed first.
JobsFit(q) ==
  /\ q.at \in {"reading", "shaping"} =>
       /\ \A i \in DOMAIN q.jobs : i \in Nat \ {0}
       /\ Serial(q.jobs) => \A i, j \in DOMAIN q.jobs :
                              i < j /\ q.jobs[j] # Waiting => q.jobs[i] # Waiting
  /\ q.at = "failed" /\ q.blame > 0 =>
       \A i \in DOMAIN q.jobs : i < q.blame => q.jobs[i] # Waiting /\ q.jobs[i] # Failed

SlotFits(c, b, p, q) ==
  /\ TypeFits(b, q) /\ Remembered(c, b, p, q) /\ Given(c, b, q) /\ Emptied(p, q)
  /\ ItemsFit(c, q) /\ JobsFit(q)

\* The ids that are in use.  When one of them is the shared one, the request that
\* took it left the id of its own to nobody.
InUse(p, slots) == Rids(p) \cup {slots[s].rid : s \in {t \in Slots : slots[t].at \notin Gone}}
IdsFit(b, p, slots) ==
  /\ InUse(p, slots) \subseteq 0..b
  /\ Repeated \in InUse(p, slots) => \E k \in 1..b : k \notin InUse(p, slots)
  /\ \A s, t \in Slots : slots[s].rid = slots[t].rid /\ slots[s].rid # Repeated => s = t

ExchangeInv ==
  /\ channel \in Channels /\ begun \in 0..MaxRequests[channel.script]
  /\ PocketFits(channel, pocket)
  /\ DOMAIN slot = Slots
  /\ \A s \in Slots : SlotFits(channel, begun, pocket, slot[s])
  /\ IdsFit(begun, pocket, slot)

-----------------------------------------------------------------------------
(* The pocket.                                                              *)

LEMMA DictParts ==
  ASSUME NEW F, NEW p, Dict(p, F)
  PROVE  /\ DOMAIN p = 1..Len(p) /\ Len(p) \in Nat
         /\ \A i \in DOMAIN p : /\ p[i] \in [rid : Nat, format : F]
                                /\ p[i].rid \in Nat /\ p[i].format \in F
         /\ \A r : Entries(p, r) = {} <=> r \notin Rids(p)
         /\ \A r : r \notin Rids(p) => Found(p, r) = Absent
         /\ \A i \in DOMAIN p : Found(p, p[i].rid) = p[i].format
<1>1. DOMAIN p = 1..Len(p) /\ Len(p) \in Nat
  BY LenProperties DEF Dict
<1>2. \A i \in DOMAIN p : p[i] \in [rid : Nat, format : F]
  BY <1>1, ElementOfSeq DEF Dict
<1>3. ASSUME NEW r PROVE Entries(p, r) = {} <=> r \notin Rids(p)
  BY DEF Entries, Rids
<1>4. ASSUME NEW i \in DOMAIN p PROVE Found(p, p[i].rid) = p[i].format
  <2>1. Entries(p, p[i].rid) = {i}
    BY DEF Entries, Dict
  <2>2. (CHOOSE j \in Entries(p, p[i].rid) : TRUE) = i
    BY <2>1
  <2> QED
    BY <2>1, <2>2 DEF Found
<1> QED
  BY <1>1, <1>2, <1>3, <1>4 DEF Found

\* Two dicts agree on an id that each has, with the same format, or neither has.
LEMMA FoundAlike ==
  ASSUME NEW F, NEW p, NEW q, NEW r, Dict(p, F), Dict(q, F),
         \A i \in DOMAIN p : p[i].rid = r => \E j \in DOMAIN q : q[j] = p[i],
         \A j \in DOMAIN q : q[j].rid = r => \E i \in DOMAIN p : q[j] = p[i]
  PROVE  Found(q, r) = Found(p, r)
<1>1. CASE r \in Rids(p)
  <2>1. PICK i \in DOMAIN p : p[i].rid = r
    BY <1>1 DEF Rids
  <2>2. PICK j \in DOMAIN q : q[j] = p[i]
    BY <2>1
  <2> QED
    BY <2>1, <2>2, DictParts
<1>2. CASE r \notin Rids(p)
  <2>1. r \notin Rids(q)
    BY <1>2 DEF Rids
  <2> QED
    BY <1>2, <2>1, DictParts
<1> QED
  BY <1>1, <1>2

LEMMA PutDoes ==
  ASSUME NEW F, NEW p, NEW r \in Nat, NEW f \in F, Dict(p, F)
  PROVE  /\ Dict(Put(p, r, f), F) /\ Rids(Put(p, r, f)) = Rids(p) \cup {r}
         /\ Found(Put(p, r, f), r) = f /\ OthersKept(Put(p, r, f), p, r)
         /\ Len(Put(p, r, f)) <= Len(p) + 1
<1> DEFINE q == Put(p, r, f)
           e == [rid |-> r, format |-> f]
<1>0. /\ DOMAIN p = 1..Len(p) /\ Len(p) \in Nat
      /\ \A i \in DOMAIN p : p[i] \in [rid : Nat, format : F]
      /\ Entries(p, r) = {} <=> r \notin Rids(p)
      /\ \A i, j \in DOMAIN p : p[i].rid = p[j].rid => i = j
  BY DictParts DEF Dict
<1>1. CASE r \notin Rids(p)
  <2>1. q = Append(p, e) /\ e \in [rid : Nat, format : F]
    BY <1>0, <1>1 DEF Put
  <2>2. /\ q \in Seq([rid : Nat, format : F]) /\ Len(q) = Len(p) + 1 /\ DOMAIN q = 1..Len(q)
        /\ \A i \in 1..Len(p) : q[i] = p[i]
        /\ q[Len(p) + 1] = e
    BY <2>1, AppendProperties, LenProperties DEF Dict
  <2>3. \A i \in DOMAIN p : p[i].rid # r
    BY <1>1 DEF Rids
  <2>4. Dict(q, F)
    <3>1. ASSUME NEW i \in DOMAIN q, NEW j \in DOMAIN q, q[i].rid = q[j].rid PROVE i = j
      <4>1. CASE i \in DOMAIN p /\ j \in DOMAIN p
        BY <1>0, <2>2, <3>1, <4>1
      <4>2. CASE i = Len(p) + 1 /\ j \in DOMAIN p
        BY <1>0, <2>2, <2>3, <3>1, <4>2
      <4>3. CASE j = Len(p) + 1 /\ i \in DOMAIN p
        BY <1>0, <2>2, <2>3, <3>1, <4>3
      <4> QED
        BY <1>0, <2>2, <4>1, <4>2, <4>3
    <3> QED
      BY <2>2, <3>1 DEF Dict
  <2>5. Rids(q) = Rids(p) \cup {r}
    <3>1. ASSUME NEW x \in Rids(q) PROVE x \in Rids(p) \cup {r}
      <4>1. PICK i \in DOMAIN q : x = q[i].rid
        BY <3>1 DEF Rids
      <4>2. CASE i \in 1..Len(p)
        BY <1>0, <2>2, <4>1, <4>2 DEF Rids
      <4>3. CASE i = Len(p) + 1
        BY <2>2, <4>1, <4>3
      <4> QED
        BY <1>0, <2>2, <4>2, <4>3
    <3>2. ASSUME NEW x \in Rids(p) PROVE x \in Rids(q)
      <4>1. PICK i \in DOMAIN p : x = p[i].rid
        BY <3>2 DEF Rids
      <4>2. i \in DOMAIN q /\ q[i] = p[i]
        BY <1>0, <2>2, <4>1
      <4> QED
        BY <4>1, <4>2 DEF Rids
    <3>3. r \in Rids(q)
      <4>1. Len(p) + 1 \in DOMAIN q /\ q[Len(p) + 1].rid = r
        BY <1>0, <2>2
      <4> QED
        BY <4>1 DEF Rids
    <3> QED
      BY <3>1, <3>2, <3>3
  <2>6. Found(q, r) = f
    BY <1>0, <2>2, <2>4, DictParts
  <2>7. ASSUME NEW x \in Nat \ {r} PROVE Found(q, x) = Found(p, x)
    <3>1. \A i \in DOMAIN p : p[i].rid = x => \E j \in DOMAIN q : q[j] = p[i]
      BY <1>0, <2>2
    <3>2. \A j \in DOMAIN q : q[j].rid = x => \E i \in DOMAIN p : q[j] = p[i]
      BY <1>0, <2>2, <2>7
    <3> QED
      BY <2>4, <3>1, <3>2, FoundAlike
  <2> QED
    BY <1>0, <2>2, <2>4, <2>5, <2>6, <2>7 DEF OthersKept
<1>2. CASE r \in Rids(p)
  <2>1. q = [i \in DOMAIN p |-> IF p[i].rid = r THEN [p[i] EXCEPT !.format = f] ELSE p[i]]
    BY <1>0, <1>2 DEF Put
  <2>2. /\ DOMAIN q = 1..Len(p)
        /\ \A i \in DOMAIN p : /\ q[i] \in [rid : Nat, format : F] /\ q[i].rid = p[i].rid
                               /\ p[i].rid = r => q[i].format = f
                               /\ p[i].rid # r => q[i] = p[i]
    BY <1>0, <2>1
  <2>3. q \in Seq([rid : Nat, format : F]) /\ Len(q) = Len(p)
    <3>1. q \in [1..Len(p) -> [rid : Nat, format : F]]
      <4>1. q = [i \in 1..Len(p) |-> q[i]]
        BY <1>0, <2>1
      <4> QED
        BY <1>0, <2>2, <4>1
    <3> QED
      BY <1>0, <3>1, FunctionIsSeq
  <2> HIDE DEF q
  <2>4. Dict(q, F)
    BY <1>0, <2>2, <2>3 DEF Dict
  <2>5. Rids(q) = Rids(p) \cup {r}
    BY <1>0, <1>2, <2>2 DEF Rids
  <2>6. Found(q, r) = f
    <3>1. PICK i \in DOMAIN p : p[i].rid = r
      BY <1>2 DEF Rids
    <3> QED
      BY <1>0, <2>2, <2>4, <3>1, DictParts
  <2>7. ASSUME NEW x \in Nat \ {r} PROVE Found(q, x) = Found(p, x)
    <3>1. \A i \in DOMAIN p : p[i].rid = x => \E j \in DOMAIN q : q[j] = p[i]
      BY <1>0, <2>2, <2>7
    <3>2. \A j \in DOMAIN q : q[j].rid = x => \E i \in DOMAIN p : q[j] = p[i]
      BY <1>0, <2>2, <2>7
    <3> QED
      BY <2>4, <3>1, <3>2, FoundAlike
  <2> QED
    BY <1>0, <2>3, <2>4, <2>5, <2>6, <2>7 DEF OthersKept, q
<1> QED
  BY <1>1, <1>2

\* What is left of a sequence without its k-th element.
LEMMA RemoveAtDoes ==
  ASSUME NEW S, NEW p \in Seq(S), NEW k \in 1..Len(p)
  PROVE  /\ RemoveAt(p, k) \in Seq(S) /\ Len(RemoveAt(p, k)) = Len(p) - 1
         /\ \A i \in 1..(k - 1) : RemoveAt(p, k)[i] = p[i]
         /\ \A i \in k..(Len(p) - 1) : RemoveAt(p, k)[i] = p[i + 1]
<1>0. PICK n \in Nat : n = Len(p)
  BY LenProperties
<1> DEFINE a == SubSeq(p, 1, k - 1)
           b == SubSeq(p, k + 1, n)
<1>1. \A i \in 1..n : p[i] \in S
  BY <1>0, ElementOfSeq
<1>2. k \in Int /\ k >= 1 /\ k <= n /\ k - 1 \in Int /\ k + 1 \in Int /\ 1 \in Int /\ n \in Int
  BY <1>0
<1>3. /\ a \in Seq(S) /\ Len(a) = k - 1
      /\ \A i \in 1..(k - 1) : a[i] = p[i]
  <2>1. \A i \in 1..(k - 1) : p[i] \in S
    BY <1>1, <1>2
  <2>2. /\ a \in Seq(S) /\ Len(a) = IF 1 <= k - 1 THEN k - 1 - 1 + 1 ELSE 0
        /\ \A i \in 1..(k - 1 - 1 + 1) : a[i] = p[1 + i - 1]
    BY <1>2, <2>1, SubSeqProperties
  <2> QED
    BY <1>2, <2>2
<1>4. /\ b \in Seq(S) /\ Len(b) = n - k
      /\ \A i \in 1..(n - k) : b[i] = p[k + i]
  <2>1. \A i \in (k + 1)..n : p[i] \in S
    BY <1>1, <1>2
  <2>2. /\ b \in Seq(S) /\ Len(b) = IF k + 1 <= n THEN n - (k + 1) + 1 ELSE 0
        /\ \A i \in 1..(n - (k + 1) + 1) : b[i] = p[(k + 1) + i - 1]
    BY <1>2, <2>1, SubSeqProperties
  <2>3. \A i \in 1..(n - k) : (k + 1) + i - 1 = k + i /\ i \in 1..(n - (k + 1) + 1)
    BY <1>2
  <2> QED
    BY <1>2, <2>2, <2>3
<1>5. RemoveAt(p, k) = a \o b
  BY <1>0 DEF RemoveAt
<1> HIDE DEF a, b
<1>6. /\ a \o b \in Seq(S) /\ Len(a \o b) = Len(a) + Len(b)
      /\ \A i \in 1..(Len(a) + Len(b)) :
           (a \o b)[i] = IF i <= Len(a) THEN a[i] ELSE b[i - Len(a)]
  BY <1>3, <1>4, ConcatProperties
<1>7. Len(a) + Len(b) = n - 1
  BY <1>2, <1>3, <1>4
<1>8. ASSUME NEW i \in 1..(k - 1) PROVE (a \o b)[i] = p[i]
  <2>1. i \in 1..(n - 1) /\ i <= k - 1
    BY <1>2
  <2> QED
    BY <1>3, <1>6, <1>7, <2>1
<1>9. ASSUME NEW i \in k..(n - 1) PROVE (a \o b)[i] = p[i + 1]
  <2>1. i \in 1..(n - 1) /\ ~(i <= k - 1) /\ i - (k - 1) \in 1..(n - k) /\ k + (i - (k - 1)) = i + 1
    BY <1>2
  <2>2. (a \o b)[i] = b[i - (k - 1)]
    BY <1>3, <1>6, <1>7, <2>1
  <2> QED
    BY <1>4, <2>1, <2>2
<1> QED
  BY <1>0, <1>5, <1>6, <1>7, <1>8, <1>9

LEMMA PoppedDoes ==
  ASSUME NEW F, NEW p, NEW r, Dict(p, F)
  PROVE  /\ Dict(Popped(p, r), F) /\ Rids(Popped(p, r)) \subseteq Rids(p)
         /\ r \notin Rids(Popped(p, r)) /\ OthersKept(Popped(p, r), p, r)
         /\ Len(Popped(p, r)) <= Len(p)
<1>0. /\ DOMAIN p = 1..Len(p) /\ Len(p) \in Nat
      /\ \A i \in DOMAIN p : p[i] \in [rid : Nat, format : F]
      /\ Entries(p, r) = {} <=> r \notin Rids(p)
      /\ \A i, j \in DOMAIN p : p[i].rid = p[j].rid => i = j
  BY DictParts DEF Dict
<1>1. CASE r \notin Rids(p)
  BY <1>0, <1>1 DEF Popped, OthersKept
<1>2. CASE r \in Rids(p)
  <2>1. PICK k \in DOMAIN p : p[k].rid = r /\ Popped(p, r) = RemoveAt(p, k)
    <3>1. (CHOOSE i \in Entries(p, r) : TRUE) \in Entries(p, r)
      BY <1>0, <1>2
    <3> QED
      BY <1>0, <1>2, <3>1 DEF Popped, Entries
  <2>2. PICK n \in Nat : n = Len(p)
    BY <1>0
  <2>3. k \in 1..n /\ k \in Int /\ k >= 1 /\ k <= n
    BY <1>0, <2>2
  <2>4. PICK q : q = Popped(p, r)
    OBVIOUS
  <2>5. /\ q \in Seq([rid : Nat, format : F]) /\ Len(q) = n - 1 /\ DOMAIN q = 1..(n - 1)
        /\ \A i \in 1..(k - 1) : q[i] = p[i]
        /\ \A i \in k..(n - 1) : q[i] = p[i + 1]
    <3>1. /\ q \in Seq([rid : Nat, format : F]) /\ Len(q) = n - 1
          /\ \A i \in 1..(k - 1) : q[i] = p[i]
          /\ \A i \in k..(n - 1) : q[i] = p[i + 1]
      <4>1. PICK S : S = [rid : Nat, format : F] /\ p \in Seq(S)
        BY DEF Dict
      <4>2. /\ RemoveAt(p, k) \in Seq(S) /\ Len(RemoveAt(p, k)) = n - 1
            /\ \A i \in 1..(k - 1) : RemoveAt(p, k)[i] = p[i]
            /\ \A i \in k..(n - 1) : RemoveAt(p, k)[i] = p[i + 1]
        BY <2>2, <2>3, <4>1, RemoveAtDoes
      <4> QED
        BY <2>1, <2>4, <4>1, <4>2
    <3> QED
      BY <3>1, LenProperties
  <2>6. \A i \in DOMAIN p \ {k} : \E j \in DOMAIN q : q[j] = p[i]
    <3>1. ASSUME NEW i \in DOMAIN p \ {k} PROVE \E j \in DOMAIN q : q[j] = p[i]
      <4>0. i \in 1..n
        BY <1>0, <2>2
      <4>1. CASE i < k
        <5>1. i \in 1..(k - 1) /\ i \in 1..(n - 1)
          BY <2>3, <4>0, <4>1
        <5> QED
          BY <2>5, <5>1
      <4>2. CASE i > k
        <5>1. i - 1 \in k..(n - 1) /\ i - 1 \in 1..(n - 1) /\ (i - 1) + 1 = i
          BY <2>3, <4>0, <4>2
        <5>2. q[i - 1] = p[i]
          BY <2>5, <5>1
        <5> QED
          BY <2>5, <5>1, <5>2
      <4> QED
        BY <2>3, <4>0, <4>1, <4>2
    <3> QED
      BY <3>1
  <2> DEFINE was(j) == IF j < k THEN j ELSE j + 1
  <2>7. ASSUME NEW j \in DOMAIN q
        PROVE  j \in Int /\ was(j) \in DOMAIN p \ {k} /\ q[j] = p[was(j)]
    <3>0. j \in 1..(n - 1)
      BY <2>5
    <3>1. CASE j < k
      <4>1. j \in 1..(k - 1) /\ j \in 1..n /\ j # k
        BY <2>3, <3>0, <3>1
      <4> QED
        BY <1>0, <2>2, <2>5, <3>1, <4>1
    <3>2. CASE ~(j < k)
      <4>1. j \in k..(n - 1) /\ j + 1 \in 1..n /\ j + 1 # k
        BY <2>3, <3>0, <3>2
      <4> QED
        BY <1>0, <2>2, <2>5, <3>2, <4>1
    <3> QED
      BY <3>1, <3>2
  <2>8. Dict(q, F)
    <3>1. ASSUME NEW i \in DOMAIN q, NEW j \in DOMAIN q, q[i].rid = q[j].rid PROVE i = j
      <4>1. was(i) = was(j)
        BY <1>0, <2>7, <3>1
      <4> QED
        BY <2>3, <2>7, <4>1
    <3> QED
      BY <2>5, <3>1 DEF Dict
  <2>9. Rids(q) \subseteq Rids(p) /\ r \notin Rids(q)
    BY <1>0, <2>1, <2>7 DEF Rids
  <2>10. ASSUME NEW x \in Nat \ {r} PROVE Found(q, x) = Found(p, x)
    <3>1. \A i \in DOMAIN p : p[i].rid = x => \E j \in DOMAIN q : q[j] = p[i]
      BY <2>1, <2>6, <2>10
    <3>2. \A j \in DOMAIN q : q[j].rid = x => \E i \in DOMAIN p : q[j] = p[i]
      BY <2>7
    <3> QED
      BY <2>8, <3>1, <3>2, FoundAlike
  <2> QED
    BY <2>2, <2>4, <2>5, <2>8, <2>9, <2>10 DEF OthersKept
<1> QED
  BY <1>1, <1>2

\* google's trim takes nothing from a pocket that is within its cap, and leaves less.
LEMMA TrimmedDoes ==
  ASSUME NEW F, NEW p, Dict(p, F), Len(p) <= PocketMax + 1
  PROVE  /\ Dict(Trimmed(p), F) /\ Rids(Trimmed(p)) \subseteq Rids(p)
         /\ Len(Trimmed(p)) <= PocketMax
         /\ Len(p) <= PocketMax => Trimmed(p) = p
<1>0. PICK n \in Nat, m \in Nat :
        /\ n = Len(p) /\ m = PocketMax /\ m > 1 /\ n <= m + 1
        /\ DOMAIN p = 1..n
  BY DictParts, CapFact
<1>1. CASE n <= m
  <2>1. Trimmed(p) = p
    BY <1>0, <1>1 DEF Trimmed
  <2> QED
    BY <1>0, <1>1, <2>1
<1>2. CASE n = m + 1
  <2>1. PICK h \in Nat : h = m \div 2 /\ h >= 1 /\ h <= m
    <3>1. m \div 2 \in Nat /\ m \div 2 >= 1 /\ m \div 2 <= m
      BY <1>0
    <3> QED
      BY <3>1
  <2>2. PICK q : q = Trimmed(p)
    OBVIOUS
  <2>3. q = SubSeq(p, h + 1, n)
    BY <1>0, <1>2, <2>1, <2>2 DEF Trimmed
  <2>4. PICK S : S = [rid : Nat, format : F] /\ p \in Seq(S)
    BY DEF Dict
  <2>5. /\ q \in Seq(S) /\ Len(q) = n - h
        /\ \A i \in 1..(n - h) : h + i \in 1..n /\ q[i] = p[h + i]
    <3>1. \A i \in (h + 1)..n : p[i] \in S
      <4>1. \A i \in 1..n : p[i] \in S
        BY <1>0, <2>4, ElementOfSeq
      <4> QED
        BY <2>1, <4>1
    <3>2. h + 1 \in Int /\ n \in Int
      BY <2>1
    <3>3. /\ q \in Seq(S)
          /\ Len(q) = IF h + 1 <= n THEN n - (h + 1) + 1 ELSE 0
          /\ \A i \in 1..(n - (h + 1) + 1) : q[i] = p[(h + 1) + i - 1]
      BY <2>3, <3>1, <3>2, SubSeqProperties
    <3>4. ASSUME NEW i \in 1..(n - h)
          PROVE  i \in 1..(n - (h + 1) + 1) /\ (h + 1) + i - 1 = h + i /\ h + i \in 1..n
      BY <2>1
    <3>5. h + 1 <= n /\ n - (h + 1) + 1 = n - h
      BY <1>2, <2>1
    <3> QED
      BY <3>3, <3>4, <3>5
  <2>6. DOMAIN q = 1..(n - h)
    BY <2>5, LenProperties
  <2>7. Dict(q, F)
    <3>1. ASSUME NEW i \in DOMAIN q, NEW j \in DOMAIN q, q[i].rid = q[j].rid PROVE i = j
      <4>1. /\ h + i \in DOMAIN p /\ q[i] = p[h + i]
            /\ h + j \in DOMAIN p /\ q[j] = p[h + j]
        BY <1>0, <2>5, <2>6
      <4>2. h + i = h + j
        BY <3>1, <4>1 DEF Dict
      <4>3. i \in Int /\ j \in Int
        BY <2>6
      <4> QED
        BY <4>2, <4>3
    <3> QED
      BY <2>4, <2>5, <3>1 DEF Dict
  <2>8. ASSUME NEW x \in Rids(q) PROVE x \in Rids(p)
    <3>1. PICK i \in DOMAIN q : x = q[i].rid
      BY <2>8 DEF Rids
    <3>2. h + i \in DOMAIN p /\ q[i] = p[h + i]
      BY <1>0, <2>5, <2>6
    <3> QED
      BY <3>1, <3>2 DEF Rids
  <2>9. Len(q) <= m
    BY <1>2, <2>1, <2>5
  <2>10. ~(n <= m)
    BY <1>2
  <2> QED
    BY <1>0, <2>2, <2>7, <2>8, <2>9, <2>10
<1>3. n <= m \/ n = m + 1
  BY <1>0
<1> QED
  BY <1>1, <1>2, <1>3
\* What a script parks for a request leaves the other requests' formats alone, and is
\* found, unless google's script had to trim.
LEMMA ParkedDoes ==
  ASSUME NEW c \in Channels, NEW p, NEW r \in Nat, NEW f \in Wanted, PocketFits(c, p)
  PROVE  /\ PocketFits(c, Parked(c, p, r, f))
         /\ Rids(Parked(c, p, r, f)) \subseteq Rids(p) \cup {r}
         /\ (c.script = "google" /\ Len(p) > PocketMax) \/ OthersKept(Parked(c, p, r, f), p, r)
         /\ (c.script \notin {"volcengine_ark", "qwen"} /\ (r \notin Rids(p) \/ Found(p, r) = f))
               => Found(Parked(c, p, r, f), r) = f
<1>0. PICK F : F = FormatsOf(c) /\ Dict(p, F)
  BY DEF PocketFits
<1>1. CASE c.script = "google"
  <2>1. Parked(c, p, r, f) = Put(Trimmed(p), r, f) /\ f \in F /\ Len(p) <= PocketMax + 1
    BY <1>0, <1>1 DEF Parked, FormatsOf, PocketFits, Wanted
  <2>2. PICK t : t = Trimmed(p)
    OBVIOUS
  <2>3. /\ Dict(t, F) /\ Rids(t) \subseteq Rids(p) /\ Len(t) <= PocketMax
        /\ Len(p) <= PocketMax => t = p
    BY <1>0, <2>1, <2>2, TrimmedDoes
  <2>4. PICK q : q = Put(t, r, f)
    OBVIOUS
  <2>5. /\ Dict(q, F) /\ Rids(q) = Rids(t) \cup {r} /\ Found(q, r) = f
        /\ OthersKept(q, t, r) /\ Len(q) <= Len(t) + 1
    <3>1. f \in F /\ Dict(t, F)
      BY <2>1, <2>3
    <3>2. /\ Dict(Put(t, r, f), F) /\ Rids(Put(t, r, f)) = Rids(t) \cup {r}
          /\ Found(Put(t, r, f), r) = f /\ OthersKept(Put(t, r, f), t, r)
          /\ Len(Put(t, r, f)) <= Len(t) + 1
      BY <3>1, PutDoes
    <3> QED
      BY <2>4, <3>2
  <2>6. Len(q) <= PocketMax + 1
    BY <2>3, <2>5, DictParts, CapFact
  <2>7. Len(p) > PocketMax \/ Len(p) <= PocketMax
    BY <1>0, DictParts, CapFact
  <2>8. PocketFits(c, q)
    BY <1>0, <1>1, <2>5, <2>6 DEF PocketFits
  <2>9. Len(p) > PocketMax \/ OthersKept(q, p, r)
    BY <2>3, <2>5, <2>7
  <2> QED
    BY <1>1, <2>1, <2>2, <2>3, <2>4, <2>5, <2>8, <2>9
<1>2. CASE c.script \notin {"google", "volcengine_ark", "qwen"} /\ f # Absent
  <2>1. PICK q : q = Parked(c, p, r, f)
    OBVIOUS
  <2>2. q = Put(p, r, f) /\ f \in F
    BY <1>0, <1>2, <2>1 DEF Parked, FormatsOf, Wanted
  <2>3. Dict(q, F) /\ Rids(q) = Rids(p) \cup {r} /\ Found(q, r) = f /\ OthersKept(q, p, r)
    <3>1. f \in F /\ Dict(p, F)
      BY <1>0, <2>2
    <3>2. /\ Dict(Put(p, r, f), F) /\ Rids(Put(p, r, f)) = Rids(p) \cup {r}
          /\ Found(Put(p, r, f), r) = f /\ OthersKept(Put(p, r, f), p, r)
      BY <3>1, PutDoes
    <3> QED
      BY <2>2, <3>2
  <2>4. PocketFits(c, q)
    BY <1>0, <1>2, <2>3 DEF PocketFits
  <2> QED
    BY <2>1, <2>3, <2>4
<1>3. CASE c.script \in {"volcengine_ark", "qwen"} \/ (c.script # "google" /\ f = Absent)
  <2>1. Parked(c, p, r, f) = p
    BY <1>3 DEF Parked
  <2>2. f = Absent /\ r \notin Rids(p) => Found(p, r) = f
    BY <1>0, DictParts
  <2> QED
    BY <1>3, <2>1, <2>2 DEF OthersKept
<1> QED
  BY <1>1, <1>2, <1>3

LEMMA BookedDoes ==
  ASSUME NEW c \in Channels, NEW p, NEW r \in Nat, NEW f \in Wanted, PocketFits(c, p)
  PROVE  /\ PocketFits(c, Booked(c, p, r, f))
         /\ Rids(Booked(c, p, r, f)) \subseteq Rids(p) \cup {r}
         /\ OthersKept(Booked(c, p, r, f), p, r)
         /\ Found(Booked(c, p, r, f), r) = IF c.script = "qwen" THEN f ELSE Found(p, r)
<1>1. CASE c.script = "qwen"
  <2>1. PICK F : F = FormatsOf(c) /\ Dict(p, F) /\ f \in F
    BY <1>1 DEF PocketFits, FormatsOf, Wanted
  <2>2. PICK q : q = Booked(c, p, r, f) /\ q = Put(p, r, f)
    BY <1>1 DEF Booked
  <2>3. Dict(q, F) /\ Rids(q) = Rids(p) \cup {r} /\ Found(q, r) = f /\ OthersKept(q, p, r)
    <3>1. f \in F /\ Dict(p, F)
      BY <2>1, <2>2
    <3>2. /\ Dict(Put(p, r, f), F) /\ Rids(Put(p, r, f)) = Rids(p) \cup {r}
          /\ Found(Put(p, r, f), r) = f /\ OthersKept(Put(p, r, f), p, r)
      BY <3>1, PutDoes
    <3> QED
      BY <2>2, <3>2
  <2>4. PocketFits(c, q)
    BY <1>1, <2>1, <2>3 DEF PocketFits
  <2> QED
    BY <1>1, <2>2, <2>3, <2>4
<1>2. CASE c.script # "qwen"
  BY <1>2 DEF Booked, OthersKept
<1> QED
  BY <1>1, <1>2

LEMMA PoppedFits ==
  ASSUME NEW c \in Channels, NEW p, NEW r, PocketFits(c, p)
  PROVE  /\ PocketFits(c, Popped(p, r)) /\ Rids(Popped(p, r)) \subseteq Rids(p)
         /\ r \notin Rids(Popped(p, r)) /\ OthersKept(Popped(p, r), p, r)
<1>1. PICK F : F = FormatsOf(c) /\ Dict(p, F)
  BY DEF PocketFits
<1>2. PICK q : q = Popped(p, r)
  OBVIOUS
<1>3. /\ Dict(q, F) /\ Rids(q) \subseteq Rids(p) /\ r \notin Rids(q) /\ OthersKept(q, p, r)
      /\ Len(q) <= Len(p)
  BY <1>1, <1>2, PoppedDoes
<1>4. p = <<>> => q = <<>>
  <2>1. p = <<>> => Entries(p, r) = {}
    BY DEF Entries
  <2> QED
    BY <1>2, <2>1 DEF Popped
<1>5. c.script = "google" => Len(q) <= PocketMax + 1
  <2>1. Len(p) \in Nat /\ Len(q) \in Nat
    BY <1>1, <1>3, DictParts
  <2> QED
    BY <1>3, <2>1, CapFact DEF PocketFits
<1> QED
  BY <1>1, <1>2, <1>3, <1>4, <1>5 DEF PocketFits

\* The pocket holds no more entries than requests began: an id each, and the shared one
\* instead of an id that nobody has.
LEMMA PocketSmall ==
  ASSUME NEW F, NEW p, NEW b \in Nat, NEW slots, Dict(p, F), IdsFit(b, p, slots)
  PROVE  Len(p) <= b
<1>1. PICK X : Rids(p) \subseteq X /\ IsFiniteSet(X) /\ Cardinality(X) = b
  <2>1. Rids(p) \subseteq InUse(p, slots) /\ InUse(p, slots) \subseteq 0..b
    BY DEF IdsFit, InUse
  <2>2. IsFiniteSet(0..b) /\ Cardinality(0..b) = b + 1
    <3>1. 0 \in Int /\ b \in Int
      OBVIOUS
    <3>2. IsFiniteSet(0..b) /\ Cardinality(0..b) = IF 0 > b THEN 0 ELSE b - 0 + 1
      BY <3>1, FS_Interval
    <3> QED
      BY <3>2
  <2>3. PICK k \in 0..b : k \notin Rids(p)
    BY <2>1 DEF IdsFit, Repeated
  <2>4. Cardinality((0..b) \ {k}) = Cardinality(0..b) - 1 /\ IsFiniteSet((0..b) \ {k})
    BY <2>2, FS_RemoveElement
  <2>5. Rids(p) \subseteq (0..b) \ {k} /\ Cardinality((0..b) \ {k}) = b
    BY <2>1, <2>2, <2>3, <2>4
  <2> QED
    BY <2>4, <2>5
<1>2. PICK n \in Nat : n = Len(p) /\ DOMAIN p = 1..n
  BY DictParts
<1>3. SUFFICES ASSUME n > b PROVE FALSE
  BY <1>2
<1>4. IsFiniteSet(1..n) /\ Cardinality(1..n) = n
  <2>1. 1 \in Int /\ n \in Int
    OBVIOUS
  <2>2. IsFiniteSet(1..n) /\ Cardinality(1..n) = IF 1 > n THEN 0 ELSE n - 1 + 1
    BY <2>1, FS_Interval
  <2> QED
    BY <2>2
<1>5. PICK g : g = [i \in 1..n |-> p[i].rid]
  OBVIOUS
<1>6. g \in [1..n -> X]
  BY <1>1, <1>2, <1>5 DEF Rids
<1>7. Cardinality(X) < Cardinality(1..n)
  BY <1>1, <1>3, <1>4
<1>8. \E i, j \in 1..n : i # j /\ g[i] = g[j]
  BY <1>1, <1>4, <1>6, <1>7, FS_PigeonHole
<1> QED
  BY <1>2, <1>5, <1>8 DEF Dict

\* A request keeps its invariant while another one writes under an id that is not its own.
LEMMA OtherSlotFits ==
  ASSUME NEW c \in Channels, NEW b \in Nat, NEW d \in {b, b + 1}, NEW p, NEW t, NEW q, NEW r,
         SlotFits(c, b, p, q), q.rid # r \/ q.rid = Repeated,
         Rids(t) \subseteq Rids(p) \cup {r}, Dropped(c, d) \/ OthersKept(t, p, r)
  PROVE  SlotFits(c, d, t, q)
<1>1. TypeFits(d, q)
  BY DEF SlotFits, TypeFits
<1>2. Dropped(c, b) => Dropped(c, d)
  BY CapFact DEF Dropped
<1>3. Remembered(c, d, t, q)
  <2>1. q.rid # Repeated /\ ~Dropped(c, d) => Found(t, q.rid) = Found(p, q.rid)
    BY DEF SlotFits, TypeFits, OthersKept
  <2> QED
    BY <1>2, <2>1 DEF SlotFits, Remembered
<1>4. Given(c, d, q)
  BY <1>2 DEF SlotFits, Given
<1>5. Emptied(t, q)
  BY DEF SlotFits, Emptied
<1>6. ItemsFit(c, q) /\ JobsFit(q)
  BY DEF SlotFits
<1> QED
  BY <1>1, <1>3, <1>4, <1>5, <1>6 DEF SlotFits

-----------------------------------------------------------------------------
(* The steps.  Each replaces the request of one slot and writes to the       *)
(* pocket under the id of that request at most.                              *)

LEMMA BoundFact ==
  \A c \in Channels : MaxRequests[c.script] \in Nat
BY ExchangeAssumption DEF Channels

LEMMA StepKeeps ==
  ASSUME NEW s \in Slots, NEW q, NEW r, ExchangeInv,
         Become(s, q), channel' = channel,
         PocketFits(channel, pocket'), Rids(pocket') \subseteq Rids(pocket) \cup {r},
         Dropped(channel, begun') \/ OthersKept(pocket', pocket, r),
         SlotFits(channel, begun', pocket', q),
         q.at \in Gone \/ q.rid = r,
         \/ /\ begun' = begun /\ r = slot[s].rid
            /\ slot[s].at \notin Gone \/ (pocket' = pocket /\ q.at \in Gone)
         \/ begun' = begun + 1 /\ begun < MaxRequests[channel.script] /\ r \in {Repeated, begun + 1}
  PROVE  ExchangeInv'
<1>0. begun \in Nat
  BY BoundFact DEF ExchangeInv
<1>1. /\ DOMAIN slot' = Slots /\ slot'[s] = q
      /\ \A t \in Slots \ {s} : slot'[t] = slot[t]
      /\ begun \in Nat /\ begun' \in {begun, begun + 1}
  BY <1>0 DEF ExchangeInv, Become
<1>2. /\ \A t \in Slots : slot[t].rid \in 0..begun
      /\ \A t \in Slots : slot[t].at \in Gone => slot[t].rid = Repeated
      /\ q.rid \in 0..begun' /\ (q.at \in Gone => q.rid = Repeated)
  BY DEF ExchangeInv, SlotFits, TypeFits
<1>3. channel' \in Channels /\ begun' \in 0..MaxRequests[channel'.script]
  BY <1>1, BoundFact DEF ExchangeInv
<1>4. \A t \in Slots : SlotFits(channel', begun', pocket', slot'[t])
  <2>1. ASSUME NEW t \in Slots \ {s} PROVE SlotFits(channel, begun', pocket', slot[t])
    <3>1. slot[t].rid # r \/ slot[t].rid = Repeated
      BY <1>1, <1>2 DEF ExchangeInv, IdsFit, Repeated
    <3>2. SlotFits(channel, begun, pocket, slot[t]) /\ channel \in Channels
      BY DEF ExchangeInv
    <3> QED
      BY <1>1, <3>1, <3>2, OtherSlotFits
  <2> QED
    BY <1>1, <2>1
<1>5. IdsFit(begun', pocket', slot')
  <2> DEFINE I == InUse(pocket, slot)
             J == InUse(pocket', slot')
  <2>1. I \subseteq 0..begun /\ (Repeated \in I => \E k \in 1..begun : k \notin I)
    BY DEF ExchangeInv, IdsFit
  <2>2. J \subseteq I \cup {r}
    <3>1. Rids(pocket') \subseteq I \cup {r}
      BY DEF InUse
    <3>2. ASSUME NEW t \in Slots, slot'[t].at \notin Gone PROVE slot'[t].rid \in I \cup {r}
      BY <1>1, <3>2 DEF InUse
    <3> QED
      BY <3>1, <3>2 DEF InUse
  <2>3. CASE begun' = begun /\ r = slot[s].rid
    <3>1. J \subseteq I
      <4>1. CASE slot[s].at \notin Gone
        BY <2>2, <2>3, <4>1 DEF InUse
      <4>2. CASE pocket' = pocket /\ q.at \in Gone
        BY <1>1, <4>2 DEF InUse
      <4> QED
        BY <2>3, <1>1, <4>1, <4>2
    <3>2. J \subseteq 0..begun' /\ (Repeated \in J => \E k \in 1..begun' : k \notin J)
      BY <2>1, <2>3, <3>1
    <3> QED
      BY <1>1, <1>2, <2>3, <3>2 DEF ExchangeInv, IdsFit
  <2>4. CASE begun' = begun + 1 /\ r \in {Repeated, begun + 1}
    <3>1. J \subseteq 0..begun'
      BY <1>1, <2>1, <2>2, <2>4 DEF Repeated
    <3>2. ASSUME Repeated \in J PROVE \E k \in 1..begun' : k \notin J
      <4>1. CASE r = Repeated
        <5>1. begun + 1 \in 1..begun' /\ begun + 1 \notin I /\ begun + 1 # r
          BY <1>1, <2>1, <2>4, <4>1 DEF Repeated
        <5> QED
          BY <2>2, <5>1
      <4>2. CASE r = begun + 1
        <5>1. Repeated # r
          BY <1>1, <4>2 DEF Repeated
        <5>2. PICK k \in 1..begun : k \notin I
          BY <2>1, <2>2, <3>2, <5>1
        <5>3. k \in 1..begun' /\ k # r
          BY <1>1, <2>4, <4>2
        <5> QED
          BY <2>2, <5>2, <5>3
      <4> QED
        BY <2>4, <4>1, <4>2
    <3>3. ASSUME NEW t \in Slots \ {s} PROVE slot[t].rid # begun + 1
      BY <1>1, <1>2
    <3>4. q.rid # Repeated => q.rid = begun + 1
      BY <1>2, <2>4
    <3> HIDE DEF I, J
    <3>5. \A t, u \in Slots : slot'[t].rid = slot'[u].rid /\ slot'[t].rid # Repeated => t = u
      BY <1>1, <3>3, <3>4 DEF ExchangeInv, IdsFit
    <3> QED
      BY <3>1, <3>2, <3>5 DEF IdsFit, J
  <2> QED
    BY <2>3, <2>4
<1> QED
  BY <1>1, <1>3, <1>4, <1>5 DEF ExchangeInv

\* A step that leaves the pocket alone.
LEMMA LocalStepKeeps ==
  ASSUME NEW s \in Slots, NEW q, ExchangeInv, Become(s, q), UNCHANGED <<channel, pocket, begun>>,
         SlotFits(channel, begun, pocket, q),
         q.at \in Gone \/ (q.rid = slot[s].rid /\ slot[s].at \notin Gone)
  PROVE  ExchangeInv'
<1>2. PocketFits(channel, pocket') /\ SlotFits(channel, begun', pocket', q)
  BY DEF ExchangeInv
<1>3. OthersKept(pocket', pocket, slot[s].rid) /\ Rids(pocket') \subseteq Rids(pocket) \cup {slot[s].rid}
  BY DEF OthersKept
<1> QED
  BY <1>2, <1>3, StepKeeps

LEMMA GoneFits ==
  ASSUME NEW c \in Channels, NEW b \in Nat, NEW p, NEW q, TypeFits(b, q), q.at \in Gone, JobsFit(q)
  PROVE  SlotFits(c, b, p, q)
BY DEF SlotFits, TypeFits, Remembered, HoldsFormat, Given, Emptied, ItemsFit, Gone

LEMMA FreeFits ==
  ASSUME NEW c \in Channels, NEW b \in Nat, NEW p
  PROVE  /\ SlotFits(c, b, p, Free) /\ Free.at \in Gone
         /\ SlotFits(c, b, p, [Free EXCEPT !.at = "failed"])
         /\ [Free EXCEPT !.at = "failed"].at \in Gone
<1>1. TypeFits(b, Free) /\ Free.at \in Gone
  BY DEF TypeFits, Free, NoBody, Stages, Gone, Wanted, Repeated
<1>2. PICK q : q = [Free EXCEPT !.at = "failed"]
  OBVIOUS
<1>3. TypeFits(b, q) /\ q.at \in Gone /\ JobsFit(q) /\ JobsFit(Free)
  <2>1. q = [at |-> "failed", rid |-> Free.rid, body |-> Free.body, error |-> Free.error,
             jobs |-> Free.jobs, wire |-> Free.wire, want |-> Free.want, items |-> Free.items,
             blame |-> Free.blame]
    BY <1>2 DEF Free
  <2> QED
    BY <1>1, <2>1 DEF TypeFits, Stages, Gone, JobsFit, Free
<1> QED
  BY <1>1, <1>2, <1>3, GoneFits

LEMMA FailsKeeps ==
  ASSUME NEW s \in Slots, ExchangeInv, Fails(s), UNCHANGED <<channel, pocket, begun>>
  PROVE  ExchangeInv'
<1>1. PICK q : q = [Free EXCEPT !.at = "failed"]
  OBVIOUS
<1>2. SlotFits(channel, begun, pocket, q) /\ q.at \in Gone
  BY <1>1, FreeFits, BoundFact DEF ExchangeInv
<1>3. Become(s, q)
  BY <1>1 DEF Fails
<1> QED
  BY <1>2, <1>3, LocalStepKeeps

LEMMA LeaveKeeps ==
  ASSUME NEW s \in Slots, ExchangeInv, Leave(s)
  PROVE  ExchangeInv'
<1>1. SlotFits(channel, begun, pocket, Free) /\ Free.at \in Gone
  BY FreeFits, BoundFact DEF ExchangeInv
<1>2. Become(s, Free) /\ UNCHANGED <<channel, pocket, begun>>
  BY DEF Leave
<1> QED
  BY <1>1, <1>2, LocalStepKeeps

LEMMA LiveTyped ==
  ASSUME NEW s \in Slots, NEW x, ExchangeInv, x = slot[s]
  PROVE  /\ SlotFits(channel, begun, pocket, x) /\ TypeFits(begun, x)
         /\ x = [at |-> x.at, rid |-> x.rid, body |-> x.body, error |-> x.error, jobs |-> x.jobs,
                 wire |-> x.wire, want |-> x.want, items |-> x.items, blame |-> x.blame]
         /\ x.rid \in Nat /\ x.body.format \in Wanted /\ x.want \in Wanted
         /\ channel \in Channels /\ begun \in Nat /\ PocketFits(channel, pocket)
<1>1. begun \in Nat
  BY BoundFact DEF ExchangeInv
<1> QED
  BY <1>1 DEF ExchangeInv, SlotFits, TypeFits

LEMMA JobEndsKeeps ==
  ASSUME NEW s \in Slots, ExchangeInv, JobEnds(s)
  PROVE  ExchangeInv'
<1>0. PICK x : x = slot[s]
  OBVIOUS
<1>1. PICK i, out, q :
        /\ i \in DOMAIN x.jobs /\ x.at \in {"reading", "shaping"}
        /\ x.at # "reading" => out \in ItemOutcomes(channel, x.want, x.items[i])
        /\ q = [x EXCEPT !.jobs[i] = out] /\ Become(s, q) /\ Running(x.jobs, i)
  BY <1>0 DEF JobEnds
<1>2. /\ SlotFits(channel, begun, pocket, x)
      /\ UNCHANGED <<channel, pocket, begun>>
  BY <1>0 DEF ExchangeInv, JobEnds
<1>3. /\ q = [at |-> x.at, rid |-> x.rid, body |-> x.body, error |-> x.error,
               jobs |-> [x.jobs EXCEPT ![i] = out], wire |-> x.wire, want |-> x.want,
               items |-> x.items, blame |-> x.blame]
  <2>1. x = [at |-> x.at, rid |-> x.rid, body |-> x.body, error |-> x.error, jobs |-> x.jobs,
             wire |-> x.wire, want |-> x.want, items |-> x.items, blame |-> x.blame]
    BY <1>2 DEF SlotFits, TypeFits
  <2> QED
    BY <1>1, <2>1
<1>4. PICK jobs : jobs = [x.jobs EXCEPT ![i] = out]
  OBVIOUS
<1>5. DOMAIN jobs = DOMAIN x.jobs /\ \A j \in DOMAIN jobs : jobs[j] = IF j = i THEN out ELSE x.jobs[j]
  BY <1>4
<1>6. TypeFits(begun, q)
  BY <1>1, <1>2, <1>3, <1>4, <1>5 DEF SlotFits, TypeFits
<1>7. ItemsFit(channel, q)
  BY <1>1, <1>2, <1>3, <1>4, <1>5 DEF SlotFits, ItemsFit
<1>8. Remembered(channel, begun, pocket, q) /\ Given(channel, begun, q) /\ Emptied(pocket, q)
  BY <1>1, <1>2, <1>3 DEF SlotFits, Remembered, HoldsFormat, Given, Emptied
<1>9. q.rid = slot[s].rid /\ slot[s].at \notin Gone
  BY <1>0, <1>1, <1>3 DEF Gone
<1>10. JobsFit(q)
  <2>1. /\ \A j \in DOMAIN x.jobs : j \in Nat \ {0}
        /\ Serial(x.jobs) => \A j, k \in DOMAIN x.jobs :
                               j < k /\ x.jobs[k] # Waiting => x.jobs[j] # Waiting
    BY <1>1, <1>2 DEF SlotFits, JobsFit
  <2>2. Serial(jobs) => Serial(x.jobs)
    BY <1>5 DEF Serial
  <2>3. ASSUME Width <= 1, NEW j \in DOMAIN x.jobs, j < i PROVE x.jobs[j] # Waiting
    <3>1. IsFiniteSet(1..(i - 1)) /\ j \in 1..(i - 1)
      <4>1. i \in Nat /\ j \in Nat /\ j > 0
        BY <1>1, <2>1
      <4>2. IsFiniteSet(1..(i - 1))
        BY <4>1, FS_Interval
      <4> QED
        BY <2>3, <4>1, <4>2
    <3>2. PICK W : W = {k \in 1..(i - 1) : x.jobs[k] = Waiting}
      OBVIOUS
    <3>3. IsFiniteSet(W)
      BY <3>1, <3>2, FS_Subset
    <3>4. Cardinality(W) < 1 /\ Cardinality(W) \in Nat
      BY <1>1, <2>3, <3>2, <3>3, FS_CardinalityType, ExchangeAssumption DEF Running
    <3>5. W = {}
      BY <3>3, <3>4, FS_EmptySet
    <3> QED
      BY <3>1, <3>2, <3>5
  <2>4. ASSUME Serial(jobs), NEW j \in DOMAIN jobs, NEW k \in DOMAIN jobs, j < k, jobs[k] # Waiting
        PROVE  jobs[j] # Waiting
    <3>1. j # k /\ j \in Nat /\ k \in Nat /\ i \in Nat
      BY <1>1, <1>5, <2>1, <2>4
    <3>2. Width <= 1
      BY <2>4, <3>1 DEF Serial
    <3>3. CASE k = i
      BY <1>5, <2>3, <2>4, <3>1, <3>2, <3>3
    <3>4. CASE k # i
      <4>1. x.jobs[k] # Waiting /\ x.jobs[j] # Waiting
        BY <1>5, <2>1, <2>2, <2>4, <3>4
      <4>2. x.jobs[i] = Waiting
        BY <1>1 DEF Running
      <4> QED
        BY <1>5, <2>4, <4>1, <4>2
    <3> QED
      BY <3>3, <3>4
  <2>5. q.jobs = jobs /\ q.at = x.at
    BY <1>3, <1>4
  <2> QED
    BY <1>1, <1>5, <2>1, <2>4, <2>5 DEF JobsFit
<1> QED
  BY <1>1, <1>2, <1>6, <1>7, <1>8, <1>9, <1>10, LocalStepKeeps DEF SlotFits

LEMMA JobRaisesKeeps ==
  ASSUME NEW s \in Slots, ExchangeInv, JobRaises(s)
  PROVE  ExchangeInv'
<1>0. PICK jobs : jobs = slot[s].jobs
  OBVIOUS
<1>1. PICK i, q :
        /\ i \in DOMAIN jobs
        /\ q = [Free EXCEPT !.at = "failed", !.jobs = jobs, !.blame = i] /\ Become(s, q)
        /\ Raised(jobs, i) /\ Joined(jobs)
  BY <1>0 DEF JobRaises
<1>2. TypeFits(begun, q) /\ q.at \in Gone
  <2>1. q = [at |-> "failed", rid |-> Free.rid, body |-> Free.body, error |-> Free.error,
             jobs |-> jobs, wire |-> Free.wire, want |-> Free.want, items |-> Free.items,
             blame |-> i]
    BY <1>1 DEF Free
  <2>2. TypeFits(begun, Free)
    BY FreeFits, BoundFact DEF ExchangeInv, SlotFits
  <2>3. Free.at \in Gone
    BY DEF Free, Gone
  <2> QED
    BY <1>1, <2>1, <2>2, <2>3 DEF TypeFits, Stages, Gone
<1>3. UNCHANGED <<channel, pocket, begun>>
  BY DEF JobRaises
<1>4. ASSUME NEW k \in DOMAIN jobs, k < i PROVE jobs[k] # Waiting /\ jobs[k] # Failed
  <2>1. /\ \A j \in DOMAIN jobs : j \in Nat \ {0}
        /\ Serial(jobs) => \A j, h \in DOMAIN jobs : j < h /\ jobs[h] # Waiting => jobs[j] # Waiting
    BY <1>0, LiveTyped DEF SlotFits, JobsFit, JobRaises
  <2>2. jobs[i] = Failed /\ jobs[i] # Waiting
    BY <1>1 DEF Raised, FailedJobs, Failed, Waiting
  <2>3. jobs[k] # Failed
    BY <1>1, <1>4, <2>1 DEF Raised, FailedJobs
  <2>4. jobs[k] # Waiting
    BY <1>1, <1>4, <2>1, <2>2 DEF Joined
  <2> QED
    BY <2>3, <2>4
<1>5. JobsFit(q)
  <2>1. q.at = "failed" /\ q.jobs = jobs /\ q.blame = i
    BY <1>1 DEF Free
  <2> QED
    BY <1>4, <2>1 DEF JobsFit
<1>6. SlotFits(channel, begun, pocket, q)
  BY <1>2, <1>5, GoneFits, BoundFact DEF ExchangeInv
<1> QED
  BY <1>1, <1>2, <1>3, <1>6, LocalStepKeeps


LEMMA AskedFormat ==
  ASSUME NEW b PROVE Asked(b).format = b.format
BY DEF Asked, NoBody

\* When a fan-out begins, no job has ended.
LEMMA FanFits ==
  ASSUME NEW work, NEW q, q.jobs = Fan(work), q.at # "failed"
  PROVE  JobsFit(q)
<1>1. \A i \in DOMAIN Fan(work) : i \in Nat \ {0} /\ Fan(work)[i] = Waiting
  BY DEF Fan
<1> QED
  BY <1>1 DEF JobsFit

LEMMA AnswerLocallyKeeps ==
  ASSUME NEW s \in Slots, ExchangeInv, AnswerLocally(s)
  PROVE  ExchangeInv'
<1>0. PICK x : x = slot[s]
  OBVIOUS
<1>1. PICK q : /\ q = [x EXCEPT !.at = "replied", !.items = <<"bytes">>, !.body = Asked(x.body),
                                !.jobs = <<>>]
               /\ Become(s, q)
  BY <1>0 DEF AnswerLocally
<1>2. /\ x.at = "reading" /\ channel.script = "tencent_ci"
      /\ UNCHANGED <<channel, pocket, begun>>
  BY <1>0 DEF AnswerLocally, ReadAll
<1>3. q = [at |-> "replied", rid |-> x.rid, body |-> Asked(x.body), error |-> x.error,
           jobs |-> <<>>, wire |-> x.wire, want |-> x.want, items |-> <<"bytes">>,
           blame |-> x.blame]
  <2>1. x = [at |-> x.at, rid |-> x.rid, body |-> x.body, error |-> x.error, jobs |-> x.jobs,
             wire |-> x.wire, want |-> x.want, items |-> x.items, blame |-> x.blame]
    BY <1>0, LiveTyped
  <2> QED
    BY <1>1, <2>1
<1>4. TypeFits(begun, q)
  BY <1>0, <1>2, <1>3, LiveTyped, AskedFormat DEF TypeFits, Stages, Gone
<1>5. Remembered(channel, begun, pocket, q)
  BY <1>0, <1>2, <1>3, LiveTyped, AskedFormat DEF SlotFits, Remembered, HoldsFormat
<1>6. ItemsFit(channel, q)
  <2>1. Len(<<"bytes">>) = 1 /\ <<"bytes">>[1] = "bytes"
    OBVIOUS
  <2> QED
    BY <1>2, <1>3, <2>1 DEF ItemsFit, ItemKinds
<1>7. Given(channel, begun, q) /\ Emptied(pocket, q) /\ JobsFit(q)
  BY <1>3 DEF Given, Emptied, JobsFit
<1>8. q.rid = slot[s].rid /\ slot[s].at \notin Gone
  BY <1>0, <1>2, <1>3 DEF Gone
<1> QED
  BY <1>1, <1>2, <1>4, <1>5, <1>6, <1>7, <1>8, LocalStepKeeps DEF SlotFits

LEMMA CallAnsweredKeeps ==
  ASSUME NEW s \in Slots, ExchangeInv, CallAnswered(s)
  PROVE  ExchangeInv'
<1>0. PICK x : x = slot[s]
  OBVIOUS
<1>1. PICK answer, items, q :
        /\ answer \in Answers(s) /\ items = Items(channel, answer)
        /\ q = [x EXCEPT !.at = "replied", !.items = items, !.body = Asked(x.body),
                         !.wire = Unsendable, !.error = "none"]
        /\ Become(s, q)
  BY <1>0 DEF CallAnswered
<1>2. x.at = "called" /\ UNCHANGED <<channel, pocket, begun>>
  BY <1>0 DEF CallAnswered
<1>3. q = [at |-> "replied", rid |-> x.rid, body |-> Asked(x.body), error |-> "none",
           jobs |-> x.jobs, wire |-> Unsendable, want |-> x.want, items |-> items,
           blame |-> x.blame]
  <2>1. x = [at |-> x.at, rid |-> x.rid, body |-> x.body, error |-> x.error, jobs |-> x.jobs,
             wire |-> x.wire, want |-> x.want, items |-> x.items, blame |-> x.blame]
    BY <1>0, LiveTyped
  <2> QED
    BY <1>1, <2>1
<1>4. TypeFits(begun, q)
  BY <1>0, <1>2, <1>3, LiveTyped, AskedFormat DEF TypeFits, Stages, Gone
<1>5. Remembered(channel, begun, pocket, q)
  BY <1>0, <1>2, <1>3, LiveTyped, AskedFormat DEF SlotFits, Remembered, HoldsFormat
<1>6. \A i \in 1..Len(items) : items[i] \in ItemKinds(channel, x.body.format)
  <2>0. PICK K : K = ItemKinds(channel, x.body.format)
    OBVIOUS
  <2>1. PICK n \in Nat : answer \in [1..n -> K]
    BY <1>0, <1>1, <2>0, ExchangeAssumption DEF Answers
  <2>2. CASE channel.script = "google"
    <3>1. PICK m : m = Cardinality({j \in DOMAIN answer : answer[j] = "b64"})
      OBVIOUS
    <3>2. m \in Nat
      <4>1. IsFiniteSet(1..n)
        BY FS_Interval
      <4>2. IsFiniteSet({j \in DOMAIN answer : answer[j] = "b64"})
        BY <2>1, <4>1, FS_Subset
      <4> QED
        BY <3>1, <4>2, FS_CardinalityType
    <3>3. items = [i \in 1..m |-> "b64"]
      BY <1>1, <2>2, <3>1 DEF Items, CollectImages
    <3>4. items \in [1..m -> {"b64"}] /\ Len(items) = m
      BY <3>2, <3>3, FunctionIsSeq
    <3> QED
      BY <2>2, <3>4 DEF ItemKinds
  <2>3. CASE channel.script # "google"
    <3>1. items = answer
      BY <1>1, <2>3 DEF Items
    <3>2. Len(answer) = n
      BY <2>1, FunctionIsSeq
    <3> QED
      BY <2>0, <2>1, <3>1, <3>2
  <2> QED
    BY <2>2, <2>3
<1>7. ItemsFit(channel, q)
  <2>1. q.items = items /\ q.at = "replied" /\ q.body.format = x.body.format /\ q.jobs = <<>>
    BY <1>0, <1>2, <1>3, LiveTyped, AskedFormat DEF TypeFits
  <2> QED
    BY <1>6, <2>1 DEF ItemsFit
<1>8. Given(channel, begun, q) /\ Emptied(pocket, q) /\ JobsFit(q)
  BY <1>3 DEF Given, Emptied, JobsFit
<1>9. q.rid = slot[s].rid /\ slot[s].at \notin Gone
  BY <1>0, <1>2, <1>3 DEF Gone
<1> QED
  BY <1>1, <1>2, <1>4, <1>5, <1>7, <1>8, <1>9, LocalStepKeeps DEF SlotFits

LEMMA AnswerKeeps ==
  ASSUME NEW s \in Slots, ExchangeInv, Answer(s)
  PROVE  ExchangeInv'
<1>0. PICK x : x = slot[s]
  OBVIOUS
<1>1. PICK q : q = Answered(x) /\ Become(s, q)
  BY <1>0 DEF Answer
<1>2. /\ x.at = "shaping" /\ UNCHANGED <<channel, pocket, begun>>
      /\ Joined(x.jobs) /\ FailedJobs(x.jobs) = {}
  BY <1>0 DEF Answer
<1>3. q = [at |-> "answered", rid |-> x.rid, body |-> Asked(x.body), error |-> "none",
           jobs |-> x.jobs, wire |-> Unsendable, want |-> x.want, items |-> x.items,
           blame |-> x.blame]
  <2>1. x = [at |-> x.at, rid |-> x.rid, body |-> x.body, error |-> x.error, jobs |-> x.jobs,
             wire |-> x.wire, want |-> x.want, items |-> x.items, blame |-> x.blame]
    BY <1>0, LiveTyped
  <2> QED
    BY <1>1, <2>1 DEF Answered
<1>4. TypeFits(begun, q)
  BY <1>0, <1>2, <1>3, LiveTyped, AskedFormat DEF TypeFits, Stages, Gone
<1>5. Remembered(channel, begun, pocket, q) /\ JobsFit(q)
  BY <1>3 DEF Remembered, HoldsFormat, JobsFit
<1>6. Given(channel, begun, q) /\ Emptied(pocket, q)
  BY <1>0, <1>2, <1>3, LiveTyped, AskedFormat DEF SlotFits, Given, Emptied
<1>7. \A i \in DOMAIN x.jobs : x.jobs[i] # Waiting /\ x.jobs[i] # Failed
  BY <1>2 DEF Joined, FailedJobs
<1>8. ItemsFit(channel, q)
  BY <1>0, <1>2, <1>3, <1>7, LiveTyped, AskedFormat DEF SlotFits, ItemsFit
<1>9. q.rid = slot[s].rid /\ slot[s].at \notin Gone
  BY <1>0, <1>2, <1>3 DEF Gone
<1> QED
  BY <1>1, <1>2, <1>4, <1>5, <1>6, <1>8, <1>9, LocalStepKeeps DEF SlotFits

LEMMA ResponsePhaseKeeps ==
  ASSUME NEW s \in Slots, ExchangeInv, ResponsePhase(s)
  PROVE  ExchangeInv'
<1>0. PICK x : x = slot[s]
  OBVIOUS
<1>1. PICK q : /\ q = [x EXCEPT !.at = "shaping", !.want = Found(pocket, x.rid), !.jobs = Fan(x.items)]
               /\ Become(s, q)
  BY <1>0 DEF ResponsePhase
<1>2. /\ x.at = "replied" /\ pocket' = Popped(pocket, x.rid) /\ UNCHANGED <<channel, begun>>
  BY <1>0 DEF ResponsePhase
<1>3. q = [at |-> "shaping", rid |-> x.rid, body |-> x.body, error |-> x.error,
           jobs |-> Fan(x.items), wire |-> x.wire, want |-> Found(pocket, x.rid),
           items |-> x.items, blame |-> x.blame]
  <2>1. x = [at |-> x.at, rid |-> x.rid, body |-> x.body, error |-> x.error, jobs |-> x.jobs,
             wire |-> x.wire, want |-> x.want, items |-> x.items, blame |-> x.blame]
    BY <1>0, LiveTyped
  <2> QED
    BY <1>1, <2>1
<1>4. /\ PocketFits(channel, pocket') /\ Rids(pocket') \subseteq Rids(pocket)
      /\ x.rid \notin Rids(pocket') /\ OthersKept(pocket', pocket, x.rid)
  BY <1>0, <1>2, LiveTyped, PoppedFits
<1>5. Found(pocket, x.rid) \in Wanted
  <2>1. PICK F : F = FormatsOf(channel) /\ Dict(pocket, F)
    BY <1>0, LiveTyped DEF PocketFits
  <2>2. CASE x.rid \in Rids(pocket)
    <3>1. PICK i \in DOMAIN pocket : x.rid = pocket[i].rid
      BY <2>2 DEF Rids
    <3>2. Found(pocket, x.rid) \in F
      BY <2>1, <3>1, DictParts
    <3> QED
      BY <2>1, <3>2 DEF FormatsOf, Wanted
  <2>3. CASE x.rid \notin Rids(pocket)
    BY <2>1, <2>3, DictParts DEF Wanted
  <2> QED
    BY <2>2, <2>3
<1>6. TypeFits(begun, q)
  BY <1>0, <1>2, <1>3, <1>5, LiveTyped DEF TypeFits, Stages, Gone
<1>7. Remembered(channel, begun, pocket', q) /\ Emptied(pocket', q)
  BY <1>3, <1>4 DEF Remembered, HoldsFormat, Emptied
<1>8. Given(channel, begun, q)
  BY <1>0, <1>2, <1>3, LiveTyped DEF SlotFits, Remembered, HoldsFormat, Given
<1>9. ItemsFit(channel, q)
  <2>1. \A i \in 1..Len(x.items) : x.items[i] \in ItemKinds(channel, x.body.format)
    BY <1>0, <1>2, LiveTyped DEF SlotFits, ItemsFit
  <2>2. DOMAIN q.jobs = 1..Len(x.items) /\ \A i \in DOMAIN q.jobs : q.jobs[i] = Waiting
    BY <1>3 DEF Fan
  <2>3. q.at = "shaping" /\ q.items = x.items /\ q.body = x.body
    BY <1>3
  <2> QED
    BY <2>1, <2>2, <2>3 DEF ItemsFit
<1>10. SlotFits(channel, begun', pocket', q)
  <2>1. JobsFit(q)
    BY <1>3, FanFits
  <2> QED
    BY <1>2, <1>6, <1>7, <1>8, <1>9, <2>1 DEF SlotFits
<1>11. q.rid = x.rid /\ x.rid = slot[s].rid /\ slot[s].at \notin Gone
  BY <1>0, <1>2, <1>3 DEF Gone
<1>12. Rids(pocket') \subseteq Rids(pocket) \cup {x.rid} /\ begun' = begun /\ channel' = channel
  BY <1>2, <1>4
<1> QED
  BY <1>1, <1>4, <1>10, <1>11, <1>12, StepKeeps
LEMMA CallKeeps ==
  ASSUME NEW s \in Slots, ExchangeInv, Call(s)
  PROVE  ExchangeInv'
<1>0. PICK x : x = slot[s]
  OBVIOUS
<1>1. PICK wire, q :
        /\ q = [Free EXCEPT !.at = "failed"] \/ q = [x EXCEPT !.at = "called", !.wire = wire, !.jobs = <<>>]
        /\ Become(s, q)
  BY <1>0 DEF Call, Fails
<1>2. /\ x.at = "reading" /\ pocket' = Booked(channel, pocket, x.rid, x.body.format)
      /\ UNCHANGED <<channel, begun>>
  BY <1>0 DEF Call, ReadAll
<1>3. PICK f : f = x.body.format
  OBVIOUS
<1>4. /\ PocketFits(channel, pocket') /\ Rids(pocket') \subseteq Rids(pocket) \cup {x.rid}
      /\ OthersKept(pocket', pocket, x.rid)
      /\ Found(pocket', x.rid) = IF channel.script = "qwen" THEN f ELSE Found(pocket, x.rid)
  <2>1. x.rid \in Nat /\ f \in Wanted /\ channel \in Channels /\ PocketFits(channel, pocket)
    BY <1>0, <1>3, LiveTyped
  <2> QED
    BY <1>2, <1>3, <2>1, BookedDoes
<1>5. SlotFits(channel, begun, pocket', q) /\ (q.at \in Gone \/ q.rid = x.rid)
  <2>1. CASE q = [Free EXCEPT !.at = "failed"]
    BY <1>0, <2>1, LiveTyped, FreeFits
  <2>2. CASE q = [x EXCEPT !.at = "called", !.wire = wire, !.jobs = <<>>]
    <3>1. q = [at |-> "called", rid |-> x.rid, body |-> x.body, error |-> x.error, jobs |-> <<>>,
               wire |-> wire, want |-> x.want, items |-> x.items, blame |-> x.blame]
      <4>1. x = [at |-> x.at, rid |-> x.rid, body |-> x.body, error |-> x.error, jobs |-> x.jobs,
                 wire |-> x.wire, want |-> x.want, items |-> x.items, blame |-> x.blame]
        BY <1>0, LiveTyped
      <4> QED
        BY <2>2, <4>1
    <3>2. TypeFits(begun, q)
      BY <1>0, <1>2, <3>1, LiveTyped DEF TypeFits, Stages, Gone
    <3>3. Remembered(channel, begun, pocket', q)
      BY <1>0, <1>2, <1>3, <1>4, <3>1, LiveTyped DEF SlotFits, Remembered, HoldsFormat
    <3>4. Given(channel, begun, q) /\ Emptied(pocket', q) /\ ItemsFit(channel, q) /\ JobsFit(q)
      BY <3>1 DEF Given, Emptied, ItemsFit, JobsFit
    <3> QED
      BY <3>1, <3>2, <3>3, <3>4 DEF SlotFits
  <2> QED
    BY <1>1, <2>1, <2>2
<1>6. begun' = begun /\ channel' = channel /\ SlotFits(channel, begun', pocket', q)
  BY <1>2, <1>5
<1>7. x.rid = slot[s].rid /\ slot[s].at \notin Gone
  BY <1>0, <1>2 DEF Gone
<1> QED
  BY <1>1, <1>4, <1>5, <1>6, <1>7, StepKeeps

LEMMA CallAnsweredEmptyKeeps ==
  ASSUME NEW s \in Slots, ExchangeInv, CallAnsweredEmpty(s)
  PROVE  ExchangeInv'
<1>0. PICK x : x = slot[s]
  OBVIOUS
<1>1. PICK answer \in {"nothing", "moderated"} :
        pocket' = IF LeavesParked(channel, answer) THEN pocket ELSE Popped(pocket, x.rid)
  BY <1>0 DEF CallAnsweredEmpty
<1>2. PICK q :
        /\ \/ q = [Free EXCEPT !.at = "failed"]
           \/ PassesNothing(channel) /\ q = Answered(x)
        /\ Become(s, q)
  BY <1>0 DEF CallAnsweredEmpty, Fails
<1>3. x.at = "called" /\ UNCHANGED <<channel, begun>>
  BY <1>0 DEF CallAnsweredEmpty
<1>4. /\ PocketFits(channel, pocket') /\ Rids(pocket') \subseteq Rids(pocket)
      /\ OthersKept(pocket', pocket, x.rid)
      /\ LeavesParked(channel, answer) \/ x.rid \notin Rids(pocket')
  <2>1. channel \in Channels /\ PocketFits(channel, pocket)
    BY <1>0, LiveTyped
  <2>2. /\ PocketFits(channel, Popped(pocket, x.rid)) /\ Rids(Popped(pocket, x.rid)) \subseteq Rids(pocket)
        /\ x.rid \notin Rids(Popped(pocket, x.rid)) /\ OthersKept(Popped(pocket, x.rid), pocket, x.rid)
    BY <2>1, PoppedFits
  <2>3. OthersKept(pocket, pocket, x.rid)
    BY DEF OthersKept
  <2> QED
    BY <1>1, <2>1, <2>2, <2>3
<1>5. SlotFits(channel, begun, pocket', q) /\ (q.at \in Gone \/ q.rid = x.rid)
  <2>1. CASE q = [Free EXCEPT !.at = "failed"]
    BY <1>0, <2>1, LiveTyped, FreeFits
  <2>2. CASE PassesNothing(channel) /\ q = Answered(x)
    <3>1. q = [at |-> "answered", rid |-> x.rid, body |-> Asked(x.body), error |-> "none",
               jobs |-> x.jobs, wire |-> Unsendable, want |-> x.want, items |-> x.items,
               blame |-> x.blame]
      <4>1. x = [at |-> x.at, rid |-> x.rid, body |-> x.body, error |-> x.error, jobs |-> x.jobs,
                 wire |-> x.wire, want |-> x.want, items |-> x.items, blame |-> x.blame]
        BY <1>0, LiveTyped
      <4> QED
        BY <2>2, <4>1 DEF Answered
    <3>2. TypeFits(begun, q) /\ q.jobs = <<>>
      BY <1>0, <1>3, <3>1, LiveTyped, AskedFormat DEF TypeFits, Stages, Gone
    <3>3. /\ Remembered(channel, begun, pocket', q) /\ Given(channel, begun, q)
          /\ ItemsFit(channel, q) /\ JobsFit(q)
      BY <3>1, <3>2 DEF Remembered, HoldsFormat, Given, ItemsFit, JobsFit
    <3>4. Emptied(pocket', q)
      <4>1. CASE channel.script = "volcengine_ark"
        <5>1. pocket' = <<>>
          BY <1>4, <4>1 DEF PocketFits
        <5> QED
          BY <5>1 DEF Emptied, Rids
      <4>2. CASE channel.script = "openai"
        <5>1. ~LeavesParked(channel, answer)
          BY <4>2 DEF LeavesParked
        <5> QED
          BY <1>4, <3>1, <5>1 DEF Emptied
      <4> QED
        BY <2>2, <4>1, <4>2 DEF PassesNothing
    <3> QED
      BY <3>1, <3>2, <3>3, <3>4 DEF SlotFits
  <2> QED
    BY <1>2, <2>1, <2>2
<1>6. begun' = begun /\ channel' = channel /\ SlotFits(channel, begun', pocket', q)
  BY <1>3, <1>5
<1>7. x.rid = slot[s].rid /\ slot[s].at \notin Gone
  BY <1>0, <1>3 DEF Gone
<1>8. Rids(pocket') \subseteq Rids(pocket) \cup {x.rid}
  BY <1>4
<1> QED
  BY <1>2, <1>4, <1>5, <1>6, <1>7, <1>8, StepKeeps

\* A request phase, the first one or the one after a 4xx: what it parks under its id is
\* what it asked for, if nothing is parked there or just that.
LEMMA RequestHeadKeeps ==
  ASSUME NEW s \in Slots, NEW x, ExchangeInv, RequestHead(s, x), channel' = channel,
         TypeFits(begun', [x EXCEPT !.at = "reading"]),
         x = [at |-> x.at, rid |-> x.rid, body |-> x.body, error |-> x.error, jobs |-> x.jobs,
              wire |-> x.wire, want |-> x.want, items |-> x.items, blame |-> x.blame],
         \/ begun' = begun /\ x.rid = slot[s].rid /\ slot[s].at \notin Gone
         \/ begun' = begun + 1 /\ begun < MaxRequests[channel.script] /\ x.rid \in {Repeated, begun + 1},
         \/ x.rid = Repeated \/ channel.script = "volcengine_ark" \/ channel.script = "qwen"
         \/ Dropped(channel, begun')
         \/ x.rid \notin Rids(pocket) \/ Found(pocket, x.rid) = x.body.format
  PROVE  ExchangeInv'
<1>1. /\ channel \in Channels /\ begun \in Nat /\ PocketFits(channel, pocket)
      /\ IdsFit(begun, pocket, slot)
  BY LiveTyped DEF ExchangeInv
<1>2. /\ begun' \in {begun, begun + 1} /\ begun' \in Nat /\ x.rid \in 0..begun' /\ x.rid \in Nat
      /\ x.body.format \in Wanted /\ x.want \in Wanted /\ x.blame = 0
  BY <1>1 DEF TypeFits, Repeated
<1>3. PICK f : f = x.body.format
  OBVIOUS
<1>4. PICK q :
        /\ Become(s, q)
        /\ \/ q = [Free EXCEPT !.at = "failed"]
           \/ /\ pocket' = Parked(channel, pocket, x.rid, x.body.format)
              /\ q = [x EXCEPT !.at = "reading", !.jobs = Fan(Fetched(channel, x.body))]
  BY DEF RequestHead, Fails
<1>5. pocket' = pocket \/ pocket' = Parked(channel, pocket, x.rid, f)
  BY <1>3 DEF RequestHead
<1>6. /\ PocketFits(channel, pocket') /\ Rids(pocket') \subseteq Rids(pocket) \cup {x.rid}
      /\ Dropped(channel, begun') \/ OthersKept(pocket', pocket, x.rid)
  <2>1. CASE pocket' = pocket
    BY <1>1, <2>1 DEF OthersKept
  <2>2. CASE pocket' = Parked(channel, pocket, x.rid, f)
    <3>1. /\ PocketFits(channel, pocket') /\ Rids(pocket') \subseteq Rids(pocket) \cup {x.rid}
          /\ (channel.script = "google" /\ Len(pocket) > PocketMax) \/ OthersKept(pocket', pocket, x.rid)
      BY <1>1, <1>2, <1>3, <2>2, ParkedDoes
    <3>2. ASSUME channel.script = "google", Len(pocket) > PocketMax PROVE Dropped(channel, begun')
      <4>1. PICK F : Dict(pocket, F)
        BY <1>1 DEF PocketFits
      <4>2. Len(pocket) <= begun /\ Len(pocket) \in Nat
        BY <1>1, <4>1, PocketSmall, DictParts
      <4>3. begun' > PocketMax
        BY <1>1, <1>2, <3>2, <4>2, CapFact
      <4> QED
        BY <3>2, <4>3 DEF Dropped
    <3> QED
      BY <3>1, <3>2
  <2> QED
    BY <1>5, <2>1, <2>2
<1>7. SlotFits(channel, begun', pocket', q) /\ (q.at \in Gone \/ q.rid = x.rid)
  <2>1. CASE q = [Free EXCEPT !.at = "failed"]
    BY <1>1, <1>2, <2>1, FreeFits
  <2>2. CASE /\ pocket' = Parked(channel, pocket, x.rid, x.body.format)
             /\ q = [x EXCEPT !.at = "reading", !.jobs = Fan(Fetched(channel, x.body))]
    <3>1. PICK jobs : jobs = Fan(Fetched(channel, x.body))
      OBVIOUS
    <3>2. q = [at |-> "reading", rid |-> x.rid, body |-> x.body, error |-> x.error, jobs |-> jobs,
               wire |-> x.wire, want |-> x.want, items |-> x.items, blame |-> x.blame]
      BY <2>2, <3>1
    <3>3. TypeFits(begun', q)
      BY <1>2, <3>2 DEF TypeFits, Stages, Gone
    <3>4. Remembered(channel, begun', pocket', q)
      <4>1. ASSUME channel.script \notin {"volcengine_ark", "qwen"}, x.rid # Repeated, ~Dropped(channel, begun')
            PROVE  Found(pocket', x.rid) = f
        <5>1. x.rid \notin Rids(pocket) \/ Found(pocket, x.rid) = f
          BY <1>3, <4>1
        <5>2. pocket' = Parked(channel, pocket, x.rid, f) /\ f \in Wanted
          BY <1>2, <1>3, <2>2
        <5> QED
          BY <1>1, <1>2, <4>1, <5>1, <5>2, ParkedDoes
      <4> QED
        BY <1>3, <3>2, <4>1 DEF Remembered, HoldsFormat
    <3>5. Given(channel, begun', q) /\ Emptied(pocket', q) /\ ItemsFit(channel, q) /\ JobsFit(q)
      <4>1. JobsFit(q)
        BY <3>1, <3>2, FanFits
      <4> QED
        BY <3>2, <4>1 DEF Given, Emptied, ItemsFit
    <3> QED
      BY <3>2, <3>3, <3>4, <3>5 DEF SlotFits
  <2> QED
    BY <1>4, <2>1, <2>2
<1> QED
  BY <1>4, <1>6, <1>7, StepKeeps

LEMMA BeginKeeps ==
  ASSUME NEW s \in Slots, ExchangeInv, Begin(s)
  PROVE  ExchangeInv'
<1>1. PICK b, r, x :
        /\ b \in Bodies[channel.script] /\ r \in {begun + 1, Repeated}
        /\ x = [Free EXCEPT !.rid = r, !.body = b] /\ RequestHead(s, x)
  BY DEF Begin
<1>2. begun' = begun + 1 /\ begun < MaxRequests[channel.script] /\ channel' = channel
  BY DEF Begin
<1>3. begun \in Nat /\ channel \in Channels /\ IdsFit(begun, pocket, slot)
  BY LiveTyped DEF ExchangeInv
<1>4. x = [at |-> Free.at, rid |-> r, body |-> b, error |-> Free.error, jobs |-> Free.jobs,
           wire |-> Free.wire, want |-> Free.want, items |-> Free.items, blame |-> Free.blame]
  BY <1>1 DEF Free
<1>5. b.format \in Wanted
  BY <1>1, <1>3, ExchangeAssumption DEF Channels, CanonicalBodies, Wanted
<1>6. TypeFits(begun', [x EXCEPT !.at = "reading"])
  <2>1. PICK q : q = [x EXCEPT !.at = "reading"]
    OBVIOUS
  <2>2. q = [at |-> "reading", rid |-> r, body |-> b, error |-> Free.error, jobs |-> Free.jobs,
             wire |-> Free.wire, want |-> Free.want, items |-> Free.items, blame |-> Free.blame]
    BY <1>4, <2>1
  <2>3. Free.want \in Wanted /\ Free.blame = 0
    BY DEF Free, Wanted
  <2>4. r \in 0..begun'
    BY <1>1, <1>2, <1>3 DEF Repeated
  <2>5. TypeFits(begun', q)
    BY <1>5, <2>2, <2>3, <2>4 DEF TypeFits, Stages, Gone
  <2> QED
    BY <2>1, <2>5
<1>7. r # Repeated => r \notin Rids(pocket)
  <2>1. Rids(pocket) \subseteq 0..begun
    BY <1>3 DEF IdsFit, InUse
  <2> QED
    BY <1>1, <1>3, <2>1
<1>8. x.rid = r
  BY <1>4
<1>9. x = [at |-> x.at, rid |-> x.rid, body |-> x.body, error |-> x.error, jobs |-> x.jobs,
           wire |-> x.wire, want |-> x.want, items |-> x.items, blame |-> x.blame]
  BY <1>4
<1> QED
  BY <1>1, <1>2, <1>6, <1>7, <1>8, <1>9, RequestHeadKeeps

LEMMA CallRefusedKeeps ==
  ASSUME NEW s \in Slots, ExchangeInv, CallRefused(s)
  PROVE  ExchangeInv'
<1>0. PICK z : z = slot[s]
  OBVIOUS
<1>1. PICK error, x : x = [z EXCEPT !.error = error] /\ RequestHead(s, x)
  BY <1>0 DEF CallRefused
<1>2. z.at = "called" /\ begun' = begun /\ channel' = channel
  BY <1>0 DEF CallRefused
<1>3. z = [at |-> z.at, rid |-> z.rid, body |-> z.body, error |-> z.error, jobs |-> z.jobs,
           wire |-> z.wire, want |-> z.want, items |-> z.items, blame |-> z.blame]
  BY <1>0, LiveTyped
<1>4. x = [at |-> z.at, rid |-> z.rid, body |-> z.body, error |-> error, jobs |-> z.jobs,
           wire |-> z.wire, want |-> z.want, items |-> z.items, blame |-> z.blame]
  BY <1>1, <1>3
<1>5. TypeFits(begun', [x EXCEPT !.at = "reading"])
  <2>1. PICK q : q = [x EXCEPT !.at = "reading"]
    OBVIOUS
  <2>2. q = [at |-> "reading", rid |-> z.rid, body |-> z.body, error |-> error, jobs |-> z.jobs,
             wire |-> z.wire, want |-> z.want, items |-> z.items, blame |-> z.blame]
    BY <1>4, <2>1
  <2>3. TypeFits(begun, z)
    BY <1>0, LiveTyped
  <2>4. TypeFits(begun', q)
    BY <1>2, <2>2, <2>3 DEF TypeFits, Stages, Gone
  <2> QED
    BY <2>1, <2>4
<1>6. \/ x.rid = Repeated \/ channel.script = "volcengine_ark" \/ Dropped(channel, begun')
      \/ Found(pocket, x.rid) = x.body.format
  BY <1>0, <1>2, <1>4, LiveTyped DEF SlotFits, Remembered, HoldsFormat
<1>7. x.rid = slot[s].rid /\ slot[s].at \notin Gone
  BY <1>0, <1>2, <1>4 DEF Gone
<1>8. x = [at |-> x.at, rid |-> x.rid, body |-> x.body, error |-> x.error, jobs |-> x.jobs,
           wire |-> x.wire, want |-> x.want, items |-> x.items, blame |-> x.blame]
  BY <1>4
<1> QED
  BY <1>1, <1>2, <1>5, <1>6, <1>7, <1>8, RequestHeadKeeps

-----------------------------------------------------------------------------
(* The theorems.                                                             *)

LEMMA InitFits ==
  ASSUME Init
  PROVE  ExchangeInv
<1>1. channel \in Channels /\ begun \in 0..MaxRequests[channel.script] /\ begun = 0 /\ pocket = <<>>
  BY BoundFact, ExchangeAssumption DEF Init
<1>2. PocketFits(channel, pocket)
  <2>1. Dict(pocket, FormatsOf(channel)) /\ Len(pocket) = 0
    BY <1>1 DEF Dict
  <2> QED
    BY <1>1, <2>1, CapFact DEF PocketFits
<1>3. \A s \in Slots : slot[s] = Free
  BY DEF Init
<1>4. \A s \in Slots : SlotFits(channel, begun, pocket, slot[s])
  BY <1>1, <1>3, FreeFits
<1>5. InUse(pocket, slot) = {} /\ \A s \in Slots : slot[s].rid = Repeated
  BY <1>1, <1>3, FreeFits DEF InUse, Rids, Free
<1>6. IdsFit(begun, pocket, slot)
  BY <1>5 DEF IdsFit
<1> QED
  BY <1>1, <1>2, <1>4, <1>6 DEF ExchangeInv, Init

LEMMA NextKeeps ==
  ASSUME ExchangeInv, [Next]_vars
  PROVE  ExchangeInv'
<1>1. ASSUME NEW s \in Slots, Begin(s) PROVE ExchangeInv'
  BY <1>1, BeginKeeps
<1>2. ASSUME NEW s \in Slots, JobEnds(s) PROVE ExchangeInv'
  BY <1>2, JobEndsKeeps
<1>3. ASSUME NEW s \in Slots, JobRaises(s) PROVE ExchangeInv'
  BY <1>3, JobRaisesKeeps
<1>4. ASSUME NEW s \in Slots, AnswerLocally(s) PROVE ExchangeInv'
  BY <1>4, AnswerLocallyKeeps
<1>5. ASSUME NEW s \in Slots, Call(s) PROVE ExchangeInv'
  BY <1>5, CallKeeps
<1>6. ASSUME NEW s \in Slots, CallRefused(s) PROVE ExchangeInv'
  BY <1>6, CallRefusedKeeps
<1>7. ASSUME NEW s \in Slots, CallFails(s) PROVE ExchangeInv'
  BY <1>7, FailsKeeps DEF CallFails
<1>8. ASSUME NEW s \in Slots, PhaseTimesOut(s) PROVE ExchangeInv'
  BY <1>8, FailsKeeps DEF PhaseTimesOut
<1>9. ASSUME NEW s \in Slots, CallAnswered(s) PROVE ExchangeInv'
  BY <1>9, CallAnsweredKeeps
<1>10. ASSUME NEW s \in Slots, CallAnsweredEmpty(s) PROVE ExchangeInv'
  BY <1>10, CallAnsweredEmptyKeeps
<1>11. ASSUME NEW s \in Slots, ResponsePhase(s) PROVE ExchangeInv'
  BY <1>11, ResponsePhaseKeeps
<1>12. ASSUME NEW s \in Slots, Answer(s) PROVE ExchangeInv'
  BY <1>12, AnswerKeeps
<1>13. ASSUME NEW s \in Slots, Leave(s) PROVE ExchangeInv'
  BY <1>13, LeaveKeeps
<1>14. CASE UNCHANGED vars
  BY <1>14 DEF vars, ExchangeInv
<1>15. CASE Finished
  BY <1>14, <1>15 DEF Finished
<1> QED
  BY <1>1, <1>2, <1>3, <1>4, <1>5, <1>6, <1>7, <1>8, <1>9, <1>10, <1>11, <1>12, <1>13, <1>14,
     <1>15 DEF Next

\* The slots, the pocket and the ids in use fit together in every state.
THEOREM Invariance == Spec => []ExchangeInv
<1>1. Init => ExchangeInv
  BY InitFits
<1>2. ExchangeInv /\ [Next]_vars => ExchangeInv'
  BY NextKeeps
<1> QED
  BY <1>1, <1>2, PTL DEF Spec

LEMMA ClearedNow ==
  ASSUME ExchangeInv
  PROVE  PocketCleared
<1>1. /\ begun \in Nat /\ channel \in Channels /\ Dict(pocket, FormatsOf(channel))
      /\ Rids(pocket) \subseteq 0..begun
  BY BoundFact DEF ExchangeInv, PocketFits, IdsFit, InUse
<1>2. TypeOK
  <2>1. ASSUME NEW i \in DOMAIN pocket
        PROVE  pocket[i].rid \in 0..begun /\ pocket[i].format \in FormatsOf(channel)
    BY <1>1, DictParts DEF Rids
  <2>2. ASSUME NEW s \in Slots
        PROVE  /\ slot[s].at \in Stages /\ slot[s].rid \in 0..begun
               /\ slot[s].blame \in {0} \cup DOMAIN slot[s].jobs /\ slot[s].want \in Wanted
    BY DEF ExchangeInv, SlotFits, TypeFits
  <2> QED
    BY <2>1, <2>2 DEF TypeOK, ExchangeInv, FormatsOf, Stages, Wanted
<1>3. ASSUME NEW s \in Slots, slot[s].at = "answered", Own(s)
      PROVE  Entries(pocket, slot[s].rid) = {}
  <2>1. slot[s].rid \notin Rids(pocket)
    BY <1>3 DEF ExchangeInv, SlotFits, Emptied, Own
  <2> QED
    BY <1>1, <2>1, DictParts
<1>4. channel.script = "google" => Len(pocket) <= PocketMax + 1
  BY DEF ExchangeInv, PocketFits
<1> QED
  BY <1>2, <1>3, <1>4 DEF PocketCleared

\* A request that was answered leaves nothing in the pocket, every parked format is one
\* that clients ask for, and google's pocket stays within its cap.
THEOREM NothingLeftBehind == Spec => []PocketCleared
<1>1. ExchangeInv => PocketCleared
  BY ClearedNow
<1> QED
  BY <1>1, Invariance, PTL

\* What a script makes of an item: a data URI is the vendor's own, and the carrier is
\* the one asked for, base64 for base64 and a link for a link.
LEMMA OutcomesCarry ==
  ASSUME NEW c \in Channels, NEW f \in Wanted, NEW want \in Wanted,
         NEW item \in ItemKinds(c, f), NEW out \in ItemOutcomes(c, want, item), out # Failed
  PROVE  /\ out = "inline" => item = "inline"
         /\ (c.script = "volcengine_ark" \/ want = f)
              => (c.script = "senseaudio" /\ item = "inline") \/ CarriesAs(f, item, out)
<1> USE DEF CarriesAs, Wanted, ResponseFormats, Absent, Failed
<1>1. CASE c.script = "openai"
  <2>1. item \in {"link", "inline", "b64", "empty"} /\ out \in OpenaiItem(c, want, item)
    BY <1>1 DEF ItemKinds, ItemOutcomes
  <2> QED
    BY <1>1, <2>1 DEF OpenaiItem, Rehosted, Fetch
<1>2. CASE c.script = "fal"
  <2>1. item \in {"link", "inline", "b64", "empty"} /\ out \in FalItem(c, want, item)
    BY <1>2 DEF ItemKinds, ItemOutcomes
  <2> QED
    BY <1>2, <2>1 DEF FalItem, Rehosted, Fetch, Restored
<1>3. CASE c.script = "tencent_hunyuan"
  <2>1. item \in {"link", "inline", "empty"} /\ out \in HunyuanItem(c, want, item)
    BY <1>3 DEF ItemKinds, ItemOutcomes
  <2> QED
    BY <1>3, <2>1 DEF HunyuanItem, Rehosted, Fetch
<1>4. CASE c.script = "senseaudio"
  <2>1. item \in {"link", "inline", "empty"} /\ out \in SenseaudioItem(c, want, item)
    BY <1>4 DEF ItemKinds, ItemOutcomes
  <2> QED
    BY <1>4, <2>1 DEF SenseaudioItem, Rehosted, Fetch, Restored
<1>5. CASE c.script = "google"
  <2>1. item \in {"text", "b64"} /\ out \in GoogleItem(want)
    BY <1>5 DEF ItemKinds, ItemOutcomes
  <2> QED
    BY <1>5, <2>1 DEF GoogleItem, HostImage, Restored
<1>6. CASE c.script = "tencent_ci"
  <2>1. item = "bytes" /\ out \in CiItem(want)
    BY <1>6 DEF ItemKinds, ItemOutcomes
  <2> QED
    BY <1>6, <2>1 DEF CiItem
<1>7. CASE c.script = "volcengine_ark"
  <2>1. item = (IF f = "b64_json" THEN "b64" ELSE "link") /\ out \in ArkItem(c, item)
    BY <1>7 DEF ItemKinds, ItemOutcomes
  <2> QED
    BY <1>7, <2>1 DEF ArkItem, Rehosted
<1>8. CASE c.script = "qwen"
  <2>1. item \in {"link", "b64", "empty"} /\ out \in QwenItem(c, want, item)
    BY <1>8 DEF ItemKinds, ItemOutcomes
  <2> QED
    BY <1>8, <2>1 DEF QwenItem, Rehosted, Carried, Fetch
<1>9. c.script \in Scripts
  BY DEF Channels
<1> QED
  BY <1>1, <1>2, <1>3, <1>4, <1>5, <1>6, <1>7, <1>8, <1>9 DEF Scripts

LEMMA AskedNow ==
  ASSUME ExchangeInv
  PROVE  ReplyAsAsked
<1>1. SUFFICES ASSUME NEW s \in Slots, slot[s].at = "answered", slot[s].jobs # <<>>, Own(s)
      PROVE  /\ channel.script # "volcengine_ark" /\ ~MayBeTrimmed
                  => slot[s].want = slot[s].body.format
             /\ \A i \in DOMAIN slot[s].jobs :
                  /\ slot[s].jobs[i] = "inline" => slot[s].items[i] = "inline"
                  /\ \/ MayBeTrimmed \/ (channel.script = "senseaudio" /\ slot[s].items[i] = "inline")
                     \/ CarriesAs(slot[s].body.format, slot[s].items[i], slot[s].jobs[i])
  BY DEF ReplyAsAsked
<1>2. PICK x : x = slot[s]
  OBVIOUS
<1>3. channel.script # "volcengine_ark" /\ ~MayBeTrimmed => x.want = x.body.format
  BY <1>1, <1>2, LiveTyped DEF SlotFits, Given, Own, MayBeTrimmed, Dropped
<1>4. ASSUME NEW i \in DOMAIN x.jobs
      PROVE  /\ x.jobs[i] = "inline" => x.items[i] = "inline"
             /\ \/ MayBeTrimmed \/ (channel.script = "senseaudio" /\ x.items[i] = "inline")
                \/ CarriesAs(x.body.format, x.items[i], x.jobs[i])
  <2>1. PICK f, want, item, out :
          f = x.body.format /\ want = x.want /\ item = x.items[i] /\ out = x.jobs[i]
    OBVIOUS
  <2>2. f \in Wanted /\ want \in Wanted /\ channel \in Channels
    BY <1>2, <2>1, LiveTyped
  <2>3. item \in ItemKinds(channel, f) /\ out \in ItemOutcomes(channel, want, item) /\ out # Failed
    BY <1>1, <1>2, <2>1, LiveTyped DEF SlotFits, ItemsFit
  <2>4. /\ out = "inline" => item = "inline"
        /\ (channel.script = "volcengine_ark" \/ want = f)
             => (channel.script = "senseaudio" /\ item = "inline") \/ CarriesAs(f, item, out)
    BY <2>2, <2>3, OutcomesCarry
  <2> QED
    BY <1>3, <2>1, <2>4
<1> QED
  BY <1>2, <1>3, <1>4

\* A client that did not reuse a request id gets its images in the carrier that it asked
\* for itself, however requests interleave over the one pocket of the script.
THEOREM OwnCarrier == Spec => []ReplyAsAsked
<1>1. ExchangeInv => ReplyAsAsked
  BY AskedNow
<1> QED
  BY <1>1, Invariance, PTL

\* The failure that a fan-out raises is that of the earliest item, and every item before
\* it is through, whatever the width and the order in which the jobs ended.
THEOREM EarliestFailure == Spec => []FailsLikeALoop
<1>1. ExchangeInv => FailsLikeALoop
  BY DEF ExchangeInv, SlotFits, JobsFit, FailsLikeALoop
<1> QED
  BY <1>1, Invariance, PTL

-----------------------------------------------------------------------------
(* Induction, over sets in place of predicates: the provers cannot take an  *)
(* operator as a parameter, and need none here.                             *)

\* A set of numbers that is not empty has a least one.
LEMMA LeastNumber ==
  ASSUME NEW T \in SUBSET Nat, T # {}
  PROVE  \E x \in T : \A y \in T : x <= y
<1>1. IsWellFoundedOn(OpToRel(<, Nat), Nat)
  BY NatLessThanWellFounded
<1>2. PICK x \in T : \A y \in T : ~(<<y, x>> \in OpToRel(<, Nat))
  BY <1>1, WFMin
<1>3. \A y \in T : ~(y < x)
  BY <1>2 DEF OpToRel
<1> QED
  BY <1>3

\* What holds of 0, and of m + 1 whenever it holds of m, holds up to n.
LEMMA Steps ==
  ASSUME NEW n \in Nat, NEW T, 0 \in T, \A m \in 0..(n - 1) : m \in T => m + 1 \in T
  PROVE  \A m \in 0..n : m \in T
<1> SUFFICES ASSUME NEW z \in 0..n, z \notin T PROVE FALSE
  OBVIOUS
<1>1. PICK x \in (0..n) \ T : \A y \in (0..n) \ T : x <= y
  <2>1. (0..n) \ T \in SUBSET Nat /\ (0..n) \ T # {}
    OBVIOUS
  <2> QED
    BY <2>1, LeastNumber
<1>2. x \in Nat /\ x # 0 /\ x - 1 \in 0..(n - 1) /\ (x - 1) + 1 = x
  BY <1>1
<1>3. x - 1 \in T
  BY <1>1, <1>2
<1> QED
  BY <1>1, <1>2, <1>3

-----------------------------------------------------------------------------
(* What InlinedBytes counts.                                                *)

Forms == {"link", "ours", "inline"}
Parts == [form : Forms, id : STRING, bytes : Nat]

Inline(e) == IF e.form = "inline" THEN e.bytes ELSE 0

\* h[m] is what the first m parts inline.
Totals(p, h, m) ==
  h[0] = 0 /\ \A i \in 1..m : h[i] = h[i - 1] + Inline(p[i])

LEMMA InlineNat ==
  ASSUME NEW p \in Seq(Parts)
  PROVE  Len(p) \in Nat /\ \A i \in 1..Len(p) : p[i] \in Parts /\ Inline(p[i]) \in Nat
<1>1. Len(p) \in Nat /\ \A i \in 1..Len(p) : p[i] \in Parts
  BY LenProperties, ElementOfSeq
<1>2. \A e \in Parts : Inline(e) \in Nat
  BY DEF Parts, Inline
<1> QED
  BY <1>1, <1>2

\* There is such a list of totals.
LEMMA TotalsExist ==
  ASSUME NEW p \in Seq(Parts)
  PROVE  \E h \in [0..Len(p) -> Nat] : Totals(p, h, Len(p))
<1> DEFINE T == {m \in 0..Len(p) : \E h \in [0..m -> Nat] : Totals(p, h, m)}
<1>0. Len(p) \in Nat /\ \A i \in 1..Len(p) : Inline(p[i]) \in Nat
  BY InlineNat
<1>1. 0 \in T
  <2>1. PICK h : h = [i \in 0..0 |-> 0]
    OBVIOUS
  <2>2. h \in [0..0 -> Nat] /\ Totals(p, h, 0)
    BY <2>1 DEF Totals
  <2> QED
    BY <1>0, <2>2
<1>2. ASSUME NEW m \in 0..(Len(p) - 1), m \in T PROVE m + 1 \in T
  <2>1. PICK h \in [0..m -> Nat] : Totals(p, h, m)
    BY <1>2
  <2>2. m \in Nat /\ m + 1 \in 1..Len(p) /\ h[m] \in Nat /\ Inline(p[m + 1]) \in Nat
        /\ m + 1 \in 0..Len(p)
    BY <1>0
  <2>3. PICK v \in Nat : v = h[m] + Inline(p[m + 1])
    BY <2>2
  <2>4. PICK g : g = [i \in 0..(m + 1) |-> IF i = m + 1 THEN v ELSE h[i]]
    OBVIOUS
  <2>5. g \in [0..(m + 1) -> Nat]
    BY <2>2, <2>4
  <2>6. /\ g[0] = h[0] /\ g[m] = h[m] /\ g[m + 1] = v
        /\ \A i \in 1..m : g[i] = h[i] /\ g[i - 1] = h[i - 1]
    BY <2>2, <2>4
  <2>7. ASSUME NEW i \in 1..(m + 1) PROVE g[i] = g[i - 1] + Inline(p[i])
    <3>1. CASE i = m + 1
      BY <2>2, <2>3, <2>6, <3>1
    <3>2. CASE i \in 1..m
      BY <2>1, <2>6, <3>2 DEF Totals
    <3> QED
      BY <2>2, <3>1, <3>2
  <2>8. Totals(p, g, m + 1)
    BY <2>1, <2>6, <2>7 DEF Totals
  <2> QED
    BY <1>0, <2>2, <2>5, <2>8
<1>3. Len(p) \in T
  <2> HIDE DEF T
  <2>1. \A m \in 0..Len(p) : m \in T
    BY <1>0, <1>1, <1>2, Steps
  <2> QED
    BY <1>0, <2>1
<1> QED
  BY <1>3

\* InlinedBytes is the last of them, whatever list of totals one has.
LEMMA TotalsAre ==
  ASSUME NEW p \in Seq(Parts), NEW h \in [0..Len(p) -> Nat], Totals(p, h, Len(p))
  PROVE  InlinedBytes(p) = h[Len(p)]
<1>0. Len(p) \in Nat /\ \A i \in 1..Len(p) : Inline(p[i]) \in Nat
  BY InlineNat
<1> DEFINE sum[n \in 0..Len(p)] ==
             IF n = 0 THEN 0
             ELSE sum[n - 1] + (IF p[n].form = "inline" THEN p[n].bytes ELSE 0)
<1>2. h = [n \in 0..Len(p) |->
             IF n = 0 THEN 0 ELSE h[n - 1] + (IF p[n].form = "inline" THEN p[n].bytes ELSE 0)]
  <2> HIDE DEF sum
  <2>1. ASSUME NEW n \in 0..Len(p)
        PROVE  h[n] = IF n = 0 THEN 0
                      ELSE h[n - 1] + (IF p[n].form = "inline" THEN p[n].bytes ELSE 0)
    <3>1. CASE n = 0
      BY <3>1 DEF Totals
    <3>2. CASE n \in 1..Len(p)
      BY <1>0, <3>2 DEF Totals, Inline
    <3> QED
      BY <1>0, <3>1, <3>2
  <2>2. h = [n \in 0..Len(p) |-> h[n]]
    OBVIOUS
  <2> QED
    BY <2>1, <2>2
<1>3. sum = [n \in 0..Len(p) |->
               IF n = 0 THEN 0
               ELSE sum[n - 1] + (IF p[n].form = "inline" THEN p[n].bytes ELSE 0)]
  BY <1>2
<1>4. InlinedBytes(p) = sum[Len(p)]
  BY DEF InlinedBytes
<1> HIDE DEF sum
<1>5. \A n \in 0..Len(p) : sum[n] = IF n = 0 THEN 0 ELSE sum[n - 1] + Inline(p[n])
  BY <1>3 DEF Inline
<1> DEFINE T == {m \in 0..Len(p) : sum[m] = h[m]}
<1>6. 0 \in T
  BY <1>0, <1>5 DEF Totals
<1>7. ASSUME NEW m \in 0..(Len(p) - 1), m \in T PROVE m + 1 \in T
  <2>1. m \in Nat /\ m + 1 \in 1..Len(p) /\ m + 1 \in 0..Len(p) /\ m + 1 # 0 /\ (m + 1) - 1 = m
    BY <1>0
  <2>2. sum[m] = h[m]
    BY <1>7
  <2>3. h[m + 1] = h[(m + 1) - 1] + Inline(p[m + 1])
    BY <2>1 DEF Totals
  <2>4. sum[m + 1] = sum[(m + 1) - 1] + Inline(p[m + 1])
    BY <1>5, <2>1
  <2> QED
    BY <2>1, <2>2, <2>3, <2>4
<1>8. Len(p) \in T
  <2> HIDE DEF T
  <2>1. \A m \in 0..Len(p) : m \in T
    BY <1>0, <1>6, <1>7, Steps
  <2> QED
    BY <1>0, <2>1
<1> QED
  BY <1>4, <1>8

\* No parts inline nothing, and one part more adds what it inlines.
LEMMA InlinedSteps ==
  /\ InlinedBytes(<<>>) = 0
  /\ \A p \in Seq(Parts) : \A e \in Parts :
       /\ InlinedBytes(p) \in Nat /\ Inline(e) \in Nat
       /\ InlinedBytes(Append(p, e)) = InlinedBytes(p) + Inline(e)
<1>1. InlinedBytes(<<>>) = 0
  <2>1. <<>> \in Seq(Parts) /\ Len(<<>>) = 0
    OBVIOUS
  <2>2. PICK h \in [0..Len(<<>>) -> Nat] : Totals(<<>>, h, Len(<<>>))
    BY <2>1, TotalsExist
  <2> QED
    BY <2>1, <2>2, TotalsAre DEF Totals
<1>2. ASSUME NEW p \in Seq(Parts), NEW e \in Parts
      PROVE  /\ InlinedBytes(p) \in Nat /\ Inline(e) \in Nat
             /\ InlinedBytes(Append(p, e)) = InlinedBytes(p) + Inline(e)
  <2>0. Len(p) \in Nat /\ \A i \in 1..Len(p) : Inline(p[i]) \in Nat
    BY InlineNat
  <2>1. PICK h \in [0..Len(p) -> Nat] : Totals(p, h, Len(p))
    BY TotalsExist
  <2>2. InlinedBytes(p) = h[Len(p)] /\ h[Len(p)] \in Nat
    BY <2>0, <2>1, TotalsAre
  <2>3. PICK q \in Seq(Parts) : q = Append(p, e)
    BY AppendProperties
  <2>4. /\ Len(q) = Len(p) + 1 /\ q[Len(p) + 1] = e
        /\ \A i \in 1..Len(p) : q[i] = p[i]
    BY <2>3, AppendProperties
  <2>5. Inline(e) \in Nat
    BY DEF Parts, Inline
  <2>6. PICK n \in Nat : n = Len(p)
    BY <2>0
  <2>7. PICK v \in Nat : v = h[n] + Inline(e)
    BY <2>2, <2>5, <2>6
  <2>8. PICK g : g = [i \in 0..(n + 1) |-> IF i = n + 1 THEN v ELSE h[i]]
    OBVIOUS
  <2>9. g \in [0..(n + 1) -> Nat]
    BY <2>6, <2>8
  <2>10. /\ g[0] = h[0] /\ g[n] = h[n] /\ g[n + 1] = v
         /\ \A i \in 1..n : g[i] = h[i] /\ g[i - 1] = h[i - 1]
    BY <2>6, <2>8
  <2>11. ASSUME NEW i \in 1..(n + 1) PROVE g[i] = g[i - 1] + Inline(q[i])
    <3>1. CASE i = n + 1
      BY <2>4, <2>6, <2>7, <2>10, <3>1
    <3>2. CASE i \in 1..n
      BY <2>1, <2>4, <2>6, <2>10, <3>2 DEF Totals
    <3> QED
      BY <3>1, <3>2
  <2>12. Totals(q, g, n + 1)
    BY <2>1, <2>10, <2>11 DEF Totals
  <2>13. InlinedBytes(q) = g[n + 1]
    BY <2>4, <2>6, <2>9, <2>12, TotalsAre
  <2> QED
    BY <2>2, <2>3, <2>5, <2>6, <2>7, <2>10, <2>13
<1> QED
  BY <1>1, <1>2

LEMMA InlinedNat ==
  ASSUME NEW p \in Seq(Parts)
  PROVE  InlinedBytes(p) \in Nat
<1>1. PICK h \in [0..Len(p) -> Nat] : Totals(p, h, Len(p))
  BY TotalsExist
<1>2. InlinedBytes(p) = h[Len(p)] /\ Len(p) \in Nat
  BY <1>1, TotalsAre, LenProperties
<1> QED
  BY <1>1, <1>2

-----------------------------------------------------------------------------
(* What google's meter makes of the references.                             *)

Meters == [ok : BOOLEAN, left : Int, parts : Seq(Parts)]

\* What is left and what is inlined are the channel's allowance together, and there is a
\* part for each of the first m references.
MeterFits(c, refs, s, m) ==
  /\ s \in Meters
  /\ s.ok => /\ Len(s.parts) = m
             /\ \A i \in 1..m : s.parts[i].id = refs[i].id
             /\ c.mode = "auto" => s.left >= 0 /\ InlinedBytes(s.parts) + s.left = c.total

LEMMA MeterStart ==
  ASSUME NEW c \in Channels, NEW refs
  PROVE  MeterFits(c, refs, Meter(c), 0)
<1>1. c.total \in Nat
  BY DEF Channels
<1>2. <<>> \in Seq(Parts) /\ Len(<<>>) = 0
  OBVIOUS
<1>3. Meter(c) \in Meters /\ Meter(c).parts = <<>> /\ Meter(c).left = c.total
  BY <1>1, <1>2 DEF Meter, Meters
<1> QED
  BY <1>1, <1>2, <1>3, InlinedSteps DEF MeterFits

\* One reference more: no part, or one with its id, and an inlined one is paid for.
LEMMA RefPartIs ==
  ASSUME NEW c, NEW s \in Meters, NEW ref \in Reference, NEW stored \in BOOLEAN
  PROVE  \/ RefPart(c, s, ref, stored) \in Meters /\ ~RefPart(c, s, ref, stored).ok
         \/ \E form \in Forms, left \in Int :
              /\ s.ok
              /\ RefPart(c, s, ref, stored) =
                   [ok |-> s.ok, left |-> left, parts |-> Append(s.parts, Part(form, ref))]
              /\ c.mode = "auto" =>
                   \/ form # "inline" /\ left = s.left
                   \/ form = "inline" /\ left = s.left - ref.bytes /\ ref.bytes <= s.left
<1>1. /\ s = [ok |-> s.ok, left |-> s.left, parts |-> s.parts]
      /\ s.left \in Int /\ s.ok \in BOOLEAN /\ s.parts \in Seq(Parts)
  BY DEF Meters
<1>2. ref.bytes \in Nat
  BY DEF Reference
<1>3. CASE ~s.ok
  <2>1. RefPart(c, s, ref, stored) = s
    BY <1>3 DEF RefPart
  <2> QED
    BY <1>3, <2>1
<1>4. ASSUME NEW form
      PROVE  Add(s, form, ref)
               = [ok |-> s.ok, left |-> s.left, parts |-> Append(s.parts, Part(form, ref))]
  <2>1. PICK w : w = Append(s.parts, Part(form, ref))
    OBVIOUS
  <2>2. [s EXCEPT !.parts = w] = [ok |-> s.ok, left |-> s.left, parts |-> w]
    BY <1>1
  <2> QED
    BY <2>1, <2>2 DEF Add
<1>5. CASE s.ok /\ ref.kind = "url" /\ ~NeedsFetch(c, ref)
  <2>1. RefPart(c, s, ref, stored) = Add(s, "link", ref)
    BY <1>5 DEF RefPart
  <2>2. PICK form \in Forms : form = "link"
    BY DEF Forms
  <2>3. RefPart(c, s, ref, stored)
          = [ok |-> s.ok, left |-> s.left, parts |-> Append(s.parts, Part(form, ref))]
    BY <1>4, <2>1, <2>2
  <2>4. form # "inline"
    BY <2>2
  <2> QED
    BY <1>1, <1>5, <2>3, <2>4
<1>6. CASE s.ok /\ (ref.kind # "url" \/ NeedsFetch(c, ref))
  <2>1. RefPart(c, s, ref, stored) =
          IF c.mode = "url" \/ (c.mode = "auto" /\ OverCap(s, ref))
          THEN Hosted(s, ref, stored) ELSE Inlined(c, s, ref)
    BY <1>6 DEF RefPart
  <2>2. CASE c.mode = "url" \/ (c.mode = "auto" /\ OverCap(s, ref))
    <3>1. RefPart(c, s, ref, stored) = Hosted(s, ref, stored)
      BY <2>1, <2>2
    <3>2. CASE stored
      <4>1. PICK form \in Forms : form = "ours"
        BY DEF Forms
      <4>2. RefPart(c, s, ref, stored)
              = [ok |-> s.ok, left |-> s.left, parts |-> Append(s.parts, Part(form, ref))]
        BY <1>4, <3>1, <3>2, <4>1 DEF Hosted
      <4>3. form # "inline"
        BY <4>1
      <4> QED
        BY <1>1, <1>6, <4>2, <4>3
    <3>3. CASE ~stored
      <4>1. RefPart(c, s, ref, stored) = [s EXCEPT !.ok = FALSE]
        BY <3>1, <3>3 DEF Hosted
      <4>2. [s EXCEPT !.ok = FALSE] \in Meters
        BY DEF Meters
      <4>3. ~[s EXCEPT !.ok = FALSE].ok
        BY DEF Meters
      <4> QED
        BY <4>1, <4>2, <4>3
    <3> QED
      BY <3>2, <3>3
  <2>3. CASE ~(c.mode = "url" \/ (c.mode = "auto" /\ OverCap(s, ref)))
    <3>1. RefPart(c, s, ref, stored) = Inlined(c, s, ref)
      BY <2>1, <2>3
    <3>2. PICK left : left = IF c.mode = "auto" THEN s.left - ref.bytes ELSE s.left
      OBVIOUS
    <3>3. PICK form \in Forms : form = "inline"
      BY DEF Forms
    <3>4. PICK w : w = Append(s.parts, Part(form, ref))
      OBVIOUS
    <3>5. Inlined(c, s, ref) = [ok |-> s.ok, left |-> left, parts |-> w]
      <4>1. Add(s, "inline", ref) = [ok |-> s.ok, left |-> s.left, parts |-> w]
        BY <1>4, <3>3, <3>4
      <4>2. [[ok |-> s.ok, left |-> s.left, parts |-> w] EXCEPT !.left =
               IF c.mode = "auto" THEN @ - ref.bytes ELSE @]
              = [ok |-> s.ok, left |-> left, parts |-> w]
        BY <3>2
      <4> QED
        BY <4>1, <4>2 DEF Inlined
    <3>6. left \in Int
      BY <1>1, <1>2, <3>2
    <3>7. c.mode = "auto" => left = s.left - ref.bytes /\ ref.bytes <= s.left
      BY <1>1, <1>2, <2>3, <3>2 DEF OverCap
    <3>8. RefPart(c, s, ref, stored)
            = [ok |-> s.ok, left |-> left, parts |-> Append(s.parts, Part(form, ref))]
      BY <3>1, <3>4, <3>5
    <3> QED
      BY <1>6, <3>3, <3>6, <3>7, <3>8
  <2> QED
    BY <2>2, <2>3
<1> QED
  BY <1>3, <1>5, <1>6

LEMMA MeterStep ==
  ASSUME NEW c \in Channels, NEW refs \in Seq(Reference), NEW stored \in BOOLEAN,
         NEW m \in 0..(Len(refs) - 1), NEW s, MeterFits(c, refs, s, m)
  PROVE  MeterFits(c, refs, RefPart(c, s, refs[m + 1], stored), m + 1)
<1>1. PICK ref \in Reference : ref = refs[m + 1]
  BY LenProperties, ElementOfSeq
<1>2. s \in Meters /\ s.left \in Int /\ s.parts \in Seq(Parts) /\ Len(s.parts) \in Nat /\ m \in Nat
  BY LenProperties DEF MeterFits, Meters
<1>3. PICK r : r = RefPart(c, s, ref, stored)
  OBVIOUS
<1>4. CASE r \in Meters /\ ~r.ok
  BY <1>1, <1>3, <1>4 DEF MeterFits
<1>5. CASE ~(r \in Meters /\ ~r.ok)
  <2>11. \/ RefPart(c, s, ref, stored) \in Meters /\ ~RefPart(c, s, ref, stored).ok
         \/ \E form \in Forms, left \in Int :
              /\ s.ok
              /\ RefPart(c, s, ref, stored) =
                   [ok |-> s.ok, left |-> left, parts |-> Append(s.parts, Part(form, ref))]
              /\ c.mode = "auto" =>
                   \/ form # "inline" /\ left = s.left
                   \/ form = "inline" /\ left = s.left - ref.bytes /\ ref.bytes <= s.left
    BY <1>2, RefPartIs, Zenon
  <2>0. \/ r \in Meters /\ ~r.ok
        \/ \E form \in Forms, left \in Int :
             /\ s.ok
             /\ r = [ok |-> s.ok, left |-> left, parts |-> Append(s.parts, Part(form, ref))]
             /\ c.mode = "auto" =>
                  \/ form # "inline" /\ left = s.left
                  \/ form = "inline" /\ left = s.left - ref.bytes /\ ref.bytes <= s.left
    BY <1>3, <2>11, Zenon
  <2>1. PICK form \in Forms, left \in Int :
          /\ s.ok
          /\ r = [ok |-> s.ok, left |-> left, parts |-> Append(s.parts, Part(form, ref))]
          /\ c.mode = "auto" =>
               \/ form # "inline" /\ left = s.left
               \/ form = "inline" /\ left = s.left - ref.bytes /\ ref.bytes <= s.left
    BY <1>5, <2>0
  <2>2. PICK e \in Parts :
          e = Part(form, ref) /\ e.id = ref.id /\ e.form = form /\ e.bytes = ref.bytes
    <3>1. ref.id \in STRING /\ ref.bytes \in Nat
      BY DEF Reference
    <3>2. /\ Part(form, ref) \in Parts /\ Part(form, ref).id = ref.id
          /\ Part(form, ref).form = form /\ Part(form, ref).bytes = ref.bytes
      BY <3>1 DEF Part, Parts
    <3> QED
      BY <3>2
  <2>3. PICK t \in Seq(Parts) : t = Append(s.parts, e)
    BY <1>2, AppendProperties
  <2>4. /\ Len(t) = Len(s.parts) + 1 /\ t[Len(s.parts) + 1] = e
        /\ \A i \in 1..Len(s.parts) : t[i] = s.parts[i]
    BY <1>2, <2>3, AppendProperties
  <2>5. r = [ok |-> s.ok, left |-> left, parts |-> t]
    BY <2>1, <2>2, <2>3
  <2>6. r \in Meters /\ r.parts = t /\ r.left = left
    BY <1>2, <2>5 DEF Meters
  <2>7. Len(t) = m + 1
    BY <2>1, <2>4 DEF MeterFits
  <2>8. \A i \in 1..(m + 1) : t[i].id = refs[i].id
    <3>1. Len(s.parts) = m /\ \A i \in 1..m : s.parts[i].id = refs[i].id
      BY <2>1 DEF MeterFits
    <3>2. ASSUME NEW i \in 1..(m + 1) PROVE t[i].id = refs[i].id
      <4>1. CASE i = m + 1
        BY <1>1, <2>2, <2>4, <3>1, <4>1
      <4>2. CASE i \in 1..m
        BY <2>4, <3>1, <4>2
      <4> QED
        BY <1>2, <4>1, <4>2
    <3> QED
      BY <3>2
  <2>9. ASSUME c.mode = "auto" PROVE left >= 0 /\ InlinedBytes(t) + left = c.total
    <3>1. s.left >= 0 /\ InlinedBytes(s.parts) + s.left = c.total
      BY <2>1, <2>9 DEF MeterFits
    <3>2. PICK a \in Nat : a = InlinedBytes(s.parts)
      BY <1>2, <2>2, InlinedSteps
    <3>3. InlinedBytes(t) = a + Inline(e)
      BY <1>2, <2>3, <3>2, InlinedSteps
    <3>4. PICK b \in Nat, w \in Int : b = ref.bytes /\ w = s.left
      BY <1>2 DEF Reference
    <3>5. w >= 0 /\ a + w = c.total
      BY <3>1, <3>2, <3>4
    <3>6. CASE form # "inline" /\ left = w
      <4>1. Inline(e) = 0
        BY <2>2, <3>6 DEF Inline
      <4> QED
        BY <3>3, <3>5, <3>6, <4>1
    <3>7. CASE form = "inline" /\ left = w - b /\ b <= w
      <4>1. Inline(e) = b
        BY <2>2, <3>4, <3>7 DEF Inline
      <4>2. (a + b) + (w - b) = a + w /\ w - b >= 0
        BY <3>7
      <4> QED
        BY <3>3, <3>5, <3>7, <4>1, <4>2
    <3> QED
      BY <2>1, <2>9, <3>4, <3>6, <3>7
  <2>10. MeterFits(c, refs, r, m + 1)
    BY <2>6, <2>7, <2>8, <2>9 DEF MeterFits
  <2> QED
    BY <1>1, <1>3, <2>10
<1> QED
  BY <1>4, <1>5

\* h is the meter's reading after each reference.
Meterings(c, refs, stored, h, m) ==
  h[0] = Meter(c) /\ \A i \in 1..m : h[i] = RefPart(c, h[i - 1], refs[i], stored)

\* There are such readings, and they fit.
LEMMA MeteringsExist ==
  ASSUME NEW c \in Channels, NEW refs \in Seq(Reference), NEW stored \in BOOLEAN
  PROVE  \E h \in [0..Len(refs) -> Meters] :
            Meterings(c, refs, stored, h, Len(refs)) /\ MeterFits(c, refs, h[Len(refs)], Len(refs))
<1> DEFINE T == {m \in 0..Len(refs) : \E h \in [0..m -> Meters] :
                   Meterings(c, refs, stored, h, m) /\ MeterFits(c, refs, h[m], m)}
<1>0. Len(refs) \in Nat
  BY LenProperties
<1>1. 0 \in T
  <2>1. MeterFits(c, refs, Meter(c), 0) /\ Meter(c) \in Meters
    BY MeterStart DEF MeterFits
  <2>2. PICK h : h = [i \in 0..0 |-> Meter(c)]
    OBVIOUS
  <2>3. h \in [0..0 -> Meters] /\ h[0] = Meter(c)
    BY <2>1, <2>2
  <2>4. Meterings(c, refs, stored, h, 0) /\ MeterFits(c, refs, h[0], 0)
    BY <2>1, <2>3 DEF Meterings
  <2> QED
    BY <1>0, <2>3, <2>4
<1>2. ASSUME NEW m \in 0..(Len(refs) - 1), m \in T PROVE m + 1 \in T
  <2>1. PICK h \in [0..m -> Meters] :
          Meterings(c, refs, stored, h, m) /\ MeterFits(c, refs, h[m], m)
    BY <1>2
  <2>2. m \in Nat /\ m + 1 \in 1..Len(refs) /\ m + 1 \in 0..Len(refs)
    BY <1>0
  <2>3. PICK v : v = RefPart(c, h[m], refs[m + 1], stored)
    OBVIOUS
  <2>4. MeterFits(c, refs, v, m + 1) /\ v \in Meters
    BY <2>1, <2>3, MeterStep DEF MeterFits
  <2>5. PICK g : g = [i \in 0..(m + 1) |-> IF i = m + 1 THEN v ELSE h[i]]
    OBVIOUS
  <2>6. g \in [0..(m + 1) -> Meters]
    BY <2>2, <2>4, <2>5
  <2>7. /\ g[0] = h[0] /\ g[m] = h[m] /\ g[m + 1] = v
        /\ \A i \in 1..m : g[i] = h[i] /\ g[i - 1] = h[i - 1]
    BY <2>2, <2>5
  <2>8. ASSUME NEW i \in 1..(m + 1) PROVE g[i] = RefPart(c, g[i - 1], refs[i], stored)
    <3>1. CASE i = m + 1
      BY <2>2, <2>3, <2>7, <3>1
    <3>2. CASE i \in 1..m
      BY <2>1, <2>7, <3>2 DEF Meterings
    <3> QED
      BY <2>2, <3>1, <3>2
  <2>9. Meterings(c, refs, stored, g, m + 1)
    BY <2>1, <2>7, <2>8 DEF Meterings
  <2> QED
    BY <2>2, <2>4, <2>6, <2>7, <2>9
<1>3. Len(refs) \in T
  <2> HIDE DEF T
  <2>1. \A m \in 0..Len(refs) : m \in T
    BY <1>0, <1>1, <1>2, Steps
  <2> QED
    BY <1>0, <2>1
<1> QED
  BY <1>3

\* Metered is the last of them.
LEMMA MeteredFits ==
  ASSUME NEW c \in Channels, NEW refs \in Seq(Reference), NEW stored \in BOOLEAN
  PROVE  MeterFits(c, refs, Metered(c, refs, stored), Len(refs))
<1>0. Len(refs) \in Nat
  BY LenProperties
<1>1. PICK h \in [0..Len(refs) -> Meters] :
        Meterings(c, refs, stored, h, Len(refs)) /\ MeterFits(c, refs, h[Len(refs)], Len(refs))
  BY MeteringsExist
<1> DEFINE upTo[n \in 0..Len(refs)] ==
             IF n = 0 THEN Meter(c) ELSE RefPart(c, upTo[n - 1], refs[n], stored)
<1>2. h = [n \in 0..Len(refs) |->
             IF n = 0 THEN Meter(c) ELSE RefPart(c, h[n - 1], refs[n], stored)]
  <2> HIDE DEF upTo
  <2>1. ASSUME NEW n \in 0..Len(refs)
        PROVE  h[n] = IF n = 0 THEN Meter(c) ELSE RefPart(c, h[n - 1], refs[n], stored)
    <3>1. CASE n = 0
      BY <1>1, <3>1 DEF Meterings
    <3>2. CASE n \in 1..Len(refs)
      BY <1>0, <1>1, <3>2 DEF Meterings
    <3> QED
      BY <1>0, <3>1, <3>2
  <2>2. h = [n \in 0..Len(refs) |-> h[n]]
    BY <1>1
  <2> QED
    BY <2>1, <2>2
<1>3. upTo = [n \in 0..Len(refs) |->
                IF n = 0 THEN Meter(c) ELSE RefPart(c, upTo[n - 1], refs[n], stored)]
  BY <1>2
<1>4. Metered(c, refs, stored) = upTo[Len(refs)]
  BY DEF Metered
<1> HIDE DEF upTo
<1>5. \A n \in 0..Len(refs) :
        upTo[n] = IF n = 0 THEN Meter(c) ELSE RefPart(c, upTo[n - 1], refs[n], stored)
  BY <1>3
<1> DEFINE T == {m \in 0..Len(refs) : upTo[m] = h[m]}
<1>6. 0 \in T
  BY <1>0, <1>1, <1>5 DEF Meterings
<1>7. ASSUME NEW m \in 0..(Len(refs) - 1), m \in T PROVE m + 1 \in T
  <2>1. /\ m \in Nat /\ m + 1 \in 1..Len(refs) /\ m + 1 \in 0..Len(refs) /\ m + 1 # 0
        /\ (m + 1) - 1 = m
    BY <1>0
  <2>2. upTo[m] = h[m]
    BY <1>7
  <2>3. h[m + 1] = RefPart(c, h[(m + 1) - 1], refs[m + 1], stored)
    BY <1>1, <2>1 DEF Meterings
  <2>4. upTo[m + 1] = RefPart(c, upTo[(m + 1) - 1], refs[m + 1], stored)
    BY <1>5, <2>1
  <2> QED
    BY <2>1, <2>2, <2>3, <2>4
<1>8. Len(refs) \in T
  <2> HIDE DEF T
  <2>1. \A m \in 0..Len(refs) : m \in T
    BY <1>0, <1>6, <1>7, Steps
  <2> QED
    BY <1>0, <2>1
<1> QED
  BY <1>1, <1>4, <1>8

-----------------------------------------------------------------------------
(* What the vendor is called with.                                          *)

\* A call with this wire does for this body what a loop over its references would.
LikeALoop(c, b, error, wire) ==
  /\ Ids(wire.parts) = Ids(InputRefs(c, b))
  /\ c.script = "openai" /\ wire.parts # <<>> => Ids(wire.mask) = Ids(b.mask)
  /\ c.script = "google" /\ c.mode = "auto" => InlinedBytes(wire.parts) <= c.total
  /\ c.script = "volcengine_ark" /\ error = "fetch" =>
       \A i \in DOMAIN wire.parts : wire.parts[i].form \notin {"link", "ours", "bare"}

\* Whatever becomes of the references, their parts keep their ids.
LEMMA IdsOfParts ==
  ASSUME NEW forms, NEW refs
  PROVE  /\ Ids(PartsOf(forms, refs)) = Ids(refs)
         /\ DOMAIN PartsOf(forms, refs) = DOMAIN refs
         /\ \A i \in DOMAIN refs : PartsOf(forms, refs)[i].form = forms[i]
BY DEF Ids, PartsOf, Part

LEMMA BodyParts ==
  ASSUME NEW b \in CanonicalBodies
  PROVE  /\ b.image \in Seq(Reference) /\ b.mask \in Seq(Reference)
         /\ Len(b.image) \in Nat /\ DOMAIN b.image = 1..Len(b.image)
         /\ \A i \in 1..Len(b.image) : b.image[i] \in Reference
<1>1. b.image \in Seq(Reference) /\ b.mask \in Seq(Reference)
  BY DEF CanonicalBodies
<1> QED
  BY <1>1, LenProperties, ElementOfSeq

\* An ark call that is repeated because ark could not fetch something inlines it all.
LEMMA ArkInlines ==
  ASSUME NEW c, NEW ref, NEW form \in ArkForms(c, ref, TRUE)
  PROVE  form \in {"inline", Failed}
<1>1. ArkMode(c, TRUE) = "data_uri"
  BY DEF ArkMode
<1>2. Unpressed(ref, "data_uri") = ImageDataUri(ref) /\ Shape("data_uri") = {"inline"}
  BY DEF Unpressed, Shape
<1>3. CASE c.policy = NoPolicy
  <2>1. ArkForms(c, ref, TRUE) = Unpressed(ref, "data_uri")
    BY <1>1, <1>3 DEF ArkForms
  <2> QED
    BY <1>2, <2>1 DEF ImageDataUri
<1>4. CASE c.policy # NoPolicy
  <2>1. ArkForms(c, ref, TRUE)
          = UNION {IF bytes = Failed THEN {Failed} ELSE {"inline"} :
                     bytes \in CompressedOrKept(c.policy)}
    BY <1>1, <1>2, <1>4 DEF ArkForms
  <2>2. PICK S : S \in {IF bytes = Failed THEN {Failed} ELSE {"inline"} :
                         bytes \in CompressedOrKept(c.policy)} /\ form \in S
    BY <2>1
  <2> QED
    BY <2>2
<1> QED
  BY <1>3, <1>4

LEMMA WireServes ==
  ASSUME NEW c \in Channels, NEW b \in CanonicalBodies, NEW error, NEW jobs,
         NEW stored \in BOOLEAN,
         c.mode = "first" => c.script = "qwen", ~RefusedOnceParked(c, b),
         c.script = "volcengine_ark" => \A i \in DOMAIN b.image :
           jobs[i] # Failed /\ jobs[i] \in ArkForms(c, b.image[i], error = "fetch"),
         Wire(c, b, jobs, stored).ok
  PROVE  LikeALoop(c, b, error, Wire(c, b, jobs, stored))
<1> DEFINE wire == Wire(c, b, jobs, stored)
<1>1. c.script \in Scripts
  BY DEF Channels
<1>2. c.script # "qwen" => InputRefs(c, b) = b.image
  BY DEF InputRefs
<1>3. CASE c.script = "google"
  <2>1. PICK s : s = Metered(c, b.image, stored)
    OBVIOUS
  <2>2. wire = [ok |-> s.ok, parts |-> s.parts, mask |-> <<>>]
    BY <1>3, <2>1 DEF Wire, GoogleWire
  <2>3. MeterFits(c, b.image, s, Len(b.image)) /\ s.ok
    <3>1. MeterFits(c, b.image, Metered(c, b.image, stored), Len(b.image))
      BY BodyParts, MeteredFits
    <3>2. wire.ok = [ok |-> s.ok, parts |-> s.parts, mask |-> <<>>].ok
      BY <2>2
    <3>3. [ok |-> s.ok, parts |-> s.parts, mask |-> <<>>].ok = s.ok
      BY Zenon
    <3>4. wire.ok
      OBVIOUS
    <3> QED
      BY <2>1, <3>1, <3>2, <3>3, <3>4, Zenon
  <2>4. s.parts \in Seq(Parts) /\ Len(s.parts) = Len(b.image) /\ s.left \in Int
        /\ \A i \in 1..Len(b.image) : s.parts[i].id = b.image[i].id
    BY <2>3 DEF MeterFits, Meters
  <2>5. DOMAIN s.parts = DOMAIN b.image /\ DOMAIN b.image = 1..Len(b.image)
    BY <2>4, BodyParts, LenProperties
  <2>6. Ids(s.parts) = Ids(b.image)
    BY <2>4, <2>5 DEF Ids
  <2>7. ASSUME c.mode = "auto" PROVE InlinedBytes(s.parts) <= c.total
    <3>1. s.left >= 0 /\ InlinedBytes(s.parts) + s.left = c.total
      BY <2>3, <2>7 DEF MeterFits
    <3>2. PICK n \in Nat : n = InlinedBytes(s.parts)
      BY <2>4, InlinedNat
    <3> QED
      BY <2>4, <3>1, <3>2
  <2>8. wire.parts = s.parts
    BY <2>2
  <2> QED
    BY <1>2, <1>3, <2>6, <2>7, <2>8 DEF LikeALoop
<1>4. CASE c.script = "tencent_ci"
  <2>1. Len(b.image) = 1
    BY <1>4 DEF RefusedOnceParked, CiRefuses
  <2>2. PICK ref : ref = b.image[1]
    OBVIOUS
  <2>3. Head(b.image) = ref
    BY <2>1, <2>2, BodyParts
  <2>4. wire = ImageToCI(b, Head(jobs), stored)
    BY <1>4 DEF Wire
  <2>5. PICK form : wire = Sent(<<Part(form, ref)>>)
    <3>1. ~Unsendable.ok
      BY DEF Unsendable
    <3> QED
      BY <2>3, <2>4, <3>1 DEF ImageToCI
  <2>6. wire.parts = <<Part(form, ref)>>
    BY <2>5 DEF Sent
  <2>7. Ids(<<Part(form, ref)>>) = [i \in 1..1 |-> ref.id]
    BY DEF Ids, Part
  <2>8. Ids(b.image) = [i \in 1..1 |-> ref.id]
    BY <2>1, <2>2, BodyParts DEF Ids
  <2> QED
    BY <1>2, <1>4, <2>6, <2>7, <2>8 DEF LikeALoop
<1>5. CASE c.script = "openai"
  <2>1. CASE b.image = <<>>
    <3>1. wire.parts = <<>>
      BY <1>5, <2>1 DEF Wire, OpenaiWire, Sent
    <3> QED
      BY <1>2, <1>5, <2>1, <3>1 DEF LikeALoop
  <2>2. CASE b.image # <<>>
    <3>1. wire = Split(b, jobs)
      BY <1>5, <2>2 DEF Wire, OpenaiWire
    <3>2. PICK f, g : wire.parts = PartsOf(f, b.image) /\ wire.mask = PartsOf(g, b.mask)
      BY <3>1 DEF Split
    <3>3. Ids(wire.parts) = Ids(b.image) /\ Ids(wire.mask) = Ids(b.mask)
      BY <3>2, IdsOfParts
    <3> QED
      BY <1>2, <1>5, <3>3 DEF LikeALoop
  <2> QED
    BY <2>1, <2>2
<1>6. CASE c.script = "volcengine_ark"
  <2>1. wire.parts = PartsOf(jobs, b.image)
    BY <1>6 DEF Wire, ArkWire, Sent
  <2>2. /\ Ids(PartsOf(jobs, b.image)) = Ids(b.image)
        /\ DOMAIN PartsOf(jobs, b.image) = DOMAIN b.image
        /\ \A i \in DOMAIN b.image : PartsOf(jobs, b.image)[i].form = jobs[i]
    BY IdsOfParts
  <2>3. ASSUME error = "fetch", NEW i \in DOMAIN b.image
        PROVE  jobs[i] \notin {"link", "ours", "bare"}
    <3>1. (error = "fetch") = TRUE
      BY <2>3
    <3>2. jobs[i] # Failed /\ jobs[i] \in ArkForms(c, b.image[i], TRUE)
      BY <1>6, <2>3, <3>1
    <3>3. jobs[i] = "inline"
      BY <3>2, ArkInlines
    <3> QED
      BY <3>3
  <2> QED
    BY <1>2, <1>6, <2>1, <2>2, <2>3 DEF LikeALoop
<1>7. CASE c.script = "tencent_hunyuan"
  <2>1. wire.parts = PartsOf(jobs, b.image)
    BY <1>7 DEF Wire, HunyuanWire, Sent
  <2> QED
    BY <1>2, <1>7, <2>1, IdsOfParts DEF LikeALoop
<1>8. CASE c.script = "qwen"
  <2>1. wire.parts = PartsOf(jobs, InputRefs(c, b))
    BY <1>8 DEF Wire, QwenWire, Sent
  <2> QED
    BY <1>8, <2>1, IdsOfParts DEF LikeALoop
<1>9. CASE c.script \in {"fal", "senseaudio"}
  <2>1. wire.parts = [i \in DOMAIN b.image |-> Part(OwnForm(b.image[i]), b.image[i])]
    BY <1>9 DEF Wire, Untouched, Sent
  <2>2. Ids(wire.parts) = Ids(b.image)
    BY <2>1 DEF Ids, Part
  <2> QED
    BY <1>2, <1>9, <2>2 DEF LikeALoop
<1> QED
  BY <1>1, <1>3, <1>4, <1>5, <1>6, <1>7, <1>8, <1>9 DEF Scripts

\* What a slot holds: a body that its script accepted, of ark the jobs that go with its
\* references, and once the call is made, the right call.
Serves(c, q) ==
  /\ q.at \in {"reading", "called"} =>
       q.body \in CanonicalBodies /\ ~RefusedOnceParked(c, q.body)
  /\ q.at = "reading" /\ c.script = "volcengine_ark" =>
       /\ DOMAIN q.jobs = DOMAIN q.body.image
       /\ \A i \in DOMAIN q.jobs :
            q.jobs[i] = Waiting \/ q.jobs[i] \in ArkForms(c, q.body.image[i], q.error = "fetch")
  /\ q.at = "called" => LikeALoop(c, q.body, q.error, q.wire)

ServedInv ==
  /\ ExchangeInv
  /\ channel \in Channel
  /\ \A s \in Slots : Serves(channel, slot[s])

\* It is enough to look at the slot that a step changes.
LEMMA SlotServes ==
  ASSUME NEW s \in Slots, NEW q, ServedInv, ExchangeInv', channel' = channel, Become(s, q),
         Serves(channel, q)
  PROVE  ServedInv'
<1>1. DOMAIN slot = Slots
  BY DEF ServedInv, ExchangeInv
<1>2. ASSUME NEW t \in Slots PROVE Serves(channel', slot'[t])
  <2>1. slot'[t] = IF t = s THEN q ELSE slot[t]
    BY <1>1 DEF Become
  <2> QED
    BY <2>1 DEF ServedInv
<1>3. channel' \in Channel
  BY DEF ServedInv
<1> QED
  BY <1>2, <1>3 DEF ServedInv

\* Outside the request phase and its call there is nothing to keep.
LEMMA IdleServes ==
  ASSUME NEW s \in Slots, NEW q, ServedInv, ExchangeInv', channel' = channel, Become(s, q),
         q.at \notin {"reading", "called"}
  PROVE  ServedInv'
<1>1. Serves(channel, q)
  BY DEF Serves
<1> QED
  BY <1>1, SlotServes

LEMMA FailServes ==
  ASSUME NEW s \in Slots, ServedInv, ExchangeInv', channel' = channel, Fails(s)
  PROVE  ServedInv'
<1>1. PICK q : q = [Free EXCEPT !.at = "failed"]
  OBVIOUS
<1>2. q.at = "failed"
  BY <1>1 DEF Free
<1>3. Become(s, q)
  BY <1>1 DEF Fails
<1> QED
  BY <1>2, <1>3, IdleServes

LEMMA RequestHeadServes ==
  ASSUME NEW s \in Slots, NEW x, ServedInv, ExchangeInv', channel' = channel,
         RequestHead(s, x), x.body \in CanonicalBodies,
         x = [at |-> x.at, rid |-> x.rid, body |-> x.body, error |-> x.error, jobs |-> x.jobs,
              wire |-> x.wire, want |-> x.want, items |-> x.items, blame |-> x.blame]
  PROVE  ServedInv'
<1>1. CASE Fails(s)
  BY <1>1, FailServes
<1>2. CASE ~Fails(s)
  <2>1. PICK jobs : jobs = Fan(Fetched(channel, x.body))
    OBVIOUS
  <2>2. PICK q : q = [x EXCEPT !.at = "reading", !.jobs = jobs]
    OBVIOUS
  <2>3. Become(s, q) /\ ~RefusedOnceParked(channel, x.body)
    BY <1>2, <2>1, <2>2 DEF RequestHead
  <2>4. /\ q.at = "reading" /\ q.jobs = jobs /\ q.body = x.body /\ q.error = x.error
    <3>1. q = [at |-> "reading", rid |-> x.rid, body |-> x.body, error |-> x.error, jobs |-> jobs,
               wire |-> x.wire, want |-> x.want, items |-> x.items, blame |-> x.blame]
      BY <2>2
    <3> QED
      BY <3>1
  <2>5. ASSUME channel.script = "volcengine_ark"
        PROVE  DOMAIN jobs = DOMAIN x.body.image /\ \A i \in DOMAIN jobs : jobs[i] = Waiting
    <3>1. Fetched(channel, x.body) = x.body.image
      BY <2>5 DEF Fetched
    <3>2. jobs = [i \in 1..Len(x.body.image) |-> Waiting]
      BY <2>1, <3>1 DEF Fan
    <3> QED
      BY <3>2, BodyParts
  <2>6. Serves(channel, q)
    BY <2>3, <2>4, <2>5 DEF Serves
  <2> QED
    BY <2>3, <2>6, SlotServes
<1> QED
  BY <1>1, <1>2

LEMMA BeginServes ==
  ASSUME NEW s \in Slots, ServedInv, ExchangeInv', Begin(s)
  PROVE  ServedInv'
<1>1. PICK b, r, x :
        /\ b \in Bodies[channel.script]
        /\ x = [Free EXCEPT !.rid = r, !.body = b] /\ RequestHead(s, x)
  BY DEF Begin
<1>2. x = [at |-> Free.at, rid |-> r, body |-> b, error |-> Free.error, jobs |-> Free.jobs,
           wire |-> Free.wire, want |-> Free.want, items |-> Free.items, blame |-> Free.blame]
  BY <1>1 DEF Free
<1>3. x = [at |-> x.at, rid |-> x.rid, body |-> x.body, error |-> x.error, jobs |-> x.jobs,
           wire |-> x.wire, want |-> x.want, items |-> x.items, blame |-> x.blame] /\ x.body = b
  BY <1>2
<1>4. b \in CanonicalBodies
  <2>1. channel.script \in Scripts
    BY DEF ServedInv, ExchangeInv, Channels
  <2> QED
    BY <1>1, <2>1, ExchangeAssumption
<1>5. channel' = channel
  BY DEF Begin
<1> QED
  BY <1>1, <1>3, <1>4, <1>5, RequestHeadServes

LEMMA CallRefusedServes ==
  ASSUME NEW s \in Slots, ServedInv, ExchangeInv', CallRefused(s)
  PROVE  ServedInv'
<1>0. PICK z : z = slot[s]
  OBVIOUS
<1>1. PICK error, x : x = [z EXCEPT !.error = error] /\ RequestHead(s, x)
  BY <1>0 DEF CallRefused
<1>2. z.at = "called" /\ channel' = channel
  BY <1>0 DEF CallRefused
<1>3. z = [at |-> z.at, rid |-> z.rid, body |-> z.body, error |-> z.error, jobs |-> z.jobs,
           wire |-> z.wire, want |-> z.want, items |-> z.items, blame |-> z.blame]
  BY <1>0, LiveTyped DEF ServedInv
<1>4. x = [at |-> z.at, rid |-> z.rid, body |-> z.body, error |-> error, jobs |-> z.jobs,
           wire |-> z.wire, want |-> z.want, items |-> z.items, blame |-> z.blame]
  BY <1>1, <1>3
<1>5. x = [at |-> x.at, rid |-> x.rid, body |-> x.body, error |-> x.error, jobs |-> x.jobs,
           wire |-> x.wire, want |-> x.want, items |-> x.items, blame |-> x.blame]
      /\ x.body = z.body
  BY <1>4
<1>6. z.body \in CanonicalBodies
  BY <1>0, <1>2 DEF ServedInv, Serves
<1> QED
  BY <1>1, <1>2, <1>5, <1>6, RequestHeadServes

LEMMA JobEndsServes ==
  ASSUME NEW s \in Slots, ServedInv, ExchangeInv', JobEnds(s)
  PROVE  ServedInv'
<1>0. PICK x : x = slot[s]
  OBVIOUS
<1>1. PICK i, out, q :
        /\ i \in DOMAIN x.jobs
        /\ x.at = "reading" =>
             out \in RefOutcomes(channel, Fetched(channel, x.body)[i], x.error = "fetch")
        /\ q = [x EXCEPT !.jobs[i] = out] /\ Become(s, q)
  BY <1>0 DEF JobEnds
<1>2. channel' = channel /\ x.at \in {"reading", "shaping"} /\ Serves(channel, x)
  BY <1>0 DEF JobEnds, ServedInv
<1>3. PICK jobs : jobs = [x.jobs EXCEPT ![i] = out]
  OBVIOUS
<1>4. q.at = x.at /\ q.jobs = jobs /\ q.body = x.body /\ q.error = x.error
  <2>1. x = [at |-> x.at, rid |-> x.rid, body |-> x.body, error |-> x.error, jobs |-> x.jobs,
             wire |-> x.wire, want |-> x.want, items |-> x.items, blame |-> x.blame]
    BY <1>0, LiveTyped DEF ServedInv
  <2>2. q = [at |-> x.at, rid |-> x.rid, body |-> x.body, error |-> x.error, jobs |-> jobs,
             wire |-> x.wire, want |-> x.want, items |-> x.items, blame |-> x.blame]
    BY <1>1, <1>3, <2>1
  <2> QED
    BY <2>2
<1>5. /\ DOMAIN jobs = DOMAIN x.jobs
      /\ \A j \in DOMAIN jobs : jobs[j] = IF j = i THEN out ELSE x.jobs[j]
  BY <1>3
<1>6. ASSUME x.at = "reading", channel.script = "volcengine_ark"
      PROVE  \A j \in DOMAIN jobs :
               jobs[j] = Waiting \/ jobs[j] \in ArkForms(channel, x.body.image[j], x.error = "fetch")
  <2>1. out \in ArkForms(channel, x.body.image[i], x.error = "fetch")
    BY <1>1, <1>6 DEF RefOutcomes, Fetched
  <2>2. \A j \in DOMAIN x.jobs :
          x.jobs[j] = Waiting \/ x.jobs[j] \in ArkForms(channel, x.body.image[j], x.error = "fetch")
    BY <1>2, <1>6 DEF Serves
  <2> QED
    BY <1>5, <2>1, <2>2
<1>7. Serves(channel, q)
  BY <1>2, <1>4, <1>5, <1>6 DEF Serves
<1> QED
  BY <1>1, <1>2, <1>7, SlotServes

LEMMA CallServes ==
  ASSUME NEW s \in Slots, ServedInv, ExchangeInv', Call(s)
  PROVE  ServedInv'
<1>0. PICK x : x = slot[s]
  OBVIOUS
<1>1. PICK stored, wire :
        /\ stored \in BOOLEAN /\ wire = Wire(channel, x.body, x.jobs, stored)
        /\ Fails(s) \/ (wire.ok /\ Become(s, [x EXCEPT !.at = "called", !.wire = wire, !.jobs = <<>>]))
  BY <1>0 DEF Call
<1>2. /\ channel' = channel /\ x.at = "reading" /\ Serves(channel, x)
      /\ Joined(x.jobs) /\ FailedJobs(x.jobs) = {}
  BY <1>0 DEF Call, ReadAll, ServedInv
<1>3. CASE Fails(s)
  BY <1>2, <1>3, FailServes
<1>4. CASE ~Fails(s)
  <2>1. PICK q : q = [x EXCEPT !.at = "called", !.wire = wire, !.jobs = <<>>]
    OBVIOUS
  <2>2. Become(s, q) /\ wire.ok
    BY <1>1, <1>4, <2>1
  <2>3. q.at = "called" /\ q.body = x.body /\ q.error = x.error /\ q.wire = wire
    <3>1. x = [at |-> x.at, rid |-> x.rid, body |-> x.body, error |-> x.error, jobs |-> x.jobs,
               wire |-> x.wire, want |-> x.want, items |-> x.items, blame |-> x.blame]
      BY <1>0, LiveTyped DEF ServedInv
    <3>2. q = [at |-> "called", rid |-> x.rid, body |-> x.body, error |-> x.error, jobs |-> <<>>,
               wire |-> wire, want |-> x.want, items |-> x.items, blame |-> x.blame]
      BY <2>1, <3>1
    <3> QED
      BY <3>2
  <2>4. \A i \in DOMAIN x.jobs : x.jobs[i] # Waiting /\ x.jobs[i] # Failed
    BY <1>2 DEF Joined, FailedJobs
  <2>5. x.body \in CanonicalBodies /\ ~RefusedOnceParked(channel, x.body)
    BY <1>2 DEF Serves
  <2>6. /\ channel \in Channels
        /\ channel.mode = "first" => channel.script = "qwen"
    BY ExchangeAssumption DEF ServedInv
  <2>7. channel.script = "volcengine_ark" => \A i \in DOMAIN x.body.image :
          /\ x.jobs[i] # Failed
          /\ x.jobs[i] \in ArkForms(channel, x.body.image[i], x.error = "fetch")
    BY <1>2, <2>4 DEF Serves
  <2>8. LikeALoop(channel, x.body, x.error, wire)
    BY <1>1, <2>2, <2>5, <2>6, <2>7, WireServes
  <2>9. Serves(channel, q)
    BY <2>3, <2>5, <2>8 DEF Serves
  <2> QED
    BY <1>2, <2>2, <2>9, SlotServes
<1> QED
  BY <1>3, <1>4

\* The other steps leave the slot in no request phase and in no call.
LEMMA OthersServe ==
  ASSUME NEW s \in Slots, ServedInv, ExchangeInv',
         \/ JobRaises(s) \/ AnswerLocally(s) \/ CallFails(s) \/ PhaseTimesOut(s)
         \/ CallAnswered(s) \/ CallAnsweredEmpty(s) \/ ResponsePhase(s) \/ Answer(s) \/ Leave(s)
  PROVE  ServedInv'
<1>0. PICK x : x = slot[s]
  OBVIOUS
<1>1. x = [at |-> x.at, rid |-> x.rid, body |-> x.body, error |-> x.error, jobs |-> x.jobs,
           wire |-> x.wire, want |-> x.want, items |-> x.items, blame |-> x.blame]
  BY <1>0, LiveTyped DEF ServedInv
<1>2. channel' = channel
  BY DEF JobRaises, AnswerLocally, CallFails, PhaseTimesOut, CallAnswered, CallAnsweredEmpty,
         ResponsePhase, Answer, Leave
<1>3. ASSUME Become(s, Answered(x)) PROVE ServedInv'
  <2>1. Answered(x).at = "answered"
    BY <1>1 DEF Answered
  <2> QED
    BY <1>2, <1>3, <2>1, IdleServes
<1>4. ASSUME JobRaises(s) PROVE ServedInv'
  <2>1. PICK i, q :
          q = [Free EXCEPT !.at = "failed", !.jobs = x.jobs, !.blame = i] /\ Become(s, q)
    BY <1>0, <1>4 DEF JobRaises
  <2>2. q.at = "failed"
    BY <2>1 DEF Free
  <2> QED
    BY <1>2, <2>1, <2>2, IdleServes
<1>5. ASSUME AnswerLocally(s) PROVE ServedInv'
  <2>1. PICK q : /\ q = [x EXCEPT !.at = "replied", !.items = <<"bytes">>,
                                  !.body = Asked(x.body), !.jobs = <<>>]
                 /\ Become(s, q)
    BY <1>0, <1>5 DEF AnswerLocally
  <2>2. q.at = "replied"
    BY <1>1, <2>1
  <2> QED
    BY <1>2, <2>1, <2>2, IdleServes
<1>6. ASSUME Fails(s) PROVE ServedInv'
  BY <1>2, <1>6, FailServes
<1>7. ASSUME CallAnswered(s) PROVE ServedInv'
  <2>1. PICK items, q :
          /\ q = [x EXCEPT !.at = "replied", !.items = items, !.body = Asked(x.body),
                           !.wire = Unsendable, !.error = "none"]
          /\ Become(s, q)
    BY <1>0, <1>7 DEF CallAnswered
  <2>2. q.at = "replied"
    BY <1>1, <2>1
  <2> QED
    BY <1>2, <2>1, <2>2, IdleServes
<1>8. ASSUME CallAnsweredEmpty(s) PROVE ServedInv'
  <2>1. Fails(s) \/ Become(s, Answered(x))
    BY <1>0, <1>8 DEF CallAnsweredEmpty
  <2> QED
    BY <1>3, <1>6, <2>1
<1>9. ASSUME ResponsePhase(s) PROVE ServedInv'
  <2>1. PICK q : /\ q = [x EXCEPT !.at = "shaping", !.want = Found(pocket, x.rid),
                                  !.jobs = Fan(x.items)]
                 /\ Become(s, q)
    BY <1>0, <1>9 DEF ResponsePhase
  <2>2. q.at = "shaping"
    BY <1>1, <2>1
  <2> QED
    BY <1>2, <2>1, <2>2, IdleServes
<1>10. ASSUME Answer(s) PROVE ServedInv'
  BY <1>0, <1>3, <1>10 DEF Answer
<1>11. ASSUME Leave(s) PROVE ServedInv'
  <2>1. Become(s, Free) /\ Free.at = "free"
    BY <1>11 DEF Leave, Free
  <2> QED
    BY <1>2, <2>1, IdleServes
<1> QED
  BY <1>4, <1>5, <1>6, <1>7, <1>8, <1>9, <1>10, <1>11 DEF CallFails, PhaseTimesOut

LEMMA ServedKept ==
  ASSUME ServedInv, [Next]_vars
  PROVE  ServedInv'
<1>0. ExchangeInv'
  BY NextKeeps DEF ServedInv
<1>1. ASSUME NEW s \in Slots, Begin(s) PROVE ServedInv'
  BY <1>0, <1>1, BeginServes
<1>2. ASSUME NEW s \in Slots, JobEnds(s) PROVE ServedInv'
  BY <1>0, <1>2, JobEndsServes
<1>3. ASSUME NEW s \in Slots, Call(s) PROVE ServedInv'
  BY <1>0, <1>3, CallServes
<1>4. ASSUME NEW s \in Slots, CallRefused(s) PROVE ServedInv'
  BY <1>0, <1>4, CallRefusedServes
<1>5. ASSUME NEW s \in Slots,
             \/ JobRaises(s) \/ AnswerLocally(s) \/ CallFails(s) \/ PhaseTimesOut(s)
             \/ CallAnswered(s) \/ CallAnsweredEmpty(s) \/ ResponsePhase(s) \/ Answer(s)
             \/ Leave(s)
      PROVE  ServedInv'
  BY <1>0, <1>5, OthersServe
<1>6. CASE UNCHANGED vars
  BY <1>0, <1>6 DEF vars, ServedInv
<1>7. CASE Finished
  BY <1>6, <1>7 DEF Finished
<1> QED
  BY <1>1, <1>2, <1>3, <1>4, <1>5, <1>6, <1>7 DEF Next

\* Whatever the width of the fan-outs and however requests interleave, a vendor is called
\* with what a loop over the references would have made of them: all of them, in order,
\* google's within its allowance, and nothing for ark to download when it could not.
THEOREM CallsServeLikeALoop == Spec => []ServedLikeALoop
<1>1. Init => ServedInv
  <2> SUFFICES ASSUME Init PROVE ServedInv
    OBVIOUS
  <2>1. \A s \in Slots : slot[s] = Free
    BY DEF Init
  <2>2. Serves(channel, Free)
    BY DEF Serves, Free
  <2> QED
    BY <2>1, <2>2, InitFits DEF Init, ServedInv
<1>2. ServedInv /\ [Next]_vars => ServedInv'
  BY ServedKept
<1>3. ServedInv => ServedLikeALoop
  BY DEF ServedInv, Serves, LikeALoop, ServedLikeALoop
<1> QED
  BY <1>1, <1>2, <1>3, PTL DEF Spec
=============================================================================
