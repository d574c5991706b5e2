------------------------- MODULE SharedState_proofs -------------------------
(***************************************************************************)
(* Proofs about the state that the requests of a worker, or of several     *)
(* workers, share: the cache of scripts and images and the downloads that  *)
(* fill it (Downloads over TTLCache), the identity and token services      *)
(* (QwenServices), and the store of images with its fallback               *)
(* (FallbackStore).  The first two keep sequences, and their theorems      *)
(* rest on inductions over a sequence's positions; `Steps`, right below,   *)
(* is the form of induction that all of them use.                          *)
(***************************************************************************)
EXTENDS FallbackStore, Downloads, QwenServices,
        SequenceTheorems, FiniteSetTheorems, WellFoundedInduction, TLAPS

-----------------------------------------------------------------------------
(* Induction, over sets in place of predicates: the provers cannot take an   *)
(* operator as a parameter, and need none here.                              *)

\* A set of numbers that is not empty has a least one.
LEMMA LeastNumber ==
  ASSUME NEW T \in SUBSET Nat, T # {}
  PROVE  \E x \in T : \A y \in T : x <= y
<1>1. IsWellFoundedOn(OpToRel(<, Nat), Nat)
  BY NatLessThanWellFounded
<1>2. PICK x \in T : \A y \in T : ~(<<y, x>> \in OpToRel(<, Nat))
  BY <1>1, WFMin
<1>3. \A y \in T : ~(y < x)
  BY <1>2 DEF OpToRel
<1> QED
  BY <1>3

\* What holds of 0, and of m + 1 whenever it holds of m, holds up to n.
LEMMA Steps ==
  ASSUME NEW n \in Nat, NEW T, 0 \in T, \A m \in 0..(n - 1) : m \in T => m + 1 \in T
  PROVE  \A m \in 0..n : m \in T
<1> SUFFICES ASSUME NEW z \in 0..n, z \notin T PROVE FALSE
  OBVIOUS
<1>1. PICK x \in (0..n) \ T : \A y \in (0..n) \ T : x <= y
  <2>1. (0..n) \ T \in SUBSET Nat /\ (0..n) \ T # {}
    OBVIOUS
  <2> QED
    BY <2>1, LeastNumber
<1>2. x \in Nat /\ x # 0 /\ x - 1 \in 0..(n - 1) /\ (x - 1) + 1 = x
  BY <1>1
<1>3. x - 1 \in T
  BY <1>1, <1>2
<1> QED
  BY <1>1, <1>2, <1>3

-----------------------------------------------------------------------------
(* What Picked returns: the elements at the positions given, in their order. *)

\* h[m] is what the positions in P pick out of the first m elements of s.
Follows(s, P, h, m) ==
  /\ h[0] = <<>>
  /\ \A i \in 1..m : h[i] = IF i \in P THEN Append(h[i - 1], s[i]) ELSE h[i - 1]

\* There is such a list of picks.
LEMMA UpToExists ==
  ASSUME NEW X, NEW s \in Seq(X), NEW P
  PROVE  \E h \in [0..Len(s) -> Seq(X)] : Follows(s, P, h, Len(s))
<1> DEFINE T == {m \in 0..Len(s) : \E h \in [0..m -> Seq(X)] : Follows(s, P, h, m)}
<1>0. Len(s) \in Nat /\ \A i \in 1..Len(s) : s[i] \in X
  BY LenProperties, ElementOfSeq
<1>1. 0 \in T
  <2>1. <<>> \in Seq(X)
    OBVIOUS
  <2>2. PICK h : h = [i \in 0..0 |-> <<>>]
    OBVIOUS
  <2>3. h \in [0..0 -> Seq(X)] /\ Follows(s, P, h, 0)
    BY <2>1, <2>2 DEF Follows
  <2>4. 0 \in 0..Len(s)
    BY <1>0
  <2> QED
    BY <2>3, <2>4
<1>2. ASSUME NEW m \in 0..(Len(s) - 1), m \in T PROVE m + 1 \in T
  <2>1. PICK h \in [0..m -> Seq(X)] : Follows(s, P, h, m)
    BY <1>2
  <2>2. m \in Nat /\ m + 1 \in 1..Len(s) /\ s[m + 1] \in X /\ h[m] \in Seq(X)
    BY <1>0
  <2>3. PICK v : v = IF m + 1 \in P THEN Append(h[m], s[m + 1]) ELSE h[m]
    OBVIOUS
  <2>4. v \in Seq(X)
    BY <2>2, <2>3, AppendProperties
  <2>5. PICK g : g = [i \in 0..(m + 1) |-> IF i = m + 1 THEN v ELSE h[i]]
    OBVIOUS
  <2>6. g \in [0..(m + 1) -> Seq(X)]
    BY <2>2, <2>4, <2>5
  <2>7. /\ g[0] = h[0] /\ g[m] = h[m] /\ g[m + 1] = v
        /\ \A i \in 1..m : g[i] = h[i] /\ g[i - 1] = h[i - 1]
    BY <2>2, <2>5
  <2>8. Follows(s, P, g, m + 1)
    <3>1. ASSUME NEW i \in 1..(m + 1)
          PROVE  g[i] = IF i \in P THEN Append(g[i - 1], s[i]) ELSE g[i - 1]
      <4>1. CASE i = m + 1
        BY <2>2, <2>3, <2>7, <4>1
      <4>2. CASE i \in 1..m
        BY <2>1, <2>7, <4>2 DEF Follows
      <4> QED
        BY <2>2, <4>1, <4>2
    <3> QED
      BY <2>1, <2>7, <3>1 DEF Follows
  <2> QED
    BY <1>0, <2>2, <2>6, <2>8
<1>3. Len(s) \in T
  <2> HIDE DEF T
  <2>1. \A m \in 0..Len(s) : m \in T
    BY <1>0, <1>1, <1>2, Steps
  <2> QED
    BY <1>0, <2>1
<1> QED
  BY <1>3

\* Picked, the function behind Live, is the last of these picks.
LEMMA PickedSteps ==
  ASSUME NEW X, NEW s \in Seq(X), NEW P
  PROVE  \E h \in [0..Len(s) -> Seq(X)] :
            h[Len(s)] = Picked(s, P) /\ Follows(s, P, h, Len(s))
<1>0. Len(s) \in Nat
  BY LenProperties
<1>1. PICK h \in [0..Len(s) -> Seq(X)] : Follows(s, P, h, Len(s))
  BY UpToExists
<1> DEFINE upTo[n \in 0..Len(s)] ==
             IF n = 0 THEN <<>>
             ELSE IF n \in P THEN Append(upTo[n - 1], s[n]) ELSE upTo[n - 1]
<1>2. h = [n \in 0..Len(s) |-> IF n = 0 THEN <<>>
                               ELSE IF n \in P THEN Append(h[n - 1], s[n]) ELSE h[n - 1]]
  <2>1. ASSUME NEW n \in 0..Len(s)
        PROVE  h[n] = IF n = 0 THEN <<>>
                      ELSE IF n \in P THEN Append(h[n - 1], s[n]) ELSE h[n - 1]
    <3> HIDE DEF upTo
    <3>1. CASE n = 0
      BY <1>1, <3>1 DEF Follows
    <3>2. CASE n \in 1..Len(s)
      <4>1. h[n] = IF n \in P THEN Append(h[n - 1], s[n]) ELSE h[n - 1]
        BY <1>1, <3>2 DEF Follows
      <4>2. n # 0
        BY <1>0, <3>2
      <4> QED
        BY <4>1, <4>2
    <3> QED
      BY <1>0, <3>1, <3>2
  <2>2. h = [n \in 0..Len(s) |-> h[n]]
    BY <1>1
  <2> QED
    BY <2>1, <2>2
<1>3. upTo = [n \in 0..Len(s) |-> IF n = 0 THEN <<>>
                                  ELSE IF n \in P THEN Append(upTo[n - 1], s[n]) ELSE upTo[n - 1]]
  BY <1>2
<1>4. Picked(s, P) = upTo[Len(s)]
  BY DEF Picked
<1> HIDE DEF upTo
<1>5. \A n \in 0..Len(s) : upTo[n] = IF n = 0 THEN <<>>
                                  ELSE IF n \in P THEN Append(upTo[n - 1], s[n]) ELSE upTo[n - 1]
  BY <1>3
<1> DEFINE T == {m \in 0..Len(s) : upTo[m] = h[m]}
<1>6. 0 \in T
  BY <1>0, <1>1, <1>5 DEF Follows
<1>7. ASSUME NEW m \in 0..(Len(s) - 1), m \in T PROVE m + 1 \in T
  <2>1. m \in Nat /\ m + 1 \in 1..Len(s) /\ m + 1 \in 0..Len(s) /\ m + 1 # 0 /\ (m + 1) - 1 = m
    BY <1>0
  <2>2. upTo[m] = h[m]
    BY <1>7
  <2>3. h[m + 1] = IF m + 1 \in P THEN Append(h[(m + 1) - 1], s[m + 1]) ELSE h[(m + 1) - 1]
    BY <1>1, <2>1 DEF Follows
  <2>4. upTo[m + 1] = IF m + 1 \in P THEN Append(upTo[(m + 1) - 1], s[m + 1])
                       ELSE upTo[(m + 1) - 1]
    BY <1>5, <2>1
  <2>5. upTo[m + 1] = h[m + 1]
    BY <2>1, <2>2, <2>3, <2>4
  <2> QED
    BY <2>1, <2>5
<1>8. Len(s) \in T
  <2> HIDE DEF T
  <2>1. \A m \in 0..Len(s) : m \in T
    BY <1>0, <1>6, <1>7, Steps
  <2> QED
    BY <1>0, <2>1
<1> QED
  BY <1>1, <1>4, <1>8

\* t is what the first m elements of s have at the positions P, and g says where.
PartOf(s, P, m, t, g) ==
  /\ g \in [1..Len(t) -> 1..m]
  /\ \A a, b \in 1..Len(t) : a < b => g[a] < g[b]
  /\ \A k \in 1..Len(t) : t[k] = s[g[k]] /\ g[k] \in P
  /\ \A i \in 1..m : i \in P => \E k \in 1..Len(t) : g[k] = i

\* Picking one more element keeps the order of the picks.
LEMMA PartGrows ==
  ASSUME NEW X, NEW s \in Seq(X), NEW P, NEW m \in 0..(Len(s) - 1), NEW t \in Seq(X), NEW g,
         PartOf(s, P, m, t, g), Len(t) <= m, m + 1 \in P
  PROVE  /\ Len(Append(t, s[m + 1])) <= m + 1
         /\ \E f : PartOf(s, P, m + 1, Append(t, s[m + 1]), f)
<1>0. m \in Nat /\ Len(t) \in Nat /\ s[m + 1] \in X
  BY LenProperties, ElementOfSeq
<1>1. PICK u : u = Append(t, s[m + 1])
  OBVIOUS
<1>2. /\ u \in Seq(X) /\ Len(u) = Len(t) + 1 /\ u[Len(t) + 1] = s[m + 1]
      /\ \A k \in 1..Len(t) : u[k] = t[k]
  BY <1>0, <1>1, AppendProperties
<1>3. PICK f : f = [k \in 1..Len(u) |-> IF k = Len(u) THEN m + 1 ELSE g[k]]
  OBVIOUS
<1>4. \A k \in 1..Len(t) : g[k] \in 1..m
  BY DEF PartOf
<1>5. /\ \A k \in 1..Len(t) : k \in 1..Len(u) /\ f[k] = g[k]
      /\ Len(u) \in 1..Len(u) /\ f[Len(u)] = m + 1
      /\ \A k \in 1..Len(u) : k = Len(u) \/ k \in 1..Len(t)
  BY <1>0, <1>2, <1>3
<1>6. \A k \in 1..Len(u) : f[k] \in 1..(m + 1)
  BY <1>0, <1>4, <1>5
<1>7. f \in [1..Len(u) -> 1..(m + 1)]
  BY <1>3, <1>6
<1>8. ASSUME NEW a \in 1..Len(u), NEW b \in 1..Len(u), a < b PROVE f[a] < f[b]
  <2>1. a \in 1..Len(t)
    BY <1>0, <1>2, <1>8
  <2>2. CASE b = Len(u)
    BY <1>0, <1>4, <1>5, <2>1, <2>2
  <2>3. CASE b \in 1..Len(t)
    BY <1>5, <1>8, <2>1, <2>3 DEF PartOf
  <2> QED
    BY <1>5, <2>2, <2>3
<1>9. ASSUME NEW k \in 1..Len(u) PROVE u[k] = s[f[k]] /\ f[k] \in P
  <2>1. CASE k = Len(u)
    BY <1>2, <1>5, <2>1
  <2>2. CASE k \in 1..Len(t)
    BY <1>2, <1>5, <2>2 DEF PartOf
  <2> QED
    BY <1>5, <2>1, <2>2
<1>10. ASSUME NEW i \in 1..(m + 1), i \in P PROVE \E k \in 1..Len(u) : f[k] = i
  <2>1. CASE i = m + 1
    BY <1>5, <2>1
  <2>2. CASE i \in 1..m
    <3>1. PICK k \in 1..Len(t) : g[k] = i
      BY <1>10, <2>2 DEF PartOf
    <3> QED
      BY <1>5, <3>1
  <2> QED
    BY <1>0, <2>1, <2>2
<1>11. PartOf(s, P, m + 1, u, f)
  BY <1>7, <1>8, <1>9, <1>10 DEF PartOf
<1> QED
  BY <1>0, <1>1, <1>2, <1>11

\* Passing one over keeps the picks as they are.
LEMMA PartStays ==
  ASSUME NEW s, NEW P, NEW m \in Nat, NEW t, NEW g, PartOf(s, P, m, t, g), m + 1 \notin P
  PROVE  PartOf(s, P, m + 1, t, g)
<1>1. g \in [1..Len(t) -> 1..(m + 1)]
  BY DEF PartOf
<1>2. \A i \in 1..(m + 1) : i \in P => i \in 1..m
  OBVIOUS
<1> QED
  BY <1>1, <1>2 DEF PartOf

\* So Picked gives the elements at the positions P, all of them, in their order.
LEMMA PickedParts ==
  ASSUME NEW X, NEW s \in Seq(X), NEW P
  PROVE  /\ Picked(s, P) \in Seq(X) /\ Len(Picked(s, P)) <= Len(s)
         /\ \E g : PartOf(s, P, Len(s), Picked(s, P), g)
<1>0. Len(s) \in Nat
  BY LenProperties
<1>1. PICK h \in [0..Len(s) -> Seq(X)] : h[Len(s)] = Picked(s, P) /\ Follows(s, P, h, Len(s))
  BY PickedSteps
<1> DEFINE T == {m \in 0..Len(s) : Len(h[m]) <= m /\ \E g : PartOf(s, P, m, h[m], g)}
<1>2. 0 \in T
  <2>1. h[0] = <<>> /\ Len(<<>>) = 0
    BY <1>1 DEF Follows
  <2>2. PICK g : g = [k \in 1..0 |-> k]
    OBVIOUS
  <2>3. g \in [1..0 -> 1..0]
    BY <2>2
  <2>4. PartOf(s, P, 0, <<>>, g)
    BY <2>1, <2>3 DEF PartOf
  <2> QED
    BY <1>0, <2>1, <2>4
<1>3. ASSUME NEW m \in 0..(Len(s) - 1), m \in T PROVE m + 1 \in T
  <2>1. /\ m \in Nat /\ m \in 0..Len(s) /\ m + 1 \in 1..Len(s) /\ m + 1 \in 0..Len(s)
        /\ (m + 1) - 1 = m
    BY <1>0
  <2>2. PICK g : PartOf(s, P, m, h[m], g)
    BY <1>3
  <2>3. Len(h[m]) <= m /\ h[m] \in Seq(X)
    BY <1>1, <1>3, <2>1
  <2>4. h[m + 1] = IF m + 1 \in P THEN Append(h[(m + 1) - 1], s[m + 1]) ELSE h[(m + 1) - 1]
    BY <1>1, <2>1 DEF Follows
  <2>5. CASE m + 1 \in P
    <3>1. h[m + 1] = Append(h[m], s[m + 1])
      BY <2>1, <2>4, <2>5
    <3>2. /\ Len(Append(h[m], s[m + 1])) <= m + 1
          /\ \E f : PartOf(s, P, m + 1, Append(h[m], s[m + 1]), f)
      <4> HIDE DEF T
      <4>1. PICK t \in Seq(X) : t = h[m]
        BY <2>3
      <4>2. PartOf(s, P, m, t, g) /\ Len(t) <= m
        BY <2>2, <2>3, <4>1
      <4>3. /\ Len(Append(t, s[m + 1])) <= m + 1
            /\ \E f : PartOf(s, P, m + 1, Append(t, s[m + 1]), f)
        BY <2>5, <4>2, PartGrows
      <4> QED
        BY <4>1, <4>3
    <3> QED
      BY <2>1, <3>1, <3>2
  <2>6. CASE m + 1 \notin P
    <3>1. h[m + 1] = h[m]
      BY <2>1, <2>4, <2>6
    <3>2. PartOf(s, P, m + 1, h[m + 1], g)
      BY <2>1, <2>2, <2>6, <3>1, PartStays
    <3>3. Len(h[m + 1]) <= m + 1
      BY <2>1, <2>3, <3>1, LenProperties
    <3> QED
      BY <2>1, <3>2, <3>3
  <2> QED
    BY <2>5, <2>6
<1>4. Len(s) \in T
  <2> HIDE DEF T
  <2>1. \A m \in 0..Len(s) : m \in T
    BY <1>0, <1>2, <1>3, Steps
  <2> QED
    BY <1>0, <2>1
<1> QED
  BY <1>0, <1>1, <1>4

-----------------------------------------------------------------------------
(* The byte counts of a list of entries.                                    *)

\* h[m] is the size of the first m entries together.
Adds(s, h, m) == h[0] = 0 /\ \A i \in 1..m : h[i] = h[i - 1] + Size[s[i].value]

\* The parts of the entries of a list are of their types.
LEMMA EntryParts ==
  ASSUME NEW s \in Seq(Entry)
  PROVE  /\ Len(s) \in Nat /\ DOMAIN s = 1..Len(s)
         /\ \A i \in 1..Len(s) : /\ s[i] \in Entry /\ s[i].key \in Keys /\ s[i].value \in Values
                                 /\ s[i].left \in Nat \cup {Expired} /\ Size[s[i].value] \in Nat
<1>1. Len(s) \in Nat /\ DOMAIN s = 1..Len(s) /\ \A i \in 1..Len(s) : s[i] \in Entry
  BY LenProperties, ElementOfSeq
<1>2. ASSUME NEW e \in Entry
      PROVE  /\ e.key \in Keys /\ e.value \in Values /\ e.left \in Nat \cup {Expired}
             /\ Size[e.value] \in Nat
  BY CacheAssumption DEF Entry
<1> QED
  BY <1>1, <1>2

\* There is such a list of sums.
LEMMA SumsExist ==
  ASSUME NEW s \in Seq(Entry)
  PROVE  \E h \in [0..Len(s) -> Nat] : Adds(s, h, Len(s))
<1> DEFINE T == {m \in 0..Len(s) : \E h \in [0..m -> Nat] : Adds(s, h, m)}
<1>0. Len(s) \in Nat /\ \A i \in 1..Len(s) : Size[s[i].value] \in Nat
  BY EntryParts
<1>1. 0 \in T
  <2>1. PICK h : h = [i \in 0..0 |-> 0]
    OBVIOUS
  <2>2. h \in [0..0 -> Nat] /\ Adds(s, h, 0)
    BY <2>1 DEF Adds
  <2> QED
    BY <1>0, <2>2
<1>2. ASSUME NEW m \in 0..(Len(s) - 1), m \in T PROVE m + 1 \in T
  <2>1. PICK h \in [0..m -> Nat] : Adds(s, h, m)
    BY <1>2
  <2>2. m \in Nat /\ m + 1 \in 1..Len(s) /\ h[m] \in Nat /\ Size[s[m + 1].value] \in Nat
    BY <1>0
  <2>3. PICK v \in Nat : v = h[m] + Size[s[m + 1].value]
    BY <2>2
  <2>4. PICK g : g = [i \in 0..(m + 1) |-> IF i = m + 1 THEN v ELSE h[i]]
    OBVIOUS
  <2>5. g \in [0..(m + 1) -> Nat]
    BY <2>2, <2>4
  <2>6. /\ g[0] = h[0] /\ g[m] = h[m] /\ g[m + 1] = v
        /\ \A i \in 1..m : g[i] = h[i] /\ g[i - 1] = h[i - 1]
    BY <2>2, <2>4
  <2>7. ASSUME NEW i \in 1..(m + 1) PROVE g[i] = g[i - 1] + Size[s[i].value]
    <3>1. CASE i = m + 1
      BY <2>2, <2>3, <2>6, <3>1
    <3>2. CASE i \in 1..m
      BY <2>1, <2>6, <3>2 DEF Adds
    <3> QED
      BY <2>2, <3>1, <3>2
  <2>8. Adds(s, g, m + 1)
    BY <2>1, <2>6, <2>7 DEF Adds
  <2> QED
    BY <1>0, <2>2, <2>5, <2>8
<1>3. Len(s) \in T
  <2> HIDE DEF T
  <2>1. \A m \in 0..Len(s) : m \in T
    BY <1>0, <1>1, <1>2, Steps
  <2> QED
    BY <1>0, <2>1
<1> QED
  BY <1>3

\* Sums is it.
LEMMA SumsAre ==
  ASSUME NEW s \in Seq(Entry)
  PROVE  Sums(s) \in [0..Len(s) -> Nat] /\ Adds(s, Sums(s), Len(s))
<1>0. Len(s) \in Nat /\ \A i \in 1..Len(s) : Size[s[i].value] \in Nat
  BY EntryParts
<1>1. PICK h \in [0..Len(s) -> Nat] : Adds(s, h, Len(s))
  BY SumsExist
<1> DEFINE sum[n \in 0..Len(s)] == IF n = 0 THEN 0 ELSE sum[n - 1] + Size[s[n].value]
<1>2. h = [n \in 0..Len(s) |-> IF n = 0 THEN 0 ELSE h[n - 1] + Size[s[n].value]]
  <2> HIDE DEF sum
  <2>1. ASSUME NEW n \in 0..Len(s)
        PROVE  h[n] = IF n = 0 THEN 0 ELSE h[n - 1] + Size[s[n].value]
    <3>1. CASE n = 0
      BY <1>1, <3>1 DEF Adds
    <3>2. CASE n \in 1..Len(s)
      BY <1>0, <1>1, <3>2 DEF Adds
    <3> QED
      BY <1>0, <3>1, <3>2
  <2>2. h = [n \in 0..Len(s) |-> h[n]]
    BY <1>1
  <2> QED
    BY <2>1, <2>2
<1>3. sum = [n \in 0..Len(s) |-> IF n = 0 THEN 0 ELSE sum[n - 1] + Size[s[n].value]]
  BY <1>2
<1>4. Sums(s) = sum
  BY DEF Sums
<1> HIDE DEF sum
<1>5. /\ sum = [n \in 0..Len(s) |-> sum[n]]
      /\ \A n \in 0..Len(s) : sum[n] = IF n = 0 THEN 0 ELSE sum[n - 1] + Size[s[n].value]
  BY <1>3
<1> DEFINE T == {m \in 0..Len(s) : sum[m] \in Nat}
<1>6. 0 \in T
  BY <1>0, <1>5
<1>7. ASSUME NEW m \in 0..(Len(s) - 1), m \in T PROVE m + 1 \in T
  <2>1. m \in Nat /\ m + 1 \in 1..Len(s) /\ m + 1 \in 0..Len(s) /\ m + 1 # 0 /\ (m + 1) - 1 = m
    BY <1>0
  <2>2. sum[m] \in Nat /\ Size[s[m + 1].value] \in Nat
    BY <1>0, <1>7, <2>1
  <2>3. sum[m + 1] = sum[(m + 1) - 1] + Size[s[m + 1].value]
    BY <1>5, <2>1
  <2>4. sum[m + 1] = sum[m] + Size[s[m + 1].value]
    BY <2>1, <2>3
  <2> QED
    BY <2>1, <2>2, <2>4
<1>8. \A m \in 0..Len(s) : sum[m] \in Nat
  <2>1. \A m \in 0..Len(s) : m \in T
    <3> HIDE DEF T
    <3> QED
      BY <1>0, <1>6, <1>7, Steps
  <2> QED
    BY <2>1
<1>9. sum \in [0..Len(s) -> Nat]
  BY <1>5, <1>8
<1>10. Adds(s, sum, Len(s))
  <2> HIDE DEF T
  <2>1. ASSUME NEW n \in 1..Len(s) PROVE sum[n] = sum[n - 1] + Size[s[n].value]
    <3>1. n \in 0..Len(s) /\ n # 0
      BY <1>0
    <3> QED
      BY <1>5, <3>1
  <2>2. sum[0] = 0
    <3>1. ASSUME NEW n \in 0..Len(s), n = 0 PROVE sum[n] = 0
      BY <1>5, <3>1
    <3> QED
      BY <1>0, <3>1
  <2> QED
    BY <2>1, <2>2 DEF Adds
<1> QED
  BY <1>4, <1>9, <1>10

\* Where two lists hold the same values, their sums grow alike.
LEMMA SumsShifted ==
  ASSUME NEW s \in Seq(Entry), NEW t \in Seq(Entry), NEW o \in Int,
         NEW d \in 0..Len(t), NEW b \in 0..d, b + o \in 0..Len(s), d + o \in 0..Len(s),
         \A x \in (b + 1)..d : t[x].value = s[x + o].value
  PROVE  Sums(t)[d] - Sums(t)[b] = Sums(s)[d + o] - Sums(s)[b + o]
<1>0. /\ Len(s) \in Nat /\ Len(t) \in Nat
      /\ \A i \in 1..Len(s) : Size[s[i].value] \in Nat
      /\ \A i \in 1..Len(t) : Size[t[i].value] \in Nat
  BY EntryParts
<1>1. PICK g \in [0..Len(s) -> Nat] : g = Sums(s) /\ Adds(s, g, Len(s))
  BY SumsAre
<1>2. PICK h \in [0..Len(t) -> Nat] : h = Sums(t) /\ Adds(t, h, Len(t))
  BY SumsAre
<1>3. b \in 0..Len(t) /\ b \in Nat /\ d \in Nat
  BY <1>0
<1>4. PICK p \in Nat : p = h[b]
  BY <1>3
<1>5. PICK q \in Nat : q = g[b + o]
  OBVIOUS
<1> DEFINE T == {m \in 0..d : m >= b => h[m] - p = g[m + o] - q}
<1>6. 0 \in T
  <2>1. ASSUME 0 >= b PROVE h[0] - p = g[0 + o] - q
    <3>1. b = 0
      BY <1>3, <2>1
    <3>2. h[0] = p /\ g[0 + o] = q
      BY <1>4, <1>5, <3>1
    <3> QED
      BY <3>2
  <2> QED
    BY <1>3, <2>1
<1>7. ASSUME NEW m \in 0..(d - 1), m \in T PROVE m + 1 \in T
  <2> SUFFICES ASSUME m + 1 >= b PROVE h[m + 1] - p = g[(m + 1) + o] - q
    BY <1>3
  <2>1. CASE m + 1 = b
    BY <1>4, <1>5, <2>1
  <2>2. CASE m >= b
    <3>1. PICK i \in 1..Len(s) : i = (m + 1) + o /\ i - 1 = m + o
      <4>1. (m + 1) + o \in 1..Len(s) /\ ((m + 1) + o) - 1 = m + o
        BY <1>0, <1>3, <2>2
      <4> QED
        BY <4>1
    <3>2. m + 1 \in 1..Len(t) /\ (m + 1) - 1 = m /\ m \in 0..Len(t) /\ i - 1 \in 0..Len(s)
          /\ m + 1 \in (b + 1)..d
      BY <1>0, <1>3, <2>2
    <3>3. g[i] = g[i - 1] + Size[s[i].value]
      BY <1>1 DEF Adds
    <3>4. h[m + 1] = h[m] + Size[t[m + 1].value]
      BY <1>2, <3>2 DEF Adds
    <3>5. t[m + 1].value = s[i].value
      BY <3>1, <3>2
    <3>6. PICK z \in Nat : z = Size[s[i].value]
      BY <1>0
    <3>7. PICK u \in Nat : u = h[m]
      BY <3>2
    <3>8. PICK v \in Nat : v = g[i - 1]
      BY <3>2
    <3>9. u - p = v - q
      BY <1>7, <2>2, <3>1, <3>7, <3>8
    <3>10. (u + z) - p = (v + z) - q
      BY <3>9
    <3> QED
      BY <3>1, <3>3, <3>4, <3>5, <3>6, <3>7, <3>8, <3>10
  <2> QED
    BY <1>3, <2>1, <2>2
<1>8. d \in T
  <2>1. \A m \in 0..d : m \in T
    <3> HIDE DEF T
    <3> QED
      BY <1>3, <1>6, <1>7, Steps
  <2> QED
    BY <1>3, <2>1
<1> QED
  BY <1>1, <1>2, <1>3, <1>4, <1>5, <1>8

\* The same with all four ends of the two stretches named.
LEMMA SumsShift ==
  ASSUME NEW s \in Seq(Entry), NEW t \in Seq(Entry), NEW o \in Int,
         NEW d \in 0..Len(t), NEW b \in 0..d, NEW a \in 0..Len(s), NEW c \in 0..Len(s),
         a = b + o, c = d + o,
         \A x \in 1..d : x > b => t[x].value = s[x + o].value
  PROVE  Sums(t)[d] - Sums(t)[b] = Sums(s)[c] - Sums(s)[a]
<1>1. \A x \in (b + 1)..d : t[x].value = s[x + o].value
  BY LenProperties
<1>2. b + o \in 0..Len(s) /\ d + o \in 0..Len(s)
  OBVIOUS
<1> QED
  BY <1>1, <1>2, SumsShifted

\* Bytes is a number of bytes, and Sums adds one entry after the other.
LEMMA BytesNat ==
  ASSUME NEW s \in Seq(Entry)
  PROVE  /\ Bytes(s) \in Nat /\ Sums(s)[0] = 0
         /\ \A i \in 1..Len(s) : Sums(s)[i] = Sums(s)[i - 1] + Size[s[i].value]
         /\ \A i \in 0..Len(s) : Sums(s)[i] \in Nat
<1>1. Sums(s) \in [0..Len(s) -> Nat] /\ Adds(s, Sums(s), Len(s)) /\ Len(s) \in Nat
  BY SumsAre, LenProperties
<1>2. PICK g \in [0..Len(s) -> Nat] : g = Sums(s)
  BY <1>1
<1>3. g[Len(s)] \in Nat /\ \A i \in 0..Len(s) : g[i] \in Nat
  BY <1>1
<1>4. g[0] = 0 /\ \A i \in 1..Len(s) : g[i] = g[i - 1] + Size[s[i].value]
  BY <1>1, <1>2 DEF Adds
<1> QED
  BY <1>2, <1>3, <1>4 DEF Bytes

\* An empty cache holds no bytes.
LEMMA BytesEmpty == <<>> \in Seq(Entry) /\ Bytes(<<>>) = 0
<1>1. <<>> \in Seq(Entry) /\ Len(<<>>) = 0
  OBVIOUS
<1> QED
  BY <1>1, BytesNat DEF Bytes

\* An entry put behind the others adds its size.
LEMMA BytesAppend ==
  ASSUME NEW s \in Seq(Entry), NEW e \in Entry
  PROVE  Bytes(Append(s, e)) = Bytes(s) + Size[e.value]
<1>1. PICK t \in Seq(Entry) : t = Append(s, e)
  BY AppendProperties
<1>2. /\ Len(s) \in Nat /\ Len(t) = Len(s) + 1 /\ t[Len(s) + 1] = e
      /\ \A x \in 1..Len(s) : t[x] = s[x]
  BY <1>1, AppendProperties, LenProperties
<1>3. /\ Len(s) \in 0..Len(t) /\ 0 \in 0..Len(s) /\ Len(s) \in 0..Len(s)
      /\ Len(s) + 0 = Len(s) /\ 0 + 0 = 0
  BY <1>2
<1>4. Sums(t)[Len(s)] - Sums(t)[0] = Sums(s)[Len(s)] - Sums(s)[0]
  <2>1. PICK o \in Int : o = 0
    OBVIOUS
  <2>2. \A x \in 1..Len(s) : x > 0 => t[x].value = s[x + o].value
    BY <1>2, <2>1
  <2>3. Len(s) = Len(s) + o /\ 0 = 0 + o /\ 0 \in 0..Len(s)
    BY <1>2, <2>1
  <2> QED
    BY <1>3, <2>2, <2>3, SumsShift
<1>5. Sums(t)[Len(s)] = Sums(s)[Len(s)]
  <2>1. Sums(t)[0] = 0 /\ Sums(s)[0] = 0 /\ Sums(t)[Len(s)] \in Nat /\ Sums(s)[Len(s)] \in Nat
    BY <1>3, BytesNat
  <2> QED
    BY <1>3, <1>4, <2>1
<1>6. Sums(t)[Len(t)] = Sums(t)[Len(s)] + Size[e.value]
  <2>1. Len(t) \in 1..Len(t) /\ Len(t) - 1 = Len(s)
    BY <1>2
  <2>2. Sums(t)[Len(t)] = Sums(t)[Len(t) - 1] + Size[t[Len(t)].value]
    BY <2>1, BytesNat
  <2> QED
    BY <1>2, <2>1, <2>2
<1> QED
  BY <1>1, <1>5, <1>6 DEF Bytes

\* Giving up the first j entries frees the sum of their sizes.
LEMMA BytesOfRest ==
  ASSUME NEW s \in Seq(Entry), NEW j \in 0..Len(s)
  PROVE  /\ SubSeq(s, j + 1, Len(s)) \in Seq(Entry)
         /\ Len(SubSeq(s, j + 1, Len(s))) = Len(s) - j
         /\ \A x \in 1..(Len(s) - j) : SubSeq(s, j + 1, Len(s))[x] = s[j + x]
         /\ Bytes(SubSeq(s, j + 1, Len(s))) = Bytes(s) - Sums(s)[j]
<1>0. Len(s) \in Nat
  BY LenProperties
<1>1. PICK t : t = SubSeq(s, j + 1, Len(s))
  OBVIOUS
<1>2. t \in Seq(Entry) /\ Len(t) = Len(s) - j /\ \A x \in 1..(Len(s) - j) : t[x] = s[j + x]
  <2>1. \A i \in (j + 1)..Len(s) : s[i] \in Entry
    BY <1>0, EntryParts
  <2>2. t = [i \in 1..(Len(s) - j) |-> s[j + i]]
    BY <1>0, <1>1
  <2>3. \A i \in 1..(Len(s) - j) : s[j + i] \in Entry
    BY <1>0, <2>1
  <2> QED
    BY <1>0, <2>2, <2>3
<1>3. /\ Len(t) \in 0..Len(t) /\ 0 \in 0..Len(t) /\ 0 + j = j /\ Len(t) + j = Len(s)
      /\ Len(s) \in 0..Len(s) /\ j \in Int
  BY <1>0, <1>2
<1>4. Sums(t)[Len(t)] - Sums(t)[0] = Sums(s)[Len(s)] - Sums(s)[j]
  <2>1. \A x \in 1..Len(t) : x > 0 => t[x].value = s[x + j].value
    BY <1>0, <1>2
  <2>2. Len(s) = Len(t) + j /\ j = 0 + j /\ 0 \in 0..Len(t) /\ j \in 0..Len(s)
    BY <1>0, <1>2
  <2> QED
    BY <1>2, <1>3, <2>1, <2>2, SumsShift
<1>5. Sums(t)[Len(t)] = Sums(s)[Len(s)] - Sums(s)[j]
  <2>1. Sums(t)[0] = 0 /\ Sums(t)[Len(t)] \in Nat
    BY <1>2, <1>3, BytesNat
  <2> QED
    BY <1>3, <1>4, <2>1
<1> QED
  BY <1>1, <1>2, <1>5 DEF Bytes

\* What RemoveAt leaves, position by position.
LEMMA RemoveAtIs ==
  ASSUME NEW s \in Seq(Entry), NEW i \in 1..Len(s)
  PROVE  /\ RemoveAt(s, i) \in Seq(Entry) /\ Len(RemoveAt(s, i)) = Len(s) - 1
         /\ \A x \in 1..(Len(s) - 1) : RemoveAt(s, i)[x] = IF x < i THEN s[x] ELSE s[x + 1]
<1>0. Len(s) \in Nat /\ \A x \in 1..Len(s) : s[x] \in Entry
  BY EntryParts
<1>1. PICK a : a = SubSeq(s, 1, i - 1)
  OBVIOUS
<1>2. PICK b : b = SubSeq(s, i + 1, Len(s))
  OBVIOUS
<1>3. a = [x \in 1..(i - 1) |-> s[x]]
  BY <1>0, <1>1
<1>4. a \in Seq(Entry) /\ Len(a) = i - 1 /\ \A x \in 1..(i - 1) : a[x] = s[x]
  BY <1>0, <1>3
<1>5. b \in Seq(Entry) /\ Len(b) = Len(s) - i /\ \A x \in 1..(Len(s) - i) : b[x] = s[i + x]
  BY <1>0, <1>2, BytesOfRest
<1>6. /\ a \o b \in Seq(Entry) /\ Len(a \o b) = Len(s) - 1
      /\ \A x \in 1..(Len(s) - 1) : (a \o b)[x] = IF x < i THEN a[x] ELSE b[x - (i - 1)]
  <2>1. /\ a \o b \in Seq(Entry) /\ Len(a \o b) = Len(a) + Len(b)
        /\ \A x \in 1..(Len(a) + Len(b)) :
             (a \o b)[x] = IF x <= Len(a) THEN a[x] ELSE b[x - Len(a)]
    BY <1>4, <1>5, ConcatProperties
  <2>2. Len(a) + Len(b) = Len(s) - 1 /\ \A x \in 1..(Len(s) - 1) : (x <= i - 1) <=> (x < i)
    BY <1>0, <1>4, <1>5
  <2> QED
    BY <1>4, <2>1, <2>2
<1>7. RemoveAt(s, i) = a \o b
  BY <1>1, <1>2 DEF RemoveAt
<1>8. ASSUME NEW x \in 1..(Len(s) - 1)
      PROVE  RemoveAt(s, i)[x] = IF x < i THEN s[x] ELSE s[x + 1]
  <2>1. CASE x < i
    BY <1>0, <1>4, <1>6, <1>7, <2>1
  <2>2. CASE ~(x < i)
    <3>1. x - (i - 1) \in 1..(Len(s) - i) /\ i + (x - (i - 1)) = x + 1
      BY <1>0, <2>2
    <3>2. b[x - (i - 1)] = s[i + (x - (i - 1))]
      BY <1>5, <3>1
    <3> QED
      BY <1>6, <1>7, <2>2, <3>1, <3>2
  <2> QED
    BY <2>1, <2>2
<1> QED
  BY <1>6, <1>7, <1>8

\* Taking one entry out frees its size.
LEMMA BytesRemoved ==
  ASSUME NEW s \in Seq(Entry), NEW i \in 1..Len(s)
  PROVE  Bytes(RemoveAt(s, i)) = Bytes(s) - Size[s[i].value]
<1>0. Len(s) \in Nat /\ Size[s[i].value] \in Nat
  BY EntryParts
<1>1. PICK t \in Seq(Entry) :
        /\ t = RemoveAt(s, i) /\ Len(t) = Len(s) - 1
        /\ \A x \in 1..(Len(s) - 1) : t[x] = IF x < i THEN s[x] ELSE s[x + 1]
  BY RemoveAtIs
<1>2. PICK k \in Nat : k = i - 1
  OBVIOUS
<1>3. /\ k \in 0..Len(t) /\ k \in 0..Len(s) /\ k + 1 = i /\ Len(t) + 1 = Len(s)
      /\ Len(t) \in 0..Len(t) /\ Len(s) \in 0..Len(s) /\ i \in 0..Len(s) /\ k \in 0..k
      /\ 0 \in 0..k /\ k + 0 = k /\ 0 + 0 = 0 /\ 0 \in 0..Len(s) /\ k <= Len(t)
  BY <1>0, <1>1, <1>2
<1>4. Sums(t)[k] - Sums(t)[0] = Sums(s)[k] - Sums(s)[0]
  <2>1. PICK o \in Int : o = 0
    OBVIOUS
  <2>2. ASSUME NEW x \in 1..k, x > 0 PROVE t[x].value = s[x + o].value
    <3>1. x \in 1..(Len(s) - 1) /\ x < i /\ x + o = x
      BY <1>0, <1>2, <2>1
    <3> QED
      BY <1>1, <3>1
  <2>3. /\ k = k + o /\ 0 = 0 + o /\ k \in 0..Len(t) /\ 0 \in 0..k
        /\ k \in 0..Len(s) /\ 0 \in 0..Len(s)
    BY <1>3, <2>1
  <2> QED
    BY <2>2, <2>3, SumsShift
<1>5. Sums(t)[Len(t)] - Sums(t)[k] = Sums(s)[Len(s)] - Sums(s)[i]
  <2>0. PICK o \in Int : o = 1
    OBVIOUS
  <2>1. ASSUME NEW x \in 1..Len(t), x > k PROVE t[x].value = s[x + o].value
    <3>1. x \in 1..(Len(s) - 1) /\ ~(x < i) /\ x + o = x + 1
      BY <1>0, <1>1, <1>2, <2>0, <2>1
    <3> QED
      BY <1>1, <3>1
  <2>2. /\ k \in 0..Len(t) /\ Len(t) \in 0..Len(t) /\ i \in 0..Len(s) /\ Len(s) \in 0..Len(s)
        /\ i = k + o /\ Len(s) = Len(t) + o
    BY <1>3, <2>0
  <2>3. k \in 0..Len(t)
    BY <2>2
  <2>4. PICK d, c : d = Len(t) /\ c = Len(s)
    OBVIOUS
  <2>5. /\ d \in 0..Len(t) /\ k \in 0..d /\ i \in 0..Len(s) /\ c \in 0..Len(s)
        /\ i = k + o /\ c = d + o
    BY <2>2, <2>3, <2>4
  <2>6. \A x \in 1..d : x > k => t[x].value = s[x + o].value
    BY <2>1, <2>4
  <2>7. Sums(t)[d] - Sums(t)[k] = Sums(s)[c] - Sums(s)[i]
    BY <2>5, <2>6, SumsShift
  <2> QED
    BY <2>4, <2>7
<1>6. Sums(s)[i] = Sums(s)[k] + Size[s[i].value]
  BY <1>2, BytesNat
<1>7. /\ Sums(t)[Len(t)] \in Nat /\ Sums(t)[k] \in Nat /\ Sums(s)[Len(s)] \in Nat
      /\ Sums(s)[k] \in Nat /\ Sums(s)[i] \in Nat /\ Sums(t)[0] = 0 /\ Sums(s)[0] = 0
  BY <1>1, <1>3, BytesNat
<1>8. Sums(t)[k] = Sums(s)[k]
  BY <1>3, <1>4, <1>7
<1>9. Sums(t)[Len(t)] - Sums(t)[k] = Sums(s)[Len(s)] - Sums(s)[i]
  BY <1>3, <1>5
<1>10. Sums(t)[Len(t)] = Sums(s)[Len(s)] - Size[s[i].value]
  <2>1. PICK x \in Nat : x = Sums(t)[Len(t)]
    BY <1>7
  <2>2. PICK y \in Nat : y = Sums(s)[Len(s)]
    BY <1>7
  <2>3. PICK z \in Nat : z = Size[s[i].value]
    BY <1>0
  <2>4. PICK w \in Nat : w = Sums(s)[k] /\ w = Sums(t)[k]
    BY <1>7, <1>8
  <2>5. x - w = y - (w + z)
    BY <1>6, <1>9, <2>1, <2>2, <2>3, <2>4
  <2>6. x = y - z
    BY <2>5
  <2> QED
    BY <2>1, <2>2, <2>3, <2>6
<1> QED
  BY <1>1, <1>10 DEF Bytes

\* Lists that hold the same values hold the same bytes.
LEMMA BytesAlike ==
  ASSUME NEW s \in Seq(Entry), NEW t \in Seq(Entry)
  PROVE  (Len(s) = Len(t) /\ \A x \in 1..Len(s) : t[x].value = s[x].value) => Bytes(t) = Bytes(s)
<1>1. ASSUME Len(s) = Len(t), \A x \in 1..Len(s) : t[x].value = s[x].value
      PROVE  Bytes(t) = Bytes(s)
  <2>0. Len(s) \in Nat
    BY LenProperties
  <2>1. PICK o \in Int : o = 0
    OBVIOUS
  <2>2. PICK d : d = Len(t) /\ d = Len(s)
    BY <1>1
  <2>3. /\ d = d + o /\ 0 = 0 + o /\ d \in 0..Len(t) /\ 0 \in 0..d
        /\ d \in 0..Len(s) /\ 0 \in 0..Len(s)
    BY <1>1, <2>0, <2>1, <2>2
  <2>4. \A x \in 1..d : x > 0 => t[x].value = s[x + o].value
    BY <1>1, <2>0, <2>1, <2>2
  <2>5. Sums(t)[d] - Sums(t)[0] = Sums(s)[d] - Sums(s)[0]
    BY <2>3, <2>4, SumsShift
  <2>6. Sums(t)[0] = 0 /\ Sums(s)[0] = 0 /\ Sums(t)[d] \in Nat /\ Sums(s)[d] \in Nat
    BY <2>2, BytesNat DEF Bytes
  <2>7. Sums(t)[d] = Sums(s)[d]
    BY <2>5, <2>6
  <2> QED
    BY <2>2, <2>7 DEF Bytes
<1> QED
  BY <1>1

-----------------------------------------------------------------------------
(* The cache.  Its entries are in the order of their last use.              *)

\* Entries that may stand in the cache together: one for each key, with the latest value
\* set for it, and in the order of their keys' last use.
Sound(s, rec, lat) ==
  /\ s \in Seq(Entry)
  /\ \A i, j \in 1..Len(s) : s[i].key = s[j].key => i = j
  /\ \A i \in 1..Len(s) : s[i].value = lat[s[i].key]
  /\ \A i, j \in 1..Len(s) : i < j => <<s[i].key, s[j].key>> \in rec

\* The two histories: the latest value of each key, and which key was used before which.
Histories ==
  /\ latest \in [Keys -> Values \cup {"none"}]
  /\ recency \subseteq Keys \X Keys /\ \A p \in recency : <<p[2], p[1]>> \notin recency

\* The inductive invariant of TTLCache: sound entries, and bytes is what they hold.
CacheInv ==
  /\ Sound(entries, recency, latest) /\ Histories
  /\ bytes = Bytes(entries) /\ Len(entries) <= MaxEntries /\ bytes <= MaxBytes

\* t is s without some of its entries: g says where in s each entry of t is.
Embeds(t, s, g) ==
  /\ g \in [1..Len(t) -> 1..Len(s)]
  /\ \A x, y \in 1..Len(t) : x < y => g[x] < g[y]
  /\ \A x \in 1..Len(t) : t[x] = s[g[x]]

\* Entries that are left out leave the others sound.
LEMMA FewerAreSound ==
  ASSUME NEW s, NEW t \in Seq(Entry), NEW g, NEW rec, NEW lat, Embeds(t, s, g), Sound(s, rec, lat)
  PROVE  Sound(t, rec, lat)
<1>1. Len(t) \in Nat /\ Len(s) \in Nat
  BY LenProperties DEF Sound
<1>2. \A x \in 1..Len(t) : g[x] \in 1..Len(s) /\ t[x] = s[g[x]]
  BY DEF Embeds
<1>3. ASSUME NEW i \in 1..Len(t), NEW j \in 1..Len(t), t[i].key = t[j].key PROVE i = j
  <2>1. g[i] = g[j]
    BY <1>2, <1>3 DEF Sound
  <2>2. ~(i < j) /\ ~(j < i)
    BY <1>2, <2>1 DEF Embeds
  <2> QED
    BY <1>1, <2>2
<1>4. \A i \in 1..Len(t) : t[i].value = lat[t[i].key]
  BY <1>2 DEF Sound
<1>5. ASSUME NEW i \in 1..Len(t), NEW j \in 1..Len(t), i < j PROVE <<t[i].key, t[j].key>> \in rec
  <2>1. g[i] < g[j]
    BY <1>5 DEF Embeds
  <2> QED
    BY <1>2, <2>1 DEF Sound
<1> QED
  BY <1>3, <1>4, <1>5 DEF Sound

\* A key that the cache holds has an entry, and Position finds it.
LEMMA FoundAt ==
  ASSUME NEW k, Holds(k), entries \in Seq(Entry)
  PROVE  /\ Position(k) \in 1..Len(entries) /\ entries[Position(k)].key = k
         /\ EntryOf(k) \in Entry /\ EntryOf(k).key = k /\ Size[EntryOf(k).value] \in Nat
<1>1. DOMAIN entries = 1..Len(entries)
  BY EntryParts
<1>2. Position(k) \in 1..Len(entries) /\ entries[Position(k)].key = k
  BY <1>1 DEF Holds, Position
<1> QED
  BY <1>2, EntryParts DEF EntryOf

\* Without(k) is the list with the entry of k taken out, and its bytes with it.
LEMMA WithoutIs ==
  ASSUME CacheInv, NEW k \in Keys
  PROVE  /\ Without(k) \in Seq(Entry)
         /\ Bytes(Without(k)) = bytes - Freed(k) /\ Freed(k) \in Nat
         /\ Len(Without(k)) <= Len(entries)
         /\ \A x \in 1..Len(Without(k)) : Without(k)[x].key # k
         /\ Sound(Without(k), recency, latest)
         /\ \A i \in 1..Len(entries) : entries[i].key # k =>
              \E x \in 1..Len(Without(k)) : Without(k)[x] = entries[i]
         /\ \E g : Embeds(Without(k), entries, g)
<1>0. /\ entries \in Seq(Entry) /\ Len(entries) \in Nat /\ DOMAIN entries = 1..Len(entries)
      /\ bytes = Bytes(entries) /\ Bytes(entries) \in Nat
  BY EntryParts, BytesNat DEF CacheInv, Sound
<1>1. CASE ~Holds(k)
  <2>1. Without(k) = entries /\ Freed(k) = 0
    BY <1>1 DEF Without, Freed
  <2>2. \A x \in 1..Len(entries) : entries[x].key # k
    BY <1>0, <1>1 DEF Holds
  <2>3. PICK g : g = [x \in 1..Len(entries) |-> x]
    OBVIOUS
  <2>4. Embeds(entries, entries, g)
    BY <2>3 DEF Embeds
  <2> QED
    BY <1>0, <2>1, <2>2, <2>4 DEF CacheInv
<1>2. CASE Holds(k)
  <2>1. PICK p \in 1..Len(entries) : p = Position(k) /\ entries[p].key = k
    BY <1>0, <1>2, FoundAt
  <2>2. PICK w \in Seq(Entry) :
          /\ w = Without(k) /\ Len(w) = Len(entries) - 1
          /\ Bytes(w) = bytes - Size[entries[p].value]
          /\ \A x \in 1..(Len(entries) - 1) : w[x] = IF x < p THEN entries[x] ELSE entries[x + 1]
    BY <1>0, <1>2, <2>1, RemoveAtIs, BytesRemoved DEF Without
  <2>3. Freed(k) = Size[entries[p].value] /\ Freed(k) \in Nat
    BY <1>0, <1>2, <2>1, EntryParts DEF Freed, EntryOf
  <2>4. PICK g : g = [x \in 1..Len(w) |-> IF x < p THEN x ELSE x + 1]
    OBVIOUS
  <2>5. \A x \in 1..Len(w) : /\ g[x] = IF x < p THEN x ELSE x + 1
                             /\ g[x] \in 1..Len(entries) /\ g[x] # p /\ w[x] = entries[g[x]]
    <3> SUFFICES ASSUME NEW x \in 1..Len(w)
                 PROVE  /\ g[x] = IF x < p THEN x ELSE x + 1
                        /\ g[x] \in 1..Len(entries) /\ g[x] # p /\ w[x] = entries[g[x]]
      OBVIOUS
    <3>1. g[x] = IF x < p THEN x ELSE x + 1
      BY <2>4
    <3> QED
      BY <1>0, <2>2, <3>1
  <2>6. Embeds(w, entries, g)
    <3>1. g \in [1..Len(w) -> 1..Len(entries)]
      BY <2>4, <2>5
    <3>2. \A x, y \in 1..Len(w) : x < y => g[x] < g[y]
      BY <1>0, <2>2, <2>5
    <3> QED
      BY <2>5, <3>1, <3>2 DEF Embeds
  <2>7. \A x \in 1..Len(w) : w[x].key # k
    BY <2>1, <2>5 DEF CacheInv, Sound
  <2>8. Sound(w, recency, latest)
    BY <2>6, FewerAreSound DEF CacheInv
  <2>9. ASSUME NEW i \in 1..Len(entries), entries[i].key # k
        PROVE  \E x \in 1..Len(w) : w[x] = entries[i]
    <3>1. i # p
      BY <2>1, <2>9
    <3>2. CASE i < p
      <4>1. i \in 1..Len(w) /\ w[i] = entries[i]
        BY <1>0, <2>2, <3>2
      <4> QED
        BY <4>1
    <3>3. CASE i > p
      <4>1. i - 1 \in 1..Len(w) /\ ~(i - 1 < p) /\ (i - 1) + 1 = i
        BY <1>0, <2>2, <3>3
      <4>2. w[i - 1] = entries[i]
        BY <2>2, <4>1
      <4> QED
        BY <4>1, <4>2
    <3> QED
      BY <1>0, <3>1, <3>2, <3>3
  <2>10. Len(w) <= Len(entries)
    BY <1>0, <2>2
  <2>11. Bytes(w) = bytes - Freed(k)
    BY <2>2, <2>3
  <2> QED
    BY <2>2, <2>3, <2>6, <2>7, <2>8, <2>9, <2>10, <2>11
<1> QED
  BY <1>1, <1>2

\* The order of last use once k is used: all other keys were used before it.
Touched(rec, k) == {p \in rec : k \notin {p[1], p[2]}} \cup ((Keys \ {k}) \X {k})

\* It stays an order in which no two keys come before each other.
LEMMA TouchKeeps ==
  ASSUME NEW k \in Keys, Histories
  PROVE  /\ Touched(recency, k) \subseteq Keys \X Keys
         /\ \A p \in Touched(recency, k) : <<p[2], p[1]>> \notin Touched(recency, k)
BY DEF Histories, Touched

\* What Append gives, position by position.
LEMMA Appended ==
  ASSUME NEW t \in Seq(Entry), NEW e \in Entry
  PROVE  /\ Append(t, e) \in Seq(Entry) /\ Len(Append(t, e)) = Len(t) + 1
         /\ Append(t, e)[Len(t) + 1] = e
         /\ \A x \in 1..Len(t) : Append(t, e)[x] = t[x]
BY AppendProperties

\* An entry of k behind a sound list without k.
LEMMA AppendIsSound ==
  ASSUME NEW t, NEW e \in Entry, NEW rec, NEW lat, NEW new,
         Sound(t, rec, lat), \A x \in 1..Len(t) : t[x].key # e.key,
         new[e.key] = e.value, \A l \in Keys \ {e.key} : new[l] = lat[l]
  PROVE  Sound(Append(t, e), Touched(rec, e.key), new)
<1>0. t \in Seq(Entry) /\ Len(t) \in Nat
  BY LenProperties DEF Sound
<1>1. PICK s \in Seq(Entry) :
        /\ s = Append(t, e) /\ Len(s) = Len(t) + 1 /\ s[Len(t) + 1] = e
        /\ \A x \in 1..Len(t) : s[x] = t[x]
  <2>1. PICK s : s = Append(t, e)
    OBVIOUS
  <2>2. /\ s \in Seq(Entry) /\ Len(s) = Len(t) + 1 /\ s[Len(t) + 1] = e
        /\ \A x \in 1..Len(t) : s[x] = t[x]
    BY <1>0, <2>1, Appended
  <2> QED
    BY <2>1, <2>2
<1>2. \A x \in 1..Len(s) : x \in 1..Len(t) \/ x = Len(t) + 1
  BY <1>0, <1>1
<1>3. \A x \in 1..Len(t) : t[x].key \in Keys \ {e.key}
  BY <1>0, EntryParts
<1>4. ASSUME NEW i \in 1..Len(s), NEW j \in 1..Len(s), s[i].key = s[j].key PROVE i = j
  <2>1. CASE i \in 1..Len(t) /\ j \in 1..Len(t)
    BY <1>1, <1>4, <2>1 DEF Sound
  <2>2. CASE i = Len(t) + 1 \/ j = Len(t) + 1
    BY <1>1, <1>2, <1>3, <1>4, <2>2
  <2> QED
    BY <1>2, <2>1, <2>2
<1>5. \A i \in 1..Len(s) : s[i].value = new[s[i].key]
  BY <1>1, <1>2, <1>3 DEF Sound
<1>6. ASSUME NEW i \in 1..Len(s), NEW j \in 1..Len(s), i < j
      PROVE  <<s[i].key, s[j].key>> \in Touched(rec, e.key)
  <2>1. i \in 1..Len(t) /\ s[i].key \in Keys \ {e.key}
    BY <1>0, <1>1, <1>2, <1>3, <1>6
  <2>2. CASE j = Len(t) + 1
    BY <1>1, <2>1, <2>2 DEF Touched
  <2>3. CASE j \in 1..Len(t)
    <3>1. <<s[i].key, s[j].key>> \in rec /\ s[j].key # e.key
      BY <1>1, <1>3, <1>6, <2>1, <2>3 DEF Sound
    <3> QED
      BY <2>1, <3>1 DEF Touched
  <2> QED
    BY <1>2, <2>2, <2>3
<1> QED
  BY <1>1, <1>4, <1>5, <1>6 DEF Sound

\* get() of a fresh entry moves it behind all others (move_to_end) and changes no bytes.
LEMMA HitKeeps ==
  ASSUME CacheInv, NEW k \in Keys, Hit(k)
  PROVE  CacheInv'
<1>1. PICK w : w = Without(k)
  OBVIOUS
<1>2. PICK e : e = EntryOf(k)
  OBVIOUS
<1>3. /\ w \in Seq(Entry) /\ Bytes(w) = bytes - Freed(k)
      /\ \A x \in 1..Len(w) : w[x].key # k
      /\ Sound(w, recency, latest)
  BY <1>1, WithoutIs
<1>4. /\ entries \in Seq(Entry) /\ Holds(k) /\ Len(entries) \in Nat
      /\ bytes = Bytes(entries) /\ bytes \in Nat
  BY EntryParts, BytesNat DEF CacheInv, Sound, Hit
<1>5. e \in Entry /\ e.key = k /\ Size[e.value] \in Nat /\ Freed(k) = Size[e.value]
  BY <1>2, <1>4, FoundAt DEF Freed
<1>6. e.value = latest[k]
  BY <1>2, <1>4, FoundAt DEF CacheInv, Sound, EntryOf
<1>7. Len(w) = Len(entries) - 1
  BY <1>1, <1>4, FoundAt, RemoveAtIs DEF Without
<1>8. entries' = Append(w, e) /\ recency' = Touched(recency, k) /\ UNCHANGED <<bytes, latest>>
  BY <1>1, <1>2 DEF Hit, Refreshed, Touch, Touched
<1>9. Sound(Append(w, e), Touched(recency, k), latest)
  BY <1>3, <1>5, <1>6, AppendIsSound
<1>10. Bytes(Append(w, e)) = Bytes(w) + Size[e.value]
  BY <1>3, <1>5, BytesAppend
<1>11. Len(Append(w, e)) = Len(entries)
  BY <1>3, <1>4, <1>5, <1>7, AppendProperties
<1>12. Histories'
  BY <1>8, TouchKeeps DEF CacheInv, Histories
<1>13. Bytes(Append(w, e)) = bytes
  BY <1>3, <1>4, <1>5, <1>10
<1> QED
  BY <1>8, <1>9, <1>11, <1>12, <1>13 DEF CacheInv

\* What a set that is not refused leaves of the entries and the new one.
LEMMA SetLeaves ==
  ASSUME CacheInv, NEW k \in Keys, NEW v \in Values, NEW ttl \in TTLs, Set(k, v, ttl), ~TooBig(v)
  PROVE  \E added \in Seq(Entry) : \E i \in 0..(Len(added) - 1) :
           /\ added = Append(Without(k), [key |-> k, value |-> v, left |-> ttl])
           /\ entries' = SubSeq(added, i + 1, Len(added))
           /\ bytes' = Bytes(entries') /\ Len(entries') <= MaxEntries /\ bytes' <= MaxBytes
            /\ Sound(added, Touched(recency, k), latest')
           /\ Sound(entries', Touched(recency, k), latest')
           /\ recency' = Touched(recency, k)
<1>1. PICK w : w = Without(k)
  OBVIOUS
<1>2. PICK e : e = [key |-> k, value |-> v, left |-> ttl]
  OBVIOUS
<1>3. /\ w \in Seq(Entry) /\ Bytes(w) = bytes - Freed(k) /\ Freed(k) \in Nat
      /\ \A x \in 1..Len(w) : w[x].key # k
      /\ Sound(w, recency, latest)
  BY <1>1, WithoutIs
<1>4. e \in Entry /\ e.key = k /\ e.value = v
  BY <1>2, CacheAssumption DEF Entry
<1>5. Size[v] \in Nat /\ Size[v] <= MaxBytes
  BY CacheAssumption DEF TooBig
<1>6. PICK added \in Seq(Entry) : /\ added = Append(w, e) /\ Len(added) = Len(w) + 1
                                  /\ added[Len(w) + 1] = e
  <2>1. PICK s : s = Append(w, e)
    OBVIOUS
  <2>2. s \in Seq(Entry) /\ Len(s) = Len(w) + 1 /\ s[Len(w) + 1] = e
    BY <1>3, <1>4, <2>1, Appended
  <2> QED
    BY <2>1, <2>2
<1>7. Len(w) \in Nat /\ Len(added) \in Nat /\ Bytes(added) \in Nat /\ Bytes(w) \in Nat
      /\ bytes = Bytes(entries) /\ Bytes(entries) \in Nat
  BY <1>3, <1>6, LenProperties, BytesNat DEF CacheInv, Sound
<1>8. PICK total : total = bytes - Freed(k) + Size[v]
  OBVIOUS
<1>9. total = Bytes(added)
  <2>1. Bytes(added) = Bytes(w) + Size[v]
    BY <1>3, <1>4, <1>6, BytesAppend
  <2> QED
    BY <1>3, <1>5, <1>7, <1>8, <2>1
<1>10. /\ \E i \in 0..Len(added) : EvictFirst(i, added, total)
       /\ recency' = Touched(recency, k) /\ latest' = [latest EXCEPT ![k] = v]
  BY <1>1, <1>2, <1>6, <1>8 DEF Set, Touch, Touched
<1>11. PICK i \in 0..Len(added) : EvictFirst(i, added, total)
  BY <1>10
<1>12. /\ \A j \in 0..(i - 1) :
            OverLimit(SubSeq(added, j + 1, Len(added)), total - Sums(added)[j])
       /\ i = Len(added) \/ ~OverLimit(SubSeq(added, i + 1, Len(added)), total - Sums(added)[i])
       /\ entries' = SubSeq(added, i + 1, Len(added)) /\ bytes' = total - Sums(added)[i]
  BY <1>11 DEF EvictFirst
<1>13. i # Len(added)
  <2> SUFFICES ASSUME i = Len(added) PROVE FALSE
    OBVIOUS
  <2>1. PICK n \in 0..(i - 1) : n = Len(w)
    BY <1>6, <1>7
  <2>2. OverLimit(SubSeq(added, n + 1, Len(added)), total - Sums(added)[n])
    BY <1>12
  <2>3. n \in 0..Len(added) /\ Len(added) - n = 1 /\ n + 1 \in 1..Len(added) /\ Len(added) = n + 1
    BY <1>6, <1>7, <2>1
  <2>4. Len(SubSeq(added, n + 1, Len(added))) = 1
    BY <2>3, BytesOfRest
  <2>5. Sums(added)[n + 1] = Sums(added)[(n + 1) - 1] + Size[added[n + 1].value]
    BY <2>3, BytesNat
  <2>6. Sums(added)[n + 1] = Sums(added)[n] + Size[v] /\ Sums(added)[n] \in Nat
    <3>1. (n + 1) - 1 = n /\ added[n + 1].value = v
      BY <1>4, <1>6, <2>1
    <3>2. Sums(added)[n] \in Nat
      BY <2>3, BytesNat
    <3> QED
      BY <2>5, <3>1, <3>2
  <2>7. total = Sums(added)[n + 1]
    BY <1>9, <2>3 DEF Bytes
  <2>8. total - Sums(added)[n] = Size[v]
    BY <1>5, <2>6, <2>7
  <2> QED
    BY <1>5, <2>2, <2>4, <2>8, CacheAssumption DEF OverLimit
<1>14. PICK r \in Seq(Entry) :
         /\ r = SubSeq(added, i + 1, Len(added)) /\ Len(r) = Len(added) - i
         /\ \A x \in 1..(Len(added) - i) : r[x] = added[i + x]
         /\ Bytes(r) = Bytes(added) - Sums(added)[i]
  BY BytesOfRest
<1>15. entries' = r /\ bytes' = Bytes(r)
  BY <1>9, <1>12, <1>14
<1>16. Len(r) <= MaxEntries /\ Bytes(r) <= MaxBytes
  <2>1. ~OverLimit(r, Bytes(r))
    BY <1>9, <1>12, <1>13, <1>14
  <2>2. Bytes(r) \in Nat /\ Len(r) \in Nat
    BY BytesNat, LenProperties
  <2> QED
    BY <2>1, <2>2, CacheAssumption DEF OverLimit
<1>17. Sound(added, Touched(recency, k), latest')
  <2>1. latest'[k] = v /\ \A l \in Keys \ {k} : latest'[l] = latest[l]
    BY <1>10 DEF CacheInv, Histories
  <2> QED
    BY <1>3, <1>4, <1>6, <2>1, AppendIsSound
<1>18. Sound(r, Touched(recency, k), latest')
  <2>1. PICK g : g = [x \in 1..Len(r) |-> i + x]
    OBVIOUS
  <2>2. Embeds(r, added, g)
    <3>1. \A x \in 1..Len(r) : g[x] = i + x /\ i + x \in 1..Len(added)
      BY <1>7, <1>14, <2>1
    <3>2. g \in [1..Len(r) -> 1..Len(added)]
      BY <2>1, <3>1
    <3> QED
      BY <1>7, <1>14, <3>1, <3>2 DEF Embeds
  <2> QED
    BY <1>17, <2>2, FewerAreSound
<1>19. i \in 0..(Len(added) - 1)
  BY <1>7, <1>13
<1> QED
  BY <1>1, <1>2, <1>6, <1>10, <1>12, <1>14, <1>15, <1>16, <1>17, <1>18, <1>19

\* set() keeps the invariant, whether it refuses the value for its size or evicts for it.
LEMMA SetKeeps ==
  ASSUME CacheInv, NEW k \in Keys, NEW v \in Values, NEW ttl \in TTLs, Set(k, v, ttl)
  PROVE  CacheInv'
<1>0. latest' = [latest EXCEPT ![k] = v]
  BY DEF Set
<1>1. latest' \in [Keys -> Values \cup {"none"}]
  BY <1>0 DEF CacheInv, Histories
<1>2. CASE TooBig(v)
  <2>1. entries' = Without(k) /\ bytes' = bytes - Freed(k) /\ UNCHANGED recency
    BY <1>2 DEF Set, Drop
  <2>2. PICK w : w = Without(k)
    OBVIOUS
  <2>3. /\ w \in Seq(Entry) /\ Bytes(w) = bytes - Freed(k) /\ Freed(k) \in Nat
        /\ Len(w) <= Len(entries) /\ \A x \in 1..Len(w) : w[x].key # k
        /\ Sound(w, recency, latest)
    BY <2>2, WithoutIs
  <2>4. \A x \in 1..Len(w) : w[x].value = latest'[w[x].key]
    <3>1. \A x \in 1..Len(w) : w[x].key \in Keys
      BY <2>3, EntryParts
    <3> QED
      BY <1>0, <2>3, <3>1 DEF Sound, CacheInv, Histories
  <2>5. Sound(w, recency, latest')
    BY <2>3, <2>4 DEF Sound
  <2>6. bytes \in Nat /\ Len(w) \in Nat /\ Len(entries) \in Nat
    BY <2>3, BytesNat, LenProperties DEF CacheInv, Sound
  <2>7. Len(w) <= MaxEntries /\ bytes - Freed(k) <= MaxBytes
    BY <2>3, <2>6, CacheAssumption DEF CacheInv
  <2>8. Histories'
    BY <1>1, <2>1 DEF CacheInv, Histories
  <2> QED
    BY <2>1, <2>2, <2>3, <2>5, <2>7, <2>8 DEF CacheInv
<1>3. CASE ~TooBig(v)
  <2>1. /\ Sound(entries', Touched(recency, k), latest') /\ recency' = Touched(recency, k)
        /\ bytes' = Bytes(entries') /\ Len(entries') <= MaxEntries /\ bytes' <= MaxBytes
    BY <1>3, SetLeaves
  <2>2. Histories'
    BY <1>1, <2>1, TouchKeeps DEF CacheInv, Histories
  <2> QED
    BY <2>1, <2>2 DEF CacheInv
<1> QED
  BY <1>2, <1>3

\* get() of an entry that is over drops it, with its bytes.
LEMMA ExpireKeeps ==
  ASSUME CacheInv, NEW k \in Keys, Expire(k)
  PROVE  CacheInv'
<1>1. PICK w : w = Without(k)
  OBVIOUS
<1>2. /\ w \in Seq(Entry) /\ Bytes(w) = bytes - Freed(k) /\ Freed(k) \in Nat
      /\ Len(w) <= Len(entries) /\ Sound(w, recency, latest)
  BY <1>1, WithoutIs
<1>3. entries' = w /\ bytes' = bytes - Freed(k) /\ UNCHANGED <<latest, recency>>
  BY <1>1 DEF Expire, Freed
<1>4. bytes \in Nat /\ Len(w) \in Nat /\ Len(entries) \in Nat
  BY <1>2, BytesNat, LenProperties DEF CacheInv, Sound
<1>5. Len(w) <= MaxEntries /\ bytes - Freed(k) <= MaxBytes
  BY <1>2, <1>4, CacheAssumption DEF CacheInv
<1>6. Histories'
  BY <1>3 DEF CacheInv, Histories
<1> QED
  BY <1>2, <1>3, <1>5, <1>6 DEF CacheInv

\* aclose() leaves an empty cache.
LEMMA CloseKeeps ==
  ASSUME CacheInv, Close
  PROVE  CacheInv'
<1>1. entries' = <<>> /\ bytes' = 0 /\ UNCHANGED <<latest, recency>>
  BY DEF Close
<1>2. Sound(<<>>, recency, latest)
  BY BytesEmpty DEF Sound
<1>3. Histories'
  BY <1>1 DEF CacheInv, Histories
<1>4. Len(<<>>) <= MaxEntries /\ 0 <= MaxBytes
  BY CacheAssumption
<1> QED
  BY <1>1, <1>2, <1>3, <1>4, BytesEmpty DEF CacheInv

\* What the passing of time leaves of the entries: all but their time left.
LEMMA AgeIs ==
  ASSUME entries \in Seq(Entry), AgeEntries
  PROVE  /\ entries' \in Seq(Entry) /\ Len(entries') = Len(entries)
         /\ \A i \in 1..Len(entries) :
              /\ entries'[i].key = entries[i].key /\ entries'[i].value = entries[i].value
               /\ entries'[i].left =
                   IF entries[i].left = Expired THEN Expired ELSE entries[i].left - 1
<1>1. /\ DOMAIN entries = 1..Len(entries) /\ Len(entries) \in Nat
      /\ \A i \in 1..Len(entries) : entries[i] \in Entry
  BY EntryParts
<1>2. PICK s : s = [i \in 1..Len(entries) |->
                      [entries[i] EXCEPT !.left = IF @ = Expired THEN @ ELSE @ - 1]]
  OBVIOUS
<1>3. entries' = s
  BY <1>1, <1>2 DEF AgeEntries
<1>4. ASSUME NEW i \in 1..Len(entries)
      PROVE  /\ s[i] \in Entry /\ s[i].key = entries[i].key /\ s[i].value = entries[i].value
             /\ s[i].left = IF entries[i].left = Expired THEN Expired ELSE entries[i].left - 1
  <2>1. PICK e \in Entry : e = entries[i]
    BY <1>1
  <2>2. PICK left : left = IF e.left = Expired THEN e.left ELSE e.left - 1
    OBVIOUS
  <2>3. s[i] = [e EXCEPT !.left = left]
    BY <1>2, <2>1, <2>2
  <2>4. left \in Nat \cup {Expired}
    BY <2>2 DEF Entry, Expired
  <2>5. s[i] \in Entry /\ s[i].key = e.key /\ s[i].value = e.value /\ s[i].left = left
    BY <2>3, <2>4 DEF Entry
  <2> QED
    BY <2>1, <2>2, <2>5
<1>5. s \in Seq(Entry) /\ Len(s) = Len(entries)
  <2>1. s \in [1..Len(entries) -> Entry]
    BY <1>2, <1>4
  <2> QED
    BY <1>1, <2>1
<1> QED
  BY <1>3, <1>4, <1>5

\* So time keeps the invariant.
LEMMA AgeKeeps ==
  ASSUME CacheInv, AgeEntries
  PROVE  CacheInv'
<1>1. PICK s : s = entries'
  OBVIOUS
<1>2. /\ s \in Seq(Entry) /\ Len(s) = Len(entries)
      /\ \A i \in 1..Len(entries) : s[i].key = entries[i].key /\ s[i].value = entries[i].value
  BY <1>1, AgeIs DEF CacheInv, Sound
<1>3. Bytes(s) = Bytes(entries)
  <2>1. /\ entries \in Seq(Entry) /\ Len(entries) = Len(s)
        /\ \A x \in 1..Len(entries) : s[x].value = entries[x].value
    BY <1>2 DEF CacheInv, Sound
  <2> QED
    BY <1>2, <2>1, BytesAlike
<1>4. Sound(s, recency, latest)
  BY <1>2 DEF CacheInv, Sound
<1>5. UNCHANGED <<bytes, latest, recency>>
  BY DEF AgeEntries
<1>6. Histories'
  BY <1>5 DEF CacheInv, Histories
<1> QED
  BY <1>1, <1>2, <1>3, <1>4, <1>5, <1>6 DEF CacheInv

\* A cache starts empty.
LEMMA CacheStart == CacheInit => CacheInv
<1> SUFFICES ASSUME CacheInit PROVE CacheInv
  OBVIOUS
<1>1. Sound(<<>>, {}, latest)
  BY BytesEmpty DEF Sound
<1>2. Histories
  BY DEF CacheInit, Histories
<1>3. Len(<<>>) <= MaxEntries /\ 0 <= MaxBytes
  BY CacheAssumption
<1> QED
  BY <1>1, <1>2, <1>3, BytesEmpty DEF CacheInit, CacheInv

\* Every step of the cache keeps its invariant.
LEMMA CacheKept ==
  ASSUME CacheInv, [CacheNext]_cacheVars
  PROVE  CacheInv'
<1>1. ASSUME NEW k \in Keys, Get(k) PROVE CacheInv'
  <2>1. CASE Miss(k)
    BY <2>1 DEF Miss, cacheVars, CacheInv, Histories
  <2> QED
    BY <1>1, <2>1, HitKeeps, ExpireKeeps DEF Get
<1>2. CASE UNCHANGED cacheVars
  BY <1>2 DEF cacheVars, CacheInv, Histories
<1> QED
  BY <1>1, <1>2, SetKeeps, CloseKeeps, AgeKeeps DEF CacheNext

\* The entries, their order and the byte count of TTLCache agree at all times.
THEOREM CacheInvariance == CacheSpec => []CacheInv
<1>1. CacheInv /\ [CacheNext]_cacheVars => CacheInv'
  BY CacheKept
<1> QED
  BY <1>1, CacheStart, PTL DEF CacheSpec

\* What the runs check of a state of the cache follows from its invariant.
LEMMA CacheInvGives ==
  CacheInv => BytesAreAccounted /\ WithinLimits /\ NeverStale
<1> SUFFICES ASSUME CacheInv PROVE BytesAreAccounted /\ WithinLimits /\ NeverStale
  OBVIOUS
<1>1. DOMAIN entries = 1..Len(entries) /\ \A i \in 1..Len(entries) : entries[i] \in Entry
  BY EntryParts DEF CacheInv, Sound
<1>2. bytes \in Nat
  BY BytesNat DEF CacheInv, Sound
<1>3. CacheTypeOK
  BY <1>1, <1>2 DEF CacheInv, Sound, Histories, CacheTypeOK
<1>4. NeverStale
  BY <1>1 DEF CacheInv, Sound, NeverStale
<1> QED
  BY <1>3, <1>4 DEF CacheInv, BytesAreAccounted, WithinLimits

\* What a set gives up was used before all that it keeps.
LEMMA SetEvictsOldest ==
  ASSUME CacheInv, NEW k \in Keys, NEW v \in Values, NEW ttl \in TTLs,
         Set(k, v, ttl), Size[v] <= MaxBytes
  PROVE  /\ k \in KeysIn(entries')
         /\ \A out \in KeysIn(entries) \ KeysIn(entries'), kept \in KeysIn(entries') \ {k} :
              UsedBefore(out, kept)
<1>0. entries \in Seq(Entry) /\ DOMAIN entries = 1..Len(entries) /\ ~TooBig(v)
  <2>1. Size[v] \in Nat
    BY CacheAssumption
  <2> QED
    BY <2>1, EntryParts, CacheAssumption DEF CacheInv, Sound, TooBig
<1>1. PICK w : w = Without(k)
  OBVIOUS
<1>2. /\ w \in Seq(Entry) /\ Len(w) \in Nat
      /\ Sound(w, recency, latest)
      /\ \A i \in 1..Len(entries) : entries[i].key # k =>
           \E x \in 1..Len(w) : w[x] = entries[i]
  BY <1>1, WithoutIs, LenProperties
<1>3. PICK e : e = [key |-> k, value |-> v, left |-> ttl]
  OBVIOUS
<1>4. e \in Entry /\ e.key = k
  BY <1>3, CacheAssumption DEF Entry
<1>5. \E added \in Seq(Entry) : \E i \in 0..(Len(added) - 1) :
        added = Append(w, e) /\ entries' = SubSeq(added, i + 1, Len(added))
  BY <1>0, <1>1, <1>3, SetLeaves
<1>6. PICK added \in Seq(Entry) : \E i \in 0..(Len(added) - 1) :
        added = Append(w, e) /\ entries' = SubSeq(added, i + 1, Len(added))
  BY <1>5
<1>7. PICK i \in 0..(Len(added) - 1) :
        added = Append(w, e) /\ entries' = SubSeq(added, i + 1, Len(added))
  BY <1>6
<1>8. /\ Len(added) = Len(w) + 1 /\ added[Len(w) + 1] = e
      /\ \A x \in 1..Len(w) : added[x] = w[x]
  BY <1>2, <1>4, <1>7, Appended
<1>9. /\ entries' \in Seq(Entry) /\ Len(entries') = Len(added) - i
      /\ \A x \in 1..(Len(added) - i) : entries'[x] = added[i + x]
  <2>1. i \in 0..Len(added)
    BY <1>2, <1>8
  <2> QED
    BY <1>7, <2>1, BytesOfRest
<1>10. DOMAIN entries' = 1..(Len(added) - i)
  BY <1>9, EntryParts
<1>11. \A x \in (i + 1)..Len(added) : added[x].key \in KeysIn(entries')
  <2> SUFFICES ASSUME NEW x \in (i + 1)..Len(added) PROVE added[x].key \in KeysIn(entries')
    OBVIOUS
  <2>1. x - i \in 1..(Len(added) - i) /\ i + (x - i) = x
    BY <1>2, <1>8
  <2>2. entries'[x - i] = added[x]
    BY <1>9, <2>1
  <2> QED
    BY <1>10, <2>1, <2>2 DEF KeysIn
<1>12. k \in KeysIn(entries')
  <2>1. Len(w) + 1 \in (i + 1)..Len(added)
    BY <1>2, <1>8
  <2> QED
    BY <1>4, <1>8, <1>11, <2>1
<1>13. ASSUME NEW out \in KeysIn(entries) \ KeysIn(entries'), NEW kept \in KeysIn(entries') \ {k}
       PROVE  UsedBefore(out, kept)
  <2>1. PICK o \in 1..Len(entries) : entries[o].key = out
    BY <1>0 DEF KeysIn
  <2>2. PICK x \in 1..Len(w) : w[x].key = out
    BY <1>2, <1>12, <2>1
  <2>3. x <= i
    <3>1. x \notin (i + 1)..Len(added)
      BY <1>8, <1>11, <2>2
    <3> QED
      BY <1>2, <1>8, <3>1
  <2>4. PICK y \in 1..(Len(added) - i) : entries'[y].key = kept
    BY <1>10 DEF KeysIn
  <2>5. added[i + y].key = kept /\ i + y \in 1..Len(added) /\ i + y # Len(w) + 1
    BY <1>2, <1>4, <1>8, <1>9, <2>4
  <2>6. i + y \in 1..Len(w) /\ w[i + y].key = kept /\ x < i + y
    <3>1. PICK z \in Int : z = i + y
      OBVIOUS
    <3>2. z \in 1..Len(added) /\ z # Len(w) + 1 /\ added[z].key = kept
      BY <2>5, <3>1
    <3>3. z \in 1..Len(w)
      <4>1. Len(w) \in Nat /\ Len(added) = Len(w) + 1
        BY <1>2, <1>8
      <4> QED
        BY <3>2, <4>1
    <3>4. w[z].key = kept
      BY <1>8, <3>2, <3>3
    <3>5. x < z
      BY <1>2, <2>3, <3>1
    <3> QED
      BY <3>1, <3>3, <3>4, <3>5
  <2> QED
    BY <1>2, <2>2, <2>6 DEF Sound, UsedBefore
<1> QED
  BY <1>12, <1>13

\* The running byte count of set(), get() and aclose() is the size of the entries that are
\* there.
THEOREM BytesAreCounted == CacheSpec => []BytesAreAccounted
<1>1. CacheInv => BytesAreAccounted
  BY CacheInvGives
<1> QED
  BY <1>1, CacheInvariance, PTL

\* Whatever is set, the cache is within its two limits between two calls.
THEOREM LimitsHold == CacheSpec => []WithinLimits
<1>1. CacheInv => WithinLimits
  BY CacheInvGives
<1> QED
  BY <1>1, CacheInvariance, PTL

\* A get that finds an entry gives the value of the latest set of its key: a value that set()
\* refuses for its size drops the older one first.
THEOREM ValuesAreCurrent == CacheSpec => []NeverStale
<1>1. CacheInv => NeverStale
  BY CacheInvGives
<1> QED
  BY <1>1, CacheInvariance, PTL

\* A set keeps its own entry, and evicts no entry that was used after one it keeps: get()'s
\* move_to_end and the eviction from the front make it a least-recently-used cache.
THEOREM OldestGoFirst == CacheSpec => EvictsLeastRecent
<1>1. ASSUME CacheInv, [CacheNext]_cacheVars
      PROVE  \A k \in Keys, v \in Values, ttl \in TTLs :
               (Set(k, v, ttl) /\ Size[v] <= MaxBytes) =>
                 /\ k \in KeysIn(entries')
                 /\ \A out \in KeysIn(entries) \ KeysIn(entries'),
                       kept \in KeysIn(entries') \ {k} :
                      UsedBefore(out, kept)
  BY <1>1, SetEvictsOldest
<1> QED
  BY <1>1, CacheInvariance, PTL DEF CacheSpec, EvictsLeastRecent

-----------------------------------------------------------------------------
(* Downloads, and the scripts beside them, use the cache by its operations. *)

\* Downloads in flight are of urls and within their timeout.
FlightsOK ==
  /\ flight \in [Fetchers -> {NoDownload} \cup [url : Urls, left : 0..Timeout]]
  /\ asked \in [Urls -> 0..MaxAge]

\* What an entry may be: of a url, no more than max_asset_bytes, and not too old for
\* as long as it may be served.
EntryOK(e, old) ==
  e.key \in Urls =>
    /\ Size[e.value] <= MaxAsset
    /\ e.left # Expired => old[e.key] + e.left <= CacheTTL + Timeout

EntriesOK == \A i \in 1..Len(entries) : EntryOK(entries[i], asked)
\* What a request is given is no larger and no older than that.
HandedOK ==
  handed # NothingHanded => Size[handed.value] <= MaxAsset /\ handed.age <= CacheTTL + Timeout

\* The inductive invariant of the downloads: that of the cache, and what its entries are.
DownloadInv == CacheInv /\ FlightsOK /\ EntriesOK /\ HandedOK

\* The bounds of the clocks are numbers.
LEMMA Clocks == Timeout \in Nat /\ CacheTTL \in Nat /\ MaxAsset \in Nat /\ MaxAge \in Nat
BY DownloadAssumption, CacheAssumption DEF MaxAge

\* What is known of a download in flight.
LEMMA InFlight ==
  ASSUME FlightsOK, NEW f \in Fetchers, flight[f] # NoDownload
  PROVE  flight[f].url \in Urls /\ flight[f].url \in Keys /\ flight[f].left \in 0..Timeout
<1>1. flight[f] \in [url : Urls, left : 0..Timeout]
  BY DEF FlightsOK
<1> QED
  BY <1>1, DownloadAssumption

\* Every step of the downloads is a step of the cache, or none.
LEMMA CacheStep ==
  ASSUME FlightsOK, [DownloadNext]_downloadVars
  PROVE  [CacheNext]_cacheVars
<1>1. ASSUME NEW f \in Fetchers, NEW u \in Urls, ServeCached(f, u) \/ StartFetch(f, u)
      PROVE  CacheNext
  <2>1. Get(u) /\ u \in Keys
    BY <1>1, DownloadAssumption DEF ServeCached, StartFetch, Get
  <2> QED
    BY <2>1 DEF CacheNext
<1>2. ASSUME NEW f \in Fetchers, NEW v \in Values, NEW type, NEW declared,
             FetchEnds(f, v, declared, type)
      PROVE  CacheNext
  <2>1. Set(flight[f].url, v, CacheTTL) /\ flight[f].url \in Keys
    BY <1>2, InFlight DEF FetchEnds
  <2> QED
    BY <2>1, DownloadAssumption DEF CacheNext
<1>3. ASSUME NEW f \in Fetchers, FetchFails(f) \/ FetchTimesOut(f)
      PROVE  UNCHANGED cacheVars
  BY <1>3 DEF FetchFails, FetchTimesOut
<1>4. ASSUME NEW k \in Keys, UseCache(k) PROVE CacheNext
  BY <1>4, DownloadAssumption DEF UseCache, CacheNext
<1>5. CASE Shutdown \/ TimePasses
  BY <1>5 DEF Shutdown, TimePasses, CacheNext
<1>6. CASE UNCHANGED downloadVars
  BY <1>6 DEF downloadVars
<1> QED
  BY <1>1, <1>2, <1>3, <1>4, <1>5, <1>6 DEF DownloadNext

\* Whatever is done with the cache, an entry is one of the old ones or the new one.
LEMMA GetKeepsEntries ==
  ASSUME CacheInv, NEW k \in Keys, Get(k)
  PROVE  \A x \in 1..Len(entries') : \E i \in 1..Len(entries) : entries'[x] = entries[i]
<1>1. CASE Miss(k)
  BY <1>1 DEF Miss, cacheVars
<1>2. PICK w \in Seq(Entry) : w = Without(k)
  BY WithoutIs
<1>3. PICK g : Embeds(w, entries, g)
  BY <1>2, WithoutIs
<1>4. \A x \in 1..Len(w) : g[x] \in 1..Len(entries) /\ w[x] = entries[g[x]]
  BY <1>3 DEF Embeds
<1>5. CASE Hit(k)
  <2>1. /\ Position(k) \in 1..Len(entries) /\ EntryOf(k) = entries[Position(k)]
        /\ EntryOf(k) \in Entry /\ entries' = Append(w, EntryOf(k))
    BY <1>2, <1>5, FoundAt DEF Hit, Refreshed, CacheInv, Sound, EntryOf
  <2>2. /\ Len(entries') = Len(w) + 1 /\ entries'[Len(w) + 1] = entries[Position(k)]
        /\ \A x \in 1..Len(w) : entries'[x] = w[x]
    BY <2>1, Appended
  <2>3. Len(w) \in Nat
    BY LenProperties
  <2> QED
    BY <1>4, <2>1, <2>2, <2>3
<1>6. CASE Expire(k)
  <2>1. entries' = w
    BY <1>2, <1>6 DEF Expire
  <2> QED
    BY <1>4, <2>1
<1> QED
  BY <1>1, <1>5, <1>6 DEF Get

\* The same for a set.
LEMMA SetKeepsEntries ==
  ASSUME CacheInv, NEW k \in Keys, NEW v \in Values, NEW ttl \in TTLs, Set(k, v, ttl)
  PROVE  \A x \in 1..Len(entries') :
           \/ \E i \in 1..Len(entries) : entries[i].key # k /\ entries'[x] = entries[i]
           \/ entries'[x] = [key |-> k, value |-> v, left |-> ttl]
<1>1. PICK w \in Seq(Entry) : w = Without(k)
  BY WithoutIs
<1>2. PICK g : Embeds(w, entries, g)
  BY <1>1, WithoutIs
<1>3. \A x \in 1..Len(w) : /\ g[x] \in 1..Len(entries) /\ w[x] = entries[g[x]]
                           /\ entries[g[x]].key # k
  BY <1>1, <1>2, WithoutIs DEF Embeds
<1>4. CASE TooBig(v)
  <2>1. entries' = w
    BY <1>1, <1>4 DEF Set, Drop
  <2> QED
    BY <1>3, <2>1
<1>5. CASE ~TooBig(v)
  <2>1. PICK e : e = [key |-> k, value |-> v, left |-> ttl]
    OBVIOUS
  <2>2. e \in Entry
    BY <2>1, CacheAssumption DEF Entry
  <2>3. \E added \in Seq(Entry) : \E i \in 0..(Len(added) - 1) :
          added = Append(w, e) /\ entries' = SubSeq(added, i + 1, Len(added))
    BY <1>1, <1>5, <2>1, SetLeaves
  <2>4. PICK added \in Seq(Entry) : \E i \in 0..(Len(added) - 1) :
          added = Append(w, e) /\ entries' = SubSeq(added, i + 1, Len(added))
    BY <2>3
  <2>5. PICK i \in 0..(Len(added) - 1) :
          added = Append(w, e) /\ entries' = SubSeq(added, i + 1, Len(added))
    BY <2>4
  <2>6. /\ Len(added) = Len(w) + 1 /\ added[Len(w) + 1] = e /\ Len(w) \in Nat
        /\ \A x \in 1..Len(w) : added[x] = w[x]
    BY <2>2, <2>5, Appended, LenProperties
  <2>7. /\ Len(entries') = Len(added) - i
        /\ \A x \in 1..(Len(added) - i) : entries'[x] = added[i + x]
    <3>1. i \in 0..Len(added)
      BY <2>6
    <3> QED
      BY <2>5, <3>1, BytesOfRest
  <2>8. ASSUME NEW x \in 1..Len(entries')
        PROVE  (\E j \in 1..Len(w) : entries'[x] = w[j]) \/ entries'[x] = e
    <3>1. PICK z \in 1..Len(added) : z = i + x /\ entries'[x] = added[z]
      BY <2>6, <2>7
    <3>2. z \in 1..Len(w) \/ z = Len(w) + 1
      BY <2>6
    <3> QED
      BY <2>6, <3>1, <3>2
  <2> QED
    BY <1>3, <2>1, <2>8
<1> QED
  BY <1>4, <1>5

\* No download is in flight at the start.
LEMMA DownloadStart == DownloadInit => DownloadInv
<1> SUFFICES ASSUME DownloadInit PROVE DownloadInv
  OBVIOUS
<1>1. CacheInv
  BY CacheStart DEF DownloadInit
<1>2. FlightsOK /\ HandedOK
  BY Clocks DEF DownloadInit, FlightsOK, HandedOK
<1>3. EntriesOK
  BY DEF DownloadInit, CacheInit, EntriesOK
<1> QED
  BY <1>1, <1>2, <1>3 DEF DownloadInv

\* Every step of a download keeps the invariant: what it stores has been read below the cap,
\* and its age on arrival is at most the timeout.
LEMMA DownloadKept ==
  ASSUME DownloadInv, [DownloadNext]_downloadVars
  PROVE  DownloadInv'
<1>0. CacheInv /\ FlightsOK /\ EntriesOK /\ HandedOK
  BY DEF DownloadInv
<1>1. CacheInv'
  BY <1>0, CacheStep, CacheKept
<1>2. NoDownload \in {NoDownload} \cup [url : Urls, left : 0..Timeout]
  OBVIOUS
<1>3. ASSUME NEW f \in Fetchers, NEW u \in Urls, ServeCached(f, u)
      PROVE  DownloadInv'
  <2>1. /\ Hit(u) /\ handed' = [value |-> EntryOf(u).value, age |-> asked[u]]
        /\ UNCHANGED <<flight, asked>>
    BY <1>3 DEF ServeCached, Hand
  <2>2. u \in Keys /\ entries \in Seq(Entry) /\ Holds(u)
    BY <1>0, <2>1, DownloadAssumption DEF CacheInv, Sound, Hit
  <2>3. /\ Position(u) \in 1..Len(entries) /\ EntryOf(u) = entries[Position(u)]
        /\ EntryOf(u) \in Entry
        /\ EntryOf(u).key = u /\ EntryOf(u).left # Expired
    BY <2>1, <2>2, FoundAt DEF EntryOf, Hit
  <2>4. EntriesOK'
    BY <1>0, <2>1, <2>2, GetKeepsEntries DEF EntriesOK, Get
  <2>5. EntryOf(u).left \in Nat
    BY <2>3 DEF Entry
  <2>6. Size[EntryOf(u).value] <= MaxAsset /\ asked[u] + EntryOf(u).left <= CacheTTL + Timeout
    BY <1>0, <2>3 DEF EntriesOK, EntryOK
  <2>7. asked[u] <= CacheTTL + Timeout
    BY <1>0, <2>5, <2>6, Clocks DEF FlightsOK
  <2>8. HandedOK'
    BY <2>1, <2>6, <2>7 DEF HandedOK
  <2>9. FlightsOK'
    BY <1>0, <2>1 DEF FlightsOK
  <2> QED
    BY <1>1, <2>4, <2>8, <2>9 DEF DownloadInv
<1>4. ASSUME NEW f \in Fetchers, NEW u \in Urls, StartFetch(f, u)
      PROVE  DownloadInv'
  <2>1. /\ Get(u) /\ u \in Keys /\ handed' = NothingHanded /\ UNCHANGED asked
        /\ flight' = [flight EXCEPT ![f] = [url |-> u, left |-> Timeout]]
    BY <1>4, DownloadAssumption DEF StartFetch, HandNothing
  <2>2. EntriesOK'
    BY <1>0, <2>1, GetKeepsEntries DEF EntriesOK
  <2>3. [url |-> u, left |-> Timeout] \in {NoDownload} \cup [url : Urls, left : 0..Timeout]
    BY Clocks
  <2>4. FlightsOK' /\ HandedOK'
    BY <1>0, <2>1, <2>3 DEF FlightsOK, HandedOK
  <2> QED
    BY <1>1, <2>2, <2>4 DEF DownloadInv
<1>5. ASSUME NEW f \in Fetchers, NEW v \in Values, NEW type, NEW declared,
             FetchEnds(f, v, declared, type)
      PROVE  DownloadInv'
  <2>1. PICK u \in Urls : u = flight[f].url /\ u \in Keys
    BY <1>0, <1>5, InFlight DEF FetchEnds
  <2>2. PICK old \in 0..Timeout : old = Timeout - flight[f].left
    BY <1>0, <1>5, InFlight, Clocks DEF FetchEnds
  <2>3. /\ Size[v] <= MaxAsset /\ Set(u, v, CacheTTL) /\ asked' = [asked EXCEPT ![u] = old]
        /\ handed' = [value |-> v, age |-> old] /\ flight' = [flight EXCEPT ![f] = NoDownload]
    BY <1>5, <2>1, <2>2 DEF FetchEnds, WithinCap, Hand, Lands
  <2>4. FlightsOK'
    <3>1. old \in 0..MaxAge
      BY Clocks DEF MaxAge
    <3> QED
      BY <1>0, <1>2, <2>3, <3>1 DEF FlightsOK
  <2>5. HandedOK'
    BY <2>3, Clocks DEF HandedOK
  <2>6. ASSUME NEW x \in 1..Len(entries') PROVE EntryOK(entries'[x], asked')
    <3>1. CASE \E i \in 1..Len(entries) : entries[i].key # u /\ entries'[x] = entries[i]
      BY <1>0, <2>3, <3>1 DEF EntriesOK, EntryOK, FlightsOK
    <3>2. CASE entries'[x] = [key |-> u, value |-> v, left |-> CacheTTL]
      <4>1. asked'[u] = old /\ old + CacheTTL <= CacheTTL + Timeout
        BY <1>0, <2>3, Clocks DEF FlightsOK
      <4> QED
        BY <2>3, <3>2, <4>1 DEF EntryOK
    <3> QED
      BY <1>0, <2>1, <2>3, <3>1, <3>2, SetKeepsEntries, DownloadAssumption
  <2>7. EntriesOK'
    BY <2>6 DEF EntriesOK
  <2> QED
    BY <1>1, <2>4, <2>5, <2>7 DEF DownloadInv
<1>6. ASSUME NEW f \in Fetchers, FetchFails(f) \/ FetchTimesOut(f)
      PROVE  DownloadInv'
  <2>1. /\ UNCHANGED <<entries, asked>> /\ handed' = NothingHanded
        /\ flight' = [flight EXCEPT ![f] = NoDownload]
    BY <1>6 DEF FetchFails, FetchTimesOut, HandNothing, Lands, cacheVars
  <2>2. FlightsOK' /\ HandedOK' /\ EntriesOK'
    BY <1>0, <1>2, <2>1 DEF FlightsOK, HandedOK, EntriesOK
  <2> QED
    BY <1>1, <2>2 DEF DownloadInv
<1>7. ASSUME NEW k \in Keys \ Urls, UseCache(k)
      PROVE  DownloadInv'
  <2>1. handed' = NothingHanded /\ UNCHANGED <<flight, asked>>
    BY <1>7 DEF UseCache, HandNothing
  <2>2. ASSUME NEW x \in 1..Len(entries') PROVE EntryOK(entries'[x], asked)
    <3>1. CASE Get(k)
      BY <1>0, <3>1, GetKeepsEntries DEF EntriesOK
    <3>2. ASSUME NEW v \in Kept, NEW ttl \in TTLs, Set(k, v, ttl)
          PROVE  EntryOK(entries'[x], asked)
      <4>1. v \in Values
        BY DownloadAssumption
      <4>2. \/ \E i \in 1..Len(entries) : entries'[x] = entries[i]
            \/ entries'[x] = [key |-> k, value |-> v, left |-> ttl]
        BY <1>0, <3>2, <4>1, SetKeepsEntries
      <4> QED
        BY <1>0, <4>2 DEF EntriesOK, EntryOK
    <3> QED
      BY <1>7, <3>1, <3>2 DEF UseCache
  <2>3. FlightsOK' /\ HandedOK' /\ EntriesOK'
    BY <1>0, <2>1, <2>2 DEF FlightsOK, HandedOK, EntriesOK
  <2> QED
    BY <1>1, <2>3 DEF DownloadInv
<1>8. CASE Shutdown
  <2>1. entries' = <<>> /\ handed' = NothingHanded /\ UNCHANGED <<flight, asked>>
    BY <1>8 DEF Shutdown, Close, HandNothing
  <2>2. FlightsOK' /\ HandedOK' /\ EntriesOK'
    BY <1>0, <2>1 DEF FlightsOK, HandedOK, EntriesOK
  <2> QED
    BY <1>1, <2>2 DEF DownloadInv
<1>9. CASE TimePasses
  <2>1. /\ handed' = NothingHanded
        /\ asked' = [u \in Urls |-> IF asked[u] < MaxAge THEN asked[u] + 1 ELSE MaxAge]
        /\ flight' = [f \in Fetchers |-> IF flight[f] = NoDownload THEN NoDownload
                                         ELSE [flight[f] EXCEPT !.left = @ - 1]]
    BY <1>9 DEF TimePasses, HandNothing
  <2>2. ASSUME NEW f \in Fetchers, flight[f] # NoDownload
        PROVE  [flight[f] EXCEPT !.left = @ - 1] \in [url : Urls, left : 0..Timeout]
    <3>1. PICK r \in [url : Urls, left : 0..Timeout] : r = flight[f]
      BY <1>0, <2>2 DEF FlightsOK
    <3>2. r.left > 0 /\ r.left \in 0..Timeout
      BY <1>9, <2>2, <3>1 DEF TimePasses
    <3>3. r.left - 1 \in 0..Timeout
      BY <3>2, Clocks
    <3> QED
      BY <3>1, <3>3
  <2>3. FlightsOK'
    <3>1. asked' \in [Urls -> 0..MaxAge]
      BY <1>0, <2>1, Clocks DEF FlightsOK
    <3> QED
      BY <2>1, <2>2, <3>1 DEF FlightsOK
  <2>4. entries \in Seq(Entry) /\ AgeEntries
    BY <1>0, <1>9 DEF CacheInv, Sound, TimePasses
  <2>5. ASSUME NEW i \in 1..Len(entries') PROVE EntryOK(entries'[i], asked')
    <3>1. /\ i \in 1..Len(entries) /\ entries'[i].key = entries[i].key
          /\ entries'[i].value = entries[i].value
          /\ entries'[i].left = IF entries[i].left = Expired THEN Expired ELSE entries[i].left - 1
      BY <2>4, AgeIs
    <3>2. EntryOK(entries[i], asked) /\ entries[i].left \in Nat \cup {Expired}
      BY <1>0, <2>4, <3>1, EntryParts DEF EntriesOK
    <3> SUFFICES ASSUME entries'[i].key \in Urls
                 PROVE  /\ Size[entries'[i].value] <= MaxAsset
                        /\ entries'[i].left # Expired =>
                             asked'[entries'[i].key] + entries'[i].left <= CacheTTL + Timeout
      BY DEF EntryOK
    <3>3. PICK u \in Urls : u = entries[i].key
      BY <3>1
    <3>4. Size[entries[i].value] <= MaxAsset
      BY <3>2, <3>3 DEF EntryOK
    <3>5. ASSUME entries'[i].left # Expired
          PROVE  asked'[u] + entries'[i].left <= CacheTTL + Timeout
      <4>1. PICK left \in Nat : left = entries[i].left
        BY <3>1, <3>2, <3>5
      <4>2. asked[u] + left <= CacheTTL + Timeout
        BY <3>2, <3>3, <4>1 DEF EntryOK, Expired
      <4>3. asked[u] \in 0..MaxAge /\ asked'[u] <= asked[u] + 1 /\ asked'[u] \in Nat
        BY <1>0, <2>1, Clocks DEF FlightsOK
      <4>4. entries'[i].left = left - 1
        BY <3>1, <4>1 DEF Expired
      <4> QED
        BY <4>2, <4>3, <4>4, Clocks
    <3> QED
      BY <3>1, <3>3, <3>4, <3>5
  <2>6. EntriesOK' /\ HandedOK'
    BY <2>1, <2>5 DEF EntriesOK, HandedOK
  <2> QED
    BY <1>1, <2>3, <2>6 DEF DownloadInv
<1>10. CASE UNCHANGED downloadVars
  <2>1. FlightsOK' /\ HandedOK' /\ EntriesOK'
    BY <1>0, <1>10 DEF downloadVars, cacheVars, FlightsOK, HandedOK, EntriesOK
  <2> QED
    BY <1>1, <2>1 DEF DownloadInv
<1> QED
  BY <1>3, <1>4, <1>5, <1>6, <1>7, <1>8, <1>9, <1>10 DEF DownloadNext

\* The invariant of the downloads holds at all times.
THEOREM DownloadInvariance == DownloadSpec => []DownloadInv
<1>1. DownloadInv /\ [DownloadNext]_downloadVars => DownloadInv'
  BY DownloadKept
<1> QED
  BY <1>1, DownloadStart, PTL DEF DownloadSpec

\* A request is never given an image above max_asset_bytes, whatever length its server
\* declared, nor one older than the cache's ttl and the download's timeout together.
THEOREM DownloadsAreFresh == DownloadSpec => []FreshAndBounded
<1>1. DownloadInv => FreshAndBounded
  <2> SUFFICES ASSUME DownloadInv PROVE FreshAndBounded
    OBVIOUS
  <2>1. DOMAIN entries = 1..Len(entries)
    BY EntryParts DEF DownloadInv, CacheInv, Sound
  <2> QED
    BY <2>1 DEF DownloadInv, FlightsOK, HandedOK, EntriesOK, EntryOK, FreshAndBounded
<1> QED
  BY <1>1, DownloadInvariance, PTL

\* fetch_asset and the scripts use the cache by its operations: what is proved of TTLCache
\* under any use holds under this one.
THEOREM DownloadsUseTheCache == DownloadSpec => CacheSpec
<1>1. DownloadInit => CacheInit
  BY DEF DownloadInit
<1>2. DownloadInv /\ [DownloadNext]_downloadVars => [CacheNext]_cacheVars
  BY CacheStep DEF DownloadInv
<1> QED
  BY <1>1, <1>2, DownloadInvariance, PTL DEF DownloadSpec, CacheSpec

-----------------------------------------------------------------------------
(* The identity service and the token service.                              *)

\* The pool: one entry for each identity, and the ones an entry still has to wait for
\* (`others`, in the history) stand in front of it.
Identity == [id : Nat, uses : Nat, born : Nat, others : SUBSET Nat]

Alone(p) == \A i, j \in 1..Len(p) : i # j => p[i].id # p[j].id
Queued(p) ==
  \A i \in 1..Len(p) : \A x \in p[i].others : \E j \in 1..Len(p) : j < i /\ p[j].id = x
InBounds(p) == \A i \in 1..Len(p) : p[i].uses <= MaxUses /\ p[i].born <= now

PoolOK(p) == p \in Seq(Identity) /\ Alone(p) /\ Queued(p) /\ InBounds(p)

\* The inductive invariant of the identity service: the pool is within its target, and the
\* refill thread mints only when there is room for one more.
PoolInv ==
  /\ now \in Nat
  /\ PoolOK(pool) /\ Len(pool) <= Target
  /\ refill \in {"browser", "page", "stock"} => Len(pool) < Target

\* Live is the part of the pool that can be given: same entries, same order.
LiveFrom(g) ==
  /\ g \in [1..Len(Live) -> 1..Len(pool)]
  /\ \A a, b \in 1..Len(Live) : a < b => g[a] < g[b]
  /\ \A k \in 1..Len(Live) :
       /\ Usable(pool[g[k]])
       /\ Live[k].id = pool[g[k]].id /\ Live[k].uses = pool[g[k]].uses
       /\ Live[k].born = pool[g[k]].born
       /\ Live[k].others = pool[g[k]].others \cap Ids(Live)

\* The identities of a pool, position by position.
LEMMA IdsOf ==
  ASSUME NEW p \in Seq(Identity)
  PROVE  /\ Ids(p) = {p[i].id : i \in 1..Len(p)}
         /\ DOMAIN p = 1..Len(p) /\ Len(p) \in Nat
         /\ \A i \in 1..Len(p) : p[i] \in Identity
         /\ Ids(p) \subseteq Nat
<1>1. DOMAIN p = 1..Len(p) /\ Len(p) \in Nat /\ \A i \in 1..Len(p) : p[i] \in Identity
  BY LenProperties, ElementOfSeq
<1>2. \A i \in 1..Len(p) : p[i].id \in Nat
  BY <1>1 DEF Identity
<1> QED
  BY <1>1, <1>2 DEF Ids

\* prune() keeps the order of what it keeps.
LEMMA LiveIsPart ==
  ASSUME PoolOK(pool)
  PROVE  Live \in Seq(Identity) /\ Len(Live) <= Len(pool) /\ \E g : LiveFrom(g)
<1>0. pool \in Seq(Identity) /\ DOMAIN pool = 1..Len(pool)
  BY IdsOf DEF PoolOK
<1>1. PICK P : P = {i \in DOMAIN pool : Usable(pool[i])}
  OBVIOUS
<1>2. PICK kept : kept = Picked(pool, P)
  OBVIOUS
<1>3. /\ kept \in Seq(Identity) /\ Len(kept) <= Len(pool)
      /\ \E g : PartOf(pool, P, Len(pool), kept, g)
  BY <1>0, <1>2, PickedParts
<1>4. PICK g : PartOf(pool, P, Len(pool), kept, g)
  BY <1>3
<1>5. /\ Len(kept) \in Nat /\ DOMAIN kept = 1..Len(kept)
      /\ \A i \in 1..Len(kept) : kept[i] \in Identity
  BY <1>3, IdsOf
<1>6. Live = [i \in 1..Len(kept) |-> [kept[i] EXCEPT !.others = @ \cap Ids(kept)]]
  BY <1>1, <1>2, <1>5 DEF Live
<1>7. \A i \in 1..Len(kept) : [kept[i] EXCEPT !.others = @ \cap Ids(kept)] \in Identity
  BY <1>5 DEF Identity
<1>8. Live \in Seq(Identity) /\ Len(Live) = Len(kept)
  BY <1>5, <1>6, <1>7
<1>9. ASSUME NEW k \in 1..Len(kept)
      PROVE  /\ Live[k].id = kept[k].id /\ Live[k].uses = kept[k].uses
             /\ Live[k].born = kept[k].born /\ Live[k].others = kept[k].others \cap Ids(kept)
  BY <1>5, <1>6 DEF Identity
<1>10. Ids(Live) = Ids(kept)
  <2>1. /\ Ids(Live) = {Live[i].id : i \in 1..Len(kept)}
        /\ Ids(kept) = {kept[i].id : i \in 1..Len(kept)}
    BY <1>3, <1>8, IdsOf
  <2> QED
    BY <1>9, <2>1
<1>11. ASSUME NEW k \in 1..Len(kept) PROVE kept[k] = pool[g[k]] /\ Usable(pool[g[k]])
  BY <1>1, <1>4 DEF PartOf
<1>12. g \in [1..Len(Live) -> 1..Len(pool)] /\ \A a, b \in 1..Len(Live) : a < b => g[a] < g[b]
  BY <1>4, <1>8 DEF PartOf
<1>13. LiveFrom(g)
  BY <1>8, <1>9, <1>10, <1>11, <1>12 DEF LiveFrom
<1> QED
  BY <1>3, <1>8, <1>13

\* So what it keeps is a pool, and no longer than the one before.
LEMMA LiveIsOK ==
  ASSUME PoolOK(pool)
  PROVE  PoolOK(Live) /\ Len(Live) <= Len(pool)
<1>1. Live \in Seq(Identity) /\ Len(Live) <= Len(pool) /\ \E g : LiveFrom(g)
  BY LiveIsPart
<1>2. PICK g : LiveFrom(g)
  BY <1>1
<1>3. \A k \in 1..Len(Live) : g[k] \in 1..Len(pool)
  BY <1>2 DEF LiveFrom
<1>4. Len(Live) \in Nat /\ Ids(Live) = {Live[i].id : i \in 1..Len(Live)} /\ Len(pool) \in Nat
  BY <1>1, IdsOf DEF PoolOK
<1>5. Alone(Live)
  <2> SUFFICES ASSUME NEW i \in 1..Len(Live), NEW j \in 1..Len(Live), i # j
               PROVE  Live[i].id # Live[j].id
    BY DEF Alone
  <2>1. i < j \/ j < i
    BY <1>4
  <2>2. g[i] # g[j]
    BY <1>2, <1>3, <1>4, <2>1 DEF LiveFrom
  <2>3. pool[g[i]].id # pool[g[j]].id
    BY <1>3, <2>2 DEF PoolOK, Alone
  <2> QED
    BY <1>2, <2>3 DEF LiveFrom
<1>6. Queued(Live)
  <2> SUFFICES ASSUME NEW i \in 1..Len(Live), NEW x \in Live[i].others
               PROVE  \E j \in 1..Len(Live) : j < i /\ Live[j].id = x
    BY DEF Queued
  <2>1. x \in pool[g[i]].others /\ x \in Ids(Live)
    BY <1>2 DEF LiveFrom
  <2>2. PICK j \in 1..Len(Live) : Live[j].id = x
    BY <1>4, <2>1
  <2>3. PICK m \in 1..Len(pool) : m < g[i] /\ pool[m].id = x
    BY <1>3, <2>1 DEF PoolOK, Queued
  <2>4. pool[g[j]].id = x
    BY <1>2, <2>2 DEF LiveFrom
  <2>5. g[j] = m
    BY <1>3, <2>3, <2>4 DEF PoolOK, Alone
  <2>6. ~(i < j) /\ i # j
    BY <1>2, <1>3, <1>4, <2>3, <2>5 DEF LiveFrom
  <2>7. j < i
    BY <1>4, <2>6
  <2> QED
    BY <2>2, <2>7
<1>7. InBounds(Live)
  BY <1>2, <1>3 DEF LiveFrom, PoolOK, InBounds
<1> QED
  BY <1>1, <1>5, <1>6, <1>7 DEF PoolOK

\* What take() leaves: the identity it gave is the last one, and waits for all others.
LEMMA TakeIsOK ==
  ASSUME now \in Nat, PoolOK(pool), Take
  PROVE  /\ pool' \in Seq(Identity) /\ Len(pool') = Len(Live) /\ Live # <<>>
         /\ \A i \in 1..(Len(Live) - 1) :
              /\ pool'[i].id = Live[i + 1].id /\ pool'[i].uses = Live[i + 1].uses
              /\ pool'[i].born = Live[i + 1].born
              /\ pool'[i].others = Live[i + 1].others \ {Live[1].id}
         /\ pool'[Len(Live)].id = Live[1].id /\ pool'[Len(Live)].uses = Live[1].uses + 1
         /\ pool'[Len(Live)].born = Live[1].born
         /\ pool'[Len(Live)].others = {Live[i].id : i \in 2..Len(Live)}
<1>1. Live \in Seq(Identity)
  BY LiveIsPart
<1>2. PICK s \in Seq(Identity) : s = Live
  BY <1>1
<1>3. s # <<>> /\ Len(s) \in Nat /\ Len(s) # 0 /\ DOMAIN s = 1..Len(s)
      /\ \A i \in 1..Len(s) : s[i] \in Identity
  BY <1>2, IdsOf, EmptySeq DEF Take
<1>4. Head(s) = s[1] /\ s[1] \in Identity
  BY <1>3
<1>5. /\ Tail(s) \in Seq(Identity) /\ Len(Tail(s)) = Len(s) - 1
      /\ \A i \in 1..(Len(s) - 1) : Tail(s)[i] = s[i + 1]
  BY <1>3, HeadTailProperties
<1>6. PICK rest : rest = {s[i].id : i \in 2..Len(s)}
  OBVIOUS
<1>7. Ids(Tail(s)) = rest
  <2>1. Ids(Tail(s)) = {Tail(s)[i].id : i \in 1..(Len(s) - 1)}
    BY <1>5, IdsOf
  <2>2. \A i \in 1..(Len(s) - 1) : Tail(s)[i].id = s[i + 1].id /\ i + 1 \in 2..Len(s)
    BY <1>3, <1>5
  <2>3. \A i \in 2..Len(s) : i - 1 \in 1..(Len(s) - 1) /\ (i - 1) + 1 = i
    BY <1>3
  <2>4. Ids(Tail(s)) \subseteq rest
    BY <1>6, <2>1, <2>2
  <2>5. rest \subseteq Ids(Tail(s))
    BY <1>6, <2>1, <2>2, <2>3
  <2> QED
    BY <2>4, <2>5
<1>8. rest \subseteq Nat
  BY <1>5, <1>7, IdsOf
<1>9. PICK item : item = [s[1] EXCEPT !.uses = @ + 1, !.others = rest]
  OBVIOUS
<1>10. /\ item \in Identity /\ item.id = s[1].id /\ item.uses = s[1].uses + 1
       /\ item.born = s[1].born /\ item.others = rest
  <2>1. PICK r \in Identity : r = s[1]
    BY <1>4
  <2>2. item = [r EXCEPT !.uses = r.uses + 1, !.others = rest]
    BY <1>9, <2>1
  <2>3. r.uses \in Nat
    BY DEF Identity
  <2>4. r.uses + 1 \in Nat /\ rest \in SUBSET Nat
    BY <1>8, <2>3
  <2>5. /\ item \in Identity /\ item.id = r.id /\ item.uses = r.uses + 1
        /\ item.born = r.born /\ item.others = rest
    BY <2>2, <2>4 DEF Identity
  <2> QED
    BY <2>1, <2>5
<1>11. PICK others : others = [i \in 1..Len(s) |-> [s[i] EXCEPT !.others = @ \ {item.id}]]
  OBVIOUS
<1>12. \A i \in 1..Len(s) : [s[i] EXCEPT !.others = @ \ {item.id}] \in Identity
  BY <1>3 DEF Identity
<1>13. others \in Seq(Identity) /\ Len(others) = Len(s) /\ others # <<>>
  <2>1. others \in Seq(Identity) /\ Len(others) = Len(s)
    BY <1>3, <1>11, <1>12
  <2> QED
    BY <1>3, <2>1, EmptySeq
<1>14. Tail(others) \in Seq(Identity) /\ Len(Tail(others)) = Len(s) - 1
       /\ \A i \in 1..(Len(s) - 1) : Tail(others)[i] = others[i + 1]
  BY <1>3, <1>13, HeadTailProperties
<1>15. pool' = Append(Tail(others), item)
  <2>1. pool' = Rotated([i \in DOMAIN s |-> [s[i] EXCEPT !.others = @ \ {item.id}]], item)
    BY <1>2, <1>4, <1>7, <1>9, Zenon DEF Take
  <2> QED
    BY <1>3, <1>11, <2>1 DEF Rotated
<1>16. /\ pool' \in Seq(Identity) /\ Len(pool') = Len(s) /\ pool'[Len(s)] = item
       /\ \A i \in 1..(Len(s) - 1) : pool'[i] = others[i + 1]
  BY <1>3, <1>10, <1>14, <1>15, AppendProperties
<1>17. ASSUME NEW i \in 1..(Len(s) - 1)
       PROVE  /\ pool'[i].id = s[i + 1].id /\ pool'[i].uses = s[i + 1].uses
              /\ pool'[i].born = s[i + 1].born /\ pool'[i].others = s[i + 1].others \ {s[1].id}
  <2>1. i + 1 \in 1..Len(s) /\ s[i + 1] \in Identity
    BY <1>3
  <2>2. pool'[i] = [s[i + 1] EXCEPT !.others = @ \ {s[1].id}]
    BY <1>10, <1>11, <1>16, <2>1
  <2> QED
    BY <2>1, <2>2 DEF Identity
<1> QED
  BY <1>2, <1>3, <1>6, <1>10, <1>16, <1>17

\* take() prunes, gives the first identity and puts it behind the others.
LEMMA TakeKeepsPool ==
  ASSUME PoolInv, Take, UNCHANGED <<now, refill>>
  PROVE  PoolInv'
<1>1. PICK s \in Seq(Identity) : s = Live /\ PoolOK(s) /\ Len(s) <= Len(pool)
  BY LiveIsOK DEF PoolInv, PoolOK
<1>2. /\ pool' \in Seq(Identity) /\ Len(pool') = Len(s) /\ s # <<>>
      /\ \A i \in 1..(Len(s) - 1) :
           /\ pool'[i].id = s[i + 1].id /\ pool'[i].uses = s[i + 1].uses
           /\ pool'[i].born = s[i + 1].born
           /\ pool'[i].others = s[i + 1].others \ {s[1].id}
      /\ pool'[Len(s)].id = s[1].id /\ pool'[Len(s)].uses = s[1].uses + 1
      /\ pool'[Len(s)].born = s[1].born
      /\ pool'[Len(s)].others = {s[i].id : i \in 2..Len(s)}
  BY <1>1, TakeIsOK DEF PoolInv
<1>3. Len(s) \in Nat /\ Len(s) # 0 /\ Len(pool) \in Nat
  BY <1>1, <1>2, IdsOf, EmptySeq DEF PoolInv, PoolOK
<1>4. s[1].uses < MaxUses /\ s[1].uses \in Nat
  <2>1. PICK g : LiveFrom(g)
    BY LiveIsPart DEF PoolInv
  <2>2. Usable(pool[g[1]]) /\ s[1].uses = pool[g[1]].uses
    BY <1>1, <1>3, <2>1 DEF LiveFrom
  <2>3. s[1] \in Identity
    BY <1>1, <1>3, ElementOfSeq
  <2> QED
    BY <2>2, <2>3 DEF Usable, Identity
<1>5. \A i \in 1..Len(s) : i \in 1..(Len(s) - 1) \/ i = Len(s)
  BY <1>3
<1>6. \A i \in 1..(Len(s) - 1) : i + 1 \in 1..Len(s) /\ i + 1 # 1
  BY <1>3
<1>7. Alone(pool')
  <2> SUFFICES ASSUME NEW i \in 1..Len(s), NEW j \in 1..Len(s), i # j
               PROVE  pool'[i].id # pool'[j].id
    BY <1>2 DEF Alone
  <2>1. CASE i \in 1..(Len(s) - 1) /\ j \in 1..(Len(s) - 1)
    <3>1. i + 1 # j + 1
      BY <2>1
    <3> QED
      BY <1>1, <1>2, <1>6, <2>1, <3>1 DEF PoolOK, Alone
  <2>2. CASE i \in 1..(Len(s) - 1) /\ j = Len(s)
    BY <1>1, <1>2, <1>3, <1>6, <2>2 DEF PoolOK, Alone
  <2>3. CASE i = Len(s) /\ j \in 1..(Len(s) - 1)
    BY <1>1, <1>2, <1>3, <1>6, <2>3 DEF PoolOK, Alone
  <2> QED
    BY <1>5, <2>1, <2>2, <2>3
<1>8. Queued(pool')
  <2> SUFFICES ASSUME NEW i \in 1..Len(s), NEW x \in pool'[i].others
               PROVE  \E j \in 1..Len(s) : j < i /\ pool'[j].id = x
    BY <1>2 DEF Queued
  <2>1. CASE i \in 1..(Len(s) - 1)
    <3>1. x \in s[i + 1].others /\ x # s[1].id
      BY <1>2, <2>1
    <3>2. PICK j \in 1..Len(s) : j < i + 1 /\ s[j].id = x
      BY <1>1, <1>6, <2>1, <3>1 DEF PoolOK, Queued
    <3>3. /\ j - 1 \in 1..(Len(s) - 1) /\ j - 1 \in 1..Len(s) /\ j - 1 < i
          /\ (j - 1) + 1 = j
      <4>1. Len(s) \in Nat
        BY <1>3
      <4>2. j # 1
        BY <3>1, <3>2
      <4> QED
        BY <2>1, <3>2, <4>1, <4>2
    <3>4. pool'[j - 1].id = x
      BY <1>2, <3>2, <3>3
    <3> QED
      BY <3>3, <3>4
  <2>2. CASE i = Len(s)
    <3>1. PICK m \in 2..Len(s) : s[m].id = x
      BY <1>2, <2>2
    <3>2. m - 1 \in 1..(Len(s) - 1) /\ m - 1 < i /\ (m - 1) + 1 = m /\ m - 1 \in 1..Len(s)
      BY <1>3, <2>2, <3>1
    <3>3. pool'[m - 1].id = x
      BY <1>2, <3>1, <3>2
    <3> QED
      BY <3>2, <3>3
  <2> QED
    BY <1>5, <2>1, <2>2
<1>9. InBounds(pool')
  <2> SUFFICES ASSUME NEW i \in 1..Len(s) PROVE pool'[i].uses <= MaxUses /\ pool'[i].born <= now
    BY <1>2 DEF InBounds
  <2>1. CASE i \in 1..(Len(s) - 1)
    BY <1>1, <1>2, <1>6, <2>1 DEF PoolOK, InBounds
  <2>2. CASE i = Len(s)
    BY <1>1, <1>2, <1>3, <1>4, <2>2, IdentityAssumption DEF PoolOK, InBounds
  <2> QED
    BY <1>5, <2>1, <2>2
<1>10. PoolOK(pool)'
  BY <1>2, <1>7, <1>8, <1>9 DEF PoolOK, Alone, Queued, InBounds
<1> QED
  BY <1>1, <1>2, <1>3, <1>10, IdentityAssumption DEF PoolInv

\* There is always a name that is free, so a mint never doubles one.
LEMMA FreeName ==
  ASSUME NEW p \in Seq(Identity)
  PROVE  \E n \in 1..(Len(p) + 1) : n \notin Ids(p) /\ 1..(n - 1) \subseteq Ids(p)
<1>0. Len(p) \in Nat /\ Ids(p) = {p[i].id : i \in 1..Len(p)} /\ Ids(p) \subseteq Nat
  BY IdsOf
<1>1. PICK T : T = (1..(Len(p) + 1)) \ Ids(p)
  OBVIOUS
<1>2. T # {}
  <2> SUFFICES ASSUME 1..(Len(p) + 1) \subseteq Ids(p) PROVE FALSE
    BY <1>1
  <2>1. PICK h : h = [i \in 1..Len(p) |-> p[i].id]
    OBVIOUS
  <2>2. h \in Surjection(1..Len(p), Ids(p))
    BY <1>0, <2>1 DEF Surjection
  <2>3. IsFiniteSet(1..Len(p)) /\ Cardinality(1..Len(p)) = Len(p)
    <3>1. /\ IsFiniteSet(1..Len(p))
          /\ Cardinality(1..Len(p)) = IF 1 > Len(p) THEN 0 ELSE Len(p) - 1 + 1
      BY <1>0, FS_Interval
    <3> QED
      BY <1>0, <3>1
  <2>4. IsFiniteSet(Ids(p)) /\ Cardinality(Ids(p)) <= Len(p)
    BY <2>2, <2>3, FS_Surjection
  <2>5. IsFiniteSet(1..(Len(p) + 1)) /\ Cardinality(1..(Len(p) + 1)) = Len(p) + 1
    <3>1. Cardinality(1..(Len(p) + 1)) = IF 1 > Len(p) + 1 THEN 0 ELSE (Len(p) + 1) - 1 + 1
      BY <1>0, FS_Interval
    <3> QED
      BY <1>0, <3>1, FS_Interval
  <2>6. Cardinality(1..(Len(p) + 1)) <= Cardinality(Ids(p))
    BY <2>4, FS_Subset
  <2>7. Cardinality(Ids(p)) \in Nat
    BY <2>4, FS_CardinalityType
  <2> QED
    BY <1>0, <2>4, <2>5, <2>6, <2>7
<1>3. T \in SUBSET Nat
  BY <1>0, <1>1
<1>4. PICK n \in T : \A y \in T : n <= y
  BY <1>2, <1>3, LeastNumber
<1>5. n \in 1..(Len(p) + 1) /\ n \notin Ids(p)
  BY <1>1
<1>6. ASSUME NEW y \in 1..(n - 1) PROVE y \in Ids(p)
  BY <1>0, <1>1, <1>4, <1>5
<1> QED
  BY <1>5, <1>6

\* An identity that the refill thread stocks is new and stands last.
LEMMA StockKeepsPool ==
  ASSUME now \in Nat, PoolOK(pool), Len(pool) < Target, Stock, UNCHANGED now
  PROVE  /\ PoolOK(pool)' /\ Len(pool') <= Target
         /\ \A i \in 1..Len(pool) : pool'[i] = pool[i]
         /\ Len(pool') = Len(pool) + 1 /\ pool'[Len(pool')].id \notin Ids(pool)
<1>1. PICK n \in 1..(Len(pool) + 1) :
        /\ n \notin Ids(pool)
        /\ pool' = Append(pool, [id |-> n, uses |-> 0, born |-> now, others |-> {}])
  <2>1. \E n \in 1..(Len(pool) + 1) : n \notin Ids(pool) /\ 1..(n - 1) \subseteq Ids(pool)
    BY FreeName DEF PoolOK
  <2> QED
    BY <2>1 DEF Stock
<1>2. PICK e : e = [id |-> n, uses |-> 0, born |-> now, others |-> {}]
  OBVIOUS
<1>3. Len(pool) \in Nat /\ Ids(pool) = {pool[i].id : i \in 1..Len(pool)}
  BY IdsOf DEF PoolOK
<1>4. e \in Identity /\ e.id = n /\ e.uses = 0 /\ e.born = now /\ e.others = {}
  BY <1>1, <1>2, <1>3 DEF Identity
<1>5. /\ pool' \in Seq(Identity) /\ Len(pool') = Len(pool) + 1 /\ pool'[Len(pool) + 1] = e
      /\ \A i \in 1..Len(pool) : pool'[i] = pool[i]
  BY <1>1, <1>2, <1>4, AppendProperties DEF PoolOK
<1>6. \A i \in 1..(Len(pool) + 1) : i \in 1..Len(pool) \/ i = Len(pool) + 1
  BY <1>3
<1>7. \A i \in 1..Len(pool) : pool[i].id # n
  BY <1>1, <1>3
<1>8. Alone(pool)'
  <2> SUFFICES ASSUME NEW i \in 1..Len(pool'), NEW j \in 1..Len(pool'), i # j
               PROVE  pool'[i].id # pool'[j].id
    BY DEF Alone
  <2>1. CASE i \in 1..Len(pool) /\ j \in 1..Len(pool)
    BY <1>5, <2>1 DEF PoolOK, Alone
  <2>2. CASE i \in 1..Len(pool) /\ j = Len(pool) + 1
    BY <1>4, <1>5, <1>7, <2>2
  <2>3. CASE i = Len(pool) + 1 /\ j \in 1..Len(pool)
    BY <1>4, <1>5, <1>7, <2>3
  <2> QED
    BY <1>5, <1>6, <2>1, <2>2, <2>3
<1>9. Queued(pool)'
  <2> SUFFICES ASSUME NEW i \in 1..Len(pool'), NEW x \in pool'[i].others
               PROVE  \E j \in 1..Len(pool') : j < i /\ pool'[j].id = x
    BY DEF Queued
  <2>1. i \in 1..Len(pool)
    BY <1>4, <1>5, <1>6
  <2>2. PICK j \in 1..Len(pool) : j < i /\ pool[j].id = x
    BY <1>5, <2>1 DEF PoolOK, Queued
  <2> QED
    BY <1>3, <1>5, <2>2
<1>10. InBounds(pool)'
  BY <1>4, <1>5, <1>6, IdentityAssumption DEF PoolOK, InBounds
<1> QED
  BY <1>1, <1>3, <1>4, <1>5, <1>8, <1>9, <1>10, IdentityAssumption DEF PoolOK

\* The token service: a thread inside the lock holds it, and nothing fresh is cached.
CallerOK(c) ==
  /\ call[c] = "new" => thread[c].at = "idle"
  /\ thread[c].at \in {"asking", "signing"} => thread[c].account \in Accounts
  /\ thread[c].at = "signing" =>
       locks[thread[c].account] = c /\ ~Fresh(thread[c].account, now)

\* The inductive invariant of the token service.
TokensInv ==
  /\ now \in Nat
  /\ tokens \in [Accounts -> Never..now]
  /\ locks \in [Accounts -> Callers \cup {None}]
  /\ thread \in [Callers -> [at : {"idle", "asking", "signing", "served", "refused",
                                   "dropped"},
                             account : Accounts \cup {Unknown, None}]]
  /\ call \in [Callers -> {"new", "token", "guest", "done"}]
  /\ \A c \in Callers : CallerOK(c)

\* The types of the rest: the clock, the refill thread, the browser and the main thread.
Modes ==
  /\ now \in 0..Horizon /\ faults \in 0..MaxFaults
  /\ refill \in {"loop", "waiting", "browser", "page", "stock", "ended"}
  /\ browser \in {"none", "live", "dead"}
  /\ main \in {"warming", "serving", "stopping", "closed"}
  /\ since \in 0..now

\* The inductive invariant of the two services together.
ServicesInv == Modes /\ PoolInv /\ TokensInv

\* Both services start empty.
LEMMA ServicesStart == ServicesInit => ServicesInv
<1> SUFFICES ASSUME ServicesInit PROVE ServicesInv
  OBVIOUS
<1>1. Modes
  BY IdentityAssumption DEF ServicesInit, IdentityInit, Modes
<1>2. PoolInv
  BY IdentityAssumption
    DEF ServicesInit, IdentityInit, PoolInv, PoolOK, Alone, Queued, InBounds
<1>3. TokensInv
  BY DEF ServicesInit, TokenInit, TokensInv, CallerOK, Idle, Never
<1> QED
  BY <1>1, <1>2, <1>3 DEF ServicesInv

\* A step that leaves the pool alone keeps its invariant.
LEMMA PoolUntouched ==
  ASSUME PoolInv, UNCHANGED <<now, pool, refill>>
  PROVE  PoolInv'
BY DEF PoolInv, PoolOK, Alone, Queued, InBounds

\* So does a restart, which loses the pool.
LEMMA EmptyPool ==
  ASSUME PoolInv, pool' = <<>>, refill' = "loop", UNCHANGED now
  PROVE  PoolInv'
BY IdentityAssumption DEF PoolInv, PoolOK, Alone, Queued, InBounds

\* So does a prune.
LEMMA PruneKeepsPool ==
  ASSUME PoolInv, Prune, UNCHANGED now,
         refill' \in {"browser", "page", "stock"} => Len(Live) < Target
  PROVE  PoolInv'
<1>1. PICK s : s = Live
  OBVIOUS
<1>2. PoolOK(s) /\ Len(s) <= Len(pool)
  BY <1>1, LiveIsOK DEF PoolInv
<1>3. pool' = s
  BY <1>1 DEF Prune
<1>4. Len(s) \in Nat /\ Len(pool) \in Nat
  BY <1>2, LenProperties DEF PoolOK, PoolInv
<1> QED
  BY <1>1, <1>2, <1>3, <1>4, IdentityAssumption
    DEF PoolInv, PoolOK, Alone, Queued, InBounds

\* Every step of the services keeps the pool in order.
LEMMA PoolKept ==
  ASSUME ServicesInv, [ServicesNext]_servicesVars
  PROVE  PoolInv'
<1> USE DEF servicesVars, identityVars, tokenVars
<1>0. PoolInv
  BY DEF ServicesInv
<1>1. CASE \E c \in Callers : AccountCalls(c) \/ GuestCalls(c) \/ TokenAnswered(c)
             \/ GivesUp(c) \/ IdentityRefused(c) \/ TokenThread(c)
  BY <1>0, <1>1, PoolUntouched
    DEF AccountCalls, GuestCalls, TokenAnswered, GivesUp, IdentityRefused, TokenThread
<1>2. ASSUME NEW c \in Callers, IdentityAnswered(c) PROVE PoolInv'
  <2>1. CASE Prune
    <3>1. (refill \in {"browser", "page", "stock"}) => Len(Live) < Target
      <4>1. Len(Live) <= Len(pool) /\ Len(Live) \in Nat /\ Len(pool) \in Nat
        BY <1>0, LiveIsPart, LenProperties DEF PoolInv, PoolOK
      <4> QED
        BY <1>0, <4>1, IdentityAssumption DEF PoolInv
    <3> QED
      BY <1>0, <1>2, <2>1, <3>1, PruneKeepsPool DEF IdentityAnswered
  <2>2. CASE Take
    BY <1>0, <1>2, <2>2, TakeKeepsPool DEF IdentityAnswered
  <2> QED
    BY <1>2, <2>1, <2>2 DEF IdentityAnswered
<1>3. CASE RefillThread
  <2>1. CASE RefillLooks
    <3>1. CASE Stopping
      BY <1>0, <1>3, <2>1, <3>1
        DEF RefillThread, RefillLooks, PoolInv, PoolOK, Alone, Queued, InBounds
    <3>2. CASE ~Stopping
      <4>1. Prune /\ refill' = IF Len(Live) < Target THEN "browser" ELSE "waiting"
        BY <2>1, <3>2 DEF RefillLooks
      <4> QED
        BY <1>0, <1>3, <4>1, PruneKeepsPool DEF RefillThread
    <3> QED
      BY <3>1, <3>2
  <2>2. CASE RefillStocks
    <3>1. Stock /\ refill' = "loop" /\ refill = "stock" /\ now' = now
      BY <1>3, <2>2 DEF RefillThread, RefillStocks
    <3>2. PoolOK(pool)' /\ Len(pool') <= Target
      BY <1>0, <3>1, StockKeepsPool DEF PoolInv
    <3> QED
      BY <1>0, <3>1, <3>2 DEF PoolInv
  <2>3. CASE RefillWakes \/ BrowserIsKept \/ RefillFails \/ BrowserStarts \/ PageGivesIdentity
    <3>1. /\ UNCHANGED <<now, pool>>
          /\ refill' \in {"browser", "page", "stock"} => refill \in {"browser", "page", "stock"}
      BY <1>3, <2>3 DEF RefillThread, RefillWakes, BrowserIsKept, RefillFails, BrowserStarts,
                        PageGivesIdentity, BrowserDoesNotStart, MintFails
    <3> QED
      BY <1>0, <3>1 DEF PoolInv, PoolOK, Alone, Queued, InBounds
  <2> QED
    BY <1>3, <2>1, <2>2, <2>3 DEF RefillThread, RefillStep
<1>4. CASE Main
  <2>1. CASE Listens
    <3>1. (refill \in {"browser", "page", "stock"}) => Len(Live) < Target
      <4>1. Len(Live) <= Len(pool) /\ Len(Live) \in Nat /\ Len(pool) \in Nat
        BY <1>0, LiveIsPart, LenProperties DEF PoolInv, PoolOK
      <4> QED
        BY <1>0, <4>1, IdentityAssumption DEF PoolInv
    <3> QED
      BY <1>0, <1>4, <2>1, <3>1, PruneKeepsPool DEF Main, Listens
  <2>2. CASE ClosesBrowser
    BY <1>0, <1>4, <2>2, PoolUntouched DEF Main, ClosesBrowser
  <2>3. CASE IdentityRestarts
    BY <1>0, <1>4, <2>3, EmptyPool DEF Main, IdentityRestarts, Reborn
  <2> QED
    BY <1>4, <2>1, <2>2, <2>3 DEF Main, MainStep
<1>5. CASE Fault
  <2>1. CASE BrowserDies \/ Interrupted
    BY <1>0, <1>5, <2>1, PoolUntouched DEF Fault, BrowserDies, Interrupted
  <2>2. CASE Killed
    BY <1>0, <1>5, <2>2, EmptyPool DEF Fault, Killed, IdentityKilled, Reborn
  <2>3. CASE TokenRestarts /\ UNCHANGED identityVars
    BY <1>0, <1>5, <2>3, PoolUntouched DEF Fault
  <2> QED
    BY <1>5, <2>1, <2>2, <2>3 DEF Fault
<1>6. CASE Polled
  <2>1. (refill \in {"browser", "page", "stock"}) => Len(Live) < Target
    <3>1. Len(Live) <= Len(pool) /\ Len(Live) \in Nat /\ Len(pool) \in Nat
      BY <1>0, LiveIsPart, LenProperties DEF PoolInv, PoolOK
    <3> QED
      BY <1>0, <3>1, IdentityAssumption DEF PoolInv
  <2> QED
    BY <1>0, <1>6, <2>1, PruneKeepsPool DEF Polled, Health
<1>7. CASE ServicesTick
  <2>1. now' = now + 1 /\ UNCHANGED <<pool, refill>>
    BY <1>7 DEF ServicesTick
  <2>2. Len(pool) \in Nat /\ \A i \in 1..Len(pool) : pool[i].born \in Nat
    BY <1>0, IdsOf DEF PoolInv, PoolOK, Identity
  <2>3. InBounds(pool)'
    BY <1>0, <2>1, <2>2 DEF PoolInv, PoolOK, InBounds
  <2> QED
    BY <1>0, <2>1, <2>3 DEF PoolInv, PoolOK, Alone, Queued
<1>8. CASE UNCHANGED servicesVars
  BY <1>0, <1>8, PoolUntouched
<1> QED
  BY <1>1, <1>2, <1>3, <1>4, <1>5, <1>6, <1>7, <1>8 DEF ServicesNext

\* Every step keeps the rest in its types.
LEMMA ModesKept ==
  ASSUME ServicesInv, [ServicesNext]_servicesVars
  PROVE  Modes'
<1> USE DEF servicesVars, identityVars, tokenVars
<1>0. Modes
  BY DEF ServicesInv
<1>1. CASE \E c \in Callers : AccountCalls(c) \/ GuestCalls(c) \/ TokenAnswered(c)
             \/ GivesUp(c) \/ IdentityAnswered(c) \/ IdentityRefused(c) \/ TokenThread(c)
  <2>1. UNCHANGED <<now, faults, refill, browser, main, since>>
    BY <1>1 DEF AccountCalls, GuestCalls, TokenAnswered, GivesUp, IdentityAnswered,
                IdentityRefused, TokenThread
  <2> QED
    BY <1>0, <2>1 DEF Modes
<1>2. CASE RefillThread
  BY <1>0, <1>2 DEF RefillThread, RefillStep, RefillFails, RefillLooks, RefillWakes,
                    BrowserIsKept, BrowserStarts, BrowserDoesNotStart, PageGivesIdentity,
                    MintFails, RefillStocks, Modes
<1>3. CASE Main
  BY <1>0, <1>3, IdentityAssumption
    DEF Main, MainStep, Listens, ClosesBrowser, IdentityRestarts, Reborn, Modes
<1>4. CASE Fault
  BY <1>0, <1>4, IdentityAssumption
    DEF Fault, BrowserDies, Interrupted, Killed, IdentityKilled, Reborn, Modes
<1>5. CASE Polled
  BY <1>0, <1>5 DEF Polled, Health, Modes
<1>6. CASE ServicesTick
  BY <1>0, <1>6, IdentityAssumption DEF ServicesTick, Modes
<1>7. CASE UNCHANGED servicesVars
  BY <1>0, <1>7 DEF Modes
<1> QED
  BY <1>1, <1>2, <1>3, <1>4, <1>5, <1>6, <1>7 DEF ServicesNext

\* What one thread does to its record.
LEMMA ThreadMoves ==
  ASSUME TokensInv, NEW c \in Callers, NEW where, Goes(c, where)
  PROVE  /\ \A d \in Callers \ {c} : thread'[d] = thread[d]
         /\ thread'[c].at = where /\ thread'[c].account = thread[c].account
         /\ where \in {"idle", "asking", "signing", "served", "refused", "dropped"} =>
              thread' \in [Callers -> [at : {"idle", "asking", "signing", "served", "refused",
                                             "dropped"},
                                       account : Accounts \cup {Unknown, None}]]
BY DEF TokensInv, CallerOK, Goes

\* Steps that touch nothing of the token service and leave no request "new".
LEMMA TokensUntouched ==
  ASSUME TokensInv, UNCHANGED <<now, tokens, locks, thread>>,
         call' \in [Callers -> {"new", "token", "guest", "done"}],
         \A c \in Callers : call'[c] = "new" => call[c] = "new"
  PROVE  TokensInv'
BY DEF TokensInv, CallerOK, Fresh

\* A request that moves on is not new any more, and moves no other.
LEMMA Moved ==
  ASSUME TokensInv, NEW c \in Callers, NEW where \in {"token", "guest", "done"}, Moves(c, where)
  PROVE  /\ call' \in [Callers -> {"new", "token", "guest", "done"}]
         /\ \A d \in Callers : call'[d] = "new" => d # c /\ call[d] = "new"
BY DEF TokensInv, CallerOK, Moves

\* Every step keeps the threads of the token service and its locks in line: only the holder
\* of an account's lock asks for its token, and only while none that is fresh is cached.
LEMMA TokensKept ==
  ASSUME ServicesInv, [ServicesNext]_servicesVars
  PROVE  TokensInv'
<1> USE DEF servicesVars, identityVars, tokenVars
<1>0. TokensInv
  BY DEF ServicesInv
<1>1. ASSUME NEW c \in Callers, AccountCalls(c) PROVE TokensInv'
  <2>1. PICK a \in Accounts \cup {Unknown} : TokenAsked(c, a)
    BY <1>1 DEF AccountCalls
  <2>2. PICK r : r = [at |-> IF a \in Accounts THEN "asking" ELSE "refused", account |-> a]
    OBVIOUS
  <2>3. /\ r \in [at : {"idle", "asking", "signing", "served", "refused", "dropped"},
                  account : Accounts \cup {Unknown, None}]
        /\ r.at # "signing" /\ (r.at = "asking" => r.account \in Accounts)
    BY <2>2
  <2>4. thread' = [thread EXCEPT ![c] = r] /\ UNCHANGED <<now, tokens, locks>>
    BY <1>1, <2>1, <2>2 DEF TokenAsked, AccountCalls
  <2>5. /\ call' \in [Callers -> {"new", "token", "guest", "done"}]
        /\ \A d \in Callers : call'[d] = "new" => d # c /\ call[d] = "new"
    BY <1>0, <1>1, Moved DEF AccountCalls
  <2>6. /\ thread' \in [Callers -> [at : {"idle", "asking", "signing", "served", "refused",
                                          "dropped"},
                                    account : Accounts \cup {Unknown, None}]]
        /\ \A d \in Callers : thread'[d] = IF d = c THEN r ELSE thread[d]
    BY <1>0, <2>3, <2>4 DEF TokensInv, CallerOK
  <2> QED
    BY <1>0, <2>3, <2>4, <2>5, <2>6 DEF TokensInv, CallerOK, Fresh
<1>2. ASSUME NEW c \in Callers, TokenAnswered(c) PROVE TokensInv'
  <2>1. /\ call' \in [Callers -> {"new", "token", "guest", "done"}]
        /\ \A d \in Callers : call'[d] = "new" => d # c /\ call[d] = "new"
    BY <1>0, <1>2, Moved DEF TokenAnswered
  <2>2. thread' = [thread EXCEPT ![c] = Idle] /\ UNCHANGED <<now, tokens, locks>>
    BY <1>2 DEF TokenAnswered
  <2>3. /\ Idle \in [at : {"idle", "asking", "signing", "served", "refused", "dropped"},
                     account : Accounts \cup {Unknown, None}]
        /\ Idle.at = "idle"
    BY DEF Idle
  <2>4. /\ thread' \in [Callers -> [at : {"idle", "asking", "signing", "served", "refused",
                                          "dropped"},
                                    account : Accounts \cup {Unknown, None}]]
        /\ \A d \in Callers : thread'[d] = IF d = c THEN Idle ELSE thread[d]
    BY <1>0, <2>2, <2>3 DEF TokensInv, CallerOK
  <2> QED
    BY <1>0, <2>1, <2>2, <2>3, <2>4 DEF TokensInv, CallerOK, Fresh
<1>3. ASSUME NEW c \in Callers,
             GuestCalls(c) \/ GivesUp(c) \/ IdentityAnswered(c) \/ IdentityRefused(c)
      PROVE  TokensInv'
  <2>1. UNCHANGED <<now, tokens, locks, thread>> /\ (Moves(c, "guest") \/ Moves(c, "done"))
    BY <1>3 DEF GuestCalls, GivesUp, IdentityAnswered, IdentityRefused
  <2>2. /\ call' \in [Callers -> {"new", "token", "guest", "done"}]
        /\ \A d \in Callers : call'[d] = "new" => d # c /\ call[d] = "new"
    BY <1>0, <2>1, Moved
  <2> QED
    BY <1>0, <2>1, <2>2, TokensUntouched
<1>4. ASSUME NEW c \in Callers, TokenThread(c) PROVE TokensInv'
  <2> DEFINE a == thread[c].account
  <2>0. UNCHANGED <<now, call>> /\ call[c] \in {"new", "token", "guest", "done"}
    BY <1>0, <1>4 DEF TokenThread, TokensInv
  <2>1. CASE Enters(c, now)
    <3>1. thread[c].at = "asking" /\ a \in Accounts /\ locks[a] = None /\ UNCHANGED tokens
      BY <1>0, <2>1 DEF Enters, TokensInv, CallerOK, Available
    <3>2. CASE Fresh(a, now)
      <4>1. Goes(c, "served") /\ UNCHANGED locks
        BY <2>1, <3>2 DEF Enters
      <4> QED
        BY <1>0, <2>0, <3>1, <4>1, ThreadMoves DEF TokensInv, CallerOK, Fresh
    <3>3. CASE ~Fresh(a, now)
      <4>1. Goes(c, "signing") /\ locks' = [locks EXCEPT ![a] = c]
        BY <2>1, <3>3 DEF Enters
      <4>2. /\ \A d \in Callers \ {c} : thread'[d] = thread[d]
            /\ thread'[c].at = "signing" /\ thread'[c].account = a
            /\ thread' \in [Callers -> [at : {"idle", "asking", "signing", "served", "refused",
                                             "dropped"},
                                       account : Accounts \cup {Unknown, None}]]
        BY <1>0, <4>1, ThreadMoves
      <4>3. locks' \in [Accounts -> Callers \cup {None}]
        BY <1>0, <4>1 DEF TokensInv, CallerOK
      <4>4. ASSUME NEW d \in Callers
            PROVE  CallerOK(d)'
        <5>1. CASE d = c
          <6>1. call'[c] # "new"
            BY <1>0, <2>0, <3>1 DEF TokensInv, CallerOK
          <6>2. PICK b \in Accounts : b = a
            BY <3>1
          <6>3. locks'[b] = c
            BY <1>0, <3>1, <4>1, <6>2 DEF TokensInv
          <6>4. ~Fresh(b, now)'
            BY <2>0, <3>1, <3>3, <6>2 DEF Fresh
          <6>5. thread'[c].account = b /\ thread'[c].at = "signing"
            BY <4>2, <6>2
          <6> QED
            BY <5>1, <6>1, <6>3, <6>4, <6>5 DEF CallerOK
        <5>2. CASE d # c
          <6>1. thread'[d] = thread[d]
            BY <4>2, <5>2
          <6>2. thread[d].at = "signing" => thread[d].account # a
            BY <1>0, <3>1, TokenAssumption DEF TokensInv, CallerOK
          <6> QED
            BY <1>0, <2>0, <3>1, <4>1, <6>1, <6>2 DEF TokensInv, CallerOK, Fresh
        <5> QED
          BY <5>1, <5>2
      <4> QED
        BY <1>0, <2>0, <3>1, <4>2, <4>3, <4>4 DEF TokensInv, CallerOK
    <3> QED
      BY <3>2, <3>3
  <2>2. CASE SignsIn(c, now) \/ SignInRefused(c) \/ SignInBreaks(c)
    <3>1. thread[c].at = "signing" /\ a \in Accounts /\ locks[a] = c
      BY <1>0, <2>2 DEF SignsIn, SignInRefused, SignInBreaks, TokensInv, CallerOK
    <3>2. PICK where \in {"served", "refused", "dropped"} : Leaves(c, where)
      BY <2>2 DEF SignsIn, SignInRefused, SignInBreaks
    <3>3. /\ \A d \in Callers \ {c} : thread'[d] = thread[d]
          /\ thread'[c].at = where /\ thread'[c].account = a
          /\ thread' \in [Callers -> [at : {"idle", "asking", "signing", "served", "refused",
                                           "dropped"},
                                     account : Accounts \cup {Unknown, None}]]
      BY <1>0, <3>2, ThreadMoves DEF Leaves
    <3>4. locks' = [locks EXCEPT ![a] = None]
      BY <3>2 DEF Leaves
    <3>5. locks' \in [Accounts -> Callers \cup {None}]
      BY <1>0, <3>4 DEF TokensInv, CallerOK
    <3>6. tokens' \in [Accounts -> Never..now] /\ \A b \in Accounts \ {a} : tokens'[b] = tokens[b]
      BY <1>0, <2>2, <3>1 DEF TokensInv, CallerOK, SignsIn, SignInRefused, SignInBreaks, Never
    <3>7. ASSUME NEW d \in Callers
          PROVE  CallerOK(d)'
      <4>1. CASE d = c
        BY <1>0, <2>0, <3>1, <3>3, <4>1 DEF TokensInv, CallerOK
      <4>2. CASE d # c
        <5>1. thread'[d] = thread[d]
          BY <3>3, <4>2
        <5>2. thread[d].at = "signing" => thread[d].account \in Accounts \ {a}
          BY <1>0, <3>1, <4>2 DEF TokensInv, CallerOK
        <5> QED
          BY <1>0, <2>0, <3>4, <3>6, <5>1, <5>2 DEF TokensInv, CallerOK, Fresh
      <4> QED
        BY <4>1, <4>2
    <3> QED
      BY <1>0, <2>0, <3>3, <3>5, <3>6, <3>7 DEF TokensInv, CallerOK
  <2> QED
    BY <1>4, <2>1, <2>2 DEF TokenThread, TokenStep
<1>5. CASE RefillThread \/ Main \/ Polled
  BY <1>0, <1>5, TokensUntouched DEF RefillThread, Main, Polled, TokensInv
<1>6. CASE Fault
  <2>1. CASE (BrowserDies \/ Interrupted) /\ UNCHANGED <<tokenVars, call>>
    BY <1>0, <1>6, <2>1, TokensUntouched DEF Fault, TokensInv
  <2>2. CASE Killed /\ UNCHANGED tokenVars
    <3>1. call' = [c \in Callers |-> IF call[c] = "guest" THEN "done" ELSE call[c]]
      BY <2>2 DEF Killed
    <3>2. /\ call' \in [Callers -> {"new", "token", "guest", "done"}]
          /\ \A c \in Callers : call'[c] = "new" => call[c] = "new"
      BY <1>0, <3>1 DEF TokensInv, CallerOK
    <3> QED
      BY <1>0, <1>6, <2>2, <3>2, TokensUntouched DEF Fault
  <2>3. CASE TokenRestarts /\ UNCHANGED <<identityVars, call>>
    <3>1. /\ tokens' = [a \in Accounts |-> Never] /\ locks' = [a \in Accounts |-> None]
          /\ UNCHANGED <<now, call>>
      BY <1>6, <2>3 DEF TokenRestarts, Fault
    <3>2. thread' = [c \in Callers |-> IF thread[c].at \in {"asking", "signing"}
                                       THEN [thread[c] EXCEPT !.at = "dropped"] ELSE thread[c]]
      BY <2>3 DEF TokenRestarts
    <3>3. thread' \in [Callers -> [at : {"idle", "asking", "signing", "served", "refused",
                                         "dropped"},
                                   account : Accounts \cup {Unknown, None}]]
      BY <1>0, <3>2 DEF TokensInv, CallerOK
    <3>4. \A c \in Callers : /\ thread'[c].at \notin {"asking", "signing"}
                             /\ thread[c].at = "idle" => thread'[c].at = "idle"
      BY <1>0, <3>2 DEF TokensInv, CallerOK
    <3>5. tokens' \in [Accounts -> Never..now] /\ locks' \in [Accounts -> Callers \cup {None}]
      BY <1>0, <3>1 DEF TokensInv, CallerOK, Never
    <3> QED
      BY <1>0, <3>1, <3>3, <3>4, <3>5 DEF TokensInv, CallerOK
  <2> QED
    BY <1>6, <2>1, <2>2, <2>3 DEF Fault
<1>7. CASE ServicesTick
  <2>1. now' = now + 1 /\ UNCHANGED <<tokens, locks, thread, call>>
    BY <1>7 DEF ServicesTick
  <2>2. tokens \in [Accounts -> Never..(now + 1)]
    BY <1>0 DEF TokensInv, CallerOK, Never
  <2>3. \A a \in Accounts : tokens[a] \in Int /\ (Fresh(a, now + 1) => Fresh(a, now))
    BY <1>0, TokenAssumption DEF TokensInv, CallerOK, Fresh, Never
  <2>4. ASSUME NEW c \in Callers, thread[c].at = "signing"
        PROVE  locks[thread[c].account] = c /\ ~Fresh(thread[c].account, now + 1)
    BY <1>0, <2>3, <2>4 DEF TokensInv, CallerOK
  <2> QED
    BY <1>0, <2>1, <2>2, <2>4 DEF TokensInv, CallerOK, Fresh
<1>8. CASE UNCHANGED servicesVars
  BY <1>0, <1>8, TokensUntouched DEF TokensInv, CallerOK
<1> QED
  BY <1>1, <1>2, <1>3, <1>4, <1>5, <1>6, <1>7, <1>8 DEF ServicesNext

\* The invariant of the services holds at all times.
THEOREM ServicesInvariance == ServicesSpec => []ServicesInv
<1>1. ServicesInit => ServicesInv
  BY ServicesStart
<1>2. ServicesInv /\ [ServicesNext]_servicesVars => ServicesInv'
  <2> SUFFICES ASSUME ServicesInv, [ServicesNext]_servicesVars PROVE ServicesInv'
    OBVIOUS
  <2>1. PoolInv' /\ Modes' /\ TokensInv'
    BY PoolKept, ModesKept, TokensKept
  <2> QED
    BY <2>1 DEF ServicesInv
<1> QED
  BY <1>1, <1>2, PTL DEF ServicesSpec

\* MintedOnce follows from it.
LEMMA MintedOnceHolds == ServicesInv => MintedOnce
<1> SUFFICES ASSUME ServicesInv PROVE MintedOnce
  OBVIOUS
<1>1. Modes /\ PoolInv /\ TokensInv
  BY DEF ServicesInv
<1>2. IdentityTypeOK
  <2>1. /\ Len(pool) \in Nat /\ DOMAIN pool = 1..Len(pool)
        /\ \A i \in 1..Len(pool) : pool[i].uses \in Nat /\ pool[i].born \in Nat
    BY <1>1, IdsOf DEF PoolInv, PoolOK, Identity
  <2>2. \A i, j \in 1..Len(pool) : i # j => pool[i].id # pool[j].id
    BY <1>1 DEF PoolInv, PoolOK, Alone
  <2>3. \A i \in 1..Len(pool) : pool[i].uses \in 0..MaxUses /\ pool[i].born \in 0..now
    BY <1>1, <2>1, IdentityAssumption DEF PoolInv, PoolOK, InBounds
  <2>4. Len(pool) <= Target
    BY <1>1 DEF PoolInv
  <2> QED
    BY <1>1, <2>1, <2>2, <2>3, <2>4 DEF IdentityTypeOK, Modes
<1>3. ServicesTypeOK
  BY <1>1, <1>2 DEF ServicesTypeOK, Modes, TokensInv, TokenTypeOK
<1>4. ASSUME NEW a \in Accounts, NEW minting,
             minting = {c \in Callers : thread[c].account = a /\ thread[c].at = "signing"}
      PROVE  Cardinality(minting) <= 1 /\ (minting # {} => ~Fresh(a, now))
  <2>1. \A c \in minting : locks[a] = c /\ ~Fresh(a, now)
    BY <1>1, <1>4 DEF TokensInv, CallerOK
  <2>2. CASE minting = {}
    BY <2>2, FS_EmptySet
  <2>3. CASE minting # {}
    <3>1. minting = {locks[a]}
      BY <2>1, <2>3
    <3> QED
      BY <2>1, <3>1, FS_Singleton
  <2> QED
    BY <2>2, <2>3
<1> QED
  BY <1>3, <1>4 DEF MintedOnce

\* No account signs in twice at a time, and none while its token is fresh: the double check
\* under the lock holds for any number of callers and accounts.  No identity is twice in the
\* pool.
THEOREM TokensAreMintedOnce == ServicesSpec => []MintedOnce
BY ServicesInvariance, MintedOnceHolds, PTL

\* If identity e became f by being given, it was given in its turn.
Spent(e, f) ==
  (f.id = e.id /\ f.uses > e.uses) =>
    /\ f.uses <= MaxUses /\ now - e.born < Ttl
    /\ e.others \cap Ids(Live) = {}

\* take() gives the identity that has waited longest.
LEMMA GivenInTurn ==
  ASSUME PoolInv, Take, NEW i \in 1..Len(pool), NEW j \in 1..Len(pool')
  PROVE  Spent(pool[i], pool'[j])
<1>1. PICK s \in Seq(Identity) : s = Live
  BY LiveIsPart DEF PoolInv
<1>2. /\ pool' \in Seq(Identity) /\ Len(pool') = Len(s) /\ s # <<>>
      /\ \A k \in 1..(Len(s) - 1) :
           pool'[k].id = s[k + 1].id /\ pool'[k].uses = s[k + 1].uses
      /\ pool'[Len(s)].id = s[1].id /\ pool'[Len(s)].uses = s[1].uses + 1
  BY <1>1, TakeIsOK DEF PoolInv
<1>3. Len(s) \in Nat /\ Len(s) # 0 /\ Len(pool) \in Nat /\ Ids(s) = {s[k].id : k \in 1..Len(s)}
  BY <1>1, <1>2, IdsOf, EmptySeq DEF PoolInv, PoolOK
<1>4. PICK g : LiveFrom(g)
  BY LiveIsPart DEF PoolInv
<1>5. \A k \in 1..Len(s) : /\ g[k] \in 1..Len(pool) /\ Usable(pool[g[k]])
                           /\ s[k].id = pool[g[k]].id /\ s[k].uses = pool[g[k]].uses
  BY <1>1, <1>4 DEF LiveFrom
<1>6. \A k \in 1..Len(pool) : pool[k].uses \in Nat
  BY IdsOf DEF PoolInv, PoolOK, Identity
<1> SUFFICES ASSUME pool'[j].id = pool[i].id, pool'[j].uses > pool[i].uses
             PROVE  /\ pool'[j].uses <= MaxUses /\ now - pool[i].born < Ttl
                    /\ pool[i].others \cap Ids(Live) = {}
  BY DEF Spent
<1>7. j = Len(s)
  <2> SUFFICES ASSUME j \in 1..(Len(s) - 1) PROVE FALSE
    BY <1>2, <1>3
  <2>1. j + 1 \in 1..Len(s) /\ pool'[j].id = s[j + 1].id /\ pool'[j].uses = s[j + 1].uses
    BY <1>2, <1>3
  <2>2. g[j + 1] = i
    BY <1>5, <2>1 DEF PoolInv, PoolOK, Alone
  <2>3. pool'[j].uses = pool[i].uses
    BY <1>5, <2>1, <2>2
  <2> QED
    BY <1>6, <2>3
<1>8. 1 \in 1..Len(s) /\ g[1] = i
  <2>1. 1 \in 1..Len(s) /\ pool[g[1]].id = pool[i].id
    BY <1>2, <1>3, <1>5, <1>7
  <2> QED
    BY <1>5, <2>1 DEF PoolInv, PoolOK, Alone
<1>9. pool'[j].uses <= MaxUses /\ now - pool[i].born < Ttl
  <2>1. pool'[j].uses = pool[i].uses + 1 /\ Usable(pool[i])
    BY <1>2, <1>5, <1>7, <1>8
  <2> QED
    BY <1>6, <2>1, IdentityAssumption DEF Usable
<1>10. pool[i].others \cap Ids(s) = {}
  <2> SUFFICES ASSUME NEW x \in pool[i].others, x \in Ids(s) PROVE FALSE
    OBVIOUS
  <2>1. PICK k \in 1..Len(s) : s[k].id = x
    BY <1>3
  <2>2. PICK m \in 1..Len(pool) : m < i /\ pool[m].id = x
    BY DEF PoolInv, PoolOK, Queued
  <2>3. g[k] = m
    BY <1>5, <2>1, <2>2 DEF PoolInv, PoolOK, Alone
  <2>4. k # 1 /\ ~(1 < k)
    BY <1>1, <1>3, <1>4, <1>8, <2>2, <2>3 DEF LiveFrom
  <2> QED
    BY <1>3, <2>4
<1> QED
  BY <1>1, <1>9, <1>10

\* A step that keeps the pool, drops some of it or empties it gives nothing.
LEMMA NothingGiven ==
  ASSUME PoolInv, pool' = pool \/ Prune \/ pool' = <<>>,
         NEW i \in 1..Len(pool), NEW j \in 1..Len(pool')
  PROVE  Spent(pool[i], pool'[j])
<1>1. \A k \in 1..Len(pool) : pool[k].uses \in Nat
  BY IdsOf DEF PoolInv, PoolOK, Identity
<1>2. PICK k \in 1..Len(pool) : pool'[j].id = pool[k].id /\ pool'[j].uses = pool[k].uses
  <2>1. CASE pool' = pool
    BY <2>1
  <2>2. CASE Prune
    <3>1. PICK g : LiveFrom(g)
      BY LiveIsPart DEF PoolInv
    <3>2. j \in 1..Len(Live) /\ pool'[j] = Live[j]
      BY <2>2 DEF Prune
    <3> QED
      BY <3>1, <3>2 DEF LiveFrom
  <2>3. CASE pool' = <<>>
    BY <2>3
  <2> QED
    BY <2>1, <2>2, <2>3
<1>3. pool'[j].id = pool[i].id => k = i
  BY <1>2 DEF PoolInv, PoolOK, Alone
<1> QED
  BY <1>1, <1>2, <1>3 DEF Spent

\* Every step gives identities in their turn, or gives none.
LEMMA SpentStep ==
  ASSUME ServicesInv, [ServicesNext]_servicesVars
  PROVE  \A i \in 1..Len(pool), j \in 1..Len(pool') : Spent(pool[i], pool'[j])
<1> USE DEF servicesVars, identityVars, tokenVars
<1> SUFFICES ASSUME NEW i \in 1..Len(pool), NEW j \in 1..Len(pool') PROVE Spent(pool[i], pool'[j])
  OBVIOUS
<1>0. PoolInv
  BY DEF ServicesInv
<1>1. ASSUME NEW c \in Callers, IdentityAnswered(c)
      PROVE  Spent(pool[i], pool'[j])
  BY <1>0, <1>1, NothingGiven, GivenInTurn DEF IdentityAnswered
<1>2. CASE \E c \in Callers : AccountCalls(c) \/ GuestCalls(c) \/ TokenAnswered(c)
             \/ GivesUp(c) \/ IdentityRefused(c) \/ TokenThread(c)
  <2>1. pool' = pool
    BY <1>2 DEF AccountCalls, GuestCalls, TokenAnswered, GivesUp, IdentityRefused, TokenThread
  <2> QED
    BY <1>0, <2>1, NothingGiven
<1>3. CASE RefillThread
  <2>1. CASE RefillStocks
    <3>1. Stock /\ refill = "stock" /\ now' = now
      BY <1>3, <2>1 DEF RefillThread, RefillStocks
    <3>2. /\ \A k \in 1..Len(pool) : pool'[k] = pool[k]
          /\ Len(pool') = Len(pool) + 1 /\ pool'[Len(pool')].id \notin Ids(pool)
      BY <1>0, <3>1, StockKeepsPool DEF PoolInv
    <3>3. Len(pool) \in Nat /\ Ids(pool) = {pool[k].id : k \in 1..Len(pool)}
          /\ \A k \in 1..Len(pool) : pool[k].uses \in Nat
      BY <1>0, IdsOf DEF PoolInv, PoolOK, Identity
    <3>4. CASE j = Len(pool')
      BY <3>2, <3>3, <3>4 DEF Spent
    <3>5. CASE j \in 1..Len(pool)
      <4>1. pool'[j] = pool[j]
        BY <3>2, <3>5
      <4>2. pool[j].id = pool[i].id => j = i
        BY <1>0, <3>5 DEF PoolInv, PoolOK, Alone
      <4> QED
        BY <3>3, <4>1, <4>2 DEF Spent
    <3> QED
      BY <3>2, <3>3, <3>4, <3>5
  <2>2. CASE ~RefillStocks
    <3>1. pool' = pool \/ Prune
      BY <1>3, <2>2 DEF RefillThread, RefillStep, RefillFails, RefillLooks, RefillWakes,
                        BrowserIsKept, BrowserStarts, BrowserDoesNotStart, PageGivesIdentity,
                        MintFails
    <3> QED
      BY <1>0, <3>1, NothingGiven
  <2> QED
    BY <2>1, <2>2
<1>4. CASE Main \/ Fault \/ Polled \/ ServicesTick \/ UNCHANGED servicesVars
  <2>1. pool' = pool \/ Prune \/ pool' = <<>>
    BY <1>4 DEF Main, MainStep, Listens, ClosesBrowser, IdentityRestarts, Reborn, Fault,
                BrowserDies, Interrupted, Killed, IdentityKilled, Polled, Health, ServicesTick
  <2> QED
    BY <1>0, <2>1, NothingGiven
<1> QED
  BY <1>1, <1>2, <1>3, <1>4 DEF ServicesNext

\* An identity is given again only within its quota and its time, and only after all those
\* that stood before it: the pool is a queue that take() goes round.
THEOREM IdentitiesAreSpentInTurn == ServicesSpec => SpentInTurn
<1>1. ASSUME ServicesInv, ServicesInv', [ServicesNext]_servicesVars
      PROVE  \A e \in ToSet(pool), f \in ToSet(pool') :
               (f.id = e.id /\ f.uses > e.uses) =>
                  /\ f.uses <= MaxUses /\ now - e.born < Ttl
                  /\ e.others \cap Ids(Live) = {}
  <2>1. \A i \in 1..Len(pool), j \in 1..Len(pool') : Spent(pool[i], pool'[j])
    BY <1>1, SpentStep
  <2>2. DOMAIN pool = 1..Len(pool)
    BY <1>1, IdsOf DEF ServicesInv, PoolInv, PoolOK
  <2>3. DOMAIN pool' = 1..Len(pool')
    <3>1. pool' \in Seq(Identity)
      BY <1>1 DEF ServicesInv, PoolInv, PoolOK
    <3> QED
      BY <3>1, IdsOf
  <2> QED
    BY <2>1, <2>2, <2>3 DEF ToSet, Spent
<1> QED
  BY <1>1, ServicesInvariance, PTL DEF ServicesSpec, SpentInTurn

USE FallbackAssumption

-----------------------------------------------------------------------------
(* The fallback store: its types, that a park is always backed by a failure *)
(* of the last cooldown, and that failovers are not reported more than once *)
(* per cooldown, for any uploads, probes and durations.                     *)

\* What marks the start of a cooldown, seen from the two clocks that count it.
\* NoReportStorm needs the second conjunct: a park that is over means that the
\* last report is a whole cooldown old.
Evidence ==
  /\ ParkedOnEvidence
  /\ quiet < Cooldown => park >= Cooldown - quiet
  /\ NoReportStorm

StoreInv == TypeOK /\ Evidence

\* Steps that touch neither the park nor its histories.
LEMMA UntouchedPark ==
  ASSUME Evidence, UNCHANGED <<park, historyVars>>
  PROVE  Evidence'
BY DEF Evidence, ParkedOnEvidence, NoReportStorm, historyVars

\* The three things that happen to the park keep its histories in line with it.
LEMMA ParkChanges ==
  ASSUME TypeOK, Evidence, Park \/ Unpark
  PROVE  /\ park' \in 0..Cooldown /\ age' \in 0..Long /\ quiet' \in 0..Long
         /\ storm' \in BOOLEAN
         /\ Evidence'
<1>1. CASE Unpark
  BY <1>1 DEF TypeOK, Evidence, ParkedOnEvidence, NoReportStorm, Unpark, Long
<1>2. CASE Park /\ Parked
  BY <1>2 DEF TypeOK, Evidence, ParkedOnEvidence, NoReportStorm, Park, Parked,
              ParkSilently, Long
<1>3. CASE Park /\ ~Parked
  <2>1. quiet >= Cooldown
    BY <1>3 DEF TypeOK, Evidence, Parked, Long
  <2>2. ~(quiet < Cooldown)
    BY <2>1 DEF TypeOK, Long
  <2>3. ParkAndReport /\ ~storm
    BY <1>3 DEF Park, Evidence, NoReportStorm
  <2>4. storm' = FALSE
    BY <2>2, <2>3, Zenon DEF ParkAndReport
  <2>5. park' = Cooldown /\ age' = 0 /\ quiet' = 0
    BY <2>3 DEF ParkAndReport
  <2>6. storm' \in BOOLEAN /\ NoReportStorm'
    BY <2>4 DEF NoReportStorm
  <2>7. /\ park' \in 0..Cooldown /\ age' \in 0..Long /\ quiet' \in 0..Long
        /\ ParkedOnEvidence' /\ (quiet < Cooldown => park >= Cooldown - quiet)'
    BY <2>5 DEF ParkedOnEvidence, Long
  <2> QED
    BY <2>6, <2>7 DEF Evidence
<1> QED
  BY <1>1, <1>2, <1>3

\* Leaving a store, or going on to the next, keeps the coroutines' types.
LEMMA TaskTyped ==
  ASSUME TypeOK, NEW t \in Tasks
  PROVE  /\ \A place \in {"idle", "secondary"} : MoveOn(t, place) =>
              /\ pc' \in [Tasks -> {"idle", "primary", "secondary"}]
              /\ troubled' \in [Tasks -> BOOLEAN]
         /\ Attempt(t) =>
              /\ pc' \in [Tasks -> {"idle", "primary", "secondary"}]
              /\ troubled' \in [Tasks -> BOOLEAN]
         /\ Leave(t) =>
              /\ timer' \in [Tasks -> Nat]
              /\ \A u \in Uploads : timer'[u] <= UploadTimeout
              /\ \A p \in Probes : timer'[p] <= ProbeTimeout
<1>1. ASSUME NEW place \in {"idle", "secondary"}, MoveOn(t, place)
      PROVE  /\ pc' \in [Tasks -> {"idle", "primary", "secondary"}]
             /\ troubled' \in [Tasks -> BOOLEAN]
  BY <1>1 DEF MoveOn, TypeOK
<1>2. ASSUME Attempt(t)
      PROVE  /\ pc' \in [Tasks -> {"idle", "primary", "secondary"}]
             /\ troubled' \in [Tasks -> BOOLEAN]
  BY <1>2 DEF Attempt, TypeOK
<1>3. ASSUME Leave(t)
      PROVE  /\ timer' \in [Tasks -> Nat]
             /\ \A u \in Uploads : timer'[u] <= UploadTimeout
             /\ \A p \in Probes : timer'[p] <= ProbeTimeout
  BY <1>3 DEF Leave, TypeOK, Tasks
<1> QED
  BY <1>1, <1>2, <1>3

\* A worker starts with the primary not parked and no history.
LEMMA StoreInit == Init => StoreInv
<1> SUFFICES ASSUME Init PROVE StoreInv
  OBVIOUS
<1>1. TypeOK
  <2>1. /\ pc \in [Tasks -> {"idle", "primary", "secondary"}]
        /\ troubled \in [Tasks -> BOOLEAN]
        /\ outcome \in [Uploads -> Outcomes]
    BY DEF Init, Outcomes
  <2>2. /\ timer \in [Tasks -> Nat]
        /\ \A u \in Uploads : timer[u] <= UploadTimeout
        /\ \A p \in Probes : timer[p] <= ProbeTimeout
    BY DEF Init, Tasks
  <2>3. storm \in BOOLEAN
    BY DEF Init
  <2>4. age \in 0..Long /\ quiet \in 0..Long
    BY DEF Init, Long
  <2>5. park \in 0..Cooldown /\ primary \in {"up", "down", "hung"}
    BY DEF Init
  <2> QED
    BY <2>1, <2>2, <2>3, <2>4, <2>5 DEF TypeOK
<1>2. Evidence
  BY DEF Init, Evidence, ParkedOnEvidence, NoReportStorm, Long
<1> QED
  BY <1>1, <1>2 DEF StoreInv

\* Every step of an upload, a probe, the primary or time keeps the invariant.
LEMMA StoreStep == StoreInv /\ [Next]_vars => StoreInv'
<1> SUFFICES ASSUME StoreInv, [Next]_vars PROVE StoreInv'
  OBVIOUS
<1>0. TypeOK /\ Evidence /\ Uploads \subseteq Tasks /\ Probes \subseteq Tasks
  BY DEF StoreInv, Tasks
<1>1. ASSUME NEW u \in Uploads, StartUpload(u)
      PROVE  StoreInv'
  <2>1. TypeOK'
    <3>1. /\ timer' = [timer EXCEPT ![u] = UploadTimeout]
          /\ outcome' = [outcome EXCEPT ![u] = "none"]
          /\ MoveOn(u, "secondary") \/ Attempt(u)
          /\ UNCHANGED <<primary, park, historyVars>>
      BY <1>1 DEF StartUpload
    <3>2. /\ pc' \in [Tasks -> {"idle", "primary", "secondary"}]
          /\ troubled' \in [Tasks -> BOOLEAN]
      BY <1>0, <3>1, TaskTyped
    <3>3. /\ timer' \in [Tasks -> Nat]
          /\ \A v \in Uploads : timer'[v] <= UploadTimeout
          /\ \A p \in Probes : timer'[p] <= ProbeTimeout
      BY <1>0, <3>1 DEF TypeOK, Tasks
    <3>4. outcome' \in [Uploads -> Outcomes]
      BY <1>0, <3>1 DEF TypeOK, Outcomes
    <3> QED
      BY <1>0, <3>1, <3>2, <3>3, <3>4 DEF TypeOK, historyVars
  <2> QED
    BY <1>0, <1>1, <2>1, UntouchedPark DEF StartUpload, StoreInv
<1>2. ASSUME NEW u \in Uploads, UploadStep(u)
      PROVE  StoreInv'
  <2>1. CASE PrimaryStores(u)
    <3>1. Unpark /\ Return(u, "primary") /\ UNCHANGED primary
      BY <2>1 DEF PrimaryStores
    <3> QED
      BY <1>0, <3>1, ParkChanges, TaskTyped
      DEF StoreInv, TypeOK, Return, Leave, Outcomes
  <2>2. CASE PrimaryFails(u)
    <3>1. Park /\ GoToSecondary(u) /\ UNCHANGED <<primary, outcome>>
      BY <2>2 DEF PrimaryFails
    <3> QED
      BY <1>0, <3>1, ParkChanges, TaskTyped DEF StoreInv, TypeOK, GoToSecondary
  <2>3. CASE SecondaryAnswers(u) \/ UploadTimesOut(u) \/ UploadCancelled(u)
    <3>1. PICK result \in Outcomes : Return(u, result)
      BY <2>3 DEF SecondaryAnswers, UploadTimesOut, UploadCancelled, Outcomes
    <3>2. UNCHANGED <<primary, park, historyVars>>
      BY <2>3 DEF SecondaryAnswers, UploadTimesOut, UploadCancelled
    <3>3. TypeOK'
      BY <1>0, <3>1, <3>2, TaskTyped DEF TypeOK, Return, Leave, historyVars
    <3> QED
      BY <1>0, <3>2, <3>3, UntouchedPark DEF StoreInv
  <2> QED
    BY <1>2, <2>1, <2>2, <2>3 DEF UploadStep
<1>3. ASSUME NEW p \in Probes, StartProbe(p)
      PROVE  StoreInv'
  <2>1. /\ timer' = [timer EXCEPT ![p] = ProbeTimeout] /\ Attempt(p)
        /\ UNCHANGED <<primary, park, outcome, historyVars>>
    BY <1>3 DEF StartProbe
  <2>2. TypeOK'
    BY <1>0, <2>1, TaskTyped DEF TypeOK, Tasks, historyVars
  <2> QED
    BY <1>0, <2>1, <2>2, UntouchedPark DEF StoreInv
<1>4. ASSUME NEW p \in Probes, ProbeStep(p)
      PROVE  StoreInv'
  <2>1. CASE ProbeHealthy(p)
    <3>1. Unpark /\ Leave(p) /\ UNCHANGED <<primary, outcome>>
      BY <2>1 DEF ProbeHealthy
    <3> QED
      BY <1>0, <3>1, ParkChanges, TaskTyped DEF StoreInv, TypeOK, Leave
  <2>2. CASE ProbeUnhealthy(p)
    <3>1. GoToSecondary(p) /\ UNCHANGED <<primary, outcome>>
      BY <2>2 DEF ProbeUnhealthy
    <3>2. CASE Park
      BY <1>0, <3>1, <3>2, ParkChanges, TaskTyped DEF StoreInv, TypeOK, GoToSecondary
    <3>3. CASE UNCHANGED <<park, historyVars>>
      <4>1. TypeOK'
        BY <1>0, <3>1, <3>3, TaskTyped DEF TypeOK, GoToSecondary, historyVars
      <4> QED
        BY <1>0, <3>3, <4>1, UntouchedPark DEF StoreInv
    <3> QED
      BY <2>2, <3>2, <3>3 DEF ProbeUnhealthy
  <2>3. CASE ProbeEnds(p)
    <3>1. Leave(p) /\ UNCHANGED <<primary, park, outcome, historyVars>>
      BY <2>3 DEF ProbeEnds
    <3>2. TypeOK'
      BY <1>0, <3>1, TaskTyped DEF TypeOK, Leave, historyVars
    <3> QED
      BY <1>0, <3>1, <3>2, UntouchedPark DEF StoreInv
  <2> QED
    BY <1>4, <2>1, <2>2, <2>3 DEF ProbeStep
<1>5. ASSUME NEW state \in {"up", "down", "hung"}, PrimaryBecomes(state)
      PROVE  StoreInv'
  <2>1. TypeOK'
    BY <1>0, <1>5 DEF PrimaryBecomes, TypeOK, historyVars
  <2> QED
    BY <1>0, <1>5, <2>1, UntouchedPark DEF PrimaryBecomes, StoreInv
<1>6. CASE Tick
  <2>1. TypeOK'
    BY <1>0, <1>6 DEF Tick, TypeOK, Less, Older, Long, Tasks
  <2>2. Evidence'
    BY <1>0, <1>6
    DEF Tick, TypeOK, Less, Older, Long, Evidence, ParkedOnEvidence, NoReportStorm
  <2> QED
    BY <2>1, <2>2 DEF StoreInv
<1>7. CASE UNCHANGED vars
  <2>1. TypeOK'
    BY <1>0, <1>7 DEF vars, TypeOK
  <2> QED
    BY <1>0, <1>7, <2>1, UntouchedPark DEF vars, historyVars, StoreInv
<1> QED
  BY <1>1, <1>2, <1>3, <1>4, <1>5, <1>6, <1>7 DEF Next

\* The invariant holds throughout.
LEMMA StoreInvariant == Spec => []StoreInv
BY StoreInit, StoreStep, PTL DEF Spec

\* Every variable of the store and of its callers stays in its type.
THEOREM StoreTyping == Spec => []TypeOK
<1>1. StoreInv => TypeOK
  BY DEF StoreInv
<1> QED
  BY <1>1, StoreInvariant, PTL

\* The primary is parked exactly for what is left of the cooldown that the latest
\* unanswered failure started.
THEOREM ParkIsJustified == Spec => []ParkedOnEvidence
<1>1. StoreInv => ParkedOnEvidence
  BY DEF StoreInv, Evidence
<1> QED
  BY <1>1, StoreInvariant, PTL

\* No failover is reported twice within a cooldown without a success in between,
\* whatever number of uploads and probes fails together.
THEOREM ReportsAreRare == Spec => []NoReportStorm
<1>1. StoreInv => NoReportStorm
  BY DEF StoreInv, Evidence
<1> QED
  BY <1>1, StoreInvariant, PTL

=============================================================================
