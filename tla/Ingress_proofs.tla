--------------------------- MODULE Ingress_proofs ---------------------------
(***************************************************************************)
(* Proofs about Ingress, for any roots, manifests, refs, texts and edits:  *)
(* which text a look-up finds, what it may pass over, and that the script  *)
(* which runs is the text that was checked; and for whatever the doors are *)
(* sent: what they make of a conversation, and what a script is given.     *)
(*                                                                         *)
(* A door folds a body item by item, so what is said of a fold is carried  *)
(* from one item to the next (Recursion, Steps).  What the channel and the *)
(* supply do rests on what a stat tells.  A stat that was ever given to a  *)
(* file is not given again, neither to a later text of that file nor to    *)
(* the file of its other layout, so whatever was kept under a stat, by the *)
(* text cache or by a look-up between its stat and its read, is either out *)
(* of date for good or the text of the file that has this stat.            *)
(***************************************************************************)
EXTENDS Ingress, FiniteSetTheorems, SequenceTheorems, WellFoundedInduction, TLAPS

-----------------------------------------------------------------------------
(* Functions defined by recursion over an interval.                         *)

\* A set of numbers that is not empty has a least one.
LEMMA LeastNumber ==
  ASSUME NEW T \in SUBSET Nat, T # {}
  PROVE  \E x \in T : \A y \in T : x <= y
<1>1. IsWellFoundedOn(OpToRel(<, Nat), Nat)
  BY NatLessThanWellFounded
<1>2. PICK x \in T : \A y \in T : ~(<<y, x>> \in OpToRel(<, Nat))
  BY <1>1, WFMin
<1>3. \A y \in T : ~(y < x)
  BY <1>2 DEF OpToRel
<1> QED
  BY <1>3

\* What holds of 0, and of m + 1 whenever it holds of m, holds up to n.
LEMMA Steps ==
  ASSUME NEW n \in Nat, NEW T, 0 \in T, \A m \in 0..(n - 1) : m \in T => m + 1 \in T
  PROVE  \A m \in 0..n : m \in T
<1> SUFFICES ASSUME NEW z \in 0..n, z \notin T PROVE FALSE
  OBVIOUS
<1>1. PICK x \in (0..n) \ T : \A y \in (0..n) \ T : x <= y
  <2>1. (0..n) \ T \in SUBSET Nat /\ (0..n) \ T # {}
    OBVIOUS
  <2> QED
    BY <2>1, LeastNumber
<1>2. x \in Nat /\ x # 0 /\ x - 1 \in 0..(n - 1) /\ (x - 1) + 1 = x
  BY <1>1
<1>3. x - 1 \in T
  BY <1>1, <1>2
<1> QED
  BY <1>1, <1>2, <1>3

\* f goes from start, by one step after the other.
Follows(f, start, step, m) == f[0] = start /\ \A i \in 1..m : f[i] = step[i][f[i - 1]]

\* What is carried from one number to the next can be carried up to n.
LEMMA Recursion ==
  ASSUME NEW n \in Nat, NEW S, NEW start \in S, NEW step \in [1..n -> [S -> S]]
  PROVE  \E f \in [0..n -> S] : Follows(f, start, step, n)
<1> DEFINE T == {m \in 0..n : \E f \in [0..m -> S] : Follows(f, start, step, m)}
<1>1. 0 \in T
  <2>1. PICK f : f = [i \in 0..0 |-> start]
    OBVIOUS
  <2>2. f \in [0..0 -> S] /\ Follows(f, start, step, 0)
    BY <2>1 DEF Follows
  <2> QED
    BY <2>2
<1>2. ASSUME NEW m \in 0..(n - 1), m \in T PROVE m + 1 \in T
  <2>1. PICK f \in [0..m -> S] : Follows(f, start, step, m)
    BY <1>2
  <2>2. m \in Nat /\ m + 1 \in 1..n /\ f[m] \in S /\ m + 1 \in 0..n
    OBVIOUS
  <2>3. PICK v \in S : v = step[m + 1][f[m]]
    BY <2>2
  <2>4. PICK g : g = [i \in 0..(m + 1) |-> IF i = m + 1 THEN v ELSE f[i]]
    OBVIOUS
  <2>5. g \in [0..(m + 1) -> S]
    BY <2>2, <2>4
  <2>6. /\ g[0] = f[0] /\ g[m] = f[m] /\ g[m + 1] = v
        /\ \A i \in 1..m : g[i] = f[i] /\ g[i - 1] = f[i - 1]
    BY <2>2, <2>4
  <2>7. ASSUME NEW i \in 1..(m + 1) PROVE g[i] = step[i][g[i - 1]]
    <3>1. CASE i = m + 1
      BY <2>2, <2>3, <2>6, <3>1
    <3>2. CASE i \in 1..m
      BY <2>1, <2>6, <3>2 DEF Follows
    <3> QED
      BY <2>2, <3>1, <3>2
  <2>8. Follows(g, start, step, m + 1)
    BY <2>1, <2>6, <2>7 DEF Follows
  <2> QED
    BY <2>2, <2>5, <2>8
<1>3. n \in T
  <2> HIDE DEF T
  <2>1. \A m \in 0..n : m \in T
    BY <1>1, <1>2, Steps
  <2> QED
    BY <2>1
<1> QED
  BY <1>3

-----------------------------------------------------------------------------
(* Sequences put together of pieces.                                        *)

\* What the first k pieces amount to.
UpTo(p) ==
  CHOOSE g : g = [k \in 0..Len(p) |-> IF k = 0 THEN <<>> ELSE g[k - 1] \o p[k]]

\* What is strung together grows piece by piece, and holds what the pieces hold.
LEMMA StrungByPieces ==
  ASSUME NEW V, NEW p \in Seq(Seq(V))
  PROVE  /\ UpTo(p) \in [0..Len(p) -> Seq(V)] /\ UpTo(p)[0] = <<>>
         /\ \A i \in 1..Len(p) : UpTo(p)[i] = UpTo(p)[i - 1] \o p[i]
         /\ Strung(p) = UpTo(p)[Len(p)] /\ Strung(p) \in Seq(V)
<1> DEFINE n == Len(p)
           step == [i \in 1..n |-> [s \in Seq(V) |-> s \o p[i]]]
           h == UpTo(p)
<1>1. n \in Nat /\ \A i \in 1..n : p[i] \in Seq(V)
  BY LenProperties, ElementOfSeq
<1>2. \A s \in Seq(V) : \A i \in 1..n : s \o p[i] \in Seq(V)
  BY <1>1, ConcatProperties
<1>3. <<>> \in Seq(V)
  BY EmptySeq
<1>4. /\ step \in [1..n -> [Seq(V) -> Seq(V)]]
      /\ \A s \in Seq(V) : \A i \in 1..n : step[i][s] = s \o p[i]
  BY <1>2
<1>5. PICK f \in [0..n -> Seq(V)] : Follows(f, <<>>, step, n)
  <2> HIDE DEF n, step
  <2> QED
    BY <1>1, <1>3, <1>4, Recursion
<1> HIDE DEF step
<1>6. \A i \in 1..n : f[i] = f[i - 1] \o p[i]
  <2> SUFFICES ASSUME NEW i \in 1..n PROVE f[i] = f[i - 1] \o p[i]
    OBVIOUS
  <2>1. i - 1 \in 0..n
    BY <1>1
  <2>2. f[i - 1] \in Seq(V)
    BY <2>1
  <2> QED
    BY <1>4, <1>5, <2>2 DEF Follows
<1>7. f = [k \in 0..n |-> IF k = 0 THEN <<>> ELSE f[k - 1] \o p[k]]
  <2>1. ASSUME NEW k \in 0..n PROVE f[k] = IF k = 0 THEN <<>> ELSE f[k - 1] \o p[k]
    <3>1. k = 0 \/ k \in 1..n
      BY <1>1
    <3>2. 0 \notin 1..n
      OBVIOUS
    <3> QED
      BY <1>5, <1>6, <3>1, <3>2, Zenon DEF Follows
  <2>2. f = [k \in 0..n |-> f[k]]
    OBVIOUS
  <2> QED
    BY <2>1, <2>2
<1>8. h = [k \in 0..n |-> IF k = 0 THEN <<>> ELSE h[k - 1] \o p[k]]
  BY <1>7 DEF UpTo
<1>9. Strung(p) = h[n]
  BY DEF Strung, UpTo
<1> HIDE DEF h
<1>10. h[0] = <<>> /\ \A i \in 1..n : h[i] = h[i - 1] \o p[i]
  <2>1. 0 \in 0..n /\ \A i \in 1..n : i \in 0..n /\ i # 0
    BY <1>1
  <2> QED
    BY <1>8, <2>1, Zenon
<1> DEFINE T == {m \in 0..n : h[m] \in Seq(V)}
<1>11. 0 \in T
  <2>1. 0 \in 0..n
    BY <1>1
  <2> QED
    BY <1>3, <1>10, <2>1, Zenon
<1>12. ASSUME NEW m \in 0..(n - 1), m \in T PROVE m + 1 \in T
  <2>1. m + 1 \in 1..n /\ m + 1 \in 0..n /\ (m + 1) - 1 = m
    BY <1>1
  <2>2. h[m + 1] = h[m] \o p[m + 1]
    BY <1>10, <2>1
  <2>3. h[m] \in Seq(V)
    BY <1>12
  <2> QED
    BY <1>2, <2>1, <2>2, <2>3
<1>13. \A m \in 0..n : h[m] \in Seq(V)
  <2> HIDE DEF T, n
  <2>1. \A m \in 0..n : m \in T
    BY <1>1, <1>11, <1>12, Steps
  <2> QED
    BY <2>1 DEF T
<1>14. h \in [0..n -> Seq(V)]
  BY <1>8, <1>13
<1> QED
  <2>1. n \in 0..n
    BY <1>1
  <2> QED
    BY <1>9, <1>10, <1>13, <1>14, <2>1, Zenon DEF h

-----------------------------------------------------------------------------
(* What the doors make of a body.                                           *)

Words == STRING \cup {Absent}
Bodies ==
  {Refused} \cup
    [ok : {TRUE}, model : Words, instructions : Seq(STRING), text : Seq(STRING),
     image : Seq(STRING), mask : Words, n : Words, format : Words, tools : Words, prior : {FALSE}]

\* Refused, or every field there.
IsBody(c) ==
  \/ c = Refused
  \/ c = [ok |-> TRUE, model |-> c.model, instructions |-> c.instructions, text |-> c.text,
          image |-> c.image, mask |-> c.mask, n |-> c.n, format |-> c.format,
          tools |-> c.tools, prior |-> c.prior]

\* One value makes a sequence.
LEMMA OneIsSeq ==
  ASSUME NEW V, NEW v \in V
  PROVE  <<v>> \in Seq(V)
<1>1. Append(<<>>, v) \in Seq(V)
  BY EmptySeq, AppendProperties
<1>2. Append(<<>>, v) = <<v>>
  OBVIOUS
<1> QED
  BY <1>1, <1>2

\* What is not refused has every field, and so has the body that a fold starts from.
LEMMA BodiesAreBodies ==
  /\ \A c \in Bodies : IsBody(c) /\ (c # Refused => c.ok)
  /\ Canonical \in Bodies
<1>1. ASSUME NEW c \in Bodies, c # Refused
      PROVE  IsBody(c) /\ c.ok
  <2>1. c.ok = TRUE
    BY <1>1 DEF Bodies
  <2>2. c = [ok |-> c.ok, model |-> c.model, instructions |-> c.instructions, text |-> c.text,
             image |-> c.image, mask |-> c.mask, n |-> c.n, format |-> c.format,
             tools |-> c.tools, prior |-> c.prior]
    BY <1>1 DEF Bodies
  <2> QED
    BY <2>1, <2>2, Zenon DEF IsBody
<1>2. Canonical \in Bodies
  BY EmptySeq DEF Bodies, Canonical, Words
<1> QED
  BY <1>1, <1>2 DEF IsBody

\* The references of a field are those of its values that say anything.
LEMMA UsableAre ==
  ASSUME NEW values \in Seq(STRING)
  PROVE  Usable(values) \in Seq(STRING)
<1> DEFINE piece(i) == IF values[i] \in {"nothing", "", Blank} THEN <<>> ELSE <<values[i]>>
           p == [i \in DOMAIN values |-> piece(i)]
<1>1. DOMAIN values = 1..Len(values) /\ Len(values) \in Nat
  BY LenProperties
<1>2. \A i \in 1..Len(values) : values[i] \in STRING
  BY ElementOfSeq
<1>3. \A v \in STRING : <<v>> \in Seq(STRING)
  BY OneIsSeq
<1>4. \A i \in 1..Len(values) : piece(i) \in Seq(STRING)
  BY <1>2, <1>3, EmptySeq
<1>5. p \in [1..Len(values) -> Seq(STRING)]
  BY <1>1, <1>4
<1>6. p \in Seq(Seq(STRING))
  <2> HIDE DEF p
  <2> QED
    BY <1>1, <1>5, SeqDef
<1>7. Usable(values) = Strung(p)
  BY DEF Usable
<1> HIDE DEF p
<1> QED
  BY <1>6, <1>7, StrungByPieces

\* A field leaves a body a body.
LEMMA FieldIsRead ==
  ASSUME NEW b \in Bodies, NEW f \in FormFields
  PROVE  ReadField(b, f) \in Bodies
<1> DEFINE field == FieldOf(f.key)
           refs == Usable(f.values)
<1>1. f.values \in Seq(STRING) /\ f.values # <<>>
  BY DEF FormFields
<1>2. Last(f.values) \in STRING
  <2>1. Len(f.values) \in 1..Len(f.values)
    BY <1>1, EmptySeq, LenProperties
  <2> QED
    BY <1>1, <2>1, ElementOfSeq DEF Last
<1>3. refs \in Seq(STRING) /\ (refs # <<>> => Head(refs) \in STRING)
  BY <1>1, UsableAre, HeadTailProperties
<1>4. field \in {"image", "mask", "prompt", "n"}
  BY DEF FieldOf, FormFields
<1> HIDE DEF field, refs
<1>5. CASE ~b.ok \/ FieldRefused(field, f.values)
  <2>1. ReadField(b, f) = Refused
    BY <1>5 DEF ReadField, field, refs
  <2> QED
    BY <2>1 DEF Bodies
<1>6. CASE b.ok /\ ~FieldRefused(field, f.values)
  <2>1. b # Refused
    BY <1>6 DEF Refused
  <2>2. CASE field = "prompt"
    <3>1. ReadField(b, f) = [b EXCEPT !.text = <<Last(f.values)>>]
      BY <1>6, <2>2 DEF ReadField, field, FileFields
    <3>2. <<Last(f.values)>> \in Seq(STRING)
      BY <1>2
    <3> QED
      BY <2>1, <3>1, <3>2 DEF Bodies
  <2>3. CASE field = "n"
    <3>1. ReadField(b, f) = [b EXCEPT !.n = Last(f.values)]
      BY <1>6, <2>3 DEF ReadField, field, FileFields
    <3> QED
      BY <1>2, <2>1, <3>1 DEF Bodies, Words
  <2>4. CASE field \in FileFields /\ refs = <<>>
    <3>1. ReadField(b, f) = b
      BY <1>6, <2>4 DEF ReadField, field, refs, FileFields
    <3> QED
      BY <3>1
  <2>5. CASE field = "image" /\ refs # <<>>
    <3>1. ReadField(b, f) = [b EXCEPT !.image = refs]
      BY <1>6, <2>5 DEF ReadField, field, refs, FileFields
    <3> QED
      BY <1>3, <2>1, <3>1 DEF Bodies
  <2>6. CASE field = "mask" /\ refs # <<>>
    <3>1. ReadField(b, f) = [b EXCEPT !.mask = Head(refs)]
      BY <1>6, <2>6 DEF ReadField, field, refs, FileFields
    <3> QED
      BY <1>3, <2>1, <2>6, <3>1 DEF Bodies, Words
  <2> QED
    BY <1>4, <2>2, <2>3, <2>4, <2>5, <2>6 DEF FileFields
<1> QED
  BY <1>5, <1>6

\* A form is read field by field.
LEMMA FormIsRead ==
  ASSUME NEW sent, sent.form \in Seq(FormFields)
  PROVE  FormToCanonical(sent) \in Bodies
<1> DEFINE form == sent.form
           n == Len(form)
           step == [i \in 1..n |-> [b \in Bodies |-> ReadField(b, form[i])]]
           after == CHOOSE g : g = [k \in 0..n |-> IF k = 0 THEN Canonical
                                                  ELSE ReadField(g[k - 1], form[k])]
<1>1. n \in Nat /\ \A i \in 1..n : form[i] \in FormFields
  BY LenProperties, ElementOfSeq
<1>2. /\ step \in [1..n -> [Bodies -> Bodies]]
      /\ \A b \in Bodies : \A i \in 1..n : step[i][b] = ReadField(b, form[i])
  BY <1>1, FieldIsRead
<1>3. PICK f \in [0..n -> Bodies] : Follows(f, Canonical, step, n)
  <2> HIDE DEF n, step
  <2> QED
    BY <1>1, <1>2, BodiesAreBodies, Recursion
<1> HIDE DEF step
<1>4. \A i \in 1..n : f[i] = ReadField(f[i - 1], form[i])
  <2> SUFFICES ASSUME NEW i \in 1..n PROVE f[i] = ReadField(f[i - 1], form[i])
    OBVIOUS
  <2>1. i - 1 \in 0..n
    BY <1>1
  <2>2. f[i - 1] \in Bodies
    BY <2>1
  <2> QED
    BY <1>2, <1>3, <2>2 DEF Follows
<1>5. f = [k \in 0..n |-> IF k = 0 THEN Canonical ELSE ReadField(f[k - 1], form[k])]
  <2>1. ASSUME NEW k \in 0..n
        PROVE  f[k] = IF k = 0 THEN Canonical ELSE ReadField(f[k - 1], form[k])
    <3>1. k = 0 \/ k \in 1..n
      BY <1>1
    <3>2. 0 \notin 1..n
      OBVIOUS
    <3> QED
      BY <1>3, <1>4, <3>1, <3>2, Zenon DEF Follows
  <2>2. f = [k \in 0..n |-> f[k]]
    OBVIOUS
  <2> QED
    BY <2>1, <2>2
<1>6. after = [k \in 0..n |-> IF k = 0 THEN Canonical ELSE ReadField(after[k - 1], form[k])]
  BY <1>5
<1>7. FormToCanonical(sent) = after[n]
  BY DEF FormToCanonical
<1> HIDE DEF after
<1>8. after[0] = Canonical /\ \A i \in 1..n : after[i] = ReadField(after[i - 1], form[i])
  <2>1. 0 \in 0..n /\ \A i \in 1..n : i \in 0..n /\ i # 0
    BY <1>1
  <2> QED
    BY <1>6, <2>1, Zenon
<1> DEFINE T == {m \in 0..n : after[m] \in Bodies}
<1>9. 0 \in T
  BY <1>1, <1>8, BodiesAreBodies
<1>10. ASSUME NEW m \in 0..(n - 1), m \in T PROVE m + 1 \in T
  <2>1. m + 1 \in 1..n /\ m + 1 \in 0..n /\ (m + 1) - 1 = m
    BY <1>1
  <2>2. after[m + 1] = ReadField(after[m], form[m + 1])
    BY <1>8, <2>1
  <2> QED
    BY <1>1, <1>10, <2>1, <2>2, FieldIsRead
<1>11. n \in T
  <2> HIDE DEF T, n
  <2>1. \A m \in 0..n : m \in T
    BY <1>1, <1>9, <1>10, Steps
  <2> QED
    BY <1>1, <2>1
<1> QED
  BY <1>7, <1>11

-----------------------------------------------------------------------------
(* What messages say and show.                                              *)

\* A function on 1..n is a sequence of length n.
LEMMA FunctionIsSeq ==
  ASSUME NEW n \in Nat, NEW S, NEW f \in [1..n -> S]
  PROVE  f \in Seq(S) /\ Len(f) = n
<1>1. f \in Seq(S)
  BY SeqDef
<1> QED
  BY <1>1, LenProperties

\* A message of the Chat door could be an item of the Responses door.
LEMMA ChatIsInput == ChatMessages \subseteq InputItems
BY DEF ChatMessages, InputItems

\* What the parts of a message hold is strings, and a bare string holds no picture.
LEMMA PartsRead ==
  ASSUME NEW parts \in Seq(ContentParts)
  PROVE  /\ TextsOf(parts) \in Seq(STRING) /\ RefsOf(parts) \in Seq(STRING)
         /\ Values(parts) \in Seq(STRING) /\ Len(Values(parts)) = Len(parts)
<1> DEFINE text(i) == IF parts[i].kind = "text" /\ parts[i].val # "" THEN <<parts[i].val>>
                      ELSE <<>>
           image(i) == IF parts[i].kind = "image" THEN <<parts[i].val>> ELSE <<>>
           p == [i \in DOMAIN parts |-> text(i)]
           q == [i \in DOMAIN parts |-> image(i)]
           v == [i \in DOMAIN parts |-> parts[i].val]
<1>1. DOMAIN parts = 1..Len(parts) /\ Len(parts) \in Nat
  BY LenProperties
<1>2. \A i \in 1..Len(parts) : parts[i].val \in STRING
  <2>1. \A i \in 1..Len(parts) : parts[i] \in ContentParts
    BY ElementOfSeq
  <2> QED
    BY <2>1 DEF ContentParts
<1>3. \A i \in 1..Len(parts) : <<parts[i].val>> \in Seq(STRING) /\ <<>> \in Seq(STRING)
  BY <1>2, OneIsSeq, EmptySeq
<1>4. \A i \in 1..Len(parts) : text(i) \in Seq(STRING) /\ image(i) \in Seq(STRING)
  BY <1>3
<1>5. /\ p \in [1..Len(parts) -> Seq(STRING)] /\ q \in [1..Len(parts) -> Seq(STRING)]
      /\ v \in [1..Len(parts) -> STRING]
  BY <1>1, <1>2, <1>4
<1>6. TextsOf(parts) = Strung(p) /\ RefsOf(parts) = Strung(q) /\ Values(parts) = v
  BY DEF TextsOf, RefsOf, Values
<1> HIDE DEF p, q, v
<1>7. p \in Seq(Seq(STRING)) /\ q \in Seq(Seq(STRING)) /\ v \in Seq(STRING)
      /\ Len(v) = Len(parts)
  BY <1>1, <1>5, FunctionIsSeq
<1> QED
  BY <1>6, <1>7, StrungByPieces

\* A bare string says something, and shows nothing.
LEMMA StringShowsNothing ==
  ASSUME NEW m \in InputItems, m.role = "string"
  PROVE  RefsOf(m.parts) = <<>> /\ Values(m.parts) # <<>>
<1>1. m.parts \in Seq(ContentParts) /\ Len(m.parts) = 1 /\ m.parts[1].kind = "text"
  BY DEF InputItems
<1>2. DOMAIN m.parts = 1..1
  BY <1>1, LenProperties
<1> DEFINE q == [i \in DOMAIN m.parts |->
                   IF m.parts[i].kind = "image" THEN <<m.parts[i].val>> ELSE <<>>]
<1>3. q = [i \in 1..1 |-> <<>>]
  <2>1. \A i \in 1..1 : i = 1
    OBVIOUS
  <2> QED
    BY <1>1, <1>2, <2>1
<1>4. RefsOf(m.parts) = Strung(q)
  BY DEF RefsOf
<1> HIDE DEF q
<1>5. q \in Seq(Seq(STRING)) /\ Len(q) = 1 /\ q[1] = <<>>
  <2>1. q \in [1..1 -> Seq(STRING)] /\ q[1] = <<>>
    BY <1>3, EmptySeq
  <2> QED
    BY <2>1, FunctionIsSeq
<1>6. Strung(q) = UpTo(q)[1] /\ UpTo(q)[0] = <<>> /\ UpTo(q)[1] = UpTo(q)[0] \o q[1]
  <2>1. /\ UpTo(q)[0] = <<>> /\ Strung(q) = UpTo(q)[Len(q)]
        /\ \A i \in 1..Len(q) : UpTo(q)[i] = UpTo(q)[i - 1] \o q[i]
    BY <1>5, StrungByPieces
  <2>2. 1 \in 1..1 /\ 1 - 1 = 0
    OBVIOUS
  <2>3. UpTo(q)[1] = UpTo(q)[1 - 1] \o q[1]
    BY <1>5, <2>1, <2>2
  <2> QED
    BY <1>5, <2>1, <2>2, <2>3
<1>7. RefsOf(m.parts) = <<>>
  <2>1. <<>> \o <<>> = <<>>
    OBVIOUS
  <2> QED
    BY <1>4, <1>5, <1>6, <2>1
<1>8. Values(m.parts) # <<>>
  BY <1>1, PartsRead, EmptySeq
<1> QED
  BY <1>7, <1>8

\* What an item says and shows is strings, and it carries if it says or shows anything.
LEMMA ItemsRead ==
  ASSUME NEW m \in InputItems
  PROVE  /\ ItemTexts(m) \in Seq(STRING) /\ RefsOf(m.parts) \in Seq(STRING)
         /\ TextsOf(m.parts) \in Seq(STRING) /\ Values(m.parts) \in Seq(STRING)
         /\ Carries(m) <=> ItemTexts(m) # <<>> \/ RefsOf(m.parts) # <<>>
<1>1. m.parts \in Seq(ContentParts)
  BY DEF InputItems
<1>2. CASE m.role = "string"
  BY <1>1, <1>2, PartsRead, StringShowsNothing DEF ItemTexts, Carries
<1>3. CASE m.role # "string"
  BY <1>1, <1>3, PartsRead DEF ItemTexts, Carries
<1> QED
  BY <1>2, <1>3

\* What the messages at the positions of P say and show, up to each position.
TextPieces(ms, P) == [i \in DOMAIN ms |-> IF i \in P THEN ItemTexts(ms[i]) ELSE <<>>]
RefPieces(ms, P) == [i \in DOMAIN ms |-> IF i \in P THEN RefsOf(ms[i].parts) ELSE <<>>]
Said(ms, P) == UpTo(TextPieces(ms, P))
Shown(ms, P) == UpTo(RefPieces(ms, P))

\* There is one piece for each message, and it is empty outside P.
LEMMA PiecesAre ==
  ASSUME NEW ms \in Seq(InputItems), NEW P
  PROVE  /\ TextPieces(ms, P) \in Seq(Seq(STRING)) /\ Len(TextPieces(ms, P)) = Len(ms)
         /\ RefPieces(ms, P) \in Seq(Seq(STRING)) /\ Len(RefPieces(ms, P)) = Len(ms)
         /\ \A i \in 1..Len(ms) :
              /\ i \in P => /\ TextPieces(ms, P)[i] = ItemTexts(ms[i])
                            /\ RefPieces(ms, P)[i] = RefsOf(ms[i].parts)
              /\ i \notin P => TextPieces(ms, P)[i] = <<>> /\ RefPieces(ms, P)[i] = <<>>
<1>1. DOMAIN ms = 1..Len(ms) /\ Len(ms) \in Nat /\ \A i \in 1..Len(ms) : ms[i] \in InputItems
  BY LenProperties, ElementOfSeq
<1>2. \A i \in 1..Len(ms) :
        ItemTexts(ms[i]) \in Seq(STRING) /\ RefsOf(ms[i].parts) \in Seq(STRING)
  BY <1>1, ItemsRead
<1> DEFINE p == TextPieces(ms, P)
           q == RefPieces(ms, P)
<1>3. /\ p \in [1..Len(ms) -> Seq(STRING)] /\ q \in [1..Len(ms) -> Seq(STRING)]
      /\ \A i \in 1..Len(ms) :
           /\ i \in P => p[i] = ItemTexts(ms[i]) /\ q[i] = RefsOf(ms[i].parts)
           /\ i \notin P => p[i] = <<>> /\ q[i] = <<>>
  BY <1>1, <1>2, EmptySeq DEF TextPieces, RefPieces
<1> HIDE DEF p, q
<1>4. /\ p \in Seq(Seq(STRING)) /\ Len(p) = Len(ms)
      /\ q \in Seq(Seq(STRING)) /\ Len(q) = Len(ms)
  BY <1>1, <1>3, FunctionIsSeq
<1> QED
  BY <1>3, <1>4 DEF p, q

\* Up to a position of P what its message says is appended, up to another nothing.
LEMMA Gather ==
  ASSUME NEW ms \in Seq(InputItems), NEW P
  PROVE  /\ Said(ms, P)[0] = <<>> /\ Shown(ms, P)[0] = <<>>
         /\ \A i \in 0..Len(ms) :
              Said(ms, P)[i] \in Seq(STRING) /\ Shown(ms, P)[i] \in Seq(STRING)
         /\ \A i \in 1..Len(ms) :
              /\ i \in P => /\ Said(ms, P)[i] = Said(ms, P)[i - 1] \o ItemTexts(ms[i])
                            /\ Shown(ms, P)[i] = Shown(ms, P)[i - 1] \o RefsOf(ms[i].parts)
              /\ i \notin P => /\ Said(ms, P)[i] = Said(ms, P)[i - 1]
                               /\ Shown(ms, P)[i] = Shown(ms, P)[i - 1]
<1> DEFINE a == Said(ms, P)
           b == Shown(ms, P)
<1>1. Len(ms) \in Nat
  BY LenProperties
<1>2. /\ a \in [0..Len(ms) -> Seq(STRING)] /\ a[0] = <<>>
      /\ \A i \in 1..Len(ms) : a[i] = a[i - 1] \o TextPieces(ms, P)[i]
  <2>1. PICK p \in Seq(Seq(STRING)) : p = TextPieces(ms, P) /\ Len(p) = Len(ms)
    BY PiecesAre
  <2>2. /\ UpTo(p) \in [0..Len(p) -> Seq(STRING)] /\ UpTo(p)[0] = <<>>
        /\ \A i \in 1..Len(p) : UpTo(p)[i] = UpTo(p)[i - 1] \o p[i]
    BY StrungByPieces
  <2> QED
    BY <2>1, <2>2 DEF Said
<1>3. /\ b \in [0..Len(ms) -> Seq(STRING)] /\ b[0] = <<>>
      /\ \A i \in 1..Len(ms) : b[i] = b[i - 1] \o RefPieces(ms, P)[i]
  <2>1. PICK p \in Seq(Seq(STRING)) : p = RefPieces(ms, P) /\ Len(p) = Len(ms)
    BY PiecesAre
  <2>2. /\ UpTo(p) \in [0..Len(p) -> Seq(STRING)] /\ UpTo(p)[0] = <<>>
        /\ \A i \in 1..Len(p) : UpTo(p)[i] = UpTo(p)[i - 1] \o p[i]
    BY StrungByPieces
  <2> QED
    BY <2>1, <2>2 DEF Shown
<1> HIDE DEF a, b
<1>4. ASSUME NEW i \in 1..Len(ms)
      PROVE  /\ i \in P => /\ a[i] = a[i - 1] \o ItemTexts(ms[i])
                           /\ b[i] = b[i - 1] \o RefsOf(ms[i].parts)
             /\ i \notin P => a[i] = a[i - 1] /\ b[i] = b[i - 1]
  <2>1. i - 1 \in 0..Len(ms)
    BY <1>1
  <2>2. a[i - 1] \in Seq(STRING) /\ b[i - 1] \in Seq(STRING)
    BY <1>2, <1>3, <2>1
  <2>3. a[i - 1] \o <<>> = a[i - 1] /\ b[i - 1] \o <<>> = b[i - 1]
    BY <2>2, ConcatEmptySeq
  <2>4. a[i] = a[i - 1] \o TextPieces(ms, P)[i] /\ b[i] = b[i - 1] \o RefPieces(ms, P)[i]
    BY <1>2, <1>3
  <2>5. CASE i \in P
    <3>1. TextPieces(ms, P)[i] = ItemTexts(ms[i]) /\ RefPieces(ms, P)[i] = RefsOf(ms[i].parts)
      BY <2>5, PiecesAre
    <3> QED
      BY <2>4, <2>5, <3>1
  <2>6. CASE i \notin P
    <3>1. TextPieces(ms, P)[i] = <<>> /\ RefPieces(ms, P)[i] = <<>>
      BY <2>6, PiecesAre
    <3> QED
      BY <2>3, <2>4, <2>6, <3>1
  <2> QED
    BY <2>5, <2>6
<1> QED
  BY <1>2, <1>3, <1>4 DEF a, b

\* Between positions of P nothing is added.
LEMMA GatherNothing ==
  ASSUME NEW ms \in Seq(InputItems), NEW P, NEW m \in 0..Len(ms), NEW k \in 0..m,
         \A i \in (k + 1)..m : i \notin P
  PROVE  Said(ms, P)[m] = Said(ms, P)[k] /\ Shown(ms, P)[m] = Shown(ms, P)[k]
<1> DEFINE T == {d \in 0..(m - k) : /\ Said(ms, P)[k + d] = Said(ms, P)[k]
                                    /\ Shown(ms, P)[k + d] = Shown(ms, P)[k]}
<1>1. Len(ms) \in Nat /\ m - k \in Nat /\ k + (m - k) = m /\ k + 0 = k
  BY LenProperties
<1>2. 0 \in T
  BY <1>1
<1>3. ASSUME NEW d \in 0..((m - k) - 1), d \in T PROVE d + 1 \in T
  <2>1. /\ d + 1 \in 0..(m - k) /\ k + (d + 1) \in (k + 1)..m /\ k + (d + 1) \in 1..Len(ms)
        /\ (k + (d + 1)) - 1 = k + d
    BY <1>1
  <2>2. k + (d + 1) \notin P
    BY <2>1
  <2>3. PICK i \in 1..Len(ms) : i = k + (d + 1)
    BY <2>1
  <2>4. Said(ms, P)[i] = Said(ms, P)[i - 1] /\ Shown(ms, P)[i] = Shown(ms, P)[i - 1]
    BY <2>2, <2>3, Gather
  <2> QED
    BY <1>3, <2>1, <2>3, <2>4
<1>4. m - k \in T
  <2> HIDE DEF T
  <2>1. \A d \in 0..(m - k) : d \in T
    BY <1>1, <1>2, <1>3, Steps
  <2> QED
    BY <1>1, <2>1
<1> QED
  BY <1>1, <1>4

\* What the fold is compared with.
LEMMA GatheredAt ==
  ASSUME NEW sent, sent.messages \in Seq(InputItems), NEW P
  PROVE  /\ TextsAt(sent, P) = Said(sent.messages, P)[Len(sent.messages)]
         /\ RefsAt(sent, P) = Shown(sent.messages, P)[Len(sent.messages)]
<1>1. PICK ms \in Seq(InputItems) : ms = sent.messages
  OBVIOUS
<1>2. TextsAt(sent, P) = Strung(TextPieces(ms, P)) /\ RefsAt(sent, P) = Strung(RefPieces(ms, P))
  BY <1>1 DEF TextsAt, RefsAt, TextPieces, RefPieces
<1>3. /\ TextPieces(ms, P) \in Seq(Seq(STRING)) /\ Len(TextPieces(ms, P)) = Len(ms)
      /\ RefPieces(ms, P) \in Seq(Seq(STRING)) /\ Len(RefPieces(ms, P)) = Len(ms)
  BY PiecesAre
<1>4. /\ Strung(TextPieces(ms, P)) = UpTo(TextPieces(ms, P))[Len(ms)]
      /\ Strung(RefPieces(ms, P)) = UpTo(RefPieces(ms, P))[Len(ms)]
  BY <1>3, StrungByPieces
<1> QED
  BY <1>1, <1>2, <1>4 DEF Said, Shown

-----------------------------------------------------------------------------
(* The turns of a conversation.                                             *)

Boundaries(sent) == Positions(sent, {"user", "assistant"})
Own(sent) == Positions(sent, {"user", "part", "string"})
TurnAt(sent, k) == {i \in Own(sent) : TurnOf(sent, i) = k}
Carrier(sent, i) == i \in Own(sent) /\ Carries(sent.messages[i])

\* How many of some positions come before grows at each of them, and there only.
EarlierOf(B, m) == {j \in B : j <= m}
LEMMA OneMore ==
  ASSUME NEW n \in Nat, NEW B \in SUBSET (1..n)
  PROVE  /\ Cardinality(EarlierOf(B, 0)) = 0
         /\ \A m \in 0..n : Cardinality(EarlierOf(B, m)) \in Nat
         /\ \A m \in 1..n :
              /\ m \in B => Cardinality(EarlierOf(B, m)) = Cardinality(EarlierOf(B, m - 1)) + 1
              /\ m \notin B => Cardinality(EarlierOf(B, m)) = Cardinality(EarlierOf(B, m - 1))
<1>0. \A j \in B : j \in 1..n /\ j \in Int /\ 1 <= j
  OBVIOUS
<1>1. ASSUME NEW m \in 0..n
      PROVE  IsFiniteSet(EarlierOf(B, m)) /\ Cardinality(EarlierOf(B, m)) \in Nat
  <2>1. \A j \in EarlierOf(B, m) : j \in 1..n
    BY <1>0 DEF EarlierOf
  <2>2. 1 \in Int /\ n \in Int
    OBVIOUS
  <2>3. IsFiniteSet(1..n)
    BY <2>2, FS_Interval
  <2> QED
    BY <2>1, <2>3, FS_Subset, FS_CardinalityType
<1>2. EarlierOf(B, 0) = {}
  <2>1. \A j \in B : ~(j <= 0)
    BY <1>0
  <2> QED
    BY <2>1, Zenon DEF EarlierOf
<1>3. ASSUME NEW m \in 1..n
      PROVE  /\ m \in B => Cardinality(EarlierOf(B, m)) = Cardinality(EarlierOf(B, m - 1)) + 1
             /\ m \notin B => Cardinality(EarlierOf(B, m)) = Cardinality(EarlierOf(B, m - 1))
  <2>1. IsFiniteSet(EarlierOf(B, m - 1))
    BY <1>1
  <2>2. /\ m \in Int /\ ~(m <= m - 1)
        /\ \A j \in B : j <= m <=> j <= m - 1 \/ j = m
    BY <1>0
  <2>3. m \notin EarlierOf(B, m - 1)
    BY <2>2 DEF EarlierOf
  <2>4. ASSUME m \in B PROVE EarlierOf(B, m) = EarlierOf(B, m - 1) \cup {m}
    BY <1>0, <2>2, <2>4 DEF EarlierOf
  <2>5. ASSUME m \notin B PROVE EarlierOf(B, m) = EarlierOf(B, m - 1)
    BY <1>0, <2>2, <2>5 DEF EarlierOf
  <2> QED
    BY <2>1, <2>3, <2>4, <2>5, FS_AddElement
<1>4. Cardinality(EarlierOf(B, 0)) = 0
  BY <1>2, FS_EmptySet
<1> QED
  BY <1>1, <1>3, <1>4

\* The number of the turn grows at each boundary, and there only.
LEMMA TurnsGrow ==
  ASSUME NEW sent, sent.messages \in Seq(InputItems)
  PROVE  /\ TurnOf(sent, 0) = 0
         /\ \A m \in 0..Len(sent.messages) : TurnOf(sent, m) \in Nat
         /\ \A m \in 1..Len(sent.messages) :
              /\ m \in Boundaries(sent) => TurnOf(sent, m) = TurnOf(sent, m - 1) + 1
              /\ m \notin Boundaries(sent) => TurnOf(sent, m) = TurnOf(sent, m - 1)
<1>1. Len(sent.messages) \in Nat /\ Boundaries(sent) \in SUBSET (1..Len(sent.messages))
  BY LenProperties DEF Boundaries, Positions
<1>2. \A m : TurnOf(sent, m) = Cardinality(EarlierOf(Boundaries(sent), m))
  BY DEF TurnOf, Boundaries, EarlierOf
<1> QED
  BY <1>1, <1>2, OneMore

\* What is left once the turn at hand has ended: it, if it carries anything.
Silent == [texts |-> <<>>, refs |-> <<>>]
Ended(a, b, banked) == IF a # <<>> \/ b # <<>> THEN [texts |-> a, refs |-> b] ELSE banked

\* `last` is the last turn up to m that carries anything.
IsLatest(sent, last, m) ==
  \/ last = Silent /\ \A i \in 1..m : ~Carrier(sent, i)
  \/ \E k \in Nat :
       /\ \E i \in 1..m : Carrier(sent, i) /\ TurnOf(sent, i) = k
       /\ \A i \in 1..m : Carrier(sent, i) => TurnOf(sent, i) <= k
       /\ last = [texts |-> Said(sent.messages, TurnAt(sent, k))[m],
                  refs |-> Shown(sent.messages, TurnAt(sent, k))[m]]

\* What is at hand at m is the turn k so far, and what is banked counts if that is silent.
TurnFits(sent, a, b, banked, m, k) ==
  /\ k \in Nat
  /\ a = Said(sent.messages, TurnAt(sent, k))[m]
  /\ b = Shown(sent.messages, TurnAt(sent, k))[m]
  /\ (a # <<>> \/ b # <<>>) <=> \E i \in 1..m : Carrier(sent, i) /\ TurnOf(sent, i) = k
  /\ \A i \in 1..m : i \in Own(sent) => TurnOf(sent, i) <= k
  /\ IsLatest(sent, Ended(a, b, banked), m)

\* Nothing is at hand before the first item.
LEMMA TurnStarts ==
  ASSUME NEW sent, sent.messages \in Seq(InputItems)
  PROVE  TurnFits(sent, <<>>, <<>>, Silent, 0, 0)
<1>1. /\ Said(sent.messages, TurnAt(sent, 0))[0] = <<>>
      /\ Shown(sent.messages, TurnAt(sent, 0))[0] = <<>>
  BY Gather
<1>2. 1..0 = {}
  OBVIOUS
<1>3. IsLatest(sent, Ended(<<>>, <<>>, Silent), 0)
  BY <1>2 DEF IsLatest, Ended
<1> QED
  BY <1>1, <1>2, <1>3 DEF TurnFits

\* A turn ends, and nothing is at hand.
LEMMA TurnEnds ==
  ASSUME NEW sent, sent.messages \in Seq(InputItems), NEW m \in 0..Len(sent.messages),
         NEW a, NEW b, NEW banked, NEW k, TurnFits(sent, a, b, banked, m, k)
  PROVE  TurnFits(sent, <<>>, <<>>, Ended(a, b, banked), m, k + 1)
<1>1. k \in Nat /\ \A i \in 1..m : i \in Own(sent) => TurnOf(sent, i) <= k
  BY DEF TurnFits
<1>2. \A i \in 1..m : TurnOf(sent, i) \in Nat
  BY LenProperties, TurnsGrow
<1>3. \A i \in 1..m : i \in Own(sent) => TurnOf(sent, i) <= k + 1 /\ TurnOf(sent, i) # k + 1
  BY <1>1, <1>2
<1>4. \A i \in 1..m : i \notin TurnAt(sent, k + 1)
  BY <1>3 DEF TurnAt
<1>5. /\ Said(sent.messages, TurnAt(sent, k + 1))[m] = <<>>
      /\ Shown(sent.messages, TurnAt(sent, k + 1))[m] = <<>>
  <2>1. PICK P : P = TurnAt(sent, k + 1)
    OBVIOUS
  <2>2. 0 \in 0..m /\ \A i \in (0 + 1)..m : i \notin P
    BY <1>4, <2>1, LenProperties
  <2>3. Said(sent.messages, P)[m] = Said(sent.messages, P)[0]
        /\ Shown(sent.messages, P)[m] = Shown(sent.messages, P)[0]
    BY <2>2, GatherNothing
  <2>4. Said(sent.messages, P)[0] = <<>> /\ Shown(sent.messages, P)[0] = <<>>
    BY Gather
  <2> QED
    BY <2>1, <2>3, <2>4
<1>6. ~\E i \in 1..m : Carrier(sent, i) /\ TurnOf(sent, i) = k + 1
  BY <1>3 DEF Carrier
<1>7. Ended(<<>>, <<>>, Ended(a, b, banked)) = Ended(a, b, banked)
  BY DEF Ended
<1>8. IsLatest(sent, Ended(a, b, banked), m)
  BY DEF TurnFits
<1>9. IsLatest(sent, Ended(<<>>, <<>>, Ended(a, b, banked)), m)
  BY <1>7, <1>8, Zenon
<1> QED
  BY <1>1, <1>3, <1>5, <1>6, <1>9 DEF TurnFits

\* What came last goes on to be that when nothing is added to it.
LEMMA LatestStays ==
  ASSUME NEW sent, sent.messages \in Seq(InputItems), NEW m \in 1..Len(sent.messages),
         NEW last, IsLatest(sent, last, m - 1), ~Carrier(sent, m),
         \A i \in 1..(m - 1) : m \in Own(sent) /\ Carrier(sent, i)
                                  => TurnOf(sent, i) # TurnOf(sent, m)
  PROVE  IsLatest(sent, last, m)
<1>0. m - 1 \in Nat /\ 1..(m - 1) \subseteq 1..m /\ \A i \in 1..m : i = m \/ i \in 1..(m - 1)
  BY LenProperties
<1>1. CASE last = Silent /\ \A i \in 1..(m - 1) : ~Carrier(sent, i)
  BY <1>0, <1>1 DEF IsLatest
<1>2. ASSUME NEW k \in Nat,
             \E i \in 1..(m - 1) : Carrier(sent, i) /\ TurnOf(sent, i) = k,
             \A i \in 1..(m - 1) : Carrier(sent, i) => TurnOf(sent, i) <= k,
             last = [texts |-> Said(sent.messages, TurnAt(sent, k))[m - 1],
                     refs |-> Shown(sent.messages, TurnAt(sent, k))[m - 1]]
      PROVE  IsLatest(sent, last, m)
  <2>1. m \notin TurnAt(sent, k)
    BY <1>2 DEF TurnAt
  <2>2. /\ Said(sent.messages, TurnAt(sent, k))[m] = Said(sent.messages, TurnAt(sent, k))[m - 1]
        /\ Shown(sent.messages, TurnAt(sent, k))[m] = Shown(sent.messages, TurnAt(sent, k))[m - 1]
    BY <2>1, Gather
  <2>3. last = [texts |-> Said(sent.messages, TurnAt(sent, k))[m],
                refs |-> Shown(sent.messages, TurnAt(sent, k))[m]]
    BY <1>2, <2>2
  <2>4. \E i \in 1..m : Carrier(sent, i) /\ TurnOf(sent, i) = k
    BY <1>0, <1>2
  <2>5. \A i \in 1..m : Carrier(sent, i) => TurnOf(sent, i) <= k
    BY <1>0, <1>2
  <2> QED
    BY <2>3, <2>4, <2>5 DEF IsLatest
<1> QED
  BY <1>1, <1>2 DEF IsLatest

\* A message that is of no turn leaves what is at hand.
LEMMA TurnWaits ==
  ASSUME NEW sent, sent.messages \in Seq(InputItems), NEW m \in 1..Len(sent.messages),
         NEW a, NEW b, NEW banked, NEW k, TurnFits(sent, a, b, banked, m - 1, k),
         m \notin Own(sent)
  PROVE  TurnFits(sent, a, b, banked, m, k)
<1>0. m - 1 \in Nat /\ 1..(m - 1) \subseteq 1..m /\ \A i \in 1..m : i = m \/ i \in 1..(m - 1)
  BY LenProperties
<1>1. m \notin TurnAt(sent, k) /\ ~Carrier(sent, m)
  BY DEF TurnAt, Carrier
<1>2. /\ a = Said(sent.messages, TurnAt(sent, k))[m]
      /\ b = Shown(sent.messages, TurnAt(sent, k))[m]
  BY <1>1, Gather DEF TurnFits
<1>3. IsLatest(sent, Ended(a, b, banked), m)
  BY <1>1, LatestStays DEF TurnFits
<1>4. (\E i \in 1..(m - 1) : Carrier(sent, i) /\ TurnOf(sent, i) = k)
        <=> \E i \in 1..m : Carrier(sent, i) /\ TurnOf(sent, i) = k
  BY <1>0, <1>1
<1>5. \A i \in 1..m : i \in Own(sent) => TurnOf(sent, i) <= k
  BY <1>0 DEF TurnFits
<1> QED
  BY <1>2, <1>3, <1>4, <1>5 DEF TurnFits

\* Two sequences make something unless both are empty.
LEMMA SomeOfTwo ==
  ASSUME NEW a \in Seq(STRING), NEW b \in Seq(STRING)
  PROVE  a \o b \in Seq(STRING) /\ (a \o b # <<>> <=> a # <<>> \/ b # <<>>)
<1>1. Len(a) \in Nat /\ Len(b) \in Nat /\ Len(a \o b) = Len(a) + Len(b) /\ a \o b \in Seq(STRING)
  BY LenProperties, ConcatProperties
<1>2. \A s \in Seq(STRING) : s = <<>> <=> Len(s) = 0
  BY EmptySeq
<1> QED
  BY <1>1, <1>2

\* A message of the turn at hand adds to it.
LEMMA TurnGoesOn ==
  ASSUME NEW sent, sent.messages \in Seq(InputItems), NEW m \in 1..Len(sent.messages),
         NEW a, NEW b, NEW banked, NEW k, TurnFits(sent, a, b, banked, m - 1, k),
         m \in Own(sent), TurnOf(sent, m) = k
  PROVE  TurnFits(sent, a \o ItemTexts(sent.messages[m]), b \o RefsOf(sent.messages[m].parts),
                  banked, m, k)
<1> DEFINE x == ItemTexts(sent.messages[m])
           y == RefsOf(sent.messages[m].parts)
<1>0. /\ m - 1 \in 0..Len(sent.messages) /\ 1..(m - 1) \subseteq 1..m /\ m \in 1..m
      /\ \A i \in 1..m : i = m \/ i \in 1..(m - 1)
  BY LenProperties
<1>1. m \in TurnAt(sent, k) /\ (Carrier(sent, m) <=> Carries(sent.messages[m]))
  BY DEF TurnAt, Carrier
<1>2. sent.messages[m] \in InputItems
  BY ElementOfSeq
<1>3. /\ x \in Seq(STRING) /\ y \in Seq(STRING)
      /\ Carries(sent.messages[m]) <=> x # <<>> \/ y # <<>>
  BY <1>2, ItemsRead
<1>4. a \in Seq(STRING) /\ b \in Seq(STRING)
  BY <1>0, Gather DEF TurnFits
<1>5. /\ a \o x = Said(sent.messages, TurnAt(sent, k))[m]
      /\ b \o y = Shown(sent.messages, TurnAt(sent, k))[m]
  BY <1>1, Gather DEF TurnFits
<1> HIDE DEF x, y
<1>6. /\ a \o x # <<>> <=> a # <<>> \/ x # <<>>
      /\ b \o y # <<>> <=> b # <<>> \/ y # <<>>
  BY <1>3, <1>4, SomeOfTwo
<1>7. (a \o x # <<>> \/ b \o y # <<>>)
        <=> \E i \in 1..m : Carrier(sent, i) /\ TurnOf(sent, i) = k
  <2>1. (a # <<>> \/ b # <<>>)
          <=> \E i \in 1..(m - 1) : Carrier(sent, i) /\ TurnOf(sent, i) = k
    BY DEF TurnFits
  <2>2. (\E i \in 1..m : Carrier(sent, i) /\ TurnOf(sent, i) = k)
          <=> \/ Carrier(sent, m)
              \/ \E i \in 1..(m - 1) : Carrier(sent, i) /\ TurnOf(sent, i) = k
    BY <1>0
  <2> QED
    BY <1>1, <1>3, <1>6, <2>1, <2>2
<1>8. k \in Nat /\ \A i \in 1..m : i \in Own(sent) => TurnOf(sent, i) <= k
  BY <1>0 DEF TurnFits
<1>9. IsLatest(sent, Ended(a \o x, b \o y, banked), m)
  <2>1. CASE a \o x # <<>> \/ b \o y # <<>>
    <3>1. Ended(a \o x, b \o y, banked)
            = [texts |-> Said(sent.messages, TurnAt(sent, k))[m],
               refs |-> Shown(sent.messages, TurnAt(sent, k))[m]]
      BY <1>5, <2>1 DEF Ended
    <3>2. \A i \in 1..m : Carrier(sent, i) => TurnOf(sent, i) <= k
      BY <1>8 DEF Carrier
    <3> QED
      BY <1>7, <1>8, <2>1, <3>1, <3>2 DEF IsLatest
  <2>2. CASE ~(a \o x # <<>> \/ b \o y # <<>>)
    <3>1. a = <<>> /\ b = <<>> /\ ~Carrier(sent, m)
      BY <1>1, <1>3, <1>6, <2>2
    <3>2. Ended(a \o x, b \o y, banked) = banked /\ Ended(a, b, banked) = banked
      BY <2>2, <3>1 DEF Ended
    <3>3. \A i \in 1..(m - 1) : Carrier(sent, i) => TurnOf(sent, i) # k
      BY <3>1 DEF TurnFits
    <3>4. IsLatest(sent, banked, m - 1)
      <4>1. IsLatest(sent, Ended(a, b, banked), m - 1)
        BY DEF TurnFits
      <4> QED
        BY <3>2, <4>1, Zenon
    <3>5. IsLatest(sent, banked, m)
      BY <3>1, <3>3, <3>4, LatestStays
    <3> QED
      BY <3>2, <3>5, Zenon
  <2> QED
    BY <2>1, <2>2
<1>10. TurnFits(sent, a \o x, b \o y, banked, m, k)
  BY <1>5, <1>7, <1>8, <1>9 DEF TurnFits
<1> QED
  BY <1>10 DEF x, y

\* A conversation that was read to its end amounts to its last turn.
LEMMA LastTurnIsLatest ==
  ASSUME NEW sent, sent.messages \in Seq(InputItems), NEW last,
         IsLatest(sent, last, Len(sent.messages))
  PROVE  /\ last.texts = TextsAt(sent, LastTurn("responses", sent))
         /\ last.refs = RefsAt(sent, LastTurn("responses", sent))
<1> DEFINE n == Len(sent.messages)
           T == {TurnOf(sent, i) : i \in {j \in Own(sent) : Carries(sent.messages[j])}}
<1>1. n \in Nat /\ Own(sent) \subseteq 1..n /\ \A i \in 1..n : TurnOf(sent, i) \in Nat
  BY LenProperties, TurnsGrow DEF Own, Positions
<1>2. LastTurn("responses", sent)
        = {i \in Own(sent) : TurnOf(sent, i) \in T /\ \A t \in T : t <= TurnOf(sent, i)}
  BY DEF LastTurn, Own
<1>3. T = {TurnOf(sent, i) : i \in {j \in 1..n : Carrier(sent, j)}}
  BY <1>1 DEF Carrier
<1> HIDE DEF T
<1>4. PICK P : P = LastTurn("responses", sent)
  OBVIOUS
<1>5. TextsAt(sent, P) = Said(sent.messages, P)[n] /\ RefsAt(sent, P) = Shown(sent.messages, P)[n]
  BY GatheredAt
<1>6. CASE last = Silent /\ \A i \in 1..n : ~Carrier(sent, i)
  <2>1. P = {}
    BY <1>2, <1>3, <1>4, <1>6
  <2>2. 0 \in 0..n /\ n \in 0..n /\ \A i \in (0 + 1)..n : i \notin P
    BY <1>1, <2>1
  <2>3. Said(sent.messages, P)[n] = Said(sent.messages, P)[0]
        /\ Shown(sent.messages, P)[n] = Shown(sent.messages, P)[0]
    BY <2>2, GatherNothing
  <2>4. Said(sent.messages, P)[0] = <<>> /\ Shown(sent.messages, P)[0] = <<>>
    BY Gather
  <2> QED
    BY <1>4, <1>5, <1>6, <2>3, <2>4 DEF Silent
<1>7. ASSUME NEW k \in Nat,
             \E i \in 1..n : Carrier(sent, i) /\ TurnOf(sent, i) = k,
             \A i \in 1..n : Carrier(sent, i) => TurnOf(sent, i) <= k,
             last = [texts |-> Said(sent.messages, TurnAt(sent, k))[n],
                     refs |-> Shown(sent.messages, TurnAt(sent, k))[n]]
      PROVE  /\ last.texts = TextsAt(sent, LastTurn("responses", sent))
             /\ last.refs = RefsAt(sent, LastTurn("responses", sent))
  <2>1. k \in T /\ (\A t \in T : t <= k) /\ T \subseteq Nat
    BY <1>1, <1>3, <1>7
  <2>2. \A i \in Own(sent) :
          (TurnOf(sent, i) \in T /\ \A t \in T : t <= TurnOf(sent, i)) <=> TurnOf(sent, i) = k
    BY <1>1, <2>1
  <2>3. P = TurnAt(sent, k)
    BY <1>2, <1>4, <2>2 DEF TurnAt
  <2>4. /\ last.texts = Said(sent.messages, TurnAt(sent, k))[n]
        /\ last.refs = Shown(sent.messages, TurnAt(sent, k))[n]
    BY <1>7
  <2> QED
    BY <1>4, <1>5, <2>3, <2>4
<1> QED
  BY <1>6, <1>7 DEF IsLatest
-----------------------------------------------------------------------------
(* The conversation doors, item by item.                                    *)

\* What refuses a conversation.
Refusing(item) ==
  \/ item.role = "other"
  \/ item.role \notin {"assistant", "string"} /\ Refusable(item.parts)
RefusedBy(sent, m) == \E i \in 1..m : Refusing(sent.messages[i])

\* Up to m means before m, or at m.
LEMMA RefusedSooner ==
  ASSUME NEW sent, NEW m \in Nat, m # 0
  PROVE  RefusedBy(sent, m) <=> RefusedBy(sent, m - 1) \/ Refusing(sent.messages[m])
<1>1. 1..(m - 1) \subseteq 1..m /\ m \in 1..m /\ \A i \in 1..m : i = m \/ i \in 1..(m - 1)
  OBVIOUS
<1> QED
  BY <1>1 DEF RefusedBy

InputStates ==
  [refused : BOOLEAN, instructions : Seq(STRING), globals : Seq(STRING), opened : BOOLEAN,
   texts : Seq(STRING), refs : Seq(STRING), banked : [texts : Seq(STRING), refs : Seq(STRING)]]

\* A turn that is closed leaves what it carries, or what was left before it.
LEMMA TurnCloses ==
  ASSUME NEW s \in InputStates
  PROVE  /\ CloseTurn(s) \in InputStates
         /\ CloseTurn(s).refused = s.refused /\ CloseTurn(s).instructions = s.instructions
         /\ CloseTurn(s).globals = s.globals /\ CloseTurn(s).opened = FALSE
         /\ CloseTurn(s).texts = <<>> /\ CloseTurn(s).refs = <<>>
         /\ (s.texts # <<>> \/ s.refs # <<>> => s.opened = TRUE)
              => CloseTurn(s).banked = Ended(s.texts, s.refs, s.banked)
<1>1. /\ s.texts \in Seq(STRING) /\ s.refs \in Seq(STRING) /\ <<>> \in Seq(STRING)
      /\ s.banked \in [texts : Seq(STRING), refs : Seq(STRING)]
  BY EmptySeq DEF InputStates
<1>2. PICK b : b = IF s.opened /\ (s.texts # <<>> \/ s.refs # <<>>)
                   THEN [texts |-> s.texts, refs |-> s.refs] ELSE s.banked
  OBVIOUS
<1>3. b \in [texts : Seq(STRING), refs : Seq(STRING)]
  BY <1>1, <1>2
<1>4. CloseTurn(s) = [s EXCEPT !.opened = FALSE, !.texts = <<>>, !.refs = <<>>, !.banked = b]
  BY <1>2 DEF CloseTurn, InputStates
<1>5. /\ CloseTurn(s) \in InputStates
      /\ CloseTurn(s).refused = s.refused /\ CloseTurn(s).instructions = s.instructions
      /\ CloseTurn(s).globals = s.globals /\ CloseTurn(s).opened = FALSE
      /\ CloseTurn(s).texts = <<>> /\ CloseTurn(s).refs = <<>> /\ CloseTurn(s).banked = b
  BY <1>1, <1>3, <1>4 DEF InputStates
<1>6. (s.texts # <<>> \/ s.refs # <<>> => s.opened = TRUE) => b = Ended(s.texts, s.refs, s.banked)
  BY <1>2 DEF Ended
<1> QED
  BY <1>5, <1>6

\* A state's parts are sequences of strings, and so is what a message adds to them.
LEMMA StatesHold ==
  ASSUME NEW s \in InputStates, NEW item \in InputItems
  PROVE  /\ s.instructions \o TextsOf(item.parts) \in Seq(STRING)
         /\ s.globals \o RefsOf(item.parts) \in Seq(STRING)
         /\ s.texts \o TextsOf(item.parts) \in Seq(STRING)
         /\ s.texts \o Values(item.parts) \in Seq(STRING)
         /\ s.refs \o RefsOf(item.parts) \in Seq(STRING)
<1>1. /\ TextsOf(item.parts) \in Seq(STRING) /\ RefsOf(item.parts) \in Seq(STRING)
      /\ Values(item.parts) \in Seq(STRING)
  BY ItemsRead
<1>2. /\ s.instructions \in Seq(STRING) /\ s.globals \in Seq(STRING)
      /\ s.texts \in Seq(STRING) /\ s.refs \in Seq(STRING)
  BY DEF InputStates
<1> QED
  BY <1>1, <1>2, ConcatProperties

\* What each item does to the state.
LEMMA ItemIsRead ==
  ASSUME NEW s \in InputStates, NEW item \in InputItems
  PROVE  /\ ReadItem(s, item) \in InputStates
         /\ s.refused = TRUE => ReadItem(s, item) = s
         /\ s.refused = FALSE =>
              /\ Refusing(item) => ReadItem(s, item).refused = TRUE
              /\ ~Refusing(item) =>
                   /\ item.role = "assistant" => ReadItem(s, item) = CloseTurn(s)
                   /\ item.role = "string" =>
                        ReadItem(s, item)
                          = [s EXCEPT !.opened = TRUE, !.texts = s.texts \o Values(item.parts)]
                   /\ item.role = "system" =>
                        ReadItem(s, item)
                          = [s EXCEPT !.instructions = s.instructions \o TextsOf(item.parts),
                                      !.globals = s.globals \o RefsOf(item.parts)]
                   /\ item.role = "user" =>
                        ReadItem(s, item) = Extend(CloseTurn(s), item.parts)
                   /\ item.role = "part" => ReadItem(s, item) = Extend(s, item.parts)
<1>1. s.refused \in BOOLEAN
      /\ item.role \in {"system", "user", "assistant", "other", "part", "string"}
  BY DEF InputStates, InputItems
<1>2. \A t \in InputStates : Extend(t, item.parts) \in InputStates
  BY StatesHold DEF Extend, InputStates
<1>3. CASE s.refused = TRUE
  BY <1>3 DEF ReadItem
<1>4. CASE s.refused = FALSE /\ Refusing(item)
  <2>1. ReadItem(s, item) = [s EXCEPT !.refused = TRUE]
    BY <1>1, <1>4 DEF ReadItem, Refusing
  <2> QED
    BY <1>4, <2>1 DEF InputStates
<1>5. CASE s.refused = FALSE /\ ~Refusing(item)
  <2>1. CASE item.role = "assistant"
    BY <1>5, <2>1, TurnCloses DEF ReadItem
  <2>2. CASE item.role = "string"
    <3>1. ReadItem(s, item)
            = [s EXCEPT !.opened = TRUE, !.texts = s.texts \o Values(item.parts)]
      BY <1>5, <2>2 DEF ReadItem, InputStates
    <3>2. s.texts \o Values(item.parts) \in Seq(STRING)
      BY StatesHold
    <3> QED
      BY <1>5, <2>2, <3>1, <3>2 DEF InputStates
  <2>3. CASE item.role = "system"
    <3>1. ReadItem(s, item) = ReadContent(s, item)
      BY <1>5, <2>3 DEF ReadItem, Refusing
    <3>2. ReadContent(s, item)
            = [s EXCEPT !.instructions = s.instructions \o TextsOf(item.parts),
                        !.globals = s.globals \o RefsOf(item.parts)]
      BY <2>3 DEF ReadContent, InputStates
    <3>3. /\ s.instructions \o TextsOf(item.parts) \in Seq(STRING)
          /\ s.globals \o RefsOf(item.parts) \in Seq(STRING)
      BY StatesHold
    <3>4. ReadItem(s, item) \in InputStates
      BY <3>1, <3>2, <3>3 DEF InputStates
    <3> QED
      BY <1>5, <2>3, <3>1, <3>2, <3>4, Zenon
  <2>4. CASE item.role = "user"
    <3>1. ReadItem(s, item) = Extend(CloseTurn(s), item.parts)
      BY <1>5, <2>4 DEF ReadItem, Refusing, ReadContent
    <3> QED
      BY <1>2, <1>5, <2>4, <3>1, TurnCloses
  <2>5. CASE item.role = "part"
    <3>1. ReadItem(s, item) = Extend(s, item.parts)
      BY <1>5, <2>5 DEF ReadItem, Refusing, ReadContent
    <3> QED
      BY <1>2, <1>5, <2>5, <3>1
  <2> QED
    BY <1>1, <1>5, <2>1, <2>2, <2>3, <2>4, <2>5 DEF Refusing
<1> QED
  BY <1>1, <1>3, <1>4, <1>5

\* What the items up to m amount to.
InputFits(sent, s, m) ==
  /\ s.refused <=> RefusedBy(sent, m)
  /\ s.refused = FALSE =>
       /\ s.instructions = Said(sent.messages, Positions(sent, {"system"}))[m]
       /\ s.globals = Shown(sent.messages, Positions(sent, {"system"}))[m]
       /\ s.texts # <<>> \/ s.refs # <<>> => s.opened = TRUE
       /\ TurnFits(sent, s.texts, s.refs, s.banked, m, TurnOf(sent, m))

\* One more item keeps to that.
LEMMA ItemFits ==
  ASSUME NEW sent, sent.messages \in Seq(InputItems), NEW m \in 1..Len(sent.messages),
         NEW s \in InputStates, InputFits(sent, s, m - 1)
  PROVE  InputFits(sent, ReadItem(s, sent.messages[m]), m)
<1> DEFINE system == Positions(sent, {"system"})
           t == ReadItem(s, sent.messages[m])
<1>1. PICK item \in InputItems : item = sent.messages[m]
  BY ElementOfSeq
<1>2. /\ m \in Nat /\ m # 0 /\ m - 1 \in 0..Len(sent.messages)
      /\ m \in DOMAIN sent.messages
  BY LenProperties
<1>3. /\ item.role \in {"system", "user", "assistant", "other", "part", "string"}
      /\ s.refused \in BOOLEAN
  BY DEF InputItems, InputStates
<1>4. /\ m \in system <=> item.role = "system"
      /\ m \in Boundaries(sent) <=> item.role \in {"user", "assistant"}
      /\ m \in Own(sent) <=> item.role \in {"user", "part", "string"}
  BY <1>1, <1>2 DEF Positions, Boundaries, Own
<1>5. RefusedBy(sent, m) <=> RefusedBy(sent, m - 1) \/ Refusing(item)
  BY <1>1, <1>2, RefusedSooner
<1>6. /\ m \in system =>
           /\ Said(sent.messages, system)[m]
                = Said(sent.messages, system)[m - 1] \o ItemTexts(item)
           /\ Shown(sent.messages, system)[m]
                = Shown(sent.messages, system)[m - 1] \o RefsOf(item.parts)
      /\ m \notin system =>
           /\ Said(sent.messages, system)[m] = Said(sent.messages, system)[m - 1]
           /\ Shown(sent.messages, system)[m] = Shown(sent.messages, system)[m - 1]
  BY <1>1, Gather
<1> HIDE DEF system
<1>7. CASE s.refused = TRUE
  <2>1. t = s /\ RefusedBy(sent, m)
    BY <1>1, <1>5, <1>7, ItemIsRead DEF InputFits
  <2> QED
    BY <1>7, <2>1 DEF InputFits
<1>8. CASE s.refused = FALSE /\ Refusing(item)
  <2>1. t.refused = TRUE /\ RefusedBy(sent, m)
    BY <1>1, <1>5, <1>8, ItemIsRead
  <2> QED
    BY <2>1 DEF InputFits
<1>9. CASE s.refused = FALSE /\ ~Refusing(item)
  <2>0. /\ ~RefusedBy(sent, m)
        /\ s.instructions = Said(sent.messages, system)[m - 1]
        /\ s.globals = Shown(sent.messages, system)[m - 1]
        /\ s.texts # <<>> \/ s.refs # <<>> => s.opened = TRUE
        /\ TurnFits(sent, s.texts, s.refs, s.banked, m - 1, TurnOf(sent, m - 1))
    BY <1>5, <1>9 DEF InputFits, system
  <2> DEFINE k == TurnOf(sent, m - 1)
             closed == Ended(s.texts, s.refs, s.banked)
  <2>1. /\ m \in Boundaries(sent) => TurnOf(sent, m) = k + 1
        /\ m \notin Boundaries(sent) => TurnOf(sent, m) = k
    BY TurnsGrow
  <2>2. TurnFits(sent, <<>>, <<>>, closed, m - 1, k + 1)
    BY <1>2, <2>0, TurnEnds
  <2>3. /\ CloseTurn(s) \in InputStates /\ CloseTurn(s).refused = FALSE
        /\ CloseTurn(s).instructions = s.instructions /\ CloseTurn(s).globals = s.globals
        /\ CloseTurn(s).texts = <<>> /\ CloseTurn(s).refs = <<>>
        /\ CloseTurn(s).banked = closed
    BY <1>9, <2>0, TurnCloses
  <2> HIDE DEF k, closed
  <2>4. CASE item.role = "assistant"
    <3>1. t = CloseTurn(s)
      BY <1>1, <1>9, <2>4, ItemIsRead
    <3>2. TurnFits(sent, <<>>, <<>>, closed, m, k + 1)
      BY <1>4, <2>2, <2>4, TurnWaits
    <3>3. TurnFits(sent, t.texts, t.refs, t.banked, m, TurnOf(sent, m))
      BY <1>4, <2>1, <2>3, <2>4, <3>1, <3>2
    <3> QED
      BY <1>4, <1>6, <2>0, <2>3, <2>4, <3>1, <3>3 DEF InputFits, system
  <2>5. CASE item.role = "user"
    <3>1. t = Extend(CloseTurn(s), item.parts)
      BY <1>1, <1>9, <2>5, ItemIsRead
    <3>2. /\ t.refused = FALSE /\ t.instructions = s.instructions /\ t.globals = s.globals
          /\ t.texts = <<>> \o TextsOf(item.parts) /\ t.refs = <<>> \o RefsOf(item.parts)
          /\ t.banked = closed /\ t.opened = TRUE
      BY <2>3, <3>1 DEF Extend, InputStates
    <3>3. TurnFits(sent, <<>> \o ItemTexts(item), <<>> \o RefsOf(item.parts), closed, m, k + 1)
      BY <1>1, <1>4, <2>1, <2>2, <2>5, TurnGoesOn
    <3>4. ItemTexts(item) = TextsOf(item.parts)
      BY <2>5 DEF ItemTexts
    <3>5. TurnFits(sent, t.texts, t.refs, t.banked, m, TurnOf(sent, m))
      BY <1>4, <2>1, <2>5, <3>2, <3>3, <3>4
    <3> QED
      BY <1>4, <1>6, <2>0, <2>5, <3>2, <3>5 DEF InputFits, system
  <2>6. CASE item.role = "part"
    <3>1. t = Extend(s, item.parts)
      BY <1>1, <1>9, <2>6, ItemIsRead
    <3>2. /\ t.refused = FALSE /\ t.instructions = s.instructions /\ t.globals = s.globals
          /\ t.texts = s.texts \o TextsOf(item.parts) /\ t.refs = s.refs \o RefsOf(item.parts)
          /\ t.banked = s.banked /\ t.opened = TRUE
      BY <1>9, <3>1 DEF Extend, InputStates
    <3>3. TurnFits(sent, s.texts \o ItemTexts(item), s.refs \o RefsOf(item.parts), s.banked, m, k)
      BY <1>1, <1>4, <2>0, <2>1, <2>6, TurnGoesOn DEF k
    <3>4. ItemTexts(item) = TextsOf(item.parts)
      BY <2>6 DEF ItemTexts
    <3>5. TurnFits(sent, t.texts, t.refs, t.banked, m, TurnOf(sent, m))
      BY <1>4, <2>1, <2>6, <3>2, <3>3, <3>4
    <3> QED
      BY <1>4, <1>6, <2>0, <2>6, <3>2, <3>5 DEF InputFits, system
  <2>7. CASE item.role = "string"
    <3>1. t = [s EXCEPT !.opened = TRUE, !.texts = s.texts \o Values(item.parts)]
      BY <1>1, <1>9, <2>7, ItemIsRead
    <3>2. /\ t.refused = FALSE /\ t.instructions = s.instructions /\ t.globals = s.globals
          /\ t.texts = s.texts \o Values(item.parts) /\ t.refs = s.refs
          /\ t.banked = s.banked /\ t.opened = TRUE
      BY <1>9, <3>1 DEF InputStates
    <3>3. TurnFits(sent, s.texts \o ItemTexts(item), s.refs \o RefsOf(item.parts), s.banked, m, k)
      BY <1>1, <1>4, <2>0, <2>1, <2>7, TurnGoesOn DEF k
    <3>4. ItemTexts(item) = Values(item.parts) /\ s.refs \o RefsOf(item.parts) = s.refs
      <4>1. s.refs \in Seq(STRING)
        BY DEF InputStates
      <4> QED
        BY <2>7, <4>1, StringShowsNothing, ConcatEmptySeq DEF ItemTexts
    <3>5. TurnFits(sent, t.texts, t.refs, t.banked, m, TurnOf(sent, m))
      BY <1>4, <2>1, <2>7, <3>2, <3>3, <3>4
    <3> QED
      BY <1>4, <1>6, <2>0, <2>7, <3>2, <3>5 DEF InputFits, system
  <2>8. CASE item.role = "system"
    <3>1. t = [s EXCEPT !.instructions = s.instructions \o TextsOf(item.parts),
                        !.globals = s.globals \o RefsOf(item.parts)]
      BY <1>1, <1>9, <2>8, ItemIsRead
    <3>2. /\ t.refused = FALSE /\ t.instructions = s.instructions \o TextsOf(item.parts)
          /\ t.globals = s.globals \o RefsOf(item.parts)
          /\ t.texts = s.texts /\ t.refs = s.refs /\ t.banked = s.banked /\ t.opened = s.opened
      BY <1>9, <3>1 DEF InputStates
    <3>3. TurnFits(sent, s.texts, s.refs, s.banked, m, k)
      BY <1>4, <2>0, <2>8, TurnWaits DEF k
    <3>4. ItemTexts(item) = TextsOf(item.parts)
      BY <2>8 DEF ItemTexts
    <3>5. TurnFits(sent, t.texts, t.refs, t.banked, m, TurnOf(sent, m))
      BY <1>4, <2>1, <2>8, <3>2, <3>3
    <3> QED
      BY <1>4, <1>6, <2>0, <2>8, <3>2, <3>4, <3>5 DEF InputFits, system
  <2> QED
    BY <1>3, <1>9, <2>4, <2>5, <2>6, <2>7, <2>8 DEF Refusing
<1> QED
  BY <1>3, <1>7, <1>8, <1>9

\* Before the first item nothing was said.
LEMMA InputStarts ==
  ASSUME NEW sent, sent.messages \in Seq(InputItems)
  PROVE  InputStart \in InputStates /\ InputFits(sent, InputStart, 0)
<1>1. InputStart \in InputStates
  BY EmptySeq DEF InputStart, InputStates
<1>2. ~RefusedBy(sent, 0)
  BY DEF RefusedBy
<1>3. TurnFits(sent, <<>>, <<>>, Silent, 0, TurnOf(sent, 0))
  BY TurnStarts, TurnsGrow
<1>4. /\ Said(sent.messages, Positions(sent, {"system"}))[0] = <<>>
      /\ Shown(sent.messages, Positions(sent, {"system"}))[0] = <<>>
  BY Gather
<1> QED
  BY <1>1, <1>2, <1>3, <1>4 DEF InputFits, InputStart, Silent

\* The state that a conversation of the Responses door leaves.
LEMMA InputIsRead ==
  ASSUME NEW sent, sent.messages \in Seq(InputItems)
  PROVE  \E s \in InputStates :
           /\ InputFits(sent, s, Len(sent.messages))
           /\ InputToCanonical(sent)
                = IF s.refused THEN Refused
                  ELSE [Canonical EXCEPT !.model = sent.model, !.instructions = s.instructions,
                          !.text = CloseTurn(s).banked.texts,
                          !.image = s.globals \o CloseTurn(s).banked.refs,
                          !.tools = sent.tools, !.prior = sent.prior]
<1> DEFINE ms == sent.messages
           n == Len(ms)
           step == [i \in 1..n |-> [b \in InputStates |-> ReadItem(b, ms[i])]]
           after == CHOOSE g : g = [k \in 0..n |-> IF k = 0 THEN InputStart
                                                  ELSE ReadItem(g[k - 1], ms[k])]
<1>1. n \in Nat /\ \A i \in 1..n : ms[i] \in InputItems
  BY LenProperties, ElementOfSeq
<1>2. /\ step \in [1..n -> [InputStates -> InputStates]]
      /\ \A b \in InputStates : \A i \in 1..n : step[i][b] = ReadItem(b, ms[i])
  BY <1>1, ItemIsRead
<1>3. PICK f \in [0..n -> InputStates] : Follows(f, InputStart, step, n)
  <2> HIDE DEF n, step
  <2> QED
    BY <1>1, <1>2, InputStarts, Recursion
<1> HIDE DEF step
<1>4. \A i \in 1..n : f[i] = ReadItem(f[i - 1], ms[i])
  <2> SUFFICES ASSUME NEW i \in 1..n PROVE f[i] = ReadItem(f[i - 1], ms[i])
    OBVIOUS
  <2>1. i - 1 \in 0..n
    BY <1>1
  <2>2. f[i - 1] \in InputStates
    BY <2>1
  <2> QED
    BY <1>2, <1>3, <2>2 DEF Follows
<1>5. f = [k \in 0..n |-> IF k = 0 THEN InputStart ELSE ReadItem(f[k - 1], ms[k])]
  <2>1. ASSUME NEW k \in 0..n
        PROVE  f[k] = IF k = 0 THEN InputStart ELSE ReadItem(f[k - 1], ms[k])
    <3>1. k = 0 \/ k \in 1..n
      BY <1>1
    <3>2. 0 \notin 1..n
      OBVIOUS
    <3> QED
      BY <1>3, <1>4, <3>1, <3>2, Zenon DEF Follows
  <2>2. f = [k \in 0..n |-> f[k]]
    OBVIOUS
  <2> QED
    BY <2>1, <2>2
<1>6. after = [k \in 0..n |-> IF k = 0 THEN InputStart ELSE ReadItem(after[k - 1], ms[k])]
  BY <1>5
<1>7. InputToCanonical(sent)
        = IF after[n].refused THEN Refused
          ELSE [Canonical EXCEPT !.model = sent.model, !.instructions = after[n].instructions,
                  !.text = CloseTurn(after[n]).banked.texts,
                  !.image = after[n].globals \o CloseTurn(after[n]).banked.refs,
                  !.tools = sent.tools, !.prior = sent.prior]
  BY DEF InputToCanonical
<1> HIDE DEF after
<1>8. after[0] = InputStart /\ \A i \in 1..n : after[i] = ReadItem(after[i - 1], ms[i])
  <2>1. 0 \in 0..n /\ \A i \in 1..n : i \in 0..n /\ i # 0
    BY <1>1
  <2> QED
    BY <1>6, <2>1, Zenon
<1> DEFINE T == {m \in 0..n : after[m] \in InputStates /\ InputFits(sent, after[m], m)}
<1>9. 0 \in T
  BY <1>1, <1>8, InputStarts
<1>10. ASSUME NEW m \in 0..(n - 1), m \in T PROVE m + 1 \in T
  <2>1. m + 1 \in 1..n /\ m + 1 \in 0..n /\ (m + 1) - 1 = m
    BY <1>1
  <2>2. after[m + 1] = ReadItem(after[m], ms[m + 1])
    BY <1>8, <2>1
  <2>3. after[m] \in InputStates /\ InputFits(sent, after[m], (m + 1) - 1)
    BY <1>10, <2>1
  <2>4. InputFits(sent, ReadItem(after[m], ms[m + 1]), m + 1)
    BY <2>1, <2>3, ItemFits
  <2>5. ReadItem(after[m], ms[m + 1]) \in InputStates
    BY <1>1, <2>1, <2>3, ItemIsRead
  <2> QED
    BY <2>1, <2>2, <2>4, <2>5, Zenon
<1>11. n \in T
  <2> HIDE DEF T, n
  <2>1. \A m \in 0..n : m \in T
    BY <1>1, <1>9, <1>10, Steps
  <2> QED
    BY <1>1, <2>1
<1>12. after[n] \in InputStates /\ InputFits(sent, after[n], n)
  BY <1>11
<1> QED
  BY <1>7, <1>12, Zenon

\* What a door has to make of a conversation.
FoldFits(door, sent, c) ==
  /\ Unreadable(door, sent) => c = Refused
  /\ ~Unreadable(door, sent) =>
       /\ IsBody(c) /\ c # Refused /\ c.ok = TRUE /\ c.mask = Absent
       /\ c.instructions = ExpectedFold(door, sent).instructions
       /\ c.text = ExpectedFold(door, sent).text
       /\ c.image = ExpectedFold(door, sent).image

\* A conversation is unreadable when one of its items refuses it, or no user is in it.
LEMMA UnreadableIs ==
  ASSUME NEW sent, sent.messages \in Seq(InputItems), NEW door
  PROVE  Unreadable(door, sent)
           <=> RefusedBy(sent, Len(sent.messages))
                 \/ (door = "chat" /\ Positions(sent, {"user"}) = {})
<1>1. DOMAIN sent.messages = 1..Len(sent.messages)
  BY LenProperties
<1> QED
  BY <1>1 DEF Unreadable, RefusedBy, Refusing, Positions

\* The Responses door makes of a conversation its last turn and the instructions.
LEMMA InputFolds ==
  ASSUME NEW sent, sent.messages \in Seq(InputItems)
  PROVE  FoldFits("responses", sent, InputToCanonical(sent))
<1> DEFINE n == Len(sent.messages)
           c == InputToCanonical(sent)
<1>1. PICK s \in InputStates :
        /\ InputFits(sent, s, n)
        /\ c = IF s.refused THEN Refused
               ELSE [Canonical EXCEPT !.model = sent.model, !.instructions = s.instructions,
                       !.text = CloseTurn(s).banked.texts,
                       !.image = s.globals \o CloseTurn(s).banked.refs,
                       !.tools = sent.tools, !.prior = sent.prior]
  BY InputIsRead
<1>2. s.refused \in BOOLEAN /\ (Unreadable("responses", sent) <=> s.refused = TRUE)
  BY <1>1, UnreadableIs DEF InputFits, InputStates
<1>3. CASE s.refused = TRUE
  BY <1>1, <1>2, <1>3 DEF FoldFits
<1>4. CASE s.refused = FALSE
  <2>1. /\ s.instructions = Said(sent.messages, Positions(sent, {"system"}))[n]
        /\ s.globals = Shown(sent.messages, Positions(sent, {"system"}))[n]
        /\ s.texts # <<>> \/ s.refs # <<>> => s.opened = TRUE
        /\ TurnFits(sent, s.texts, s.refs, s.banked, n, TurnOf(sent, n))
    BY <1>1, <1>4 DEF InputFits
  <2>2. CloseTurn(s).banked = Ended(s.texts, s.refs, s.banked)
    BY <2>1, TurnCloses
  <2>3. IsLatest(sent, CloseTurn(s).banked, n)
    <3>1. IsLatest(sent, Ended(s.texts, s.refs, s.banked), n)
      BY <2>1 DEF TurnFits
    <3> QED
      BY <2>2, <3>1, Zenon
  <2>4. /\ CloseTurn(s).banked.texts = TextsAt(sent, LastTurn("responses", sent))
        /\ CloseTurn(s).banked.refs = RefsAt(sent, LastTurn("responses", sent))
    BY <2>3, LastTurnIsLatest
  <2>5. /\ s.instructions = TextsAt(sent, Positions(sent, {"system"}))
        /\ s.globals = RefsAt(sent, Positions(sent, {"system"}))
    BY <2>1, GatheredAt
  <2>6. c = [Canonical EXCEPT !.model = sent.model, !.instructions = s.instructions,
               !.text = CloseTurn(s).banked.texts,
               !.image = s.globals \o CloseTurn(s).banked.refs,
               !.tools = sent.tools, !.prior = sent.prior]
    BY <1>1, <1>4
  <2>7. /\ c.ok = TRUE /\ c.mask = Absent /\ IsBody(c) /\ c.instructions = s.instructions
        /\ c.text = CloseTurn(s).banked.texts
        /\ c.image = s.globals \o CloseTurn(s).banked.refs
    BY <2>6 DEF Canonical, IsBody
  <2>8. c # Refused
    BY <2>7 DEF Refused
  <2> HIDE DEF c
  <2>9. /\ ExpectedFold("responses", sent).instructions = s.instructions
        /\ ExpectedFold("responses", sent).text = CloseTurn(s).banked.texts
        /\ ExpectedFold("responses", sent).image = s.globals \o CloseTurn(s).banked.refs
    BY <2>4, <2>5 DEF ExpectedFold
  <2>10. FoldFits("responses", sent, c)
    BY <1>2, <1>4, <2>7, <2>8, <2>9 DEF FoldFits
  <2> QED
    BY <2>10 DEF c
<1> QED
  BY <1>2, <1>3, <1>4

ChatStates ==
  [refused : BOOLEAN, users : Nat, instructions : Seq(STRING), globals : Seq(STRING),
   text : Seq(STRING), refs : Seq(STRING)]

\* What each message does to the state.
LEMMA MessageIsRead ==
  ASSUME NEW s \in ChatStates, NEW item \in ChatMessages
  PROVE  /\ ReadMessage(s, item) \in ChatStates
         /\ s.refused = TRUE => ReadMessage(s, item) = s
         /\ s.refused = FALSE =>
              /\ Refusing(item) => ReadMessage(s, item).refused = TRUE
              /\ ~Refusing(item) =>
                   /\ item.role = "assistant" => ReadMessage(s, item) = s
                   /\ item.role = "system" =>
                        ReadMessage(s, item)
                          = [s EXCEPT !.instructions = s.instructions \o TextsOf(item.parts),
                                      !.globals = s.globals \o RefsOf(item.parts)]
                   /\ item.role = "user" =>
                        ReadMessage(s, item)
                          = [s EXCEPT !.users = s.users + 1, !.text = TextsOf(item.parts),
                                      !.refs = RefsOf(item.parts)]
<1>1. s.refused \in BOOLEAN /\ item.role \in {"system", "user", "assistant", "other"}
  BY DEF ChatStates, ChatMessages
<1>2. /\ TextsOf(item.parts) \in Seq(STRING) /\ RefsOf(item.parts) \in Seq(STRING)
      /\ s.instructions \o TextsOf(item.parts) \in Seq(STRING)
      /\ s.globals \o RefsOf(item.parts) \in Seq(STRING)
  <2>1. TextsOf(item.parts) \in Seq(STRING) /\ RefsOf(item.parts) \in Seq(STRING)
    BY ChatIsInput, ItemsRead
  <2>2. s.instructions \in Seq(STRING) /\ s.globals \in Seq(STRING)
    BY DEF ChatStates
  <2> QED
    BY <2>1, <2>2, ConcatProperties
<1>3. CASE s.refused = TRUE
  BY <1>3 DEF ReadMessage
<1>4. CASE s.refused = FALSE /\ Refusing(item)
  <2>1. ReadMessage(s, item) = [s EXCEPT !.refused = TRUE]
    BY <1>1, <1>4 DEF ReadMessage, Refusing
  <2> QED
    BY <1>4, <2>1 DEF ChatStates
<1>5. CASE s.refused = FALSE /\ ~Refusing(item)
  <2>1. CASE item.role = "assistant"
    BY <1>5, <2>1 DEF ReadMessage
  <2>2. CASE item.role = "system"
    <3>1. ReadMessage(s, item)
            = [s EXCEPT !.instructions = s.instructions \o TextsOf(item.parts),
                        !.globals = s.globals \o RefsOf(item.parts)]
      BY <1>5, <2>2 DEF ReadMessage, Refusing, ChatStates
    <3>2. ReadMessage(s, item) \in ChatStates
      BY <1>2, <3>1 DEF ChatStates
    <3> QED
      BY <1>5, <2>2, <3>1, <3>2, Zenon
  <2>3. CASE item.role = "user"
    <3>1. ReadMessage(s, item)
            = [s EXCEPT !.users = s.users + 1, !.text = TextsOf(item.parts),
                        !.refs = RefsOf(item.parts)]
      BY <1>5, <2>3 DEF ReadMessage, Refusing, ChatStates
    <3>0. s.users + 1 \in Nat
      BY DEF ChatStates
    <3>2. ReadMessage(s, item) \in ChatStates
      BY <1>2, <3>0, <3>1 DEF ChatStates
    <3> QED
      BY <1>5, <2>3, <3>1, <3>2, Zenon
  <2> QED
    BY <1>1, <1>5, <2>1, <2>2, <2>3 DEF Refusing
<1> QED
  BY <1>1, <1>3, <1>4, <1>5

\* u is the last of the users' messages up to m.
IsLastUser(sent, u, m) ==
  /\ u \in 1..m /\ u \in Positions(sent, {"user"})
  /\ \A i \in 1..m : i \in Positions(sent, {"user"}) => i <= u

\* What the messages up to m amount to.
ChatFits(sent, s, m) ==
  /\ s.refused <=> RefusedBy(sent, m)
  /\ s.refused = FALSE =>
       /\ s.instructions = Said(sent.messages, Positions(sent, {"system"}))[m]
       /\ s.globals = Shown(sent.messages, Positions(sent, {"system"}))[m]
       /\ s.users = 0 => \A i \in 1..m : i \notin Positions(sent, {"user"})
       /\ s.users # 0 => \E u \in 1..m : /\ IsLastUser(sent, u, m)
                                         /\ s.text = TextsOf(sent.messages[u].parts)
                                         /\ s.refs = RefsOf(sent.messages[u].parts)

\* Messages are items of the kind that the Responses door reads too.
LEMMA ChatsAreInputs ==
  ASSUME NEW ms \in Seq(ChatMessages)
  PROVE  ms \in Seq(InputItems)
<1>1. ms \in [1..Len(ms) -> ChatMessages] /\ Len(ms) \in Nat
  BY LenProperties, ElementOfSeq
<1>2. ms \in [1..Len(ms) -> InputItems]
  BY <1>1, ChatIsInput
<1> QED
  BY <1>1, <1>2, FunctionIsSeq

\* One more message keeps to that.
LEMMA MessageFits ==
  ASSUME NEW sent, sent.messages \in Seq(ChatMessages), NEW m \in 1..Len(sent.messages),
         NEW s \in ChatStates, ChatFits(sent, s, m - 1)
  PROVE  ChatFits(sent, ReadMessage(s, sent.messages[m]), m)
<1> DEFINE system == Positions(sent, {"system"})
           user == Positions(sent, {"user"})
           t == ReadMessage(s, sent.messages[m])
<1>0. sent.messages \in Seq(InputItems)
  BY ChatsAreInputs
<1>1. PICK item \in ChatMessages : item = sent.messages[m]
  BY ElementOfSeq
<1>2. /\ m \in Nat /\ m # 0 /\ m - 1 \in 0..Len(sent.messages)
      /\ m \in DOMAIN sent.messages
      /\ 1..(m - 1) \subseteq 1..m /\ m \in 1..m
      /\ \A i \in 1..m : i = m \/ (i \in 1..(m - 1) /\ i <= m)
  BY LenProperties
<1>3. /\ item.role \in {"system", "user", "assistant", "other"}
      /\ s.refused \in BOOLEAN /\ s.users \in Nat
  BY DEF ChatMessages, ChatStates
<1>4. (m \in system <=> item.role = "system") /\ (m \in user <=> item.role = "user")
  BY <1>1, <1>2 DEF Positions
<1>5. RefusedBy(sent, m) <=> RefusedBy(sent, m - 1) \/ Refusing(item)
  BY <1>1, <1>2, RefusedSooner
<1>6. /\ m \in system =>
           /\ Said(sent.messages, system)[m]
                = Said(sent.messages, system)[m - 1] \o ItemTexts(item)
           /\ Shown(sent.messages, system)[m]
                = Shown(sent.messages, system)[m - 1] \o RefsOf(item.parts)
      /\ m \notin system =>
           /\ Said(sent.messages, system)[m] = Said(sent.messages, system)[m - 1]
           /\ Shown(sent.messages, system)[m] = Shown(sent.messages, system)[m - 1]
  BY <1>0, <1>1, Gather
<1> HIDE DEF system, user
<1>7. CASE s.refused = TRUE
  <2>1. t = s /\ RefusedBy(sent, m)
    BY <1>1, <1>5, <1>7, MessageIsRead DEF ChatFits
  <2> QED
    BY <1>7, <2>1 DEF ChatFits
<1>8. CASE s.refused = FALSE /\ Refusing(item)
  <2>1. t.refused = TRUE /\ RefusedBy(sent, m)
    BY <1>1, <1>5, <1>8, MessageIsRead
  <2> QED
    BY <2>1 DEF ChatFits
<1>9. CASE s.refused = FALSE /\ ~Refusing(item)
  <2>0. /\ ~RefusedBy(sent, m)
        /\ s.instructions = Said(sent.messages, system)[m - 1]
        /\ s.globals = Shown(sent.messages, system)[m - 1]
        /\ s.users = 0 => \A i \in 1..(m - 1) : i \notin user
        /\ s.users # 0 => \E u \in 1..(m - 1) : /\ IsLastUser(sent, u, m - 1)
                                                /\ s.text = TextsOf(sent.messages[u].parts)
                                                /\ s.refs = RefsOf(sent.messages[u].parts)
    BY <1>5, <1>9 DEF ChatFits, system, user
  <2>1. ASSUME m \notin user
        PROVE  /\ s.users = 0 => \A i \in 1..m : i \notin user
               /\ s.users # 0 => \E u \in 1..m : /\ IsLastUser(sent, u, m)
                                                 /\ s.text = TextsOf(sent.messages[u].parts)
                                                 /\ s.refs = RefsOf(sent.messages[u].parts)
    <3>1. ASSUME NEW u \in 1..(m - 1), IsLastUser(sent, u, m - 1)
          PROVE  u \in 1..m /\ IsLastUser(sent, u, m)
      BY <1>2, <2>1, <3>1 DEF IsLastUser, user
    <3>2. s.users = 0 => \A i \in 1..m : i \notin user
      BY <1>2, <2>0, <2>1
    <3> QED
      BY <2>0, <3>1, <3>2
  <2>2. CASE item.role = "assistant"
    <3>1. t = s
      BY <1>1, <1>9, <2>2, MessageIsRead
    <3> QED
      BY <1>4, <1>6, <1>9, <2>0, <2>1, <2>2, <3>1 DEF ChatFits, system, user
  <2>3. CASE item.role = "system"
    <3>1. t = [s EXCEPT !.instructions = s.instructions \o TextsOf(item.parts),
                        !.globals = s.globals \o RefsOf(item.parts)]
      BY <1>1, <1>9, <2>3, MessageIsRead
    <3>2. /\ t.refused = FALSE /\ t.instructions = s.instructions \o TextsOf(item.parts)
          /\ t.globals = s.globals \o RefsOf(item.parts)
          /\ t.users = s.users /\ t.text = s.text /\ t.refs = s.refs
      BY <1>9, <3>1 DEF ChatStates
    <3>3. ItemTexts(item) = TextsOf(item.parts)
      BY <2>3 DEF ItemTexts
    <3> QED
      BY <1>4, <1>6, <2>0, <2>1, <2>3, <3>2, <3>3 DEF ChatFits, system, user
  <2>4. CASE item.role = "user"
    <3>1. t = [s EXCEPT !.users = s.users + 1, !.text = TextsOf(item.parts),
                        !.refs = RefsOf(item.parts)]
      BY <1>1, <1>9, <2>4, MessageIsRead
    <3>2. /\ t.refused = FALSE /\ t.instructions = s.instructions /\ t.globals = s.globals
          /\ t.users = s.users + 1 /\ t.text = TextsOf(item.parts)
          /\ t.refs = RefsOf(item.parts)
      BY <1>9, <3>1 DEF ChatStates
    <3>3. t.users # 0
      BY <1>3, <3>2
    <3>4. IsLastUser(sent, m, m)
      BY <1>2, <1>4, <2>4 DEF IsLastUser, user
    <3> QED
      BY <1>1, <1>2, <1>4, <1>6, <2>0, <2>4, <3>2, <3>3, <3>4 DEF ChatFits, system
  <2> QED
    BY <1>3, <1>9, <2>2, <2>3, <2>4 DEF Refusing
<1> QED
  BY <1>3, <1>7, <1>8, <1>9

\* Before the first message nothing was said.
LEMMA ChatStarts ==
  ASSUME NEW sent, sent.messages \in Seq(ChatMessages)
  PROVE  ChatStart \in ChatStates /\ ChatFits(sent, ChatStart, 0)
<1>1. ChatStart \in ChatStates
  BY EmptySeq DEF ChatStart, ChatStates
<1>2. ~RefusedBy(sent, 0)
  BY DEF RefusedBy
<1>3. /\ Said(sent.messages, Positions(sent, {"system"}))[0] = <<>>
      /\ Shown(sent.messages, Positions(sent, {"system"}))[0] = <<>>
  BY ChatsAreInputs, Gather
<1> QED
  BY <1>1, <1>2, <1>3 DEF ChatFits, ChatStart

\* The state that a conversation of the Chat door leaves.
LEMMA ChatIsRead ==
  ASSUME NEW sent, sent.messages \in Seq(ChatMessages)
  PROVE  \E s \in ChatStates :
           /\ ChatFits(sent, s, Len(sent.messages))
           /\ MessagesToCanonical(sent)
                = IF s.refused \/ s.users = 0 THEN Refused
                  ELSE [Canonical EXCEPT !.model = sent.model, !.instructions = s.instructions,
                          !.text = s.text, !.image = s.globals \o s.refs]
<1> DEFINE ms == sent.messages
           n == Len(ms)
           step == [i \in 1..n |-> [b \in ChatStates |-> ReadMessage(b, ms[i])]]
           after == CHOOSE g : g = [k \in 0..n |-> IF k = 0 THEN ChatStart
                                                  ELSE ReadMessage(g[k - 1], ms[k])]
<1>1. n \in Nat /\ \A i \in 1..n : ms[i] \in ChatMessages
  BY LenProperties, ElementOfSeq
<1>2. /\ step \in [1..n -> [ChatStates -> ChatStates]]
      /\ \A b \in ChatStates : \A i \in 1..n : step[i][b] = ReadMessage(b, ms[i])
  BY <1>1, MessageIsRead
<1>3. PICK f \in [0..n -> ChatStates] : Follows(f, ChatStart, step, n)
  <2> HIDE DEF n, step
  <2> QED
    BY <1>1, <1>2, ChatStarts, Recursion
<1> HIDE DEF step
<1>4. \A i \in 1..n : f[i] = ReadMessage(f[i - 1], ms[i])
  <2> SUFFICES ASSUME NEW i \in 1..n PROVE f[i] = ReadMessage(f[i - 1], ms[i])
    OBVIOUS
  <2>1. i - 1 \in 0..n
    BY <1>1
  <2>2. f[i - 1] \in ChatStates
    BY <2>1
  <2> QED
    BY <1>2, <1>3, <2>2 DEF Follows
<1>5. f = [k \in 0..n |-> IF k = 0 THEN ChatStart ELSE ReadMessage(f[k - 1], ms[k])]
  <2>1. ASSUME NEW k \in 0..n
        PROVE  f[k] = IF k = 0 THEN ChatStart ELSE ReadMessage(f[k - 1], ms[k])
    <3>1. k = 0 \/ k \in 1..n
      BY <1>1
    <3>2. 0 \notin 1..n
      OBVIOUS
    <3> QED
      BY <1>3, <1>4, <3>1, <3>2, Zenon DEF Follows
  <2>2. f = [k \in 0..n |-> f[k]]
    OBVIOUS
  <2> QED
    BY <2>1, <2>2
<1>6. after = [k \in 0..n |-> IF k = 0 THEN ChatStart ELSE ReadMessage(after[k - 1], ms[k])]
  BY <1>5
<1>7. MessagesToCanonical(sent)
        = IF after[n].refused \/ after[n].users = 0 THEN Refused
          ELSE [Canonical EXCEPT !.model = sent.model, !.instructions = after[n].instructions,
                  !.text = after[n].text, !.image = after[n].globals \o after[n].refs]
  BY DEF MessagesToCanonical
<1> HIDE DEF after
<1>8. after[0] = ChatStart /\ \A i \in 1..n : after[i] = ReadMessage(after[i - 1], ms[i])
  <2>1. 0 \in 0..n /\ \A i \in 1..n : i \in 0..n /\ i # 0
    BY <1>1
  <2> QED
    BY <1>6, <2>1, Zenon
<1> DEFINE T == {m \in 0..n : after[m] \in ChatStates /\ ChatFits(sent, after[m], m)}
<1>9. 0 \in T
  BY <1>1, <1>8, ChatStarts
<1>10. ASSUME NEW m \in 0..(n - 1), m \in T PROVE m + 1 \in T
  <2>1. m + 1 \in 1..n /\ m + 1 \in 0..n /\ (m + 1) - 1 = m
    BY <1>1
  <2>2. after[m + 1] = ReadMessage(after[m], ms[m + 1])
    BY <1>8, <2>1
  <2>3. after[m] \in ChatStates /\ ChatFits(sent, after[m], (m + 1) - 1)
    BY <1>10, <2>1
  <2>4. ChatFits(sent, ReadMessage(after[m], ms[m + 1]), m + 1)
    BY <2>1, <2>3, MessageFits
  <2>5. ReadMessage(after[m], ms[m + 1]) \in ChatStates
    BY <1>1, <2>1, <2>3, MessageIsRead
  <2> QED
    BY <2>1, <2>2, <2>4, <2>5, Zenon
<1>11. n \in T
  <2> HIDE DEF T, n
  <2>1. \A m \in 0..n : m \in T
    BY <1>1, <1>9, <1>10, Steps
  <2> QED
    BY <1>1, <2>1
<1>12. after[n] \in ChatStates /\ ChatFits(sent, after[n], n)
  BY <1>11
<1> QED
  BY <1>7, <1>12, Zenon

\* What one message says and shows is what is gathered at its position.
LEMMA GatheredOnce ==
  ASSUME NEW sent, sent.messages \in Seq(InputItems), NEW u \in 1..Len(sent.messages)
  PROVE  /\ TextsAt(sent, {u}) = ItemTexts(sent.messages[u])
         /\ RefsAt(sent, {u}) = RefsOf(sent.messages[u].parts)
<1> DEFINE n == Len(sent.messages)
           a == Said(sent.messages, {u})
           b == Shown(sent.messages, {u})
<1>1. /\ n \in Nat /\ n \in 0..n /\ u \in 0..n /\ u - 1 \in 0..n /\ 0 \in 0..(u - 1)
      /\ \A i \in (u + 1)..n : i # u
      /\ \A i \in (0 + 1)..(u - 1) : i # u
  BY LenProperties
<1>2. a[n] = a[u] /\ b[n] = b[u]
  BY <1>1, GatherNothing
<1>3. a[u - 1] = a[0] /\ b[u - 1] = b[0]
  BY <1>1, GatherNothing
<1>4. /\ a[0] = <<>> /\ b[0] = <<>> /\ a[u] = a[u - 1] \o ItemTexts(sent.messages[u])
      /\ b[u] = b[u - 1] \o RefsOf(sent.messages[u].parts)
  BY Gather
<1>5. /\ ItemTexts(sent.messages[u]) \in Seq(STRING)
      /\ RefsOf(sent.messages[u].parts) \in Seq(STRING)
  BY ElementOfSeq, ItemsRead
<1>6. /\ <<>> \o ItemTexts(sent.messages[u]) = ItemTexts(sent.messages[u])
      /\ <<>> \o RefsOf(sent.messages[u].parts) = RefsOf(sent.messages[u].parts)
  BY <1>5, ConcatEmptySeq
<1> QED
  BY <1>2, <1>3, <1>4, <1>6, GatheredAt

\* The Chat door makes of a conversation its last user message and the instructions.
LEMMA ChatFolds ==
  ASSUME NEW sent, sent.messages \in Seq(ChatMessages)
  PROVE  FoldFits("chat", sent, MessagesToCanonical(sent))
<1> DEFINE n == Len(sent.messages)
           user == Positions(sent, {"user"})
           c == MessagesToCanonical(sent)
<1>0. sent.messages \in Seq(InputItems) /\ n \in Nat /\ user \subseteq 1..n
  BY ChatsAreInputs, LenProperties DEF Positions
<1>1. PICK s \in ChatStates :
        /\ ChatFits(sent, s, n)
        /\ c = IF s.refused \/ s.users = 0 THEN Refused
               ELSE [Canonical EXCEPT !.model = sent.model, !.instructions = s.instructions,
                       !.text = s.text, !.image = s.globals \o s.refs]
  BY ChatIsRead
<1>2. /\ s.refused \in BOOLEAN
      /\ Unreadable("chat", sent) <=> (s.refused = TRUE \/ user = {})
  BY <1>0, <1>1, UnreadableIs DEF ChatFits, ChatStates
<1>3. s.refused = FALSE => (s.users = 0 <=> user = {})
  BY <1>0, <1>1 DEF ChatFits, IsLastUser
<1>4. CASE s.refused = TRUE \/ s.users = 0
  BY <1>1, <1>2, <1>3, <1>4 DEF FoldFits
<1>5. CASE s.refused = FALSE /\ s.users # 0
  <2>1. PICK u \in 1..n : /\ IsLastUser(sent, u, n)
                          /\ s.text = TextsOf(sent.messages[u].parts)
                          /\ s.refs = RefsOf(sent.messages[u].parts)
    BY <1>1, <1>5 DEF ChatFits
  <2>2. LastTurn("chat", sent) = {u}
    <3>1. u \in user /\ (\A i \in user : i <= u) /\ (\A i \in user : i \in Int)
      BY <1>0, <2>1 DEF IsLastUser
    <3>2. \A i \in user : (\A j \in user : j <= i) <=> i = u
      BY <3>1
    <3>3. LastTurn("chat", sent) = {i \in user : \A j \in user : j <= i}
      BY DEF LastTurn
    <3> HIDE DEF user
    <3> QED
      BY <3>1, <3>2, <3>3
  <2>3. /\ TextsAt(sent, {u}) = ItemTexts(sent.messages[u])
        /\ RefsAt(sent, {u}) = RefsOf(sent.messages[u].parts)
    BY <1>0, GatheredOnce
  <2>4. ItemTexts(sent.messages[u]) = TextsOf(sent.messages[u].parts)
    <3>1. sent.messages[u].role = "user"
      BY <2>1 DEF IsLastUser, Positions
    <3> QED
      BY <3>1 DEF ItemTexts
  <2>5. /\ s.instructions = TextsAt(sent, Positions(sent, {"system"}))
        /\ s.globals = RefsAt(sent, Positions(sent, {"system"}))
    BY <1>0, <1>1, <1>5, GatheredAt DEF ChatFits
  <2>6. c = [Canonical EXCEPT !.model = sent.model, !.instructions = s.instructions,
               !.text = s.text, !.image = s.globals \o s.refs]
    BY <1>1, <1>5
  <2>7. /\ c.ok = TRUE /\ c.mask = Absent /\ IsBody(c) /\ c.instructions = s.instructions
        /\ c.text = s.text /\ c.image = s.globals \o s.refs
    BY <2>6 DEF Canonical, IsBody
  <2>8. c # Refused
    BY <2>7 DEF Refused
  <2> HIDE DEF c
  <2>9. /\ ExpectedFold("chat", sent).instructions = s.instructions
        /\ ExpectedFold("chat", sent).text = s.text
        /\ ExpectedFold("chat", sent).image = s.globals \o s.refs
    BY <2>1, <2>2, <2>3, <2>4, <2>5 DEF ExpectedFold
  <2>10. FoldFits("chat", sent, c)
    BY <1>2, <1>3, <1>5, <2>7, <2>8, <2>9 DEF FoldFits
  <2> QED
    BY <2>10 DEF c
<1> QED
  BY <1>2, <1>4, <1>5

-----------------------------------------------------------------------------
(* The inductive invariant of the look-ups and checks.                       *)

USE SupplyAssumption, IngressAssumption, ChannelAssumption

There(p) == files[p].how # "missing"
SameVersion(r, ref) == {<<r, l, Resolve(r, ref)>> : l \in ToSet(Layouts)}

Files == [how : {"readable", "locked", "hidden", "outside", "missing"},
          text : Texts \cup {None}, mtime : Nat, size : Nat]
Entries == [raw : Refs, mtime : Nat, size : Nat, text : Texts]
LookUps == [at : {"idle", "stat", "read", "found", "refused"}, wanted : Refs \cup {None},
            ref : Refs \cup {None}, root : Roots, layout : DOMAIN Layouts, mtime : Nat,
            size : Nat, text : Texts \cup {None}, path : Paths \cup {None}]

\* Files that one entry may stand for never have the same stat.
FilesFit ==
  /\ files \in [Paths -> Files] /\ clock \in Nat
  /\ \A p \in Paths : IF There(p) THEN /\ files[p].text \in Texts
                                       /\ <<files[p].mtime, files[p].size>> \in stats
                                  ELSE files[p] = NoFile
  /\ \A p, q \in Paths : Siblings(p, q) /\ There(p) /\ There(q) => ~SameStat(files[p], files[q])

\* A text that is kept is that of the file with its stat, if there is one.
EntryFits(r, e) ==
  /\ e \in Entries /\ <<e.mtime, e.size>> \in stats
  /\ \A p \in SameVersion(r, e.raw) : There(p) /\ SameStat(e, files[p]) => files[p].text = e.text
\* A root keeps so many texts and no more, one of a ref.
Few(K) == /\ IsFiniteSet(K) /\ Cardinality(K) <= MaxCached
          /\ \A e, f \in K : e.raw = f.raw => e = f
KnownFit == /\ DOMAIN known = Roots
            /\ \A r \in Roots : Few(known[r]) /\ \A e \in known[r] : EntryFits(r, e)

\* What a look-up has come by so far.
Skipped(p) == \E f \in HeldBy(p) : Unseen(f)
Going == look.at \in {"stat", "read", "found"}
PassedOver ==
  \A r \in Roots, k \in DOMAIN Layouts, ref \in {look.wanted, Stable} :
    Precedes(r, k, ref) => Skipped(<<r, Layouts[k], Resolve(r, ref)>>)
ReadFits ==
  /\ <<look.mtime, look.size>> \in stats
  /\ \A p \in SameVersion(look.root, look.ref) :
       There(p) /\ SameStat(look, files[p]) => p = PathOf(look)
FoundFits ==
  /\ look.path = PathOf(look) /\ look.text \in Texts
  /\ DigestHolds(look.root, look.ref, look.text)
  /\ \E f \in HeldBy(look.path) : f.how # "missing" /\ f.text = look.text
LookFits ==
  /\ look \in LookUps
  /\ Going => look.wanted \in Refs /\ look.ref \in {look.wanted, Stable} /\ PassedOver
  /\ look.at = "read" => ReadFits
  /\ look.at = "found" => FoundFits

\* A compiled script is that of its key, and the one that runs was checked.
Checked == {e \in [key : Texts, text : Compiles] : e.key = e.text}
CompiledFit == compiled \in Seq(Checked) /\ Len(compiled) <= MaxCompiled
RunFits ==
  pc \in {"loaded", "running"} =>
    /\ script.text \in Compiles
    /\ script.text = source.text /\ Verified(script.text, spec.pin)
    /\ source.form = "ref" => look.at = "found" /\ look.text = script.text

\* A channel names its script by a ref, or by none that can be read.
SpecFits == pc = "script" /\ spec.form = "ref" => spec.given \in Refs \cup {Malformed}

SupplyFits == FilesFit /\ KnownFit /\ LookFits
IngressInv == SupplyFits /\ CompiledFit /\ RunFits /\ SpecFits

-----------------------------------------------------------------------------
(* Paths, and what was held at them.                                        *)

\* A ref has a flat file and a nested one.
LEMMA LayoutsAre ==
  /\ DOMAIN Layouts = {1, 2} /\ Len(Layouts) = 2 /\ Layouts[1] = "flat" /\ Layouts[2] = "nested"
  /\ ToSet(Layouts) = {"flat", "nested"}
<1>1. DOMAIN Layouts = {1, 2} /\ Len(Layouts) = 2 /\ Layouts[1] = "flat" /\ Layouts[2] = "nested"
  BY DEF Layouts
<1>2. ToSet(Layouts) = {Layouts[i] : i \in {1, 2}}
  BY <1>1 DEF ToSet
<1> QED
  BY <1>1, <1>2

\* A ref stands for one version in a root, which has a file in each layout.
LEMMA VersionPaths ==
  ASSUME NEW r \in Roots, NEW ref \in Refs
  PROVE  /\ Resolve(r, ref) \in Refs
         /\ SameVersion(r, ref) \subseteq Paths
         /\ \A k \in DOMAIN Layouts : /\ <<r, Layouts[k], Resolve(r, ref)>> \in SameVersion(r, ref)
                                      /\ <<r, Layouts[k], Resolve(r, ref)>> \in Paths
         /\ \A p, q \in SameVersion(r, ref) : p # q => Siblings(p, q)
<1>1. Resolve(r, ref) \in Refs
  BY DEF Resolve
<1>2. SameVersion(r, ref) \subseteq Paths
  BY <1>1 DEF SameVersion, Paths
<1>3. ASSUME NEW k \in DOMAIN Layouts
      PROVE  <<r, Layouts[k], Resolve(r, ref)>> \in SameVersion(r, ref)
  BY LayoutsAre DEF SameVersion
<1>4. \A p, q \in SameVersion(r, ref) : p # q => Siblings(p, q)
  BY DEF SameVersion, Siblings
<1> QED
  BY <1>1, <1>2, <1>3, <1>4

\* An edit leaves every file as it was, but for who may read it, or with a new stat.
AsBefore(q) == /\ There(q) /\ SameStat(files'[q], files[q]) /\ files'[q].text = files[q].text
Fresh(q) == <<files'[q].mtime, files'[q].size>> \notin stats

\* An edit gives a file a stat of its own, or leaves its text.
LEMMA EditFiles ==
  ASSUME FilesFit, Edit
  PROVE  /\ FilesFit' /\ stats \subseteq stats'
         /\ \A q \in Paths : There(q)' => AsBefore(q) \/ Fresh(q)
<1>1. PICK p \in Edited, later \in {0, 1}, f \in Files :
        /\ clock' = clock + later /\ Put(p, f)
        /\ \/ f = NoFile
           \/ /\ f.how # "missing" /\ files[p].how # "missing" /\ SameStat(f, files[p])
              /\ f.text = files[p].text
           \/ f.how # "missing" /\ f.text \in Texts /\ <<f.mtime, f.size>> \notin stats
  <2>1. PICK p \in Edited, later \in {0, 1} :
          /\ clock' = clock + later
          /\ \/ \E t \in Texts, how \in {"readable", "outside"} :
                  /\ <<clock', Size[t]>> \notin stats
                  /\ Put(p, File(how, t, clock'))
             \/ /\ later = 0 /\ files[p].how \in Guarded
                /\ \E how \in Guarded : Put(p, [files[p] EXCEPT !.how = how])
             \/ later = 0 /\ Put(p, NoFile)
    BY DEF Edit
  <2>2. /\ p \in Paths /\ files[p] \in Files /\ clock' \in Nat /\ NoFile \in Files
    BY <2>1 DEF FilesFit, Files, NoFile
  <2>3. ASSUME NEW t \in Texts, NEW how \in {"readable", "outside"},
               <<clock', Size[t]>> \notin stats, Put(p, File(how, t, clock'))
        PROVE  /\ File(how, t, clock') \in Files /\ File(how, t, clock').how # "missing"
               /\ File(how, t, clock').text \in Texts
               /\ <<File(how, t, clock').mtime, File(how, t, clock').size>> \notin stats
    BY <2>2, <2>3 DEF File, Files
  <2>4. ASSUME files[p].how \in Guarded, NEW how \in Guarded
        PROVE  /\ [files[p] EXCEPT !.how = how] \in Files
               /\ [files[p] EXCEPT !.how = how].how # "missing"
               /\ SameStat([files[p] EXCEPT !.how = how], files[p])
               /\ [files[p] EXCEPT !.how = how].text = files[p].text
    BY <2>2, <2>4 DEF Files, SameStat, Guarded
  <2> QED
    BY <2>1, <2>2, <2>3, <2>4 DEF Guarded
<1>2. /\ p \in Paths /\ files' = [files EXCEPT ![p] = f]
      /\ stats' = stats \cup {<<f.mtime, f.size>>} /\ files \in [Paths -> Files]
  BY <1>1 DEF Put, FilesFit
<1>3. /\ files' \in [Paths -> Files] /\ files'[p] = f
      /\ \A q \in Paths \ {p} : files'[q] = files[q]
  BY <1>1, <1>2
<1>4. ASSUME NEW q \in Paths, There(q)'
      PROVE  AsBefore(q) \/ Fresh(q)
  BY <1>1, <1>3, <1>4 DEF There, AsBefore, Fresh, SameStat, NoFile
<1>5. ASSUME NEW q \in Paths, There(q)'
      PROVE  files'[q].text \in Texts /\ <<files'[q].mtime, files'[q].size>> \in stats'
  BY <1>1, <1>2, <1>3, <1>5 DEF There, FilesFit, SameStat, NoFile
<1>a. ASSUME NEW q \in Paths, ~There(q)'
      PROVE  files'[q] = NoFile
  BY <1>1, <1>3, <1>a DEF There, FilesFit
<1>6. ASSUME NEW q \in Paths, NEW s \in Paths, Siblings(q, s), There(q)', There(s)'
      PROVE  ~SameStat(files'[q], files'[s])
  <2>1. q # s /\ Siblings(s, q) /\ (q # p \/ s # p)
    BY <1>6 DEF Siblings
  <2>2. CASE AsBefore(q) /\ AsBefore(s)
    BY <1>6, <2>2 DEF AsBefore, FilesFit, SameStat
  <2>3. CASE Fresh(q) /\ q = p
    <3>1. files'[s] = files[s] /\ There(s)
      BY <1>3, <1>6, <2>1, <2>3 DEF There
    <3> QED
      BY <2>3, <3>1 DEF Fresh, FilesFit, SameStat
  <2>4. CASE Fresh(s) /\ s = p
    <3>1. files'[q] = files[q] /\ There(q)
      BY <1>3, <1>6, <2>1, <2>4 DEF There
    <3> QED
      BY <2>4, <3>1 DEF Fresh, FilesFit, SameStat
  <2>5. ASSUME NEW u \in Paths, u # p, There(u)'
        PROVE  AsBefore(u)
    BY <1>3, <2>5 DEF AsBefore, There, SameStat
  <2> QED
    BY <1>4, <1>6, <2>1, <2>2, <2>3, <2>4, <2>5
<1>7. clock' \in Nat
  BY <1>1 DEF FilesFit
<1> QED
  BY <1>2, <1>3, <1>4, <1>5, <1>6, <1>7, <1>a DEF FilesFit

\* What a path held since the look-up began, it has held ever after.
LEMMA EditHeld ==
  ASSUME FilesFit, Edit, look.at # "idle"
  PROVE  \A q \in Paths : HeldBy(q) \subseteq HeldBy(q)'
<1>1. PICK p \in Edited : /\ \E f : files' = [files EXCEPT ![p] = f]
                          /\ held' = held \cup {<<p, files[p]>>}
  BY DEF Edit, Put
<1>2. ASSUME NEW q \in Paths
      PROVE  HeldBy(q) \subseteq HeldBy(q)'
  <2>1. files[q] = files'[q] \/ <<q, files[q]>> \in held'
    BY <1>1 DEF FilesFit
  <2>2. {h[2] : h \in {g \in held : g[1] = q}} \subseteq {h[2] : h \in {g \in held' : g[1] = q}}
    BY <1>1
  <2>3. <<q, files[q]>> \in held' => files[q] \in {h[2] : h \in {g \in held' : g[1] = q}}
    <3>1. <<q, files[q]>>[1] = q /\ <<q, files[q]>>[2] = files[q]
      OBVIOUS
    <3> QED
      BY <3>1
  <2> QED
    BY <2>1, <2>2, <2>3 DEF HeldBy
<1> QED
  BY <1>2

\* The text cache and the look-up stay with what the files say.
LEMMA EditKeeps ==
  ASSUME FilesFit, KnownFit, LookFits, Edit
  PROVE  FilesFit' /\ KnownFit' /\ LookFits'
<1>1. /\ FilesFit' /\ stats \subseteq stats' /\ known' = known /\ look' = look
      /\ \A q \in Paths : There(q)' => AsBefore(q) \/ Fresh(q)
  BY EditFiles DEF Edit
<1>2. ASSUME NEW r \in Roots, NEW e \in known[r]
      PROVE  EntryFits(r, e)'
  <2>1. EntryFits(r, e) /\ e \in Entries
    BY DEF KnownFit, EntryFits
  <2>2. ASSUME NEW p \in SameVersion(r, e.raw), There(p)', SameStat(e, files'[p])
        PROVE  files'[p].text = e.text
    <3>1. p \in Paths
      BY <2>1, VersionPaths DEF Entries
    <3>2. ~Fresh(p)
      BY <2>1, <2>2 DEF Fresh, EntryFits, SameStat
    <3>3. AsBefore(p)
      BY <1>1, <2>2, <3>1, <3>2
    <3> QED
      BY <2>1, <2>2, <3>3 DEF AsBefore, EntryFits, SameStat
  <2> QED
    BY <1>1, <2>1, <2>2 DEF EntryFits, SameVersion
<1>3. look.at = "read" => ReadFits'
  <2> SUFFICES ASSUME look.at = "read" PROVE ReadFits'
    OBVIOUS
  <2>1. ReadFits /\ look.root \in Roots /\ look.ref \in Refs
    BY DEF LookFits, LookUps, Going, Refs
  <2>2. ASSUME NEW p \in SameVersion(look.root, look.ref), There(p)', SameStat(look, files'[p])
        PROVE  p = PathOf(look)
    <3>1. p \in Paths
      BY <2>1, VersionPaths
    <3>2. ~Fresh(p)
      BY <2>1, <2>2 DEF Fresh, ReadFits, SameStat
    <3>3. AsBefore(p)
      BY <1>1, <2>2, <3>1, <3>2
    <3> QED
      BY <2>1, <2>2, <3>3 DEF AsBefore, ReadFits, SameStat
  <2> QED
    BY <1>1, <2>1, <2>2 DEF ReadFits, SameVersion, PathOf
<1>4. Going => PassedOver' /\ Going'
  <2> SUFFICES ASSUME Going PROVE PassedOver' /\ Going'
    OBVIOUS
  <2>1. PassedOver /\ look.wanted \in Refs /\ Stable \in Refs /\ look.at # "idle"
    BY DEF LookFits, Going, Refs
  <2>2. ASSUME NEW r \in Roots, NEW k \in DOMAIN Layouts, NEW ref \in {look.wanted, Stable},
               Precedes(r, k, ref)
        PROVE  Skipped(<<r, Layouts[k], Resolve(r, ref)>>)'
    <3>1. <<r, Layouts[k], Resolve(r, ref)>> \in Paths
      BY <2>1, VersionPaths
    <3> QED
      BY <2>1, <2>2, <3>1, EditHeld DEF PassedOver, Skipped
  <2> QED
    BY <1>1, <2>2 DEF PassedOver, Going, Precedes
<1>5. look.at = "found" => FoundFits'
  <2> SUFFICES ASSUME look.at = "found" PROVE FoundFits'
    OBVIOUS
  <2>1. FoundFits /\ look.root \in Roots /\ look.ref \in Refs /\ look.layout \in DOMAIN Layouts
    BY DEF LookFits, LookUps, Going, Refs
  <2>2. PICK q \in Paths : q = look.path
    BY <2>1, VersionPaths DEF FoundFits, PathOf
  <2>3. HeldBy(q) \subseteq HeldBy(q)' /\ look'.path = q
    BY <1>1, <2>2, EditHeld
  <2>4. \E f \in HeldBy(q)' : f.how # "missing" /\ f.text = look'.text
    BY <1>1, <2>1, <2>2, <2>3 DEF FoundFits
  <2>5. HeldBy(look.path)' = HeldBy(q)'
    BY <2>3 DEF HeldBy
  <2> QED
    BY <1>1, <2>1, <2>4, <2>5 DEF FoundFits, PathOf
<1> QED
  BY <1>1, <1>2, <1>3, <1>4, <1>5 DEF KnownFit, LookFits, Going

-----------------------------------------------------------------------------
(* The look-up.                                                             *)

\* Where a look-up that goes on is.
LEMMA Where ==
  ASSUME LookFits, Going
  PROVE  /\ look.root \in Roots /\ look.layout \in {1, 2} /\ look.ref \in Refs
         /\ look.wanted \in Refs /\ look.ref \in {look.wanted, Stable} /\ look \in LookUps
         /\ PathOf(look) \in Paths /\ PathOf(look) \in SameVersion(look.root, look.ref)
         /\ PathOf(look) = <<look.root, Layouts[look.layout], Resolve(look.root, look.ref)>>
<1>1. /\ look.root \in Roots /\ look.layout \in DOMAIN Layouts /\ look.ref \in Refs
      /\ look.wanted \in Refs /\ look.ref \in {look.wanted, Stable} /\ look \in LookUps
  BY DEF LookFits, LookUps, Refs
<1> QED
  BY <1>1, VersionPaths, LayoutsAre DEF PathOf

\* What was passed over stays so while the files stay as they are.
LEMMA HeldStays ==
  ASSUME UNCHANGED <<files, held>>, look'.wanted = look.wanted,
         \A r \in Roots, k \in DOMAIN Layouts, ref \in {look.wanted, Stable} :
           Precedes(r, k, ref)' => Skipped(<<r, Layouts[k], Resolve(r, ref)>>)
  PROVE  PassedOver' /\ \A p \in Paths : HeldBy(p)' = HeldBy(p)
<1>1. ASSUME NEW p PROVE HeldBy(p)' = HeldBy(p)
  BY DEF HeldBy
<1>2. {look.wanted, Stable}' = {look.wanted, Stable}
  BY DEF Stable
<1>3. ASSUME NEW r \in Roots, NEW k \in DOMAIN Layouts, NEW ref \in {look'.wanted, Stable},
             Precedes(r, k, ref)'
      PROVE  Skipped(<<r, Layouts[k], Resolve(r, ref)>>)'
  <2>1. Skipped(<<r, Layouts[k], Resolve(r, ref)>>)
    BY <1>2, <1>3
  <2> QED
    BY <1>1, <2>1 DEF Skipped
<1> QED
  BY <1>1, <1>3 DEF PassedOver

\* A text that its path holds is found.
LEMMA HitFits ==
  ASSUME LookFits, look.at \in {"stat", "read"}, NEW text \in Texts, look' = Hit(look, text),
         There(PathOf(look)), files[PathOf(look)].text = text, UNCHANGED <<files, held>>
  PROVE  LookFits'
<1>1. Going /\ PassedOver
  BY DEF Going, LookFits
<1>2. /\ look \in LookUps /\ PathOf(look) \in Paths /\ look.wanted \in Refs
      /\ look.ref \in {look.wanted, Stable}
  BY <1>1, Where
<1>3. CASE ~DigestHolds(look.root, look.ref, text)
  <2>1. look' = [look EXCEPT !.at = "refused"]
    BY <1>3 DEF Hit
  <2>2. look' \in LookUps /\ look'.at = "refused"
    BY <1>2, <2>1 DEF LookUps
  <2> QED
    BY <2>2 DEF LookFits, Going
<1>4. CASE DigestHolds(look.root, look.ref, text)
  <2>1. look' = [look EXCEPT !.at = "found", !.text = text, !.path = PathOf(look)]
    BY <1>4 DEF Hit
  <2>2. /\ look' \in LookUps /\ look'.at = "found" /\ look'.text = text
        /\ look'.path = PathOf(look) /\ look'.root = look.root /\ look'.layout = look.layout
        /\ look'.ref = look.ref /\ look'.wanted = look.wanted
    BY <1>2, <2>1 DEF LookUps
  <2>3. PathOf(look)' = PathOf(look)
    BY <2>2 DEF PathOf
  <2>4. PassedOver' /\ \A p \in Paths : HeldBy(p)' = HeldBy(p)
    <3>1. \A r \in Roots, k \in DOMAIN Layouts, ref \in {look.wanted, Stable} :
            Precedes(r, k, ref)' <=> Precedes(r, k, ref)
      BY <2>2 DEF Precedes
    <3> QED
      BY <1>1, <2>2, <3>1, HeldStays DEF PassedOver
  <2>5. PICK q \in Paths : q = PathOf(look)
    BY <1>2
  <2>6. files[q] \in HeldBy(q)'
    BY <2>4, <2>5 DEF HeldBy
  <2>7. HeldBy(look.path)' = HeldBy(q)'
    BY <2>2, <2>5 DEF HeldBy
  <2>8. files[q].how # "missing" /\ files[q].text = look'.text
    BY <2>2, <2>5 DEF There
  <2>9. \E f \in HeldBy(look.path)' : f.how # "missing" /\ f.text = look'.text
    BY <2>6, <2>7, <2>8
  <2>a. FoundFits'
    BY <1>4, <2>2, <2>3, <2>9 DEF FoundFits
  <2> QED
    BY <1>2, <2>2, <2>4, <2>a DEF LookFits
<1> QED
  BY <1>3, <1>4

\* A path whose stat finds no file is passed over.
LEMMA MissFits ==
  ASSUME FilesFit, LookFits, look.at = "stat", look' = Missed(look), Unseen(files[PathOf(look)]),
         UNCHANGED <<files, held>>
  PROVE  LookFits'
<1>1. Going /\ PassedOver
  BY DEF Going, LookFits
<1>2. /\ look.root \in Roots /\ look.layout \in {1, 2} /\ look.ref \in Refs
      /\ look.wanted \in Refs /\ look.ref \in {look.wanted, Stable} /\ look \in LookUps
      /\ PathOf(look) \in Paths
      /\ PathOf(look) = <<look.root, Layouts[look.layout], Resolve(look.root, look.ref)>>
  BY <1>1, Where
<1>3. Skipped(PathOf(look))
  BY DEF Skipped, HeldBy
<1>4. ASSUME NEW r \in Roots, NEW k \in DOMAIN Layouts, NEW ref \in {look.wanted, Stable},
             Precedes(r, k, ref) \/ (ref = look.ref /\ r = look.root /\ k = look.layout)
      PROVE  Skipped(<<r, Layouts[k], Resolve(r, ref)>>)
  BY <1>1, <1>2, <1>3, <1>4 DEF PassedOver
<1>5. CASE look.layout = 1
  <2>1. look' = [look EXCEPT !.layout = 2]
    BY <1>5, LayoutsAre DEF Missed
  <2>2. /\ look' \in LookUps /\ look'.at = "stat" /\ look'.layout = 2 /\ look'.root = look.root
        /\ look'.ref = look.ref /\ look'.wanted = look.wanted
    BY <1>2, <2>1, LayoutsAre DEF LookUps
  <2>3. ASSUME NEW r \in Roots, NEW k \in DOMAIN Layouts, NEW ref \in {look.wanted, Stable},
               Precedes(r, k, ref)'
        PROVE  Precedes(r, k, ref) \/ (ref = look.ref /\ r = look.root /\ k = look.layout)
    BY <1>5, <2>2, <2>3, LayoutsAre DEF Precedes
  <2>4. PassedOver'
    BY <1>4, <2>2, <2>3, HeldStays
  <2> QED
    BY <1>2, <2>2, <2>4 DEF LookFits
<1>6. CASE look.layout = 2 /\ look.root < Depth
  <2>1. look' = [look EXCEPT !.layout = 1, !.root = look.root + 1]
    BY <1>6, LayoutsAre DEF Missed
  <2>a. look.root + 1 \in Roots /\ 1 \in DOMAIN Layouts
    BY <1>2, <1>6, LayoutsAre DEF Roots
  <2>2. /\ look' \in LookUps /\ look'.at = "stat" /\ look'.layout = 1
        /\ look'.root = look.root + 1 /\ look'.ref = look.ref /\ look'.wanted = look.wanted
    BY <1>2, <2>1, <2>a DEF LookUps
  <2>3. ASSUME NEW r \in Roots, NEW k \in DOMAIN Layouts, NEW ref \in {look.wanted, Stable},
               Precedes(r, k, ref)'
        PROVE  Precedes(r, k, ref) \/ (ref = look.ref /\ r = look.root /\ k = look.layout)
    BY <1>2, <1>6, <2>2, <2>3, LayoutsAre DEF Precedes, Roots
  <2>4. PassedOver'
    BY <1>4, <2>2, <2>3, HeldStays
  <2> QED
    BY <1>2, <2>2, <2>4 DEF LookFits
<1>7. CASE look.layout = 2 /\ look.root = Depth /\ look.ref # Stable
  <2>1. look' = [look EXCEPT !.layout = 1, !.root = 1, !.ref = Stable]
    BY <1>7, LayoutsAre DEF Missed
  <2>a. 1 \in Roots /\ 1 \in DOMAIN Layouts /\ Stable \in Refs
    BY LayoutsAre DEF Roots, Refs
  <2>2. /\ look' \in LookUps /\ look'.at = "stat" /\ look'.layout = 1
        /\ look'.root = 1 /\ look'.ref = Stable /\ look'.wanted = look.wanted
    BY <1>2, <1>7, <2>1, <2>a DEF LookUps
  <2>3. ASSUME NEW r \in Roots, NEW k \in DOMAIN Layouts, NEW ref \in {look.wanted, Stable},
               Precedes(r, k, ref)'
        PROVE  Precedes(r, k, ref) \/ (ref = look.ref /\ r = look.root /\ k = look.layout)
    BY <1>2, <1>7, <2>2, <2>3, LayoutsAre DEF Precedes, Roots
  <2>4. PassedOver'
    BY <1>4, <2>2, <2>3, HeldStays
  <2> QED
    BY <1>2, <2>2, <2>4 DEF LookFits
<1>8. CASE look.layout = 2 /\ look.root = Depth /\ look.ref = Stable
  <2>1. look' = [look EXCEPT !.at = "refused"]
    BY <1>8, LayoutsAre DEF Missed
  <2>2. look' \in LookUps /\ look'.at = "refused"
    BY <1>2, <2>1 DEF LookUps
  <2> QED
    BY <2>2 DEF LookFits, Going
<1> QED
  BY <1>2, <1>5, <1>6, <1>7, <1>8 DEF Roots

\* A stat leaves the invariant.
LEMMA StatKeeps ==
  ASSUME FilesFit, KnownFit, LookFits, Stat
  PROVE  FilesFit' /\ KnownFit' /\ LookFits'
<1>1. /\ look.at = "stat" /\ Going /\ UNCHANGED <<files, stats, clock, known, held>>
  BY DEF Stat, Going
<1>2. FilesFit' /\ KnownFit'
  BY <1>1 DEF FilesFit, KnownFit, EntryFits, There, SameVersion
<1>3. /\ look.root \in Roots /\ look.ref \in Refs /\ look \in LookUps /\ PassedOver
      /\ look.wanted \in Refs /\ look.ref \in {look.wanted, Stable}
      /\ PathOf(look) \in Paths /\ PathOf(look) \in SameVersion(look.root, look.ref)
  BY <1>1, Where DEF LookFits
<1> DEFINE file == files[PathOf(look)]
<1>4. /\ file \in Files
      /\ There(PathOf(look)) => file.text \in Texts /\ <<file.mtime, file.size>> \in stats
  BY <1>3 DEF FilesFit
<1>5. CASE Unseen(file)
  <2>1. look' = Missed(look)
    BY <1>5 DEF Stat, Unseen
  <2> QED
    BY <1>1, <1>2, <1>5, <2>1, MissFits
<1>6. CASE file.how = "outside"
  <2>1. look' = [look EXCEPT !.at = "refused"]
    BY <1>6 DEF Stat, Unseen
  <2>2. look' \in LookUps /\ look'.at = "refused"
    BY <1>3, <2>1 DEF LookUps
  <2> QED
    BY <1>2, <2>2 DEF LookFits, Going
<1>7. CASE file.how \in {"readable", "locked"} /\ Known(look, file) # {}
  <2>1. PICK e \in Known(look, file) : look' = Hit(look, e.text)
    <3>1. (CHOOSE e \in Known(look, file) : TRUE) \in Known(look, file)
      BY <1>7
    <3>2. look' = Hit(look, (CHOOSE e \in Known(look, file) : TRUE).text)
      BY <1>7 DEF Stat, Unseen
    <3> QED
      BY <3>1, <3>2
  <2>2. There(PathOf(look))
    BY <1>7 DEF There
  <2>3. e \in known[look.root] /\ e.raw = look.ref /\ SameStat(e, file)
    BY <2>1 DEF Known
  <2>4. file.text = e.text
    <3>1. EntryFits(look.root, e)
      BY <1>3, <2>3 DEF KnownFit
    <3>2. PathOf(look) \in SameVersion(look.root, e.raw)
      BY <1>3, <2>3
    <3> QED
      BY <2>2, <2>3, <3>1, <3>2 DEF EntryFits
  <2> QED
    BY <1>1, <1>2, <1>4, <2>1, <2>2, <2>4, HitFits
<1>8. CASE file.how \in {"readable", "locked"} /\ Known(look, file) = {}
  <2>1. look' = [look EXCEPT !.at = "read", !.mtime = file.mtime, !.size = file.size]
    BY <1>8 DEF Stat, Unseen
  <2>2. /\ look' \in LookUps /\ look'.at = "read" /\ look'.root = look.root
        /\ look'.layout = look.layout /\ look'.ref = look.ref /\ look'.wanted = look.wanted
        /\ look'.mtime = file.mtime /\ look'.size = file.size
    BY <1>3, <1>4, <2>1 DEF LookUps, Files
  <2>3. PassedOver'
    <3>1. \A r \in Roots, k \in DOMAIN Layouts, ref \in {look.wanted, Stable} :
            Precedes(r, k, ref)' <=> Precedes(r, k, ref)
      BY <2>2 DEF Precedes
    <3> QED
      BY <1>1, <1>3, <2>2, <3>1, HeldStays DEF PassedOver
  <2>4. There(PathOf(look))
    BY <1>8 DEF There
  <2>5. ASSUME NEW p \in SameVersion(look.root, look.ref), There(p), SameStat(look', files[p])
        PROVE  p = PathOf(look)
    <3>1. p \in Paths /\ SameStat(file, files[p])
      BY <1>3, <2>2, <2>5, VersionPaths DEF SameStat
    <3> QED
      BY <1>3, <2>4, <2>5, <3>1, VersionPaths DEF FilesFit
  <2>6. ReadFits'
    BY <1>1, <1>4, <2>2, <2>4, <2>5 DEF ReadFits, SameVersion, PathOf, There
  <2> QED
    BY <1>2, <1>3, <2>2, <2>3, <2>6 DEF LookFits
<1> QED
  BY <1>4, <1>5, <1>6, <1>7, <1>8 DEF Files, Unseen

\* A root whose cache is full empties it before it keeps one more.
LEMMA FewCached ==
  ASSUME KnownFit, NEW l \in LookUps, NEW text, known' = Cached(l, text)
  PROVE  \A r \in Roots : Few(known'[r])
<1> DEFINE old == known[l.root]
           e == [raw |-> l.ref, mtime |-> l.mtime, size |-> l.size, text |-> text]
           others == {f \in old : f.raw # l.ref}
           kept == IF Cardinality(old) >= MaxCached THEN {} ELSE others
<1>1. l.root \in Roots /\ Few(old) /\ MaxCached \in Nat \ {0}
  BY DEF KnownFit, LookUps
<1>2. IsFiniteSet(others) /\ Cardinality(others) <= Cardinality(old) /\ Cardinality(old) \in Nat
      /\ Cardinality(others) \in Nat
  BY <1>1, FS_Subset, FS_CardinalityType DEF Few
<1>3. IsFiniteSet(kept) /\ Cardinality(kept) \in Nat /\ Cardinality(kept) < MaxCached
  BY <1>1, <1>2, FS_EmptySet DEF Few
<1>5. kept \subseteq old /\ (\A f \in kept : f.raw # l.ref) /\ e.raw = l.ref
  OBVIOUS
<1>6. known' = [known EXCEPT ![l.root] = kept \cup {e}] /\ DOMAIN known = Roots
  BY DEF Cached, KnownFit
<1> HIDE DEF kept, e
<1>4. IsFiniteSet(kept \cup {e}) /\ Cardinality(kept \cup {e}) <= MaxCached
  <2>1. /\ IsFiniteSet(kept \cup {e})
        /\ Cardinality(kept \cup {e}) = Cardinality(kept)
             \/ Cardinality(kept \cup {e}) = Cardinality(kept) + 1
    BY <1>3, FS_AddElement
  <2> QED
    BY <1>1, <1>3, <2>1
<1>7. \A f, g \in kept \cup {e} : f.raw = g.raw => f = g
  BY <1>1, <1>5 DEF Few
<1>8. Few(kept \cup {e})
  BY <1>4, <1>7 DEF Few
<1> QED
  BY <1>6, <1>8 DEF KnownFit

\* So does a read, hit or miss.
LEMMA ReadKeeps ==
  ASSUME FilesFit, KnownFit, LookFits, Read
  PROVE  FilesFit' /\ KnownFit' /\ LookFits'
<1>1. /\ look.at = "read" /\ Going /\ ReadFits /\ UNCHANGED <<files, stats, clock, held>>
  BY DEF Read, Going, LookFits
<1>2. FilesFit'
  BY <1>1 DEF FilesFit, There
<1>3. /\ look.root \in Roots /\ look.ref \in Refs /\ look \in LookUps
      /\ PathOf(look) \in Paths /\ PathOf(look) \in SameVersion(look.root, look.ref)
  BY <1>1, Where
<1> DEFINE file == files[PathOf(look)]
<1>4. CASE file.how \in {"readable", "outside"}
  <2>1. look' = Hit(look, file.text) /\ known' = Cached(look, file.text)
    BY <1>4 DEF Read
  <2>2. There(PathOf(look)) /\ file.text \in Texts
    BY <1>3, <1>4 DEF There, FilesFit
  <2>3. LookFits'
    BY <1>1, <2>1, <2>2, HitFits
  <2> DEFINE e == [raw |-> look.ref, mtime |-> look.mtime, size |-> look.size,
                   text |-> file.text]
  <2>4. EntryFits(look.root, e)
    <3>1. e \in Entries /\ e.raw = look.ref /\ e.text = file.text
      BY <1>3, <2>2 DEF Entries, LookUps
    <3>2. <<e.mtime, e.size>> \in stats
      BY <1>1 DEF ReadFits
    <3>3. ASSUME NEW p \in SameVersion(look.root, e.raw), There(p), SameStat(e, files[p])
          PROVE  files[p].text = e.text
      <4>1. SameStat(look, files[p])
        BY <3>3 DEF SameStat
      <4>2. p = PathOf(look)
        BY <1>1, <3>1, <3>3, <4>1 DEF ReadFits
      <4> QED
        BY <3>1, <4>2
    <3> QED
      BY <3>1, <3>2, <3>3 DEF EntryFits
  <2>5. /\ DOMAIN known' = Roots
        /\ \A r \in Roots : known'[r] \subseteq known[r] \cup (IF r = look.root THEN {e} ELSE {})
    BY <1>3, <2>1 DEF Cached, KnownFit
  <2>7. \A r \in Roots : Few(known'[r])
    BY <1>3, <2>1, FewCached
  <2> HIDE DEF e
  <2>6. ASSUME NEW r \in Roots, NEW f \in known'[r]
        PROVE  EntryFits(r, f)'
    <3>1. EntryFits(r, f)
      BY <2>4, <2>5 DEF KnownFit
    <3> QED
      BY <1>1, <3>1 DEF EntryFits, There, SameVersion
  <2> QED
    BY <1>2, <2>3, <2>5, <2>6, <2>7 DEF KnownFit
<1>5. CASE file.how \notin {"readable", "outside"}
  <2>1. look' = [look EXCEPT !.at = "refused"] /\ known' = known
    BY <1>5 DEF Read, ReadBroken
  <2>2. look' \in LookUps /\ look'.at = "refused"
    BY <1>3, <2>1 DEF LookUps
  <2>3. KnownFit'
    BY <1>1, <2>1 DEF KnownFit, EntryFits, There, SameVersion
  <2> QED
    BY <1>2, <2>2, <2>3 DEF LookFits, Going
<1> QED
  BY <1>4, <1>5

-----------------------------------------------------------------------------
(* The supply as the requests use it.                                       *)

\* What does not touch the supply leaves its invariant.
LEMMA SupplyStays ==
  ASSUME SupplyFits, UNCHANGED <<files, stats, clock, known, look, held>>
  PROVE  SupplyFits'
<1>1. FilesFit' /\ KnownFit'
  BY DEF SupplyFits, FilesFit, KnownFit, EntryFits, There, SameVersion
<1>2. ASSUME NEW p PROVE HeldBy(p)' = HeldBy(p)
  BY DEF HeldBy
<1>3. look.at = "read" => ReadFits'
  BY DEF SupplyFits, LookFits, ReadFits, There, SameVersion, PathOf
<1>4. Going => PassedOver'
  <2>1. \A r \in Roots, k \in DOMAIN Layouts, ref \in {look.wanted, Stable} :
          Precedes(r, k, ref)' <=> Precedes(r, k, ref)
    BY DEF Precedes
  <2> QED
    BY <2>1, HeldStays DEF SupplyFits, LookFits, PassedOver
<1>5. look.at = "found" => FoundFits'
  <2> SUFFICES ASSUME look.at = "found" PROVE FoundFits'
    OBVIOUS
  <2>1. FoundFits
    BY DEF SupplyFits, LookFits
  <2>2. PICK q : q = look.path
    OBVIOUS
  <2>3. HeldBy(look.path)' = HeldBy(q)' /\ HeldBy(look.path) = HeldBy(q)
    BY <2>2 DEF HeldBy
  <2>4. \E f \in HeldBy(look.path)' : f.how # "missing" /\ f.text = look'.text
    BY <1>2, <2>1, <2>3 DEF FoundFits
  <2> QED
    BY <2>1, <2>4 DEF FoundFits, PathOf
<1> QED
  BY <1>1, <1>3, <1>4, <1>5 DEF SupplyFits, LookFits, Going

\* A look-up starts at the ref asked for, in the first root: it has passed nothing over.
LEMMA StartKeeps ==
  ASSUME SupplyFits, NEW ref \in Refs, StartLookUp(ref)
  PROVE  SupplyFits'
<1>1. FilesFit' /\ KnownFit'
  BY DEF SupplyFits, StartLookUp, FilesFit, KnownFit, EntryFits, There, SameVersion
<1>2. 1 \in Roots /\ 1 \in DOMAIN Layouts
  BY LayoutsAre DEF Roots
<1>3. /\ look'.at = "stat" /\ look'.wanted = ref /\ look'.ref = ref
      /\ look'.root = 1 /\ look'.layout = 1
  BY DEF StartLookUp, LookUp
<1>4. look' \in LookUps
  BY <1>2 DEF StartLookUp, LookUp, LookUps
<1>5. ASSUME NEW r \in Roots, NEW k \in DOMAIN Layouts, NEW other \in {look'.wanted, Stable}
      PROVE  ~Precedes(r, k, other)'
  BY <1>3, LayoutsAre DEF Precedes, Roots
<1>6. PassedOver'
  BY <1>5 DEF PassedOver
<1> QED
  BY <1>1, <1>3, <1>4, <1>6 DEF SupplyFits, LookFits

\* So does the end of a look-up.
LEMMA IdleKeeps ==
  ASSUME SupplyFits, look' = NoLookUp, UNCHANGED <<files, stats, clock, known>>
  PROVE  SupplyFits'
<1>1. FilesFit' /\ KnownFit'
  BY DEF SupplyFits, FilesFit, KnownFit, EntryFits, There, SameVersion
<1>2. 1 \in Roots /\ 1 \in DOMAIN Layouts
  BY LayoutsAre DEF Roots
<1>3. look'.at = "idle" /\ look' \in LookUps
  BY <1>2 DEF NoLookUp, LookUp, LookUps
<1> QED
  BY <1>1, <1>3 DEF SupplyFits, LookFits, Going

-----------------------------------------------------------------------------
(* The compiled scripts, and the checks before them.                        *)

\* What is compiled, or was, has the text that its key stands for.
LEMMA CompiledAsKeyed ==
  ASSUME CompiledFit, NEW src, src.text \in Texts,
         EntriesFor(CacheKey(src)) # {} \/ src.text \in Compiles
  PROVE  CompiledFrom(src) \in Checked /\ CompiledFrom(src).text = src.text
<1>1. CASE EntriesFor(src.text) # {}
  <2>1. EntryFor(src.text) \in EntriesFor(src.text)
    BY <1>1 DEF EntryFor
  <2>2. /\ EntryFor(src.text) \in DOMAIN compiled
        /\ compiled[EntryFor(src.text)].key = src.text
    BY <2>1 DEF EntriesFor
  <2>3. compiled[EntryFor(src.text)] \in Checked
    BY <2>2, ElementOfSeq, LenProperties DEF CompiledFit
  <2> QED
    BY <1>1, <2>2, <2>3 DEF CompiledFrom, CacheKey, Checked
<1>2. CASE EntriesFor(src.text) = {}
  BY <1>2 DEF CompiledFrom, CacheKey, Checked
<1> QED
  BY <1>1, <1>2

\* An entry that is put in front leaves the cache within its limit.
LEMMA RenewedFits ==
  ASSUME CompiledFit, NEW entry \in Checked, compiled' = Renewed(entry)
  PROVE  CompiledFit'
<1> DEFINE others == IF EntriesFor(entry.key) = {} THEN compiled
                     ELSE RemoveAt(compiled, EntryFor(entry.key))
<1>1. compiled \in Seq(Checked) /\ DOMAIN compiled = 1..Len(compiled) /\ Len(compiled) \in Nat
  BY LenProperties DEF CompiledFit
<1>2. others \in Seq(Checked) /\ Len(others) <= Len(compiled)
  <2>1. CASE EntriesFor(entry.key) = {}
    BY <1>1, <2>1
  <2>2. CASE EntriesFor(entry.key) # {}
    <3>1. PICK i \in 1..Len(compiled) : i = EntryFor(entry.key)
      BY <1>1, <2>2 DEF EntryFor, EntriesFor
    <3>2. \A j \in 1..Len(compiled) : compiled[j] \in Checked
      BY <1>1, ElementOfSeq
    <3>3. SubSeq(compiled, 1, i - 1) \in Seq(Checked)
      BY <1>1, <3>1, <3>2, SubSeqProperties
    <3>4. SubSeq(compiled, i + 1, Len(compiled)) \in Seq(Checked)
      BY <1>1, <3>1, <3>2, SubSeqProperties
    <3>5. /\ Len(SubSeq(compiled, 1, i - 1)) = i - 1
          /\ Len(SubSeq(compiled, i + 1, Len(compiled))) = Len(compiled) - i
      BY <1>1, <3>1, <3>2, SubSeqProperties
    <3>6. PICK a \in Seq(Checked), b \in Seq(Checked) :
            /\ a = SubSeq(compiled, 1, i - 1) /\ b = SubSeq(compiled, i + 1, Len(compiled))
      BY <3>3, <3>4
    <3>7. RemoveAt(compiled, i) = a \o b
      BY <3>6 DEF RemoveAt
    <3>8. a \o b \in Seq(Checked) /\ Len(a \o b) = Len(a) + Len(b)
      BY ConcatProperties
    <3>9. Len(a) = i - 1 /\ Len(b) = Len(compiled) - i
      BY <3>5, <3>6
    <3> QED
      <4>1. others = a \o b
        BY <2>2, <3>1, <3>7
      <4>2. (i - 1) + (Len(compiled) - i) <= Len(compiled)
        BY <1>1, <3>1
      <4> HIDE DEF others
      <4> QED
        BY <3>8, <3>9, <4>1, <4>2
  <2> QED
    BY <2>1, <2>2
<1> HIDE DEF others
<1>3. /\ Append(others, entry) \in Seq(Checked) /\ Append(others, entry) # <<>>
      /\ Len(Append(others, entry)) = Len(others) + 1
  BY <1>2, AppendProperties
<1>4. /\ Tail(Append(others, entry)) \in Seq(Checked)
      /\ Len(Tail(Append(others, entry))) = Len(Append(others, entry)) - 1
  BY <1>3, HeadTailProperties
<1>5. compiled' = IF Len(Append(others, entry)) > MaxCompiled THEN Tail(Append(others, entry))
                  ELSE Append(others, entry)
  BY DEF Renewed, others
<1>6. Len(others) \in Nat /\ MaxCompiled \in Nat /\ Len(others) <= MaxCompiled
  BY <1>1, <1>2, LenProperties DEF CompiledFit
<1> QED
  BY <1>3, <1>4, <1>5, <1>6 DEF CompiledFit

\* A script is loaded when its text answers to the pin and to the deployment's list.
LEMMA AcceptFits ==
  ASSUME CompiledFit, NEW text, NEW ref, NEW limit, Accept(text, ref, limit) \/ Refuse,
         UNCHANGED spec
  PROVE  /\ CompiledFit' /\ pc' \in {"loaded", "refused"}
         /\ pc' = "loaded" =>
              /\ text \in Compiles
              /\ script'.text = text /\ source'.text = text /\ source'.form = spec.form
              /\ Verified(text, spec.pin)
<1> DEFINE src == [form |-> spec.form, ref |-> ref, text |-> text]
<1>1. CASE Refuse
  BY <1>1 DEF Refuse, CompiledFit
<1>2. CASE /\ text \in Texts /\ Verified(text, spec.pin)
           /\ EntriesFor(CacheKey(src)) # {} \/ src.text \in Compiles
           /\ script' = CompiledFrom(src) /\ compiled' = Renewed(CompiledFrom(src))
           /\ source' = src /\ pc' = "loaded"
  <2>1. src.text = text /\ src.form = spec.form
    OBVIOUS
  <2> HIDE DEF src
  <2>2. CompiledFrom(src) \in Checked /\ CompiledFrom(src).text = text
    BY <1>2, <2>1, CompiledAsKeyed
  <2>3. text \in Compiles
    BY <2>2 DEF Checked
  <2> QED
    BY <1>2, <2>1, <2>2, <2>3, RenewedFits
<1> QED
  BY <1>1, <1>2 DEF Accept, Load

\* A ref in the headers is the name of a version or an alias, or none that can be read.
LEMMA RefsAreNames ==
  ASSUME NEW h \in Headers, ParseChannel(h).ok, ParseChannel(h).form = "ref"
  PROVE  ParseChannel(h).given \in Refs \cup {Malformed}
<1> DEFINE s == CHOOSE x \in h.sources : TRUE
<1>1. Cardinality(h.sources) = 1
  BY DEF ParseChannel, NoSpec
<1>2. h.sources # {}
  <2>1. Cardinality({}) = 0
    BY FS_EmptySet
  <2> QED
    BY ONLY <1>1, <2>1
<1>3. s \in h.sources
  BY <1>2
<1>4. ParseChannel(h).form = s.form /\ ParseChannel(h).given = s.given
  BY DEF ParseChannel, NoSpec
<1> HIDE DEF s
<1> QED
  BY <1>3, <1>4

-----------------------------------------------------------------------------
(* The steps.                                                               *)

\* No file is cached and no look-up is under way at first.
LEMMA InitFits == Init => IngressInv
<1> SUFFICES ASSUME Init PROVE IngressInv
  OBVIOUS
<1>1. ASSUME NEW p \in Paths
      PROVE  /\ files[p] \in Files
             /\ IF There(p) THEN /\ p \in DOMAIN Original /\ files[p].text = Original[p]
                                 /\ files[p].text \in Texts
                                 /\ files[p].mtime = 0 /\ files[p].size = Size[Original[p]]
                ELSE files[p] = NoFile
  <2>1. files[p] = IF p \in DOMAIN Original THEN File("readable", Original[p], 0) ELSE NoFile
    BY DEF Init, SupplyInit
  <2>2. CASE p \in DOMAIN Original
    <3>1. Original[p] \in Texts /\ Size[Original[p]] \in Nat
      BY <2>2
    <3> QED
      BY <2>1, <2>2, <3>1 DEF File, Files, There
  <2>3. CASE p \notin DOMAIN Original
    BY <2>1, <2>3 DEF NoFile, Files, There
  <2> QED
    BY <2>2, <2>3
<1>2. FilesFit
  <2>1. files \in [Paths -> Files] /\ clock \in Nat
    BY <1>1 DEF Init, SupplyInit
  <2>2. ASSUME NEW p \in Paths, There(p)
        PROVE  <<files[p].mtime, files[p].size>> \in stats
    BY <1>1, <2>2 DEF Init, SupplyInit
  <2>3. ASSUME NEW p \in Paths, NEW q \in Paths, Siblings(p, q), There(p), There(q)
        PROVE  ~SameStat(files[p], files[q])
    BY <1>1, <2>3 DEF SameStat
  <2> QED
    BY <1>1, <2>1, <2>2, <2>3 DEF FilesFit
<1>3. KnownFit
  <2>1. Few({})
    BY FS_EmptySet DEF Few
  <2>2. known = [r \in Roots |-> {}]
    BY DEF Init, SupplyInit
  <2> QED
    BY <2>1, <2>2 DEF KnownFit
<1>4. LookFits
  <2>1. 1 \in Roots /\ 1 \in DOMAIN Layouts
    BY LayoutsAre DEF Roots
  <2>2. look.at = "idle" /\ look \in LookUps
    BY <2>1 DEF Init, SupplyInit, NoLookUp, LookUp, LookUps
  <2> QED
    BY <2>2 DEF LookFits, Going
<1>5. CompiledFit
  BY EmptySeq DEF Init, SupplyInit, CompiledFit
<1> QED
  BY <1>2, <1>3, <1>4, <1>5 DEF IngressInv, SupplyFits, RunFits, SpecFits, Init

\* A step that starts no look-up, loads no script and leaves the files as they are.
LEMMA QuietKeeps ==
  ASSUME IngressInv, UNCHANGED supplyVars,
         \/ pc' \notin {"script", "loaded", "running"}
         \/ pc' \in {"loaded", "running"} /\ pc = "loaded" /\ UNCHANGED <<spec, source, script>>
         \/ UNCHANGED vars
         \/ pc' = "script" /\ SpecFits'
  PROVE  IngressInv'
<1>1. SupplyFits'
  BY SupplyStays DEF IngressInv, supplyVars, rootVars
<1>2. CompiledFit'
  BY DEF IngressInv, CompiledFit, supplyVars
<1>3. RunFits' /\ SpecFits'
  BY DEF IngressInv, RunFits, SpecFits, supplyVars, rootVars, vars, requestVars
<1> QED
  BY <1>1, <1>2, <1>3 DEF IngressInv

\* A step that brings a text to be checked, whether or not it is then run.
LEMMA AcceptKeeps ==
  ASSUME IngressInv, NEW text, NEW ref, NEW limit, Accept(text, ref, limit) \/ Refuse,
         UNCHANGED <<spec, rootVars>>,
         spec.form = "ref" => look.at = "found" /\ look.text = text
  PROVE  IngressInv'
<1>1. SupplyFits'
  BY SupplyStays DEF IngressInv, rootVars
<1>2. /\ CompiledFit' /\ pc' \in {"loaded", "refused"}
      /\ pc' = "loaded" => /\ text \in Compiles
                           /\ script'.text = text /\ source'.text = text
                           /\ source'.form = spec.form /\ Verified(text, spec.pin)
  BY AcceptFits DEF IngressInv
<1>3. RunFits' /\ SpecFits'
  BY <1>2 DEF RunFits, SpecFits, rootVars, Verified
<1> QED
  BY <1>1, <1>2, <1>3 DEF IngressInv

\* Every step keeps the invariant.
LEMMA NextFits == IngressInv /\ [Next]_vars => IngressInv'
<1> SUFFICES ASSUME IngressInv, [Next]_vars PROVE IngressInv'
  OBVIOUS
<1>1. CASE BodyTooLarge \/ BodyUnreadable \/ Prepare
  BY <1>1, QuietKeeps DEF BodyTooLarge, BodyUnreadable, Prepare
<1>2. CASE ReadChannel
  <2>1. PICK h \in Headers :
          /\ spec' = ParseChannel(h)
          /\ IF ParseChannel(h).ok THEN pc' = "script" ELSE pc' = "refused"
    BY <1>2 DEF ReadChannel
  <2>2. UNCHANGED supplyVars
    BY <1>2 DEF ReadChannel
  <2>3. pc' = "script" => SpecFits'
    BY <2>1, RefsAreNames DEF SpecFits
  <2> QED
    BY <2>1, <2>2, <2>3, QuietKeeps
<1>3. CASE InlineScript
  <2>1. /\ spec.form # "ref" /\ UNCHANGED <<spec, rootVars>>
        /\ Accept(spec.given, None, MaxInlineSize) \/ Refuse
    BY <1>3 DEF InlineScript
  <2> QED
    BY <2>1, AcceptKeeps
<1>4. CASE RemoteScript
  <2>1. /\ spec.form # "ref" /\ UNCHANGED <<spec, rootVars>>
        /\ (\E text \in Texts : Accept(text, spec.given, MaxScriptSize)) \/ Refuse
    BY <1>4 DEF RemoteScript
  <2>2. PICK text : Accept(text, spec.given, MaxScriptSize) \/ Refuse
    BY <2>1
  <2> QED
    BY <2>1, <2>2, AcceptKeeps
<1>5. CASE NamedScript
  <2>1. CASE spec.given = Malformed
    BY <1>5, <2>1, QuietKeeps DEF NamedScript
  <2>2. CASE spec.given # Malformed
    <3>1. /\ spec.given \in Refs /\ StartLookUp(spec.given) /\ pc' = "looking"
          /\ UNCHANGED compiled
      BY <1>5, <2>2 DEF NamedScript, IngressInv, SpecFits, StartLookUp
    <3>2. SupplyFits'
      BY <3>1, StartKeeps DEF IngressInv
    <3> QED
      BY <3>1, <3>2 DEF IngressInv, CompiledFit, RunFits, SpecFits
  <2> QED
    BY <2>1, <2>2
<1>6. CASE Look
  <2>1. pc' = "looking" /\ UNCHANGED compiled
    BY <1>6 DEF Look, Stat, Read
  <2>2. SupplyFits'
    BY <1>6, StatKeeps, ReadKeeps DEF Look, IngressInv, SupplyFits
  <2> QED
    BY <2>1, <2>2 DEF IngressInv, CompiledFit, RunFits, SpecFits
<1>7. CASE LookedUp
  <2>1. CASE look.at = "found"
    BY <1>7, <2>1, AcceptKeeps DEF LookedUp
  <2>2. CASE look.at # "found"
    <3>1. /\ Refuse /\ UNCHANGED <<spec, rootVars>>
      BY <1>7, <2>2 DEF LookedUp
    <3>2. SupplyFits' /\ CompiledFit' /\ pc' = "refused"
      BY <3>1, SupplyStays DEF IngressInv, rootVars, Refuse, CompiledFit
    <3> QED
      BY <3>2 DEF IngressInv, RunFits, SpecFits
  <2> QED
    BY <2>1, <2>2
<1>8. CASE DecideStages
  BY <1>8, QuietKeeps DEF DecideStages
<1>9. CASE NextRequest
  <2>1. /\ look' = NoLookUp /\ UNCHANGED <<files, stats, clock, known, compiled>> /\ pc' = "new"
    BY <1>9 DEF NextRequest
  <2>2. SupplyFits'
    BY <2>1, IdleKeeps DEF IngressInv
  <2> QED
    BY <2>1, <2>2 DEF IngressInv, CompiledFit, RunFits, SpecFits
<1>10. CASE OperatorEdits
  <2>1. /\ Edit /\ pc \in {"script", "looking"} /\ UNCHANGED <<pc, spec, compiled>>
    BY <1>10 DEF OperatorEdits, requestVars, Edit
  <2>2. SupplyFits'
    BY <2>1, EditKeeps DEF IngressInv, SupplyFits
  <2> QED
    BY <2>1, <2>2 DEF IngressInv, CompiledFit, RunFits, SpecFits
<1>11. CASE Finished \/ UNCHANGED vars
  <2>1. UNCHANGED vars /\ UNCHANGED supplyVars
    BY <1>11 DEF Finished, vars
  <2> QED
    BY <2>1, QuietKeeps
<1> QED
  BY <1>1, <1>2, <1>3, <1>4, <1>5, <1>6, <1>7, <1>8, <1>9, <1>10, <1>11 DEF Next

\* A stat is never given to two texts, in every state.
THEOREM Invariance == Spec => []IngressInv
<1>1. Init => IngressInv
  BY InitFits
<1>2. IngressInv /\ [Next]_vars => IngressInv'
  BY NextFits
<1> QED
  BY <1>1, <1>2, PTL DEF Spec

\* Whatever is edited, locked, linked or removed, and whenever, a script that was asked for
\* by a ref has a text that its file held at some moment of this look-up.
THEOREM TextsAreCurrent == Spec => []NoStaleScript
<1>1. IngressInv => NoStaleScript
  BY DEF IngressInv, SupplyFits, LookFits, FoundFits, RunFits, NoStaleScript
<1> QED
  BY <1>1, Invariance, PTL

\* An overlay gives way to the roots below it, and a version to the stable one, only where
\* a path that comes first had, at some moment of the look-up, no file or one whose stat
\* failed: what a stat finds is served or refuses the request.
THEOREM OverlaysComeFirst == Spec => []FallsBackOnlyWhenUnseen
<1>1. IngressInv => FallsBackOnlyWhenUnseen
  BY DEF IngressInv, SupplyFits, LookFits, Going, PassedOver, Skipped, FallsBackOnlyWhenUnseen
<1> QED
  BY <1>1, Invariance, PTL

\* The text that runs is the one that was held against the pin, the deployment's list and
\* the manifest of the root that it came from, compiled anew or not.
THEOREM ChecksHoldAtRun == Spec => []RunsWhatWasVerified
<1>1. IngressInv => RunsWhatWasVerified
  BY DEF IngressInv, SupplyFits, LookFits, FoundFits, RunFits, Verified, RunsWhatWasVerified
<1> QED
  BY <1>1, Invariance, PTL

-----------------------------------------------------------------------------
(* What a script is given.                                                  *)

\* A body that a script can act on.
Ready(b) ==
  /\ b.n \in Counts \cup {Absent} /\ b.format \in ResponseFormats \cup {Absent}
  /\ ToSet(b.image) \cap {"", Blank, Junk} = {}
  /\ b.mask # Absent => b.image # <<>>
  /\ b.image = <<>> => \E t \in ToSet(b.instructions \o b.text) : t \notin {"", Blank}

\* What the validator lets through is a body that a script can act on.
LEMMA ValidatedIsReady ==
  ASSUME NEW c, IsBody(c)
  PROVE  Validate(c).ok \in BOOLEAN /\ (Validate(c).ok => Ready(Validate(c)))
<1>1. CASE ~Acceptable(c)
  BY <1>1 DEF Validate, Refused
<1>2. CASE Acceptable(c)
  <2>1. c # Refused
    BY <1>2 DEF Acceptable, Refused
  <2>2. PICK name, instructions, text, image, mask, n, format, tools, prior :
          c = [ok |-> TRUE, model |-> name, instructions |-> instructions, text |-> text,
               image |-> image, mask |-> mask, n |-> n, format |-> format,
               tools |-> tools, prior |-> prior]
    BY <2>1 DEF IsBody
  <2>3. PICK count, carrier :
          /\ count = IF n = Absent \/ n \in Counts THEN n ELSE "1"
          /\ carrier = IF format \in ResponseFormats THEN format ELSE Absent
    OBVIOUS
  <2>4. Validate(c) =
          [ok |-> TRUE, model |-> name, instructions |-> instructions, text |-> text,
           image |-> image, mask |-> mask, n |-> count, format |-> carrier,
           tools |-> tools, prior |-> prior]
    BY <1>2, <2>2, <2>3 DEF Validate
  <2>5. count \in Counts \cup {Absent} /\ carrier \in ResponseFormats \cup {Absent}
    BY <2>3 DEF Counts
  <2>6. /\ \A ref \in ToSet(image) : ~BadRef(ref)
        /\ mask # Absent => image # <<>>
        /\ image # <<>> \/ ~(ToSet(instructions \o text) \subseteq {"", Blank})
    BY <1>2, <2>2 DEF Acceptable, HasPrompt
  <2>7. PICK b : b = Validate(c)
    OBVIOUS
  <2>8. /\ b.ok = TRUE /\ b.n = count /\ b.format = carrier /\ b.image = image
        /\ b.mask = mask /\ b.instructions = instructions /\ b.text = text
    BY <2>4, <2>7
  <2>9. ToSet(image) \cap {"", Blank, Junk} = {}
    BY <2>6 DEF BadRef
  <2>10. Ready(b)
    BY <2>5, <2>6, <2>8, <2>9 DEF Ready
  <2> QED
    BY <2>7, <2>8, <2>10
<1> QED
  BY <1>1, <1>2

\* Every door yields a body with all its fields, or none.
LEMMA FoldsToBodies ==
  ASSUME NEW i, Sendable(i)
  PROVE  IsBody(Fold(i.door, i.body))
<1>1. CASE i.door = "images"
  <2>1. Fold(i.door, i.body) = JsonToCanonical(i.body)
    BY <1>1 DEF Fold
  <2> QED
    BY <2>1 DEF JsonToCanonical, Canonical, IsBody
<1>2. CASE i.door = "edits"
  <2>1. Fold(i.door, i.body) = FormToCanonical(i.body)
    BY <1>2 DEF Fold
  <2>2. i.body.form \in Seq(FormFields)
    BY <1>2 DEF Sendable
  <2> QED
    BY <2>1, <2>2, FormIsRead, BodiesAreBodies
<1>3. CASE i.door = "chat"
  <2>1. Fold(i.door, i.body) = MessagesToCanonical(i.body)
    BY <1>3 DEF Fold
  <2>2. \E m, a, t, g :
          MessagesToCanonical(i.body) \in
            {Refused, [Canonical EXCEPT !.model = m, !.instructions = a, !.text = t, !.image = g]}
    BY Zenon DEF MessagesToCanonical
  <2> QED
    BY <2>1, <2>2 DEF Canonical, IsBody
<1>4. CASE i.door = "responses"
  <2>1. Fold(i.door, i.body) = InputToCanonical(i.body)
    BY <1>4 DEF Fold
  <2>2. \E m, a, t, g, u, p :
          InputToCanonical(i.body) \in
            {Refused, [Canonical EXCEPT !.model = m, !.instructions = a, !.text = t, !.image = g,
                                        !.tools = u, !.prior = p]}
    BY Zenon DEF InputToCanonical
  <2> QED
    BY <2>1, <2>2 DEF Canonical, IsBody
<1> QED
  BY <1>1, <1>2, <1>3, <1>4 DEF Sendable

\* The request, up to its script.
RequestFits ==
  /\ pc \in {"new", "prepared", "script", "looking", "loaded", "running", "refused"}
  /\ turn \in 1..MaxRequests /\ edits \in 0..MaxEdits
  /\ body.ok \in BOOLEAN /\ spec.ok \in BOOLEAN
  /\ source.text \in Texts \cup {None} /\ script.text \in Texts \cup {None}
  /\ pc \in {"script", "looking", "loaded", "running"} => spec.ok
  /\ pc = "prepared" => Ready(body)

\* The first request has brought nothing yet.
LEMMA InitRequest == Init => RequestFits
BY DEF Init, SupplyInit, RequestFits, Refused, NoSpec, NoSource, NoScript

\* A text that was checked, or refused.
LEMMA AcceptTypes ==
  ASSUME IngressInv, RequestFits, pc \in {"script", "looking"},
         NEW text, NEW ref, NEW limit, Accept(text, ref, limit) \/ Refuse,
         UNCHANGED <<turn, body, spec, edits>>
  PROVE  RequestFits'
<1>1. CASE Refuse
  BY <1>1 DEF Refuse, RequestFits
<1>2. CASE pc' = "loaded" /\ ~Refuse
  <2>1. text \in Compiles /\ script'.text = text /\ source'.text = text
    BY <1>2, AcceptFits DEF IngressInv
  <2> QED
    BY <1>2, <2>1 DEF RequestFits
<1>3. pc' = "loaded" \/ Refuse
  BY DEF Accept, Load
<1> QED
  BY <1>1, <1>2, <1>3

\* Every step of a request keeps to that.
LEMMA NextRequestFits == IngressInv /\ RequestFits /\ [Next]_vars => RequestFits'
<1> SUFFICES ASSUME IngressInv, RequestFits, [Next]_vars PROVE RequestFits'
  OBVIOUS
<1>1. CASE BodyTooLarge \/ BodyUnreadable
  BY <1>1 DEF BodyTooLarge, BodyUnreadable, RequestFits, requestVars, supplyVars, rootVars
<1>2. CASE Prepare
  <2>1. PICK i \in Inputs[turn] : body' = Prepared(i)
    BY <1>2 DEF Prepare
  <2>2. Sendable(i)
    BY <2>1 DEF RequestFits
  <2>3. body' = Validate(Fold(i.door, i.body)) /\ IsBody(Fold(i.door, i.body))
    BY <2>1, <2>2, FoldsToBodies DEF Prepared
  <2>4. body'.ok \in BOOLEAN /\ (body'.ok => Ready(body'))
    BY <2>3, ValidatedIsReady, Zenon
  <2>5. /\ pc' = IF body'.ok THEN "prepared" ELSE "refused"
        /\ UNCHANGED <<turn, spec, source, script, edits>>
    BY <1>2 DEF Prepare, supplyVars, rootVars
  <2> QED
    BY <2>4, <2>5 DEF RequestFits
<1>3. CASE ReadChannel
  <2>1. PICK h \in Headers :
          /\ spec' = ParseChannel(h)
          /\ IF ParseChannel(h).ok THEN pc' = "script" ELSE pc' = "refused"
    BY <1>3 DEF ReadChannel
  <2>2. ParseChannel(h).ok \in BOOLEAN
    BY DEF ParseChannel, NoSpec
  <2>3. body' = Refused /\ UNCHANGED <<turn, source, script, edits>>
    BY <1>3 DEF ReadChannel, supplyVars, rootVars
  <2> QED
    BY <2>1, <2>2, <2>3 DEF RequestFits, Refused
<1>4. CASE InlineScript
  <2>1. /\ pc = "script" /\ UNCHANGED <<turn, body, spec, edits>>
        /\ Accept(spec.given, None, MaxInlineSize) \/ Refuse
    BY <1>4 DEF InlineScript, rootVars
  <2> QED
    BY <2>1, AcceptTypes
<1>5. CASE RemoteScript
  <2>1. /\ pc = "script" /\ UNCHANGED <<turn, body, spec, edits>>
        /\ (\E text \in Texts : Accept(text, spec.given, MaxScriptSize)) \/ Refuse
    BY <1>5 DEF RemoteScript, rootVars
  <2>2. PICK text : Accept(text, spec.given, MaxScriptSize) \/ Refuse
    BY <2>1
  <2> QED
    BY <2>1, <2>2, AcceptTypes
<1>6. CASE NamedScript \/ Look
  <2>1. /\ pc \in {"script", "looking"} /\ pc' \in {"refused", "looking"}
        /\ UNCHANGED <<turn, requestVars, edits>>
    BY <1>6 DEF NamedScript, Look, Stat, Read, StartLookUp, supplyVars, rootVars
  <2> QED
    BY <2>1 DEF RequestFits, requestVars
<1>7. CASE LookedUp
  <2>1. /\ pc = "looking" /\ UNCHANGED <<turn, body, spec, edits>>
        /\ Accept(look.text, look.wanted, MaxScriptSize) \/ Refuse
    BY <1>7 DEF LookedUp, rootVars
  <2> QED
    BY <2>1, AcceptTypes
<1>8. CASE DecideStages
  BY <1>8 DEF DecideStages, RequestFits, supplyVars, rootVars
<1>9. CASE NextRequest
  BY <1>9 DEF NextRequest, RequestFits, Refused, NoSpec, NoSource, NoScript
<1>10. CASE OperatorEdits
  <2>1. edits' \in 0..MaxEdits
    <3>1. edits < MaxEdits /\ edits' = edits + 1
      BY <1>10 DEF OperatorEdits, Edit, Put
    <3> QED
      BY <3>1 DEF RequestFits
  <2> QED
    BY <1>10, <2>1 DEF OperatorEdits, RequestFits, requestVars
<1>11. CASE Finished \/ UNCHANGED vars
  BY <1>11 DEF Finished, RequestFits, vars, requestVars, supplyVars, rootVars
<1> QED
  BY <1>1, <1>2, <1>3, <1>4, <1>5, <1>6, <1>7, <1>8, <1>9, <1>10, <1>11 DEF Next

\* Whatever the door and whatever was sent, a body that gets past the door has something
\* to act on: references that say something, a mask only over a picture, a count and a
\* carrier that scripts know, and what is kept of the supply stays within its limits.
THEOREM BodiesAreCanonical == Spec => []ScriptsGetCanonical
<1>1. IngressInv /\ RequestFits => ScriptsGetCanonical
  <2> SUFFICES ASSUME IngressInv, RequestFits PROVE ScriptsGetCanonical
    OBVIOUS
  <2>1. SupplyTypeOK
    BY DEF IngressInv, SupplyFits, FilesFit, KnownFit, Few, LookFits, LookUps, CompiledFit,
           RequestFits, SupplyTypeOK
  <2>2. TypeOK
    BY <2>1 DEF IngressInv, RunFits, RequestFits, TypeOK
  <2>3. pc = "prepared" => Ready(body)
    BY DEF RequestFits
  <2> QED
    BY <2>2, <2>3 DEF Ready, ScriptsGetCanonical
<1>2. Init => RequestFits
  BY InitRequest
<1>3. IngressInv /\ RequestFits /\ [Next]_vars => RequestFits'
  BY NextRequestFits
<1> QED
  BY <1>1, <1>2, <1>3, Invariance, PTL DEF Spec

-----------------------------------------------------------------------------
(* What is judged at the door.                                              *)

\* What is accepted keeps what was said and shown.
LEMMA ValidatedKeeps ==
  ASSUME NEW c, IsBody(c), c # Refused, c.mask = Absent
  PROVE  /\ Validate(c).ok = TRUE <=> /\ \A ref \in ToSet(c.image) : ~BadRef(ref)
                                      /\ c.image # <<>> \/ HasPrompt(c)
         /\ Validate(c).ok = TRUE => /\ Validate(c).instructions = c.instructions
                                     /\ Validate(c).text = c.text
                                     /\ Validate(c).image = c.image
<1>1. PICK name, instructions, text, image, mask, n, format, tools, prior :
        c = [ok |-> TRUE, model |-> name, instructions |-> instructions, text |-> text,
             image |-> image, mask |-> mask, n |-> n, format |-> format,
             tools |-> tools, prior |-> prior]
  BY DEF IsBody
<1>2. Acceptable(c) <=> /\ \A ref \in ToSet(c.image) : ~BadRef(ref)
                        /\ c.image # <<>> \/ HasPrompt(c)
  BY <1>1 DEF Acceptable
<1>3. CASE ~Acceptable(c)
  <2>1. Validate(c) = Refused
    BY <1>3 DEF Validate
  <2> QED
    BY <1>2, <1>3, <2>1 DEF Refused
<1>4. CASE Acceptable(c)
  <2>1. PICK count, carrier :
          /\ count = IF n = Absent \/ n \in Counts THEN n ELSE "1"
          /\ carrier = IF format \in ResponseFormats THEN format ELSE Absent
    OBVIOUS
  <2>2. Validate(c) =
          [ok |-> TRUE, model |-> name, instructions |-> instructions, text |-> text,
           image |-> image, mask |-> mask, n |-> count, format |-> carrier,
           tools |-> tools, prior |-> prior]
    BY <1>1, <1>4, <2>1 DEF Validate
  <2>3. PICK b : b = Validate(c)
    OBVIOUS
  <2>4. /\ b.ok = TRUE /\ b.image = c.image
        /\ b.instructions = c.instructions /\ b.text = c.text
    BY <1>1, <2>2, <2>3
  <2> QED
    BY <1>2, <1>4, <2>3, <2>4, Zenon
<1> QED
  BY <1>3, <1>4

\* What was sent is at hand until the channel is read, and it was folded and judged.
InputJudged ==
  /\ pc \notin {"prepared", "refused"} => input = NoInput
  /\ input = NoInput \/ (Sendable(input) /\ body = Prepared(input))

\* Every step keeps to that.
LEMMA NextInputJudged == RequestFits /\ InputJudged /\ [Next]_vars => InputJudged'
<1> SUFFICES ASSUME RequestFits, InputJudged, [Next]_vars PROVE InputJudged'
  OBVIOUS
<1>1. CASE Prepare
  <2>1. PICK i \in Inputs[turn] : input' = i /\ body' = Prepared(i)
    BY <1>1 DEF Prepare
  <2>2. Sendable(i)
    BY <2>1 DEF RequestFits
  <2>3. pc' \in {"prepared", "refused"}
    <3>1. pc' = IF body'.ok THEN "prepared" ELSE "refused"
      BY <1>1 DEF Prepare
    <3> QED
      BY <3>1
  <2> QED
    BY <2>1, <2>2, <2>3 DEF InputJudged
<1>2. CASE BodyTooLarge \/ BodyUnreadable \/ InlineScript \/ RemoteScript \/ NamedScript
             \/ Look \/ LookedUp \/ DecideStages \/ OperatorEdits
  <2>1. pc \notin {"prepared", "refused"} /\ input' = input
    BY <1>2 DEF BodyTooLarge, BodyUnreadable, InlineScript, RemoteScript, NamedScript,
                Look, LookedUp, DecideStages, OperatorEdits, requestVars
  <2> QED
    BY <2>1 DEF InputJudged
<1>3. CASE ReadChannel \/ NextRequest
  <2>1. input' = NoInput
    BY <1>3 DEF ReadChannel, NextRequest
  <2> QED
    BY <2>1 DEF InputJudged, NoInput
<1>4. CASE Finished \/ UNCHANGED vars
  <2>1. pc' = pc /\ input' = input /\ body' = body
    BY <1>4 DEF Finished, vars, requestVars
  <2> QED
    BY <2>1 DEF InputJudged
<1> QED
  BY <1>1, <1>2, <1>3, <1>4 DEF Next

\* A conversation is accepted, and kept, for what its last turn and its instructions are.
LEMMA JudgedByLastTurn ==
  ASSUME NEW door \in {"chat", "responses"}, NEW sent, NEW b,
         IF door = "chat" THEN sent.messages \in Seq(ChatMessages)
                          ELSE sent.messages \in Seq(InputItems),
         b = Validate(Fold(door, sent))
  PROVE  LET want == ExpectedFold(door, sent)
             says == want.image # <<>>
                       \/ ~(ToSet(want.instructions \o want.text) \subseteq {"", Blank})
             fits == \A ref \in ToSet(want.image) : ~BadRef(ref)
         IN /\ b.ok \in BOOLEAN
            /\ b.ok <=> (says /\ fits /\ ~Unreadable(door, sent))
            /\ b.ok => /\ b.instructions = want.instructions
                       /\ b.text = want.text
                       /\ b.image = want.image
<1>1. PICK c : c = Fold(door, sent) /\ FoldFits(door, sent, c) /\ b = Validate(c)
  <2>1. CASE door = "chat"
    BY <2>1, ChatFolds DEF Fold
  <2>2. CASE door = "responses"
    BY <2>2, InputFolds DEF Fold
  <2> QED
    BY <2>1, <2>2
<1>2. PICK want : want = ExpectedFold(door, sent)
  OBVIOUS
<1>3. CASE Unreadable(door, sent)
  <2>1. b = Refused
    BY <1>1, <1>3 DEF FoldFits, Validate, Acceptable, Refused
  <2>2. b.ok = FALSE
    BY <2>1 DEF Refused
  <2> QED
    BY <1>3, <2>2
<1>4. CASE ~Unreadable(door, sent)
  <2>1. /\ IsBody(c) /\ c # Refused /\ c.mask = Absent /\ c.instructions = want.instructions
        /\ c.text = want.text /\ c.image = want.image
    BY <1>1, <1>2, <1>4 DEF FoldFits
  <2>2. /\ b.ok = TRUE <=> /\ \A ref \in ToSet(want.image) : ~BadRef(ref)
                           /\ want.image # <<>>
                                \/ ~(ToSet(want.instructions \o want.text) \subseteq {"", Blank})
        /\ b.ok = TRUE => /\ b.instructions = want.instructions
                          /\ b.text = want.text /\ b.image = want.image
    BY ONLY <1>1, <2>1, ValidatedKeeps DEF HasPrompt
  <2>3. b.ok \in BOOLEAN
    BY <1>1, <2>1, ValidatedIsReady
  <2> QED
    BY <1>2, <1>4, <2>2, <2>3
<1> QED
  BY <1>3, <1>4

\* What a conversation door hands on is one turn with the instructions around it: the last
\* user message on the chat door, the last turn that carries anything on the responses
\* door.  Nothing of another turn is in it and nothing of that one is lost.  Only what is
\* unreadable, says nothing, or shows what no picture may be, is refused.
THEOREM LastTurnIsFolded == Spec => []FoldsLastTurn
<1>1. Init => RequestFits /\ InputJudged
  BY InitRequest DEF Init, InputJudged
<1>2. IngressInv /\ RequestFits /\ [Next]_vars => RequestFits'
  BY NextRequestFits
<1>3. RequestFits /\ InputJudged /\ [Next]_vars => InputJudged'
  BY NextInputJudged
<1>4. InputJudged => FoldsLastTurn
  <2> SUFFICES ASSUME InputJudged, input.door \in {"chat", "responses"}
               PROVE  FoldsLastTurn
    BY DEF FoldsLastTurn
  <2>1. input # NoInput
    BY DEF NoInput, None
  <2>2. Sendable(input) /\ body = Validate(Fold(input.door, input.body))
    BY <2>1 DEF InputJudged, Prepared
  <2>3. IF input.door = "chat" THEN input.body.messages \in Seq(ChatMessages)
                               ELSE input.body.messages \in Seq(InputItems)
    BY <2>2 DEF Sendable
  <2> QED
    BY <2>2, <2>3, JudgedByLastTurn, Zenon DEF FoldsLastTurn
<1> QED
  BY <1>1, <1>2, <1>3, <1>4, Invariance, PTL DEF Spec
=============================================================================
