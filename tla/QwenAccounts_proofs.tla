------------------------- MODULE QwenAccounts_proofs -------------------------
(***************************************************************************)
(* Proofs about QwenAccounts, for any workers, accounts, requests, options *)
(* and durations: its types, one sign-in at a time for an account in a     *)
(* worker, sessions that are never mixed up in either cache or on the      *)
(* wire, one identity per request, and that pictures are read back from    *)
(* the chat of the call that was answered.                                 *)
(*                                                                         *)
(* A step of a request moves one coroutine and one entry of L1, so the     *)
(* invariant is stated of a coroutine and of an entry, and each action is  *)
(* shown to leave behind a pair that fits: Fits.                           *)
(***************************************************************************)
EXTENDS QwenAccounts, FiniteSetTheorems, TLAPS

USE QwenAssumption

Entries == [jwt : Tokens, ts : Times, jar : Jars, inflight : BOOLEAN]

Issues == [owner : Accounts, exp : Nat, jarred : BOOLEAN]

\* A token of account `a`, by the vendor's books `m`, with the jar it was issued with.
Whole(m, jwt, jar, a) ==
  jwt # NoToken =>
    /\ m[jwt].owner = a
    /\ m[jwt].jarred <=> jar # NoJar
    /\ jar # NoJar => jar.token = jwt

WireWhole(m, wire, a) ==
  wire.token # NoToken =>
    /\ m[wire.token].owner = a
    /\ m[wire.token].jarred <=> wire.jar = "session"

\* The generation calls of a request: two at most, the second after a refusal.
Counted(c) == c.attempt \in IF c.pc \in {"response", "recover"} THEN 1..2 ELSE 0..1

\* A request draws on the pool once: it then has its fingerprint for good, and the
\* auth phase in which it drew is over.
Drawn(c) ==
  /\ c.draws \in {0, 1}
  /\ c.draws = 1 => /\ c.bx = "fetched" /\ c.pc # "identity"
                    /\ c.stage = "auth" => c.pc = "request"

\* The stamp that a sign-in leaves for the pace carries no token.
Stamped(c) == c.pc = "storePace" => c.local.jwt = NoToken

\* What the worker has booked for a request, by the place its coroutine is at.
BookFits(c, chat) ==
  /\ c.pc = "generate" => chat = c.attempt + 1
  /\ c.pc = "response" => chat = c.attempt
  /\ c.pc \in {"recover", "done"} => chat = 0
  /\ c.pc = "recover" => c.chat = c.attempt

CoroutineFits(r) ==
  /\ Counted(req[r]) /\ Drawn(req[r]) /\ Stamped(req[r]) /\ BookFits(req[r], books[home[r]][r])
  /\ Whole(minted, req[r].local.jwt, req[r].local.jar, key[r])
  /\ WireWhole(minted, req[r].wire, key[r])

\* The slot of an account is taken exactly while one request is in its sign-in.
Signs(r, w, a) == home[r] = w /\ key[r] = a /\ req[r].pc = "signin"
SlotFits(w, a) ==
  /\ l1[w][a].inflight <=> \E r \in Requests : Signs(r, w, a)
  /\ \A q, r \in Requests : Signs(q, w, a) /\ Signs(r, w, a) => q = r

\* What requests and workers hold, and what they share.
LocalInv ==
  /\ l1 \in [Workers -> [Accounts -> Entries]]
  /\ books \in [Workers -> [Requests -> 0..2]]
  /\ req \in [Requests -> Coroutines]
  /\ \A r \in Requests : CoroutineFits(r)
  /\ \A w \in Workers, a \in Accounts :
       SlotFits(w, a) /\ Whole(minted, l1[w][a].jwt, l1[w][a].jar, a)

SharedInv ==
  /\ now \in 0..Horizon
  /\ minted \in Seq(Issues)
  /\ l2 \in [Accounts -> Docs] /\ pace \in Docs
  /\ blocked \in [Workers -> [Accounts -> Nat]]
  /\ home \in [Requests -> Workers] /\ key \in [Requests -> Accounts]
  /\ delegated \in [Requests -> BOOLEAN]
  /\ faults \in 0..MaxFaults
  /\ \A a \in Accounts : Whole(minted, l2[a].jwt, l2[a].jar, a)
  /\ pace.jwt = NoToken

AccountsInv == LocalInv /\ SharedInv

-----------------------------------------------------------------------------
(* What a step may do to the tokens, to a coroutine and to an entry.        *)

\* The vendor issues a token, or none.
Issued ==
  minted' = minted \/ \E t \in Issues : minted' = Append(minted, t)

\* A coroutine and an entry that a step of r may leave behind: the entry's slot is as
\* it was, is taken by a sign-in that begins, or is freed by one that ends.
SlotMoves(r, c, e) ==
  \/ e.inflight = Entry(r).inflight /\ (c.pc = "signin" <=> req[r].pc = "signin")
  \/ ~Entry(r).inflight /\ e.inflight /\ c.pc = "signin"
  \/ req[r].pc = "signin" /\ c.pc # "signin" /\ ~e.inflight

Fits(r, c, e) ==
  /\ c \in Coroutines' /\ e \in Entries'
  /\ Counted(c) /\ Drawn(c) /\ Stamped(c) /\ SlotMoves(r, c, e)
  /\ Whole(minted', c.local.jwt, c.local.jar, key[r])
  /\ WireWhole(minted', c.wire, key[r])
  /\ Whole(minted', e.jwt, e.jar, key[r])

\* The books change for r alone, and to what its coroutine says.
BooksFollow(r, c) ==
  /\ books' \in [Workers -> [Requests -> 0..2]]
  /\ BookFits(c, books'[home[r]][r])
  /\ \A q \in Requests \ {r} : books'[home[q]][q] = books[home[q]][q]

\* A token that was issued stays one, with its owner.
LEMMA TokensStay ==
  ASSUME SharedInv, Issued
  PROVE  /\ minted' \in Seq(Issues)
         /\ Tokens \subseteq Tokens'
         /\ \A t \in Tokens \ {NoToken} : minted'[t] = minted[t]
<1>1. CASE minted' = minted
  BY <1>1 DEF SharedInv, Tokens
<1>2. ASSUME NEW t \in Issues, minted' = Append(minted, t)
      PROVE  /\ minted' \in Seq(Issues)
             /\ Tokens \subseteq Tokens'
             /\ \A u \in Tokens \ {NoToken} : minted'[u] = minted[u]
  <2>1. minted \in Seq(Issues)
    BY DEF SharedInv
  <2>2. /\ minted' \in Seq(Issues)
        /\ Len(minted') = Len(minted) + 1
        /\ \A i \in 1..Len(minted) : minted'[i] = minted[i]
    BY <1>2, <2>1
  <2>3. Len(minted) \in Nat
    BY <2>1
  <2>4. Tokens' = 0..(Len(minted) + 1)
    BY <2>2 DEF Tokens
  <2>5. Tokens \subseteq Tokens'
    BY <2>3, <2>4 DEF Tokens
  <2>6. \A u \in Tokens \ {NoToken} : u \in 1..Len(minted)
    BY <2>3 DEF Tokens, NoToken
  <2> QED
    BY <2>2, <2>5, <2>6
<1> QED
  BY <1>1, <1>2 DEF Issued

\* So what was typed and whole stays so.
LEMMA WholeStays ==
  ASSUME SharedInv, Issued
  PROVE  /\ Jars \subseteq Jars' /\ Docs \subseteq Docs'
         /\ Entries \subseteq Entries' /\ Coroutines \subseteq Coroutines'
         /\ \A t \in Tokens : \A jar, a : Whole(minted, t, jar, a) => Whole(minted', t, jar, a)
         /\ \A c \in Coroutines : \A a :
              WireWhole(minted, c.wire, a) => WireWhole(minted', c.wire, a)
<1>1. /\ Tokens \subseteq Tokens'
      /\ \A t \in Tokens \ {NoToken} : minted'[t] = minted[t]
  BY TokensStay
<1>2. Jars \subseteq Jars'
  BY <1>1 DEF Jars
<1>3. Docs \subseteq Docs' /\ Entries \subseteq Entries'
  BY <1>1, <1>2 DEF Docs, Entries, Times
<1>4. Coroutines \subseteq Coroutines'
  BY <1>1, <1>3 DEF Coroutines
<1>5. \A t \in Tokens : \A jar, a : Whole(minted, t, jar, a) => Whole(minted', t, jar, a)
  BY <1>1 DEF Whole
<1>6. \A c \in Coroutines : c.wire.token \in Tokens
  BY DEF Coroutines
<1>7. \A c \in Coroutines : \A a :
         WireWhole(minted, c.wire, a) => WireWhole(minted', c.wire, a)
  BY <1>1, <1>6 DEF WireWhole
<1> QED
  BY <1>2, <1>3, <1>4, <1>5, <1>7

\* A step of one request that leaves a fitting pair keeps what requests and workers
\* hold.
LEMMA MoveKeepsLocal ==
  ASSUME LocalInv, SharedInv, Issued, UNCHANGED placement,
         NEW r \in Requests, NEW c, NEW e, Becomes(r, c, e), Fits(r, c, e), BooksFollow(r, c)
  PROVE  LocalInv'
<1> USE DEF LocalInv, SharedInv
<1>0. /\ home' = home /\ key' = key
      /\ home[r] \in Workers /\ key[r] \in Accounts
  BY DEF placement
<1>1. /\ Docs \subseteq Docs' /\ Entries \subseteq Entries' /\ Coroutines \subseteq Coroutines'
      /\ \A t \in Tokens : \A jar, a : Whole(minted, t, jar, a) => Whole(minted', t, jar, a)
      /\ \A d \in Coroutines : \A a : WireWhole(minted, d.wire, a) => WireWhole(minted', d.wire, a)
  BY WholeStays
<1>2. /\ l1' \in [Workers -> [Accounts -> Entries']]
      /\ l1'[home[r]][key[r]] = e
      /\ \A w \in Workers, a \in Accounts :
           (w # home[r] \/ a # key[r]) => l1'[w][a] = l1[w][a]
  BY <1>0, <1>1 DEF Becomes, Fits
<1>3. /\ req' \in [Requests -> Coroutines'] /\ req'[r] = c
      /\ \A q \in Requests \ {r} : req'[q] = req[q]
  BY <1>1 DEF Becomes, Fits
<1>4. ASSUME NEW q \in Requests
      PROVE  CoroutineFits(q)'
  <2>1. CASE q = r
    BY <2>1, <1>0, <1>3 DEF CoroutineFits, Fits, BooksFollow
  <2>2. CASE q # r
    <3>1. req'[q] = req[q] /\ req[q] \in Coroutines /\ req[q].local.jwt \in Tokens
      BY <1>3, <2>2 DEF Coroutines, Docs
    <3>2. books'[home[q]][q] = books[home[q]][q]
      BY <2>2 DEF BooksFollow
    <3>3. CoroutineFits(q)
      OBVIOUS
    <3> QED
      BY <1>0, <1>1, <3>1, <3>2, <3>3 DEF CoroutineFits
  <2> QED
    BY <2>1, <2>2
<1>5. ASSUME NEW w \in Workers, NEW a \in Accounts
      PROVE  SlotFits(w, a)' /\ Whole(minted', l1'[w][a].jwt, l1'[w][a].jar, a)
  <2>1. SlotFits(w, a) /\ Whole(minted, l1[w][a].jwt, l1[w][a].jar, a)
    OBVIOUS
  <2>2. CASE w = home[r] /\ a = key[r]
    <3>1. Whole(minted', l1'[w][a].jwt, l1'[w][a].jar, a)
      BY <1>2, <2>2 DEF Fits
    <3>2. \A q \in Requests \ {r} : Signs(q, w, a)' <=> Signs(q, w, a)
      BY <1>0, <1>3 DEF Signs
    <3>3. /\ Signs(r, w, a) <=> req[r].pc = "signin"
          /\ Signs(r, w, a)' <=> c.pc = "signin"
      BY <1>0, <1>3, <2>2 DEF Signs
    <3>4. SlotFits(w, a)'
      <4>1. l1'[w][a].inflight = e.inflight /\ Entry(r).inflight = l1[w][a].inflight
        BY <1>2, <2>2 DEF Entry
      <4>2. e.inflight \in BOOLEAN /\ l1[w][a].inflight \in BOOLEAN
        BY DEF Fits, Entries
      <4>3. CASE e.inflight = Entry(r).inflight /\ (c.pc = "signin" <=> req[r].pc = "signin")
        BY <2>1, <3>2, <3>3, <4>1, <4>2, <4>3 DEF SlotFits
      <4>4. CASE ~Entry(r).inflight /\ e.inflight /\ c.pc = "signin"
        <5>1. \A q \in Requests : ~Signs(q, w, a)
          BY <2>1, <4>1, <4>4 DEF SlotFits
        <5> QED
          BY <3>2, <3>3, <4>1, <4>4, <5>1 DEF SlotFits
      <4>5. CASE req[r].pc = "signin" /\ c.pc # "signin" /\ ~e.inflight
        <5>1. \A q \in Requests \ {r} : ~Signs(q, w, a)
          BY <2>1, <3>3, <4>5 DEF SlotFits
        <5> QED
          BY <3>2, <3>3, <4>1, <4>5, <5>1 DEF SlotFits
      <4> QED
        BY <4>3, <4>4, <4>5 DEF Fits, SlotMoves
    <3> QED
      BY <3>1, <3>4
  <2>3. CASE w # home[r] \/ a # key[r]
    <3>1. l1'[w][a] = l1[w][a] /\ l1[w][a].jwt \in Tokens
      BY <1>2, <2>3 DEF Entries
    <3>2. \A q \in Requests : Signs(q, w, a)' <=> Signs(q, w, a)
      BY <1>0, <1>3, <2>3 DEF Signs
    <3> QED
      BY <1>1, <2>1, <3>1, <3>2 DEF SlotFits
  <2> QED
    BY <2>2, <2>3
<1>6. books' \in [Workers -> [Requests -> 0..2]]
  BY DEF BooksFollow
<1> QED
  BY <1>2, <1>3, <1>4, <1>5, <1>6

-----------------------------------------------------------------------------
(* _ensure_signin and what follows it.                                      *)

\* A coroutine that renews its account's session, or looks whether it must.
Renewing(r, c) ==
  /\ c \in Coroutines /\ c.pc \notin {"response", "recover"}
  /\ c.attempt \in 0..1
  /\ c.draws \in {0, 1} /\ (c.draws = 1 => c.bx = "fetched" /\ c.stage = "request")
  /\ Whole(minted, c.local.jwt, c.local.jar, key[r])
  /\ WireWhole(minted, c.wire, key[r])

\* The account's entry as it sees it.
Held(r, e) ==
  /\ e \in Entries /\ e.inflight = Entry(r).inflight
  /\ Whole(minted, e.jwt, e.jar, key[r])

\* What it may leave behind, without a step in the books.
Lands(r) ==
  \E c, e : /\ Becomes(r, c, e) /\ Fits(r, c, e)
            /\ c.pc \notin {"generate", "response", "recover", "done"}

\* The sentinels are in their types.
LEMMA SentinelsTyped ==
  ASSUME SharedInv
  PROVE  /\ NoToken \in Tokens /\ NoJar \in Jars /\ NoDoc \in Docs /\ ColdEntry \in Entries
         /\ NoDoc.jwt = NoToken /\ NoDoc.jar = NoJar
         /\ \A where \in Ended \cup {"auth"} :
              Coroutine(where).attempt = 0 /\ Coroutine(where).draws = 0
         /\ \A where \in Ended \cup {"auth"} : Coroutine(where) \in Coroutines
<1>1. Len(minted) \in Nat
  BY DEF SharedInv
<1>2. NoToken \in Tokens /\ NoJar \in Jars
  BY <1>1 DEF NoToken, NoJar, Tokens, Jars
<1>3. NoDoc \in Docs /\ ColdEntry \in Entries /\ NoDoc.jwt = NoToken /\ NoDoc.jar = NoJar
  BY <1>2 DEF NoDoc, ColdEntry, Docs, Entries, Times, Never
<1>4. ASSUME NEW where \in Ended \cup {"auth"}
      PROVE  Coroutine(where) \in Coroutines
  <2>1. 0 \in 0..Horizon /\ Fingerprint \in {"none", "static", "fetched"}
    OBVIOUS
  <2>2. NoIdentity \in [token : Tokens, jar : {"session", "option"},
                       bx : {"none", "static", "fetched"}]
    BY <1>2 DEF NoIdentity
  <2> QED
    BY <1>3, <2>1, <2>2 DEF Coroutine, Coroutines
<1> QED
  BY <1>2, <1>3, <1>4 DEF Coroutine

\* A request that fails, or ends, leaves nothing of its own behind.
LEMMA EndedFits ==
  ASSUME SharedInv, minted' = minted, NEW r \in Requests, NEW where \in Ended,
         NEW e, Held(r, e) \/ (e \in Entries /\ Whole(minted, e.jwt, e.jar, key[r])),
         SlotMoves(r, Coroutine(where), e)
  PROVE  Fits(r, Coroutine(where), e)
<1>1. Coroutine(where) \in Coroutines'
  BY SentinelsTyped, WholeStays DEF Issued
<1>2. e \in Entries'
  BY WholeStays DEF Issued, Held
<1>3. /\ Counted(Coroutine(where)) /\ Drawn(Coroutine(where)) /\ Stamped(Coroutine(where))
      /\ WireWhole(minted', Coroutine(where).wire, key[r])
  BY DEF Counted, Drawn, Stamped, Coroutine, WireWhole, NoIdentity, Ended
<1>4. Whole(minted', Coroutine(where).local.jwt, Coroutine(where).local.jar, key[r])
  BY DEF Coroutine, Whole, NoDoc
<1> QED
  BY <1>1, <1>2, <1>3, <1>4 DEF Fits, Held

\* Its locals gone, a coroutine is as it was.
LEMMA LeftTyped ==
  ASSUME SharedInv, NEW c \in Coroutines
  PROVE  /\ Left(c) \in Coroutines /\ Left(c).pc = c.pc /\ Left(c).attempt = c.attempt
         /\ Left(c).draws = c.draws /\ Left(c).bx = c.bx /\ Left(c).stage = c.stage
         /\ Left(c).wire = c.wire /\ Left(c).local = NoDoc
<1>1. NoDoc \in Docs /\ 0 \in 0..Horizon
  BY SentinelsTyped
<1> QED
  BY <1>1 DEF Left, Coroutines

\* The draw is counted.
LEMMA EquippedTyped ==
  ASSUME NEW c \in Coroutines, c.draws = 0
  PROVE  /\ Equipped(c) \in Coroutines /\ Equipped(c).draws = 1
         /\ Equipped(c).bx = "fetched" /\ Equipped(c).attempt = c.attempt
         /\ Equipped(c).local = c.local /\ Equipped(c).wire = c.wire
<1> DEFINE d == [c EXCEPT !.bx = "fetched"]
<1>1. d \in Coroutines /\ d.draws = 0 /\ d.bx = "fetched" /\ d.attempt = c.attempt
      /\ d.local = c.local /\ d.wire = c.wire
  BY DEF Coroutines
<1>2. Equipped(c) = [d EXCEPT !.draws = 1]
  BY DEF Equipped, Coroutines
<1> HIDE DEF d
<1> QED
  BY <1>1, <1>2 DEF Coroutines

\* The identity that a call carries is that of the entry.
LEMMA WireFromEntry ==
  ASSUME SharedInv, NEW r \in Requests, NEW c \in Coroutines, NEW e, Held(r, e)
  PROVE  /\ IdentityFrom(c, e) \in [token : Tokens, jar : {"session", "option"},
                                    bx : {"none", "static", "fetched"}]
         /\ WireWhole(minted, IdentityFrom(c, e), key[r])
<1>1. c.bx \in {"none", "static", "fetched"} /\ e.jwt \in Tokens
  BY DEF Coroutines, Held, Entries
<1> QED
  BY <1>1 DEF IdentityFrom, WireWhole, Held, Whole

\* The phase goes on, or has nothing to sign a call with.
LEMMA DepartFits ==
  ASSUME SharedInv, minted' = minted, NEW r \in Requests, NEW c, NEW e,
         c \in Coroutines, c.attempt \in 0..1,
         c.draws \in {0, 1}, c.draws = 1 => c.bx = "fetched",
         Whole(minted, c.local.jwt, c.local.jar, key[r]),
         WireWhole(minted, c.wire, key[r]),
         Held(r, e), req[r].pc # "signin"
  PROVE  /\ Fits(r, Depart(c, e), e)
         /\ Depart(c, e).pc \in {"failed", "request", "prepare"}
<1>1. CASE Unusable(c, e)
  <2>1. Depart(c, e) = Coroutine("failed")
    BY <1>1 DEF Depart
  <2>2. "failed" \in Ended /\ Coroutine("failed").pc = "failed"
    BY DEF Ended, Coroutine
  <2>3. SlotMoves(r, Coroutine("failed"), e)
    BY <2>2 DEF SlotMoves, Held
  <2>4. Fits(r, Coroutine("failed"), e)
    BY <2>2, <2>3, EndedFits
  <2> QED
    BY <2>1, <2>2, <2>4
<1>2. CASE ~Unusable(c, e) /\ c.stage = "auth"
  <2>1. Depart(c, e) = [c EXCEPT !.pc = "request"]
    BY <1>2 DEF Depart, At
  <2>2. [c EXCEPT !.pc = "request"] \in Coroutines /\ c.stage = "auth"
    BY <1>2 DEF Coroutines
  <2>3. Depart(c, e) \in Coroutines' /\ e \in Entries'
    BY <2>1, <2>2, WholeStays DEF Issued, Held
  <2>4. /\ Counted(Depart(c, e)) /\ Drawn(Depart(c, e)) /\ Stamped(Depart(c, e))
        /\ SlotMoves(r, Depart(c, e), e)
    BY <2>1 DEF Counted, Drawn, Stamped, SlotMoves, Held, Coroutines
  <2> QED
    BY <2>1, <2>3, <2>4 DEF Fits, Held, Coroutines
<1>3. CASE ~Unusable(c, e) /\ c.stage # "auth"
  <2> DEFINE d == [[c EXCEPT !.pc = "prepare"] EXCEPT !.wire = IdentityFrom(c, e),
                                                      !.status = "none"]
  <2>1. Depart(c, e) = [At(c, "prepare") EXCEPT !.wire = IdentityFrom(c, e), !.status = "none"]
    BY <1>3 DEF Depart
  <2>2. Depart(c, e) = d
    BY <2>1 DEF At
  <2>3. /\ d \in Coroutines /\ d.pc = "prepare" /\ d.attempt = c.attempt
        /\ d.draws = c.draws /\ d.bx = c.bx /\ d.stage = c.stage /\ d.local = c.local
        /\ d.wire = IdentityFrom(c, e)
    BY WireFromEntry DEF Coroutines, Awaiting
  <2>4. d \in Coroutines' /\ e \in Entries'
    BY <2>3, WholeStays DEF Issued, Held
  <2>5. Counted(d) /\ Drawn(d) /\ Stamped(d) /\ SlotMoves(r, d, e)
    BY <1>3, <2>3 DEF Counted, Drawn, Stamped, SlotMoves, Held
  <2>6. WireWhole(minted', d.wire, key[r])
    BY <2>3, WireFromEntry
  <2> QED
    BY <2>2, <2>3, <2>4, <2>5, <2>6 DEF Fits, Held
<1> QED
  BY <1>1, <1>2, <1>3

\* _ensure_signin returns: to the identity service, or on with the phase.
LEMMA ReturnFits ==
  ASSUME SharedInv, minted' = minted, NEW r \in Requests, NEW c, NEW e,
         Renewing(r, c), Held(r, e), req[r].pc # "signin"
  PROVE  /\ Fits(r, Return(c, e), e)
         /\ Return(c, e).pc \in {"identity", "failed", "request", "prepare"}
<1> DEFINE d == Left(c)
<1>1. /\ d \in Coroutines /\ d.attempt = c.attempt /\ d.draws = c.draws /\ d.bx = c.bx
      /\ d.stage = c.stage /\ d.wire = c.wire /\ d.local = NoDoc
  BY LeftTyped DEF Renewing
<1>2. Whole(minted, d.local.jwt, d.local.jar, key[r])
  BY <1>1 DEF Whole, NoDoc
<1>3. CASE IdentityWanted(c, e)
  <2>1. Return(c, e) = [d EXCEPT !.pc = "identity"]
    BY <1>3 DEF Return, At
  <2>2. c.draws = 0
    BY <1>3 DEF IdentityWanted, Renewing, Coroutines
  <2>3. Return(c, e) \in Coroutines /\ Return(c, e).pc = "identity"
    BY <1>1, <2>1 DEF Coroutines, Awaiting
  <2>4. Return(c, e) \in Coroutines' /\ e \in Entries'
    BY <2>3, WholeStays DEF Issued, Held
  <2>5. /\ Counted(Return(c, e)) /\ Drawn(Return(c, e)) /\ Stamped(Return(c, e))
        /\ SlotMoves(r, Return(c, e), e)
    BY <1>1, <2>1, <2>2, <2>3 DEF Counted, Drawn, Stamped, SlotMoves, Held, Renewing, Coroutines
  <2>6. Return(c, e).local = d.local /\ Return(c, e).wire = c.wire
    BY <1>1, <2>1 DEF Coroutines
  <2> QED
    BY <1>2, <2>3, <2>4, <2>5, <2>6 DEF Fits, Held, Renewing
<1>4. CASE ~IdentityWanted(c, e)
  <2>1. Return(c, e) = Depart(d, e)
    BY <1>4 DEF Return
  <2> HIDE DEF d
  <2> QED
    BY <1>1, <1>2, <2>1, DepartFits DEF Renewing
<1> QED
  BY <1>3, <1>4

\* However far _ensure_signin comes before its first await.
LEMMA EnsureLands ==
  ASSUME SharedInv, minted' = minted, NEW r \in Requests, NEW c, NEW e,
         Renewing(r, c), Held(r, e), req[r].pc # "signin"
  PROVE  /\ Becomes(r, Return(c, e), e) => Lands(r)
         /\ SignInStarts(r, c, e) => Lands(r)
         /\ SignInWanted(r, c, e) => Lands(r)
         /\ Renewal(r, c, e) => Lands(r)
         /\ EnsureSignIn(r, c, e) => Lands(r)
<1>1. ASSUME Becomes(r, Return(c, e), e)
      PROVE  Lands(r)
  BY <1>1, ReturnFits DEF Lands
<1>2. ASSUME SignInStarts(r, c, e)
      PROVE  Lands(r)
  <2>1. CASE e.inflight
    BY <1>1, <1>2, <2>1 DEF SignInStarts
  <2>2. CASE ~e.inflight
    <3> DEFINE d == At(Left(c), "signin")
               f == [e EXCEPT !.inflight = TRUE]
    <3>1. Becomes(r, d, f)
      BY <1>2, <2>2 DEF SignInStarts
    <3>2. /\ d \in Coroutines /\ d.pc = "signin" /\ d.attempt = c.attempt
          /\ d.draws = c.draws /\ d.bx = c.bx /\ d.stage = c.stage /\ d.wire = c.wire
          /\ d.local = NoDoc
      <4>1. Left(c) \in Coroutines
        BY LeftTyped DEF Renewing
      <4>2. /\ d \in Coroutines /\ d.pc = "signin"  /\ d.attempt = Left(c).attempt
            /\ d.draws = Left(c).draws /\ d.bx = Left(c).bx /\ d.stage = Left(c).stage
            /\ d.wire = Left(c).wire /\ d.local = Left(c).local
        BY <4>1 DEF At, Coroutines, Awaiting
      <4> QED
        BY <4>2, LeftTyped DEF Renewing
    <3>3. /\ f \in Entries /\ f.jwt = e.jwt /\ f.jar = e.jar /\ f.inflight = TRUE
      BY DEF Held, Entries
    <3>4. d \in Coroutines' /\ f \in Entries'
      BY <3>2, <3>3, WholeStays DEF Issued
    <3>5. Whole(minted', d.local.jwt, d.local.jar, key[r])
      BY <3>2 DEF Whole, NoDoc
    <3>6. Counted(d) /\ Drawn(d) /\ Stamped(d) /\ SlotMoves(r, d, f)
      BY <2>2, <3>2, <3>3 DEF Counted, Drawn, Stamped, SlotMoves, Held, Renewing
    <3>7. Fits(r, d, f)
      BY <3>2, <3>3, <3>4, <3>5, <3>6 DEF Fits, Held, Renewing
    <3> QED
      BY <3>1, <3>2, <3>7 DEF Lands
  <2> QED
    BY <2>1, <2>2
<1>3. ASSUME NEW where \in {"pace", "refresh", "l2"}, Becomes(r, At(c, where), e)
      PROVE  Lands(r)
  <2>1. /\ At(c, where) \in Coroutines /\ At(c, where).pc = where
        /\ At(c, where).attempt = c.attempt /\ At(c, where).draws = c.draws
        /\ At(c, where).bx = c.bx /\ At(c, where).stage = c.stage
        /\ At(c, where).wire = c.wire /\ At(c, where).local = c.local
    BY DEF At, Renewing, Coroutines, Awaiting
  <2>2. At(c, where) \in Coroutines' /\ e \in Entries'
    BY <2>1, WholeStays DEF Issued, Held
  <2>3. /\ Counted(At(c, where)) /\ Drawn(At(c, where)) /\ Stamped(At(c, where))
        /\ SlotMoves(r, At(c, where), e)
    BY <2>1 DEF Counted, Drawn, Stamped, SlotMoves, Held, Renewing
  <2>4. Fits(r, At(c, where), e)
    BY <2>1, <2>2, <2>3 DEF Fits, Held, Renewing
  <2> QED
    BY <1>3, <2>1, <2>4 DEF Lands
<1>4. ASSUME SignInWanted(r, c, e)
      PROVE  Lands(r)
  BY <1>2, <1>3, <1>4 DEF SignInWanted
<1>5. ASSUME Renewal(r, c, e)
      PROVE  Lands(r)
  BY <1>3, <1>4, <1>5 DEF Renewal
<1>6. ASSUME EnsureSignIn(r, c, e)
      PROVE  Lands(r)
  BY <1>1, <1>3, <1>5, <1>6 DEF EnsureSignIn
<1> QED
  BY <1>1, <1>2, <1>4, <1>5, <1>6

-----------------------------------------------------------------------------
(* The steps of a request.                                                  *)

\* What is known of a request and of its account's entry before a step.
LEMMA BeforeStep ==
  ASSUME AccountsInv, NEW r \in Requests
  PROVE  /\ home[r] \in Workers /\ key[r] \in Accounts /\ req[r] \in Coroutines
         /\ Held(r, Entry(r))
         /\ req[r].pc \notin {"response", "recover", "request"} => Renewing(r, req[r])
         /\ CoroutineFits(r) /\ books[home[r]][r] \in 0..2
<1>1. home[r] \in Workers /\ key[r] \in Accounts /\ req[r] \in Coroutines /\ CoroutineFits(r)
  BY DEF AccountsInv, LocalInv, SharedInv
<1>2. Held(r, Entry(r))
  BY <1>1 DEF Held, Entry, AccountsInv, LocalInv
<1>3. books[home[r]][r] \in 0..2
  BY <1>1 DEF AccountsInv, LocalInv
<1>4. ASSUME req[r].pc \notin {"response", "recover", "request"}
      PROVE  Renewing(r, req[r])
  BY <1>1, <1>4 DEF Renewing, CoroutineFits, Counted, Drawn, Stamped, Coroutines
<1> QED
  BY <1>1, <1>2, <1>3, <1>4

\* A step that leaves L1 alone leaves the entry as it was.
LEMMA StepsBecome ==
  ASSUME AccountsInv, NEW r \in Requests, NEW c, Steps(r, c), UNCHANGED l1
  PROVE  Becomes(r, c, Entry(r))
BY BeforeStep DEF Becomes, Steps, Entry, AccountsInv, LocalInv

\* A step that leaves the books alone, to a place they say nothing of.
LEMMA LandsKeepsLocal ==
  ASSUME AccountsInv, Issued, NEW r \in Requests, Lands(r), UNCHANGED <<books, placement>>
  PROVE  LocalInv'
<1>1. PICK c, e : /\ Becomes(r, c, e) /\ Fits(r, c, e)
                  /\ c.pc \notin {"generate", "response", "recover", "done"}
  BY DEF Lands
<1>2. home' = home
  BY DEF placement
<1>3. BooksFollow(r, c)
  BY <1>1, <1>2 DEF BooksFollow, BookFits, AccountsInv, LocalInv
<1> QED
  BY <1>1, <1>3, MoveKeepsLocal DEF AccountsInv

\* The coroutine goes to another await, with a document it has read or will write.
LEMMA CarriesDoc ==
  ASSUME SharedInv, Issued, NEW r \in Requests, NEW c, Renewing(r, c), NEW doc, NEW e,
         NEW where \in {"adopt", "paced", "storeToken", "storeSignIn", "storePace"},
         doc \in Docs', Whole(minted', doc.jwt, doc.jar, key[r]),
         where = "storePace" => doc.jwt = NoToken,
         e \in Entries', Whole(minted', e.jwt, e.jar, key[r]),
         IF req[r].pc = "signin" THEN ~e.inflight ELSE e.inflight = Entry(r).inflight,
         Becomes(r, [At(c, where) EXCEPT !.local = doc], e)
  PROVE  Lands(r)
<1> DEFINE d == [At(c, where) EXCEPT !.local = doc]
<1>1. /\ c \in Coroutines' /\ WireWhole(minted', c.wire, key[r])
  BY WholeStays DEF Renewing
<1>2. At(c, where) \in Coroutines' /\ At(c, where).pc = where
      /\ At(c, where).attempt = c.attempt /\ At(c, where).draws = c.draws
      /\ At(c, where).bx = c.bx /\ At(c, where).stage = c.stage /\ At(c, where).wire = c.wire
  BY <1>1 DEF At, Coroutines, Awaiting
<1>3. /\ d \in Coroutines' /\ d.pc = where
      /\ d.attempt = c.attempt /\ d.draws = c.draws
      /\ d.bx = c.bx /\ d.stage = c.stage /\ d.wire = c.wire /\ d.local = doc
  BY <1>2 DEF Coroutines
<1>4. Counted(d) /\ Drawn(d) /\ Stamped(d) /\ SlotMoves(r, d, e)
  BY <1>3 DEF Counted, Drawn, Stamped, SlotMoves, Renewing
<1>5. Fits(r, d, e)
  BY <1>1, <1>3, <1>4 DEF Fits
<1> HIDE DEF d
<1> QED
  BY <1>3, <1>5 DEF Lands, d

\* A failure, from anywhere, with the entry as it was or the slot freed.
LEMMA FailsLands ==
  ASSUME AccountsInv, minted' = minted, NEW r \in Requests,
         \/ Steps(r, Coroutine("failed")) /\ UNCHANGED l1 /\ req[r].pc # "signin"
         \/ Becomes(r, Coroutine("failed"), Released(r))
         \/ Becomes(r, Coroutine("failed"), Entry(r)) /\ req[r].pc # "signin"
  PROVE  Lands(r)
<1>1. "failed" \in Ended /\ Coroutine("failed").pc = "failed"
  BY DEF Ended, Coroutine
<1>2. PICK e : /\ Becomes(r, Coroutine("failed"), e)
               /\ e \in {Entry(r), Released(r)}
               /\ req[r].pc = "signin" => e = Released(r)
  BY StepsBecome
<1>3. e \in Entries /\ Whole(minted, e.jwt, e.jar, key[r])
      /\ IF req[r].pc = "signin" THEN ~e.inflight ELSE e.inflight = Entry(r).inflight
  BY <1>2, BeforeStep DEF Released, Held, Entries
<1>4. SlotMoves(r, Coroutine("failed"), e)
  BY <1>1, <1>3 DEF SlotMoves
<1>5. Fits(r, Coroutine("failed"), e)
  BY <1>1, <1>3, <1>4, EndedFits DEF AccountsInv
<1> QED
  BY <1>1, <1>2, <1>5 DEF Lands

\* The actions that renew a session, and the phases up to it.
LEMMA RenewalSteps ==
  ASSUME AccountsInv, NEW r \in Requests,
         \/ AuthPhase(r) \/ RequestPhase(r) \/ L2Answers(r) \/ AdoptL2(r)
         \/ PaceAnswers(r) \/ PassPace(r) \/ StoreToken(r) \/ StoreSignIn(r) \/ StorePace(r)
         \/ FetchIdentity(r)
  PROVE  Lands(r)
<1> USE BeforeStep DEF AccountsInv
<1>0. /\ SharedInv /\ minted' = minted /\ Issued /\ Held(r, Entry(r)) /\ Docs' = Docs
      /\ Entries' = Entries
  BY DEF AuthPhase, RequestPhase, L2Answers, AdoptL2, PaceAnswers, PassPace, StoreToken,
         StoreSignIn, StorePace, FetchIdentity, Issued, Docs, Entries, Jars, Tokens
<1>1. CASE AuthPhase(r)
  BY <1>0, <1>1, EnsureLands DEF AuthPhase
<1>2. CASE RequestPhase(r)
  <2> DEFINE refused == req[r].status = "401"
             c == [req[r] EXCEPT !.stage = "request", !.forced = refused]
             e == IF refused THEN Dropped(Entry(r)) ELSE Entry(r)
  <2>1. CASE HeldOff(r)
    BY <1>0, <1>2, <2>1, FailsLands DEF RequestPhase
  <2>2. CASE ~HeldOff(r)
    <3>1. EnsureSignIn(r, c, e) /\ req[r].pc = "request"
      BY <1>2, <2>2 DEF RequestPhase
    <3>2. /\ c \in Coroutines /\ c.pc = "request" /\ c.stage = "request"
          /\ c.attempt = req[r].attempt /\ c.draws = req[r].draws /\ c.bx = req[r].bx
          /\ c.local = req[r].local /\ c.wire = req[r].wire
      BY <3>1 DEF Coroutines
    <3>3. Renewing(r, c)
      BY <3>1, <3>2 DEF Renewing, CoroutineFits, Counted, Drawn, Stamped
    <3>4. Held(r, e)
      BY <1>0, SentinelsTyped DEF Held, Dropped, Entries, Whole
    <3> HIDE DEF c, e
    <3> QED
      BY <1>0, <3>1, <3>3, <3>4, EnsureLands
  <2> QED
    BY <2>1, <2>2
<1>3. CASE L2Answers(r)
  <2>1. PICK doc \in Answer(l2[key[r]]) : Steps(r, [At(req[r], "adopt") EXCEPT !.local = doc])
    BY <1>3 DEF L2Answers
  <2>2. doc \in Docs /\ Whole(minted, doc.jwt, doc.jar, key[r])
    <3>1. doc = l2[key[r]] \/ doc = NoDoc
      BY <2>1 DEF Answer
    <3>2. l2[key[r]] \in Docs /\ Whole(minted, l2[key[r]].jwt, l2[key[r]].jar, key[r])
      BY DEF SharedInv
    <3>3. NoDoc \in Docs /\ Whole(minted, NoDoc.jwt, NoDoc.jar, key[r])
      BY SentinelsTyped DEF Whole
    <3> QED
      BY <3>1, <3>2, <3>3
  <2>3. Becomes(r, [At(req[r], "adopt") EXCEPT !.local = doc], Entry(r))
    BY <1>3, <2>1, StepsBecome DEF L2Answers
  <2> QED
    BY <1>0, <1>3, <2>2, <2>3, CarriesDoc DEF L2Answers, Held
<1>4. CASE AdoptL2(r)
  <2> DEFINE doc == req[r].local
             e == Adopted(Entry(r), doc)
             c == [req[r] EXCEPT !.began = now, !.local = NoDoc]
  <2>1. req[r].pc = "adopt" /\ (Becomes(r, Return(c, e), e) \/ Renewal(r, c, e))
    BY <1>4 DEF AdoptL2
  <2>2. doc \in Docs /\ Whole(minted, doc.jwt, doc.jar, key[r])
    BY DEF Coroutines, CoroutineFits
  <2>3. Held(r, e)
    BY <1>0, <2>2 DEF Held, Adopted, Entries, Docs
  <2>4. /\ c \in Coroutines /\ c.pc = "adopt" /\ c.stage = req[r].stage
        /\ c.attempt = req[r].attempt /\ c.draws = req[r].draws /\ c.bx = req[r].bx
        /\ c.local = NoDoc /\ c.wire = req[r].wire
    <3>1. req[r] \in Coroutines /\ now \in 0..Horizon /\ NoDoc \in Docs
      BY SentinelsTyped DEF SharedInv
    <3> HIDE BeforeStep DEF AccountsInv
    <3> QED
      BY <2>1, <3>1 DEF Coroutines
  <2>5. Renewing(r, c)
    BY <2>1, <2>4 DEF Renewing, Whole, NoDoc
  <2> HIDE DEF c, e
  <2> QED
    BY <1>0, <2>1, <2>3, <2>5, EnsureLands
<1>5. CASE PaceAnswers(r)
  <2>1. PICK doc \in Answer(pace) : Steps(r, [At(req[r], "paced") EXCEPT !.local = doc])
    BY <1>5 DEF PaceAnswers
  <2>2. doc \in Docs /\ Whole(minted, doc.jwt, doc.jar, key[r])
    BY <1>0, SentinelsTyped DEF Answer, SharedInv, Whole
  <2>3. Becomes(r, [At(req[r], "paced") EXCEPT !.local = doc], Entry(r))
    BY <1>5, <2>1, StepsBecome DEF PaceAnswers
  <2> QED
    BY <1>0, <1>5, <2>2, <2>3, CarriesDoc DEF PaceAnswers, Held
<1>6. CASE PassPace(r)
  BY <1>0, <1>6, EnsureLands DEF PassPace
<1>7. CASE StoreToken(r) \/ StorePace(r)
  <2>1. Becomes(r, Return(req[r], Entry(r)), Entry(r)) /\ req[r].pc \in {"storeToken", "storePace"}
    BY <1>7, StepsBecome DEF StoreToken, StorePace
  <2> QED
    BY <1>0, <2>1, EnsureLands
<1>8. CASE StoreSignIn(r)
  <2> DEFINE stamp == [NoDoc EXCEPT !.ts = Entry(r).ts,
                                    !.until = Max2(2 * MinInterval, req[r].local.until)]
  <2>1. Becomes(r, [At(req[r], "storePace") EXCEPT !.local = stamp], Entry(r))
    BY <1>8, StepsBecome DEF StoreSignIn
  <2>2. /\ Entry(r).ts \in Int /\ Max2(2 * MinInterval, req[r].local.until) \in Int
    BY <1>0 DEF Held, Entries, Times, Coroutines, Docs, Max2
  <2>3. stamp \in Docs /\ stamp.jwt = NoToken
    BY <1>0, <2>2, SentinelsTyped DEF Docs, Times
  <2>4. Whole(minted, stamp.jwt, stamp.jar, key[r])
    BY <2>3 DEF Whole
  <2> HIDE DEF stamp
  <2> QED
    BY <1>0, <1>8, <2>1, <2>3, <2>4, CarriesDoc DEF StoreSignIn, Held
<1>9. CASE FetchIdentity(r)
  <2> DEFINE c == Equipped(req[r])
  <2>1. CASE Steps(r, Depart(c, Entry(r)))
    <3>1. req[r].pc = "identity" /\ req[r].draws = 0 /\ req[r].attempt \in 0..1
      BY <1>9 DEF FetchIdentity, CoroutineFits, Drawn, Counted
    <3>2. /\ c \in Coroutines /\ c.draws = 1 /\ c.bx = "fetched"
          /\ c.attempt = req[r].attempt /\ c.local = req[r].local /\ c.wire = req[r].wire
      BY <3>1, EquippedTyped
    <3>3. Becomes(r, Depart(c, Entry(r)), Entry(r))
      BY <1>9, <2>1, StepsBecome DEF FetchIdentity
    <3>4. /\ Whole(minted, c.local.jwt, c.local.jar, key[r]) /\ WireWhole(minted, c.wire, key[r])
      BY <3>2 DEF CoroutineFits
    <3> HIDE DEF c
    <3>5. /\ Fits(r, Depart(c, Entry(r)), Entry(r))
          /\ Depart(c, Entry(r)).pc \in {"failed", "request", "prepare"}
      BY <1>0, <3>1, <3>2, <3>4, DepartFits
    <3> QED
      BY <3>3, <3>5 DEF Lands
  <2>2. CASE Steps(r, Coroutine("failed"))
    BY <1>0, <1>9, <2>2, FailsLands DEF FetchIdentity
  <2> QED
    BY <1>9, <2>1, <2>2 DEF FetchIdentity
<1> QED
  BY <1>1, <1>2, <1>3, <1>4, <1>5, <1>6, <1>7, <1>8, <1>9

\* An issued token is a new one, of its account.
LEMMA MintIssues ==
  ASSUME SharedInv, NEW a \in Accounts, NEW jarred \in BOOLEAN, Mint(a, jarred)
  PROVE  /\ Issued /\ Fresh \in Tokens' /\ Fresh # NoToken /\ minted'[Fresh].owner = a
         /\ minted'[Fresh].jarred <=> jarred
<1> DEFINE t == [owner |-> a, exp |-> now + Lifetime, jarred |-> jarred]
<1>1. t \in Issues /\ minted' = Append(minted, t)
  BY DEF Mint, SharedInv, Issues
<1>2. minted \in Seq(Issues)
  BY DEF SharedInv
<1> HIDE DEF t
<1>3. /\ Len(minted) \in Nat /\ Len(minted') = Len(minted) + 1
      /\ minted'[Len(minted) + 1] = t
  BY <1>1, <1>2
<1>4. Fresh \in Tokens' /\ Fresh # NoToken
  BY <1>3 DEF Fresh, Tokens, NoToken
<1>5. minted'[Fresh].owner = a /\ (minted'[Fresh].jarred <=> jarred)
  BY <1>3 DEF Fresh, t
<1> QED
  BY <1>1, <1>4, <1>5 DEF Issued

\* A session that a step brings: a token with its jar, or nothing.
LEMMA NewSession ==
  ASSUME SharedInv, Issued, NEW r \in Requests, NEW e, NEW hold \in Int,
         e \in Entries', Whole(minted', e.jwt, e.jar, key[r])
  PROVE  /\ Document(e, hold) \in Docs'
         /\ Whole(minted', Document(e, hold).jwt, Document(e, hold).jar, key[r])
<1>1. e.jwt \in Tokens' /\ e.ts \in Int /\ e.jar \in Jars'
  BY DEF Entries, Times
<1> QED
  BY <1>1 DEF Document, Docs, Times

\* A sign-in ends, with a session or without.
LEMMA ConcludesLands ==
  ASSUME AccountsInv, Issued, NEW r \in Requests, req[r].pc = "signin",
         NEW e \in Entries', ~e.inflight, Whole(minted', e.jwt, e.jar, key[r]),
         NEW hold \in Int, Concludes(r, e, hold)
  PROVE  Lands(r)
<1>1. SharedInv /\ Renewing(r, req[r])
  BY BeforeStep DEF AccountsInv
<1>2. /\ Document(e, hold) \in Docs'
      /\ Whole(minted', Document(e, hold).jwt, Document(e, hold).jar, key[r])
  BY <1>1, NewSession
<1> QED
  BY <1>1, <1>2, CarriesDoc DEF Concludes

\* The answers that may bring a token.
LEMMA SessionSteps ==
  ASSUME AccountsInv, NEW r \in Requests, RefreshAnswers(r) \/ SignInAnswers(r)
  PROVE  Issued /\ Lands(r)
<1>0. /\ SharedInv /\ key[r] \in Accounts /\ req[r] \in Coroutines /\ Held(r, Entry(r))
      /\ now \in Int /\ TokenHold \in Int
      /\ req[r].pc \in {"refresh", "signin"} /\ Renewing(r, req[r])
  <2>1. TokenHold \in Int /\ now \in Int
    BY DEF TokenHold, Max2, AccountsInv, SharedInv
  <2> QED
    BY <2>1, BeforeStep DEF AccountsInv, RefreshAnswers, SignInAnswers
<1>1. ASSUME Mint(key[r], TRUE)
      PROVE  /\ Issued /\ Fresh \in Tokens' /\ minted' # minted
             /\ JarOf(Fresh) \in Jars' /\ Whole(minted', Fresh, JarOf(Fresh), key[r])
  <2>1. /\ Issued /\ Fresh \in Tokens' /\ Fresh # NoToken
        /\ minted'[Fresh].owner = key[r] /\ minted'[Fresh].jarred
    BY <1>0, <1>1, MintIssues
  <2>2. JarOf(Fresh) \in Jars' /\ JarOf(Fresh) # NoJar /\ JarOf(Fresh).token = Fresh
    BY <2>1 DEF Jars, NoJar, JarOf
  <2>3. minted' # minted
    BY <1>0, <1>1 DEF Mint, SharedInv
  <2> QED
    BY <2>1, <2>2, <2>3 DEF Whole
<1>2. CASE RefreshAnswers(r) /\ Mint(key[r], TRUE)
  <2> DEFINE jar == JarOf(Fresh)
             e == [Entry(r) EXCEPT !.jwt = Fresh, !.ts = now, !.jar = jar]
  <2>1. /\ req[r].pc = "refresh"
        /\ Becomes(r, [At(req[r], "storeToken") EXCEPT !.local = Document(e, TokenHold)], e)
    BY <1>1, <1>2 DEF RefreshAnswers
  <2>2. Entry(r) \in Entries'
    BY <1>0, <1>1, <1>2, WholeStays DEF Held
  <2>3. e \in Entries' /\ e.jwt = Fresh /\ e.jar = jar /\ e.inflight = Entry(r).inflight
    BY <1>0, <1>1, <1>2, <2>2 DEF Entries, Times
  <2> HIDE DEF e, jar
  <2>4. Whole(minted', e.jwt, e.jar, key[r])
    BY <1>1, <1>2, <2>3 DEF jar
  <2>5. /\ Document(e, TokenHold) \in Docs'
        /\ Whole(minted', Document(e, TokenHold).jwt, Document(e, TokenHold).jar, key[r])
    BY <1>0, <1>1, <1>2, <2>3, <2>4, NewSession
  <2> QED
    BY <1>0, <1>1, <1>2, <2>1, <2>3, <2>4, <2>5, CarriesDoc
<1>3. CASE RefreshAnswers(r) /\ minted' = minted
  <2>1. SignInWanted(r, req[r], Entry(r)) /\ req[r].pc = "refresh"
    BY <1>1, <1>3 DEF RefreshAnswers
  <2> QED
    BY <1>0, <1>3, <2>1, EnsureLands DEF Issued
<1>4. ASSUME NEW new \in JarsOfSignIn(r, Fresh), Mint(key[r], new # NoJar),
             Concludes(r, SignedOff(Fresh, new), TokenHold), req[r].pc = "signin"
      PROVE  Issued /\ Lands(r)
  <2> DEFINE e == SignedOff(Fresh, new)
  <2>1. /\ Issued /\ Fresh \in Tokens' /\ Fresh # NoToken
        /\ minted'[Fresh].owner = key[r] /\ (minted'[Fresh].jarred <=> new # NoJar)
    BY <1>0, <1>4, MintIssues
  <2>2. new \in Jars' /\ (new # NoJar => new.token = Fresh)
    <3>1. JarOf(Fresh) \in Jars' /\ JarOf(Fresh).token = Fresh
      BY <2>1 DEF JarOf, Jars
    <3>2. NoJar \in Jars'
      BY <1>0, <2>1, SentinelsTyped, WholeStays
    <3>3. new = NoJar \/ new = JarOf(Fresh)
      BY DEF JarsOfSignIn
    <3> QED
      BY <3>1, <3>2, <3>3
  <2>3. e \in Entries' /\ ~e.inflight /\ e.jwt = Fresh /\ e.jar = new
    BY <1>0, <2>1, <2>2 DEF SignedOff, Entries, Times
  <2>4. Whole(minted', e.jwt, e.jar, key[r])
    <3>1. Whole(minted', Fresh, new, key[r])
      BY <2>1, <2>2 DEF Whole
    <3> QED
      BY <2>3, <3>1
  <2> QED
    BY <1>0, <1>4, <2>1, <2>3, <2>4, ConcludesLands
<1>5. ASSUME NEW cooldown \in {RetryCooldown, WallCooldown}, minted' = minted,
             Concludes(r, SignedOff(NoToken, NoJar), cooldown), req[r].pc = "signin"
      PROVE  Issued /\ Lands(r)
  <2> DEFINE e == SignedOff(NoToken, NoJar)
  <2>1. Issued /\ NoToken \in Tokens' /\ NoJar \in Jars'
    BY <1>0, <1>5, SentinelsTyped, WholeStays, TokensStay DEF Issued
  <2>2. e \in Entries' /\ ~e.inflight /\ e.jwt = NoToken
    BY <1>0, <2>1 DEF SignedOff, Entries, Times
  <2>3. Whole(minted', e.jwt, e.jar, key[r])
    BY <2>2 DEF Whole
  <2> QED
    BY <1>0, <1>5, <2>1, <2>2, <2>3, ConcludesLands
<1>6. CASE SignInAnswers(r)
  BY <1>4, <1>5, <1>6 DEF SignInAnswers
<1> QED
  BY <1>2, <1>3, <1>6 DEF RefreshAnswers

\* A coroutine that goes on keeps all but its place.
LEMMA AtTyped ==
  ASSUME NEW c \in Coroutines, NEW where \in {"chat", "generate", "recover", "request", "response"}
  PROVE  /\ At(c, where) \in Coroutines /\ At(c, where).pc = where
         /\ At(c, where).stage = c.stage /\ At(c, where).attempt = c.attempt
         /\ At(c, where).draws = c.draws /\ At(c, where).bx = c.bx
         /\ At(c, where).local = c.local /\ At(c, where).wire = c.wire
BY DEF At, Coroutines, Awaiting

\* The calls are made in the request phase: who has drawn by then has left the auth phase.
LEMMA CallFits ==
  ASSUME AccountsInv, minted' = minted, NEW r \in Requests,
         req[r].pc \in {"prepare", "chat", "generate", "response"},
         NEW c, c \in Coroutines, c.pc \in {"chat", "generate", "recover", "request", "response"},
         c.stage = req[r].stage, c.draws = req[r].draws, c.bx = req[r].bx,
         c.local = req[r].local, c.wire = req[r].wire, Counted(c)
  PROVE  Fits(r, c, Entry(r))
<1>1. c \in Coroutines' /\ Entry(r) \in Entries'
  BY BeforeStep, WholeStays DEF Issued, AccountsInv, Held
<1>2. Drawn(c) /\ Stamped(c) /\ SlotMoves(r, c, Entry(r))
  BY BeforeStep DEF CoroutineFits, Drawn, Stamped, SlotMoves
<1>3. /\ Whole(minted', c.local.jwt, c.local.jar, key[r])
      /\ WireWhole(minted', c.wire, key[r])
      /\ Whole(minted', Entry(r).jwt, Entry(r).jar, key[r])
  BY BeforeStep DEF CoroutineFits, Held
<1> QED
  BY <1>1, <1>2, <1>3 DEF Fits

\* A request that ends with the books it needs.
LEMMA EndingKeepsLocal ==
  ASSUME AccountsInv, minted' = minted, UNCHANGED <<l1, placement>>, NEW r \in Requests,
         NEW where \in Ended, req[r].pc # "signin", Steps(r, Coroutine(where)),
         books' \in [Workers -> [Requests -> 0..2]],
         where = "done" => books'[home[r]][r] = 0,
         \A q \in Requests \ {r} : books'[home[q]][q] = books[home[q]][q]
  PROVE  LocalInv'
<1>1. Becomes(r, Coroutine(where), Entry(r))
  BY StepsBecome
<1>2. Coroutine(where).pc = where /\ where \in {"done", "failed"}
  BY DEF Coroutine, Ended
<1>3. SlotMoves(r, Coroutine(where), Entry(r))
  BY <1>2 DEF SlotMoves
<1>4. Fits(r, Coroutine(where), Entry(r))
  BY <1>3, BeforeStep, EndedFits DEF AccountsInv
<1>5. BooksFollow(r, Coroutine(where))
  BY <1>2 DEF BooksFollow, BookFits
<1> QED
  BY <1>1, <1>4, <1>5, MoveKeepsLocal DEF AccountsInv, Issued

\* The calls to the vendor's API and what is read of their answers.
LEMMA CallSteps ==
  ASSUME AccountsInv, NEW r \in Requests,
         \/ UploadInputs(r) \/ CreateChat(r) \/ Generate(r) \/ ResponsePhase(r)
         \/ RecoverImages(r)
  PROVE  LocalInv'
<1>0. /\ minted' = minted /\ l1' = l1 /\ UNCHANGED placement /\ Issued
      /\ req[r].pc \in {"prepare", "chat", "generate", "response", "recover"}
  BY DEF UploadInputs, CreateChat, Generate, ResponsePhase, RecoverImages, Issued
<1>1. /\ home[r] \in Workers /\ req[r] \in Coroutines /\ CoroutineFits(r)
      /\ books[home[r]][r] \in 0..2 /\ books \in [Workers -> [Requests -> 0..2]]
      /\ home \in [Requests -> Workers]
  BY BeforeStep DEF AccountsInv, LocalInv, SharedInv
<1>2. ASSUME Steps(r, Coroutine("failed")), books' = books
      PROVE  LocalInv'
  BY <1>0, <1>1, <1>2, EndingKeepsLocal DEF Ended
<1>3. ASSUME NEW c, Steps(r, c), Fits(r, c, Entry(r)), BooksFollow(r, c)
      PROVE  LocalInv'
  BY <1>0, <1>3, StepsBecome, MoveKeepsLocal DEF AccountsInv
<1>4. CASE UploadInputs(r)
  <2> DEFINE c == At(req[r], "chat")
  <2>1. CASE Steps(r, c)
    <3>1. Fits(r, c, Entry(r))
      <4>1. Counted(c)
        BY <1>1, <1>4, AtTyped DEF UploadInputs, CoroutineFits, Counted
      <4> QED
        BY <1>0, <1>1, <1>4, <4>1, AtTyped, CallFits DEF UploadInputs
    <3>2. BooksFollow(r, c)
      BY <1>0, <1>1, <1>4, AtTyped DEF UploadInputs, BooksFollow, BookFits
    <3> QED
      BY <1>3, <2>1, <3>1, <3>2
  <2>2. CASE CallFails(r)
    BY <1>2, <1>4, <2>2 DEF UploadInputs, CallFails
  <2> QED
    BY <1>4, <2>1, <2>2 DEF UploadInputs
<1>5. CASE CreateChat(r)
  <2> DEFINE c == At(req[r], "generate")
  <2>1. CASE Steps(r, c) /\ books' = [books EXCEPT ![home[r]][r] = Booked(r)]
    <3>1. Counted(c) /\ req[r].attempt \in 0..1
      BY <1>1, <1>5, AtTyped DEF CreateChat, CoroutineFits, Counted
    <3>2. Fits(r, c, Entry(r))
      BY <1>0, <1>1, <1>5, <3>1, AtTyped, CallFits DEF CreateChat
    <3>3. Booked(r) \in 0..2 /\ Booked(r) = c.attempt + 1 /\ c.pc = "generate"
      BY <1>1, <3>1, AtTyped DEF Booked
    <3> HIDE DEF c
    <3>4. BooksFollow(r, c)
      BY <1>1, <2>1, <3>3 DEF BooksFollow, BookFits
    <3> QED
      BY <1>3, <2>1, <3>2, <3>4
  <2>2. CASE CallFails(r) /\ books' = books
    BY <1>2, <2>2 DEF CallFails
  <2> QED
    BY <1>5, <2>1, <2>2 DEF CreateChat
<1>6. CASE Generate(r)
  <2> DEFINE c == [req[r] EXCEPT !.attempt = @ + 1]
  <2>1. /\ req[r].pc = "generate" /\ req[r].attempt \in 0..1 /\ books' = books
        /\ books[home[r]][r] = req[r].attempt + 1
    BY <1>1, <1>6 DEF Generate, CoroutineFits, Counted, BookFits
  <2>2. /\ c \in Coroutines /\ c.attempt = req[r].attempt + 1
        /\ c.stage = req[r].stage /\ c.draws = req[r].draws /\ c.bx = req[r].bx
        /\ c.local = req[r].local /\ c.wire = req[r].wire
    <3>1. req[r].attempt + 1 \in 0..2
      BY <2>1
    <3> QED
      BY <1>1, <3>1 DEF Coroutines
  <2> HIDE DEF c
  <2>3. CASE Steps(r, At(c, "response"))
    <3>1. Fits(r, At(c, "response"), Entry(r))
      <4>1. Counted(At(c, "response"))
        BY <2>1, <2>2, AtTyped DEF Counted
      <4> QED
        BY <1>0, <2>1, <2>2, <4>1, AtTyped, CallFits
    <3>2. BooksFollow(r, At(c, "response"))
      BY <1>0, <1>1, <2>1, <2>2, AtTyped DEF BooksFollow, BookFits
    <3> QED
      BY <1>3, <2>3, <3>1, <3>2
  <2>4. ASSUME NEW s \in {"401", "4xx"}, req[r].attempt = 0,
               Steps(r, [At(c, "request") EXCEPT !.status = s])
        PROVE  LocalInv'
    <3> DEFINE d == [At(c, "request") EXCEPT !.status = s]
    <3>1. At(c, "request") \in Coroutines
      BY <2>2, AtTyped
    <3>2. /\ d \in Coroutines /\ d.pc = At(c, "request").pc
          /\ d.attempt = At(c, "request").attempt /\ d.stage = At(c, "request").stage
          /\ d.draws = At(c, "request").draws /\ d.bx = At(c, "request").bx
          /\ d.local = At(c, "request").local /\ d.wire = At(c, "request").wire
      BY <3>1 DEF Coroutines
    <3> HIDE DEF d
    <3>3. /\ d.pc = "request" /\ d.attempt = 1 /\ d.stage = req[r].stage
          /\ d.draws = req[r].draws /\ d.bx = req[r].bx
          /\ d.local = req[r].local /\ d.wire = req[r].wire
      BY <2>2, <2>4, <3>2, AtTyped
    <3>4. Counted(d)
      BY <3>3 DEF Counted
    <3>5. Fits(r, d, Entry(r))
      BY <1>0, <2>1, <3>2, <3>3, <3>4, CallFits
    <3>6. BooksFollow(r, d)
      BY <1>0, <1>1, <2>1, <3>3 DEF BooksFollow, BookFits
    <3> QED
      BY <1>3, <2>4, <3>5, <3>6 DEF d
  <2>5. CASE Steps(r, Coroutine("failed"))
    BY <1>2, <2>1, <2>5
  <2> QED
    BY <1>6, <2>3, <2>4, <2>5 DEF Generate, c
<1>7. CASE ResponsePhase(r)
  <2>1. /\ req[r].pc = "response" /\ books' = [books EXCEPT ![home[r]][r] = 0]
        /\ req[r].attempt \in 1..2 /\ books[home[r]][r] = req[r].attempt
    BY <1>1, <1>7 DEF ResponsePhase, CoroutineFits, Counted, BookFits
  <2>2. /\ books' \in [Workers -> [Requests -> 0..2]] /\ books'[home[r]][r] = 0
        /\ \A q \in Requests \ {r} : books'[home[q]][q] = books[home[q]][q]
    BY <1>1, <2>1
  <2>3. CASE Steps(r, [At(req[r], "recover") EXCEPT !.chat = books[home[r]][r]])
    <3> DEFINE c == At(req[r], "recover")
               d == [c EXCEPT !.chat = books[home[r]][r]]
    <3>1. c \in Coroutines
      BY <1>1, AtTyped
    <3>2. /\ d \in Coroutines /\ d.pc = c.pc /\ d.attempt = c.attempt /\ d.stage = c.stage
          /\ d.draws = c.draws /\ d.bx = c.bx /\ d.local = c.local /\ d.wire = c.wire
          /\ d.chat = books[home[r]][r]
      <4> HIDE DEF c
      <4> QED
        BY <1>1, <3>1 DEF Coroutines
    <3> HIDE DEF d
    <3>3. /\ d.pc = "recover" /\ d.attempt = req[r].attempt /\ d.stage = req[r].stage
          /\ d.draws = req[r].draws /\ d.bx = req[r].bx
          /\ d.local = req[r].local /\ d.wire = req[r].wire
      BY <1>1, <3>2, AtTyped
    <3>4. Counted(d)
      BY <2>1, <3>3 DEF Counted
    <3>5. Fits(r, d, Entry(r))
      BY <1>0, <2>1, <3>2, <3>3, <3>4, CallFits
    <3>6. BooksFollow(r, d)
      BY <2>1, <2>2, <3>2, <3>3 DEF BooksFollow, BookFits
    <3> QED
      BY <1>3, <2>3, <3>5, <3>6 DEF d
  <2>4. ASSUME NEW outcome \in Ended, Steps(r, Coroutine(outcome))
        PROVE  LocalInv'
    BY <1>0, <2>1, <2>2, <2>4, EndingKeepsLocal
  <2>5. "failed" \in Ended
    BY DEF Ended
  <2> QED
    BY <1>7, <2>3, <2>4, <2>5 DEF ResponsePhase
<1>8. CASE RecoverImages(r)
  <2>1. PICK outcome \in Ended : Steps(r, Coroutine(outcome))
    BY <1>8 DEF RecoverImages
  <2>2. req[r].pc = "recover" /\ books' = books /\ books[home[r]][r] = 0
    BY <1>1, <1>8 DEF RecoverImages, CoroutineFits, BookFits
  <2> QED
    BY <1>0, <1>1, <2>1, <2>2, EndingKeepsLocal
<1> QED
  BY <1>4, <1>5, <1>6, <1>7, <1>8

-----------------------------------------------------------------------------
(* The steps of the workers and of time, and what all of them share.        *)

\* A worker that restarts keeps no coroutine in its middle, and none of its slots.
LEMMA RestartKeepsLocal ==
  ASSUME AccountsInv, NEW w \in Workers, Restart(w)
  PROVE  LocalInv'
<1>1. /\ SharedInv /\ home \in [Requests -> Workers] /\ key \in [Requests -> Accounts]
      /\ home' = home /\ key' = key /\ minted' = minted
      /\ Entries' = Entries /\ Coroutines' = Coroutines
  BY DEF AccountsInv, SharedInv, Restart, placement, Entries, Coroutines, Docs, Jars, Tokens
<1>2. /\ l1' \in [Workers -> [Accounts -> Entries]]
      /\ \A a \in Accounts : l1'[w][a] = ColdEntry
      /\ \A v \in Workers \ {w} : l1'[v] = l1[v]
  BY <1>1, SentinelsTyped DEF AccountsInv, LocalInv, Restart
<1>3. /\ books' \in [Workers -> [Requests -> 0..2]]
      /\ \A r \in Requests : books'[w][r] = 0
      /\ \A v \in Workers \ {w} : books'[v] = books[v]
  BY DEF AccountsInv, LocalInv, Restart
<1>4. ASSUME NEW r \in Requests
      PROVE  \/ req'[r] = Coroutine("failed") /\ home[r] = w
             \/ req'[r] = req[r] /\ (home[r] # w \/ req[r].pc \in {"auth", "done"})
  BY DEF Restart
<1>5. "failed" \in Ended /\ Coroutine("failed").pc = "failed" /\ Coroutine("failed") \in Coroutines
  BY <1>1, SentinelsTyped DEF Ended, Coroutine
<1>6. req' \in [Requests -> Coroutines]
  BY <1>5 DEF AccountsInv, LocalInv, Restart
<1>7. ASSUME NEW r \in Requests
      PROVE  CoroutineFits(r)'
  <2>1. CASE req'[r] = Coroutine("failed")
    <3>1. /\ Counted(Coroutine("failed")) /\ Drawn(Coroutine("failed"))
          /\ Stamped(Coroutine("failed")) /\ BookFits(Coroutine("failed"), books'[home[r]][r])
      BY DEF Counted, Drawn, Stamped, BookFits, Coroutine
    <3>2. /\ Whole(minted, Coroutine("failed").local.jwt, Coroutine("failed").local.jar, key[r])
          /\ WireWhole(minted, Coroutine("failed").wire, key[r])
      BY DEF Whole, WireWhole, Coroutine, NoDoc, NoIdentity
    <3> QED
      BY <1>1, <2>1, <3>1, <3>2 DEF CoroutineFits
  <2>2. CASE req'[r] = req[r] /\ (home[r] # w \/ req[r].pc \in {"auth", "done"})
    <3>1. CoroutineFits(r)
      BY DEF AccountsInv, LocalInv
    <3>2. BookFits(req[r], books'[home[r]][r])
      BY <1>1, <1>3, <2>2, <3>1 DEF CoroutineFits, BookFits
    <3> QED
      BY <1>1, <2>2, <3>1, <3>2 DEF CoroutineFits
  <2> QED
    BY <1>4, <2>1, <2>2
<1>8. ASSUME NEW v \in Workers, NEW a \in Accounts
      PROVE  SlotFits(v, a)' /\ Whole(minted', l1'[v][a].jwt, l1'[v][a].jar, a)
  <2>1. SlotFits(v, a) /\ Whole(minted, l1[v][a].jwt, l1[v][a].jar, a)
    BY DEF AccountsInv, LocalInv
  <2>2. CASE v = w
    <3>1. \A r \in Requests : ~Signs(r, v, a)'
      BY <1>1, <1>4, <1>5, <2>2 DEF Signs
    <3>2. ~l1'[v][a].inflight /\ l1'[v][a].jwt = NoToken
      BY <1>2, <2>2 DEF ColdEntry
    <3> QED
      BY <3>1, <3>2 DEF SlotFits, Whole
  <2>3. CASE v # w
    <3>1. \A r \in Requests : Signs(r, v, a)' <=> Signs(r, v, a)
      BY <1>1, <1>4, <2>3 DEF Signs
    <3> QED
      BY <1>1, <1>2, <2>1, <2>3, <3>1 DEF SlotFits
  <2> QED
    BY <2>2, <2>3
<1> QED
  BY <1>1, <1>2, <1>3, <1>6, <1>7, <1>8 DEF LocalInv

\* Every step keeps what requests and workers hold.
LEMMA NextKeepsLocal ==
  ASSUME AccountsInv, [Next]_vars
  PROVE  LocalInv' /\ Issued
<1>1. ASSUME NEW r \in Requests, Lands(r), minted' = minted, UNCHANGED <<books, placement>>
      PROVE  LocalInv' /\ Issued
  BY <1>1, LandsKeepsLocal DEF Issued
<1>2. ASSUME NEW r \in Requests,
             \/ AuthPhase(r) \/ RequestPhase(r) \/ L2Answers(r) \/ AdoptL2(r)
             \/ PaceAnswers(r) \/ PassPace(r) \/ StoreToken(r) \/ StoreSignIn(r)
             \/ StorePace(r) \/ FetchIdentity(r)
      PROVE  LocalInv' /\ Issued
  <2>1. minted' = minted /\ UNCHANGED <<books, placement>>
    BY <1>2 DEF AuthPhase, RequestPhase, L2Answers, AdoptL2, PaceAnswers, PassPace, StoreToken,
                StoreSignIn, StorePace, FetchIdentity
  <2> QED
    BY <1>1, <1>2, <2>1, RenewalSteps
<1>3. ASSUME NEW r \in Requests, RefreshAnswers(r) \/ SignInAnswers(r)
      PROVE  LocalInv' /\ Issued
  <2>1. UNCHANGED <<books, placement>>
    BY <1>3 DEF RefreshAnswers, SignInAnswers
  <2> QED
    BY <1>3, <2>1, SessionSteps, LandsKeepsLocal
<1>4. ASSUME NEW r \in Requests,
             \/ UploadInputs(r) \/ CreateChat(r) \/ Generate(r) \/ ResponsePhase(r)
             \/ RecoverImages(r)
      PROVE  LocalInv' /\ Issued
  <2>1. minted' = minted
    BY <1>4 DEF UploadInputs, CreateChat, Generate, ResponsePhase, RecoverImages
  <2> QED
    BY <1>4, <2>1, CallSteps DEF Issued
<1>5. ASSUME NEW r \in Requests, Cancel(r)
      PROVE  LocalInv' /\ Issued
  <2>1. /\ minted' = minted /\ UNCHANGED <<books, placement>>
        /\ Becomes(r, Coroutine("failed"), Released(r))
    BY <1>5 DEF Cancel
  <2> QED
    BY <1>1, <2>1, FailsLands
<1>6. ASSUME NEW w \in Workers, Restart(w)
      PROVE  LocalInv' /\ Issued
  BY <1>6, RestartKeepsLocal DEF Restart, Issued
<1>7. ASSUME Tick \/ UNCHANGED vars
      PROVE  LocalInv' /\ Issued
  <2>1. UNCHANGED <<minted, l1, books, req, placement>>
    BY <1>7 DEF Tick, vars
  <2>2. /\ Entries' = Entries /\ Coroutines' = Coroutines
        /\ \A r \in Requests : CoroutineFits(r)' <=> CoroutineFits(r)
        /\ \A w \in Workers, a \in Accounts : SlotFits(w, a)' <=> SlotFits(w, a)
    BY <2>1 DEF Entries, Coroutines, Docs, Jars, Tokens, CoroutineFits, SlotFits, Signs, placement
  <2> QED
    BY <2>1, <2>2 DEF LocalInv, AccountsInv, Issued, placement
<1> QED
  BY <1>2, <1>3, <1>4, <1>5, <1>6, <1>7 DEF Next, Answers, Runs, Finished

\* What a sign-in or a renewal has to store is whole when it is stored.
LEMMA StoredIsWhole ==
  ASSUME AccountsInv, NEW r \in Requests
  PROVE  /\ Stored(req[r].local) \in Docs
         /\ Stored(req[r].local).jwt = req[r].local.jwt
         /\ Whole(minted, Stored(req[r].local).jwt, Stored(req[r].local).jar, key[r])
<1>1. req[r].local \in Docs /\ Whole(minted, req[r].local.jwt, req[r].local.jar, key[r])
  BY BeforeStep DEF Coroutines, CoroutineFits
<1>2. now \in Int /\ req[r].local.until \in Int
  <2>1. now \in Int
    BY DEF AccountsInv, SharedInv
  <2> QED
    BY <1>1, <2>1 DEF Docs, Times
<1> QED
  BY <1>1, <1>2 DEF Stored, Docs, Times

\* An account is held off until a time.
LEMMA BlockTyped ==
  ASSUME SharedInv, NEW r \in Requests,
         NEW seconds \in {X5secCooldown, WafCooldown}, Block(r, seconds)
  PROVE  blocked' \in [Workers -> [Accounts -> Nat]]
<1>1. now + seconds \in Nat
  BY DEF SharedInv
<1> QED
  BY <1>1 DEF Block, SharedInv

\* Every step keeps what requests and workers share.
LEMMA NextKeepsShared ==
  ASSUME AccountsInv, [Next]_vars, Issued
  PROVE  SharedInv'
<1>1. /\ SharedInv /\ minted' \in Seq(Issues) /\ Docs \subseteq Docs'
      /\ l2 \in [Accounts -> Docs] /\ pace \in Docs /\ pace.jwt = NoToken
      /\ blocked \in [Workers -> [Accounts -> Nat]]
      /\ \A t \in Tokens : \A jar, a : Whole(minted, t, jar, a) => Whole(minted', t, jar, a)
      /\ \A a \in Accounts : Whole(minted, l2[a].jwt, l2[a].jar, a)
      /\ now \in 0..Horizon /\ faults \in 0..MaxFaults
  BY TokensStay, WholeStays DEF AccountsInv, SharedInv
<1>2. \A a \in Accounts : l2[a] \in Docs' /\ Whole(minted', l2[a].jwt, l2[a].jar, a)
  BY <1>1 DEF Docs
<1>3. ASSUME l2' = l2, pace' = pace, UNCHANGED <<now, placement>>,
             blocked' \in [Workers -> [Accounts -> Nat]], faults' \in 0..MaxFaults
      PROVE  SharedInv'
  BY <1>1, <1>2, <1>3 DEF SharedInv, placement
<1>4. ASSUME UNCHANGED <<now, l2, pace, blocked, faults, placement>>
      PROVE  SharedInv'
  BY <1>1, <1>3, <1>4
<1>5. ASSUME NEW r \in Requests, StoreToken(r) \/ StoreSignIn(r)
      PROVE  SharedInv'
  <2>1. StoreSession(r) /\ UNCHANGED <<now, minted, pace, blocked, faults, placement>>
    BY <1>5 DEF StoreToken, StoreSignIn
  <2>2. CASE l2' = l2
    BY <1>4, <2>1, <2>2
  <2>3. CASE l2' = [l2 EXCEPT ![key[r]] = Stored(req[r].local)]
    <3>1. Stored(req[r].local) \in Docs
          /\ Whole(minted, Stored(req[r].local).jwt, Stored(req[r].local).jar, key[r])
      BY StoredIsWhole
    <3>2. /\ l2' \in [Accounts -> Docs] /\ Docs' = Docs
          /\ \A a \in Accounts : Whole(minted, l2'[a].jwt, l2'[a].jar, a)
      BY <1>1, <2>1, <2>3, <3>1 DEF Docs, Jars, Tokens
    <3> QED
      BY <1>1, <2>1, <3>2 DEF SharedInv, placement
  <2> QED
    BY <2>1, <2>2, <2>3 DEF StoreSession
<1>6. ASSUME NEW r \in Requests, StorePace(r)
      PROVE  SharedInv'
  <2>1. CASE pace' = pace
    BY <1>4, <1>6, <2>1 DEF StorePace
  <2>2. CASE pace' = Stored(req[r].local)
    <3>1. pace' \in Docs /\ pace'.jwt = NoToken
      BY <1>6, <2>2, StoredIsWhole, BeforeStep DEF StorePace, CoroutineFits, Stamped
    <3> QED
      BY <1>1, <1>2, <1>6, <3>1 DEF StorePace, SharedInv, placement
  <2> QED
    BY <1>6, <2>1, <2>2 DEF StorePace
<1>7. ASSUME NEW r \in Requests,
             UploadInputs(r) \/ CreateChat(r) \/ ResponsePhase(r)
      PROVE  SharedInv'
  <2>1. UNCHANGED <<now, l2, pace, faults, placement>>
    BY <1>7 DEF UploadInputs, CreateChat, ResponsePhase
  <2>2. blocked' = blocked \/ Block(r, X5secCooldown) \/ Block(r, WafCooldown)
    BY <1>7 DEF UploadInputs, CreateChat, ResponsePhase, CallFails, PostFails, VendorRefuses
  <2>3. blocked' \in [Workers -> [Accounts -> Nat]]
    BY <1>1, <2>2, BlockTyped
  <2> QED
    BY <1>1, <1>3, <2>1, <2>3
<1>8. ASSUME NEW r \in Requests, Generate(r)
      PROVE  SharedInv'
  <2>1. /\ UNCHANGED <<now, l2, pace, blocked, placement>>
        /\ faults' = faults \/ (faults < MaxFaults /\ faults' = faults + 1)
    BY <1>8 DEF Generate
  <2>2. faults' \in 0..MaxFaults
    BY <1>1, <2>1
  <2> QED
    BY <1>1, <1>3, <2>1, <2>2
<1>9. ASSUME NEW w \in Workers, Restart(w)
      PROVE  SharedInv'
  <2>1. faults' \in 0..MaxFaults
    BY <1>1, <1>9 DEF Restart
  <2>2. blocked' \in [Workers -> [Accounts -> Nat]]
    BY <1>1, <1>9 DEF Restart
  <2> QED
    BY <1>1, <1>2, <1>9, <2>1, <2>2 DEF Restart, SharedInv, placement
<1>10. ASSUME Tick
       PROVE  SharedInv'
  <2>1. /\ UNCHANGED <<minted, blocked, faults, placement>> /\ now' \in 0..Horizon
        /\ Docs' = Docs
    BY <1>1, <1>10 DEF Tick, Docs, Jars, Tokens
  <2>2. NoDoc \in Docs /\ \A a : Whole(minted, NoDoc.jwt, NoDoc.jar, a)
    <3>1. NoDoc \in Docs /\ NoDoc.jwt = NoToken
      BY <1>1, SentinelsTyped
    <3> QED
      BY <3>1 DEF Whole
  <2>3. \A a \in Accounts : l2'[a] = l2[a] \/ l2'[a] = NoDoc
    BY <1>10 DEF Tick, Kept
  <2>4. pace' = pace \/ pace' = NoDoc
    BY <1>10 DEF Tick, Kept
  <2>5. l2' \in [Accounts -> Docs]
    BY <1>1, <1>10, <2>2 DEF Tick, Kept
  <2>6. \A a \in Accounts : Whole(minted, l2'[a].jwt, l2'[a].jar, a)
    BY <1>1, <2>2, <2>3
  <2> QED
    BY <1>1, <2>1, <2>2, <2>4, <2>5, <2>6, SentinelsTyped DEF SharedInv, placement
<1>11. ASSUME NEW r \in Requests, Answers(r) \/ Runs(r) \/ Cancel(r)
       PROVE  SharedInv'
  BY <1>4, <1>5, <1>6, <1>7, <1>8, <1>11
     DEF Answers, Runs, Cancel, AuthPhase, RequestPhase, L2Answers, AdoptL2, RefreshAnswers,
         PaceAnswers, PassPace, SignInAnswers, FetchIdentity, RecoverImages
<1>12. ASSUME UNCHANGED vars
       PROVE  SharedInv'
  BY <1>4, <1>12 DEF vars
<1> QED
  BY <1>9, <1>10, <1>11, <1>12 DEF Next, Finished

-----------------------------------------------------------------------------
(* The beginning, and the theorems.                                         *)

\* A cold or a warm start.
LEMMA InitFits == Init => AccountsInv
<1> SUFFICES ASSUME Init PROVE AccountsInv
  OBVIOUS
<1>1. /\ now = 0 /\ pace = NoDoc /\ faults = 0
      /\ blocked = [w \in Workers |-> [a \in Accounts |-> 0]]
      /\ books = [w \in Workers |-> [r \in Requests |-> 0]]
      /\ home \in [Requests -> Workers] /\ key \in [Requests -> Accounts]
      /\ delegated \in [Requests -> BOOLEAN]
      /\ req = [r \in Requests |-> Coroutine("auth")]
  BY DEF Init
<1>2. /\ minted \in Seq(Issues)
      /\ l1 \in [Workers -> [Accounts -> Entries]] /\ l2 \in [Accounts -> Docs]
      /\ NoDoc \in Docs
      /\ \A w \in Workers, a \in Accounts :
           ~l1[w][a].inflight /\ Whole(minted, l1[w][a].jwt, l1[w][a].jar, a)
      /\ \A a \in Accounts : Whole(minted, l2[a].jwt, l2[a].jar, a)
  <2>1. CASE /\ minted = <<>>
             /\ l1 = [w \in Workers |-> [a \in Accounts |-> ColdEntry]]
             /\ l2 = [a \in Accounts |-> NoDoc]
    <3>1. NoToken \in Tokens /\ NoJar \in Jars
      BY <2>1 DEF NoToken, NoJar, Tokens, Jars
    <3>2. NoDoc \in Docs /\ ColdEntry \in Entries
      BY <3>1 DEF NoDoc, ColdEntry, Docs, Entries, Times, Never
    <3>3. NoDoc.jwt = NoToken /\ ColdEntry.jwt = NoToken /\ ~ColdEntry.inflight
      BY DEF NoDoc, ColdEntry
    <3> QED
      BY <2>1, <3>2, <3>3 DEF Whole
  <2>2. ASSUME NEW a \in Accounts, NEW jar \in FirstJars,
               minted = <<[owner |-> a, exp |-> Lifetime, jarred |-> jar # NoJar]>>,
               l1 = [w \in Workers |-> [b \in Accounts |->
                       IF b = a THEN SignedIn(jar) ELSE ColdEntry]],
               l2 = [b \in Accounts |->
                       IF b = a THEN [jwt |-> 1, ts |-> 0, jar |-> jar,
                                      until |-> Max2(MinHold, Lifetime - Margin)]
                       ELSE NoDoc]
        PROVE  /\ minted \in Seq(Issues)
               /\ l1 \in [Workers -> [Accounts -> Entries]] /\ l2 \in [Accounts -> Docs]
               /\ NoDoc \in Docs
               /\ \A w \in Workers, b \in Accounts :
                    ~l1[w][b].inflight /\ Whole(minted, l1[w][b].jwt, l1[w][b].jar, b)
               /\ \A b \in Accounts : Whole(minted, l2[b].jwt, l2[b].jar, b)
    <3> DEFINE doc == [jwt |-> 1, ts |-> 0, jar |-> jar,
                       until |-> Max2(MinHold, Lifetime - Margin)]
    <3>1. /\ minted \in Seq(Issues) /\ Len(minted) = 1
          /\ minted[1].owner = a /\ (minted[1].jarred <=> jar # NoJar)
      <4> DEFINE jarred == jar # NoJar
                 t == [owner |-> a, exp |-> Lifetime, jarred |-> jarred]
      <4>1. t \in Issues /\ t.owner = a /\ (t.jarred <=> jarred)
        BY DEF Issues
      <4>2. minted = <<t>>
        BY <2>2
      <4> HIDE DEF t
      <4>3. minted \in Seq(Issues) /\ Len(minted) = 1 /\ minted[1] = t
        BY <4>1, <4>2
      <4> QED
        BY <4>1, <4>3
    <3>2. NoToken \in Tokens /\ NoJar \in Jars /\ 1 \in Tokens /\ 1 # NoToken
      BY <3>1 DEF NoToken, NoJar, Tokens, Jars
    <3>3. NoDoc \in Docs /\ ColdEntry \in Entries
      BY <3>2 DEF NoDoc, ColdEntry, Docs, Entries, Times, Never
    <3>4. NoDoc.jwt = NoToken /\ ColdEntry.jwt = NoToken /\ ~ColdEntry.inflight
      BY DEF NoDoc, ColdEntry
    <3>5. jar \in Jars /\ (jar # NoJar => jar.token = 1)
      <4>1. JarOf(1) \in Jars /\ JarOf(1).token = 1
        BY <3>2 DEF JarOf, Jars
      <4>2. jar = NoJar \/ jar = JarOf(1)
        BY DEF FirstJars
      <4> QED
        BY <3>2, <4>1, <4>2
    <3>6. /\ SignedIn(jar) \in Entries /\ ~SignedIn(jar).inflight /\ SignedIn(jar).jwt = 1
          /\ SignedIn(jar).jar = jar
      BY <3>2, <3>5 DEF SignedIn, Entries, Times
    <3>7. Whole(minted, 1, jar, a)
      BY <3>1, <3>5 DEF Whole
    <3>8. doc \in Docs /\ doc.jwt = 1 /\ doc.jar = jar
      BY <3>2, <3>5 DEF Docs, Times, Max2
    <3>9. \A b : /\ Whole(minted, ColdEntry.jwt, ColdEntry.jar, b)
                 /\ Whole(minted, NoDoc.jwt, NoDoc.jar, b)
      BY <3>4 DEF Whole
    <3> HIDE DEF doc
    <3>10. l2 = [b \in Accounts |-> IF b = a THEN doc ELSE NoDoc]
      BY <2>2 DEF doc
    <3>11. l1 \in [Workers -> [Accounts -> Entries]] /\ l2 \in [Accounts -> Docs]
      BY <2>2, <3>3, <3>6, <3>8, <3>10
    <3>12. \A b \in Accounts : Whole(minted, l2[b].jwt, l2[b].jar, b)
      BY <3>7, <3>8, <3>9, <3>10
    <3>13. \A w \in Workers, b \in Accounts :
             ~l1[w][b].inflight /\ Whole(minted, l1[w][b].jwt, l1[w][b].jar, b)
      BY <2>2, <3>4, <3>6, <3>7, <3>9
    <3> QED
      BY <3>1, <3>3, <3>11, <3>12, <3>13
  <2> QED
    BY <2>1, <2>2 DEF Init
<1>3. SharedInv
  <2>1. NoDoc.jwt = NoToken /\ 0 \in 0..Horizon /\ 0 \in 0..MaxFaults
    BY DEF NoDoc
  <2> QED
    BY <1>1, <1>2, <2>1 DEF SharedInv
<1>4. Coroutine("auth") \in Coroutines /\ Coroutine("auth").pc = "auth"
  BY <1>3, SentinelsTyped DEF Coroutine
<1>5. /\ Counted(Coroutine("auth")) /\ Drawn(Coroutine("auth")) /\ Stamped(Coroutine("auth"))
      /\ BookFits(Coroutine("auth"), 0)
      /\ \A a : /\ Whole(minted, Coroutine("auth").local.jwt, Coroutine("auth").local.jar, a)
                /\ WireWhole(minted, Coroutine("auth").wire, a)
  BY DEF Counted, Drawn, Stamped, BookFits, Coroutine, Whole, WireWhole, NoDoc, NoIdentity
<1>6. \A r \in Requests : CoroutineFits(r)
  BY <1>1, <1>5 DEF CoroutineFits
<1>7. \A w \in Workers, a \in Accounts : SlotFits(w, a)
  BY <1>1, <1>2, <1>4 DEF SlotFits, Signs
<1>8. books \in [Workers -> [Requests -> 0..2]] /\ req \in [Requests -> Coroutines]
  BY <1>1, <1>4
<1> QED
  BY <1>2, <1>3, <1>6, <1>7, <1>8 DEF AccountsInv, LocalInv

\* The inductive invariant holds of every behaviour of the specification.
THEOREM Invariance == Spec => []AccountsInv
<1>1. AccountsInv /\ [Next]_vars => AccountsInv'
  BY NextKeepsLocal, NextKeepsShared DEF AccountsInv
<1> QED
  BY <1>1, InitFits, PTL DEF Spec

\* The two levels of the session cache, the pace, the books and the coroutines stay in
\* their types: no sequence of sign-ins, refusals, cancellations and restarts puts a
\* coroutine of _ensure_signin, _credentials or the response phase where the script has
\* no place for it.
THEOREM TypeCorrect == Spec => []TypeOK
<1>1. AccountsInv => TypeOK
  BY DEF AccountsInv, LocalInv, SharedInv, TypeOK, Entries, Issues
<1> QED
  BY <1>1, Invariance, PTL

\* However many requests of an account wait on the same expired token, a worker signs it
\* in once at a time, and `inflight` of _SIGNIN_STATE is set exactly while it does: no
\* cancelled or refused sign-in leaves the slot taken.
THEOREM OneSignInAtATime == Spec => []SingleFlight
<1>1. ASSUME AccountsInv, NEW w \in Workers, NEW a \in Accounts
      PROVE  /\ Cardinality(SigningIn(w, a)) <= 1
             /\ l1[w][a].inflight <=> SigningIn(w, a) # {}
  <2>1. SlotFits(w, a)
    BY <1>1 DEF AccountsInv, LocalInv
  <2>2. \A r \in Requests : r \in SigningIn(w, a) <=> Signs(r, w, a)
    BY DEF SigningIn, Signs
  <2>3. SigningIn(w, a) = {} \/ \E r : SigningIn(w, a) = {r}
    BY <2>1, <2>2 DEF SlotFits, SigningIn
  <2>4. Cardinality(SigningIn(w, a)) <= 1
    <3>1. Cardinality(SigningIn(w, a)) \in {0, 1}
      BY ONLY <2>3, FS_EmptySet, FS_Singleton, Zenon
    <3> QED
      BY ONLY <3>1
  <2> QED
    BY <2>1, <2>2, <2>4 DEF SlotFits, SigningIn
<1>2. AccountsInv => SingleFlight
  BY <1>1 DEF SingleFlight
<1> QED
  BY <1>2, Invariance, PTL

\* A token never meets the jar of another session or of another account, in a worker's
\* memory, in ctx.cache or in the headers of a call, and one that was kept with a jar
\* never parts from it, whoever renewed it, through whichever channel of the account,
\* and whichever document of L2 was adopted over what L1 held.
THEOREM SessionsStayWhole == Spec => []SessionsAreWhole
<1>1. AccountsInv /\ TypeOK => SessionsAreWhole
  BY DEF AccountsInv, LocalInv, SharedInv, CoroutineFits, Whole, WireWhole, OneSession,
         SessionsAreWhole
<1> QED
  BY <1>1, Invariance, TypeCorrect, PTL

\* A request draws one identity from the pool, through whichever of its phases and
\* attempts it first needs one: what the script's "one identity per request" pins.
THEOREM OneDrawPerRequest == Spec => []OneIdentityPerRequest
<1>1. AccountsInv => OneIdentityPerRequest
  BY DEF AccountsInv, LocalInv, CoroutineFits, Drawn, OneIdentityPerRequest
<1> QED
  BY <1>1, Invariance, PTL

\* Pictures are recovered from the chat of the attempt that was answered, never from that
\* of a refused one, and _REQUESTS keeps nothing of an answered request.
THEOREM RecoversOwnChat == Spec => []AnswersOwnChat
<1>1. AccountsInv => AnswersOwnChat
  BY DEF AccountsInv, LocalInv, CoroutineFits, BookFits, AnswersOwnChat
<1> QED
  BY <1>1, Invariance, PTL
=============================================================================
