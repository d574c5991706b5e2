---------------------------- MODULE QwenAccounts ----------------------------
(***************************************************************************)
(* The accounts of script_store/qwen/images@v1.py: the requests of a       *)
(* channel whose key is `<user>|<password>`, each of them a coroutine of   *)
(* one worker.  A worker keeps the session of an account in a module-level *)
(* dictionary (L1), the workers share it through ctx.cache (L2), and       *)
(* _ensure_signin renews it, by its refresh cookie or by a sign-in, while  *)
(* other requests do the same.  An action is what the coroutine does       *)
(* between two awaits.                                                     *)
(***************************************************************************)
EXTENDS Integers, Sequences, FiniteSets

CONSTANTS
  Workers, Accounts, Requests,
  HasIdentityUrl,         \* option identity_url: guests fetch an identity
  Fingerprint,            \* bx_ua of the channel's options: "static" or "none"
  Lifetime,               \* of an access token
  Margin, MinHold,        \* _SIGNIN_EXP_MARGIN, and the least L2 lifetime
  RetryCooldown,          \* _SIGNIN_RETRY_COOLDOWN
  WallCooldown,           \* _SIGNIN_WALL_COOLDOWN
  MinInterval,            \* _SIGNIN_MIN_INTERVAL
  X5secCooldown, WafCooldown,
  Horizon,                \* bound: the clock stops here
  MaxTokens,              \* bound: the vendor issues no more of them
  MaxFaults,              \* bound: restarts of workers, and calls refused with a 4xx
  FlakyCache              \* ctx.cache may fail: a lost read or write

ASSUME QwenAssumption ==
  /\ HasIdentityUrl \in BOOLEAN /\ FlakyCache \in BOOLEAN
  /\ Fingerprint \in {"static", "none"}
  /\ {Lifetime, Margin, MinHold, RetryCooldown, WallCooldown, MinInterval,
      X5secCooldown, WafCooldown, Horizon, MaxTokens, MaxFaults} \subseteq Nat
  /\ MinHold > 0 /\ RetryCooldown > 0 /\ WallCooldown > 0 /\ MinInterval > 0

VARIABLES
  now,
  minted,   \* the access tokens the vendor has issued: owner, expiry, and whether
            \* a jar was kept with it
  l1,       \* _SIGNIN_STATE of each worker
  l2,       \* the session documents in ctx.cache
  pace,     \* the sign-in stamp in ctx.cache
  blocked,  \* _BLOCKED of each worker: until when
  books,    \* _REQUESTS of each worker: the chat of each request's last call
  home,     \* the worker a request runs in
  key,      \* the account its channel key names
  delegated,  \* whether its channel has the option token_url
  req,      \* the coroutines, see Coroutine
  faults

placement == <<home, key, delegated>>
vars == <<now, minted, l1, l2, pace, blocked, books, placement, req, faults>>

-----------------------------------------------------------------------------
(* Tokens are numbers, 0 the empty one.  A jar holds the cookies of the     *)
(* sign-in that planted it: here its token and its refresh_token.           *)

NoToken == 0
NoJar == [token |-> NoToken, refresh |-> FALSE]
JarOf(token) == [token |-> token, refresh |-> TRUE]
Never == 0 - RetryCooldown - MinInterval

\* What _signin_entry puts in for an account it has not seen.
ColdEntry == [jwt |-> NoToken, ts |-> Never, jar |-> NoJar, inflight |-> FALSE]
NoDoc == [jwt |-> NoToken, ts |-> Never, jar |-> NoJar, until |-> Never]

Max2(a, b) == IF a < b THEN b ELSE a

TokenUsable(jwt) == jwt # NoToken /\ now < minted[jwt].exp - Margin

Entry(r) == l1[home[r]][key[r]]

Ended == {"done", "failed"}

\* A coroutine: the phase it is in and where; _ensure_signin's `force`, `now` and
\* the document it has read or is about to write; the fingerprint in ctx.options;
\* the identity the emitted headers carry; the generation calls so far and the
\* status of a refused one; the chat of the response phase; and, as history, the
\* identities it has fetched.
NoIdentity == [token |-> NoToken, jar |-> "option", bx |-> "none"]
Coroutine(where) ==
  [pc |-> where, stage |-> "auth", forced |-> FALSE, began |-> 0, local |-> NoDoc,
   bx |-> Fingerprint, wire |-> NoIdentity, attempt |-> 0, status |-> "none",
   chat |-> 0, draws |-> 0]

At(c, where) == [c EXCEPT !.pc = where]

\* The coroutine of r becomes c, and its account's entry e.
Becomes(r, c, e) ==
  /\ req' = [req EXCEPT ![r] = c]
  /\ l1' = [l1 EXCEPT ![home[r]][key[r]] = e]

Steps(r, c) == req' = [req EXCEPT ![r] = c]

Block(r, seconds) ==
  blocked' = [blocked EXCEPT ![home[r]][key[r]] = now + seconds]

-----------------------------------------------------------------------------
\* A warm start: an earlier request of the process signed the account in, with a jar
\* or, through the service or before jars were captured, without one.
SignedIn(jar) == [jwt |-> 1, ts |-> 0, jar |-> jar, inflight |-> FALSE]
FirstJars == {NoJar, JarOf(1)}

Init ==
  /\ now = 0
  /\ pace = NoDoc
  /\ \/ /\ minted = <<>>
        /\ l1 = [w \in Workers |-> [a \in Accounts |-> ColdEntry]]
        /\ l2 = [a \in Accounts |-> NoDoc]
     \/ \E a \in Accounts, jar \in FirstJars :
          /\ minted = <<[owner |-> a, exp |-> Lifetime, jarred |-> jar # NoJar]>>
          /\ l1 = [w \in Workers |-> [b \in Accounts |->
                     IF b = a THEN SignedIn(jar) ELSE ColdEntry]]
          /\ l2 = [b \in Accounts |->
                     IF b = a THEN [jwt |-> 1, ts |-> 0, jar |-> jar,
                                    until |-> Max2(MinHold, Lifetime - Margin)]
                     ELSE NoDoc]
  /\ blocked = [w \in Workers |-> [a \in Accounts |-> 0]]
  /\ books = [w \in Workers |-> [r \in Requests |-> 0]]
  /\ home \in [Requests -> Workers]
  /\ key \in [Requests -> Accounts]
  /\ delegated \in [Requests -> BOOLEAN]
  /\ req = [r \in Requests |-> Coroutine("auth")]
  /\ faults = 0

-----------------------------------------------------------------------------
(* What both phases do once _ensure_signin has returned.  `e` is the        *)
(* account's entry at that point.                                           *)

\* _jar_for: the jar of the session that minted the token, else the token
\* written into the `cookie` option, else that option without a token.
IdentityFrom(c, e) ==
  [token |-> e.jwt,
   jar |-> IF e.jwt # NoToken /\ e.jar # NoJar THEN "session" ELSE "option",
   bx |-> c.bx]

\* _credentials: a guest has nothing but its fingerprint.
Unusable(c, e) == e.jwt = NoToken /\ c.bx = "none"

\* The headers of the request phase replace those of the auth phase, and a
\* refusal is read once.
Depart(c, e) ==
  IF Unusable(c, e) THEN Coroutine("failed")
  ELSE IF c.stage = "auth" THEN At(c, "request")
  ELSE [At(c, "prepare") EXCEPT !.wire = IdentityFrom(c, e), !.status = "none"]

\* A guest of a channel with an identity service fetches a fresh one, in the
\* request phase only if it has none.
IdentityWantedAgain(c, e) == e.jwt = NoToken /\ HasIdentityUrl
IdentityWanted(c, e) ==
  e.jwt = NoToken /\ HasIdentityUrl /\ (c.stage = "auth" \/ c.bx = "none")

\* _ensure_signin returns, and its locals are gone.
Left(c) == [c EXCEPT !.forced = FALSE, !.began = 0, !.local = NoDoc]
Return(c, e) ==
  IF IdentityWanted(c, e) THEN At(Left(c), "identity") ELSE Depart(Left(c), e)

-----------------------------------------------------------------------------
(* _ensure_signin.                                                          *)

\* The in-flight test and set have no await between them.
SignInStarts(r, c, e) ==
  IF e.inflight THEN Becomes(r, Return(c, e), e)
  ELSE Becomes(r, At(Left(c), "signin"), [e EXCEPT !.inflight = TRUE])

\* Sign-ins are paced across accounts, unless forced or delegated.
SignInWanted(r, c, e) ==
  IF c.forced \/ delegated[r] THEN SignInStarts(r, c, e) ELSE Becomes(r, At(c, "pace"), e)

\* The refresh cookie of the jar comes first.
Renewal(r, c, e) ==
  IF e.jar.refresh THEN Becomes(r, At(c, "refresh"), e) ELSE SignInWanted(r, c, e)

\* A usable L1 token ends it; a forced renewal skips L2 and the cooldown.
EnsureSignIn(r, c, e) ==
  IF TokenUsable(e.jwt) THEN Becomes(r, Return(c, e), e)
  ELSE IF c.forced THEN Renewal(r, c, e)
  ELSE Becomes(r, At(c, "l2"), e)

\* The cache answers; a failing cache answers nothing.
Answer(doc) == IF FlakyCache THEN {doc, NoDoc} ELSE {doc}
L2Answers(r) ==
  /\ req[r].pc = "l2"
  /\ \E doc \in Answer(l2[key[r]]) :
       Steps(r, [At(req[r], "adopt") EXCEPT !.local = doc])
  /\ UNCHANGED <<now, minted, l1, l2, pace, blocked, books, faults, placement>>

\* A document in L2 replaces what L1 holds, the time of the last try included.
AdoptedToken(e, doc) ==
  IF doc = NoDoc THEN e ELSE [e EXCEPT !.jwt = doc.jwt, !.ts = doc.ts]
Adopted(e, doc) ==
  IF doc = NoDoc THEN e
  ELSE [e EXCEPT !.jwt = doc.jwt, !.ts = doc.ts, !.jar = doc.jar]

CoolingDown(e) == now - e.ts < RetryCooldown

AdoptL2(r) ==
  /\ req[r].pc = "adopt"
  /\ LET e == Adopted(Entry(r), req[r].local)
         c == [req[r] EXCEPT !.began = now, !.local = NoDoc]
     IN IF (req[r].local # NoDoc /\ TokenUsable(e.jwt)) \/ CoolingDown(e)
          THEN Becomes(r, Return(c, e), e)
          ELSE Renewal(r, c, e)
  /\ UNCHANGED <<now, minted, l2, pace, blocked, books, faults, placement>>

\* The vendor issues a token, that is kept with a jar or alone.
Mint(a, jarred) ==
  /\ Len(minted) < MaxTokens
  /\ minted' = Append(minted, [owner |-> a, exp |-> now + Lifetime, jarred |-> jarred])
Fresh == Len(minted) + 1

\* L2 keeps a session as long as its token, or as the cooldown of a failure.
TokenHold == Max2(MinHold, Lifetime - Margin)
Document(e, hold) == [jwt |-> e.jwt, ts |-> e.ts, jar |-> e.jar, until |-> hold]

\* The refresh endpoint issues a token for the session of the jar, or the
\* renewal goes on to a sign-in.
RefreshAnswers(r) ==
  /\ req[r].pc = "refresh"
  /\ \/ /\ Mint(key[r], TRUE)
        /\ LET e == [Entry(r) EXCEPT !.jwt = Fresh, !.ts = now,
                                     !.jar = JarOf(Fresh)]
           IN Becomes(r, [At(req[r], "storeToken") EXCEPT
                            !.local = Document(e, TokenHold)], e)
     \/ /\ UNCHANGED minted
        /\ SignInWanted(r, req[r], Entry(r))
  /\ UNCHANGED <<now, l2, pace, blocked, books, faults, placement>>

PaceAnswers(r) ==
  /\ req[r].pc = "pace"
  /\ \E doc \in Answer(pace) :
       Steps(r, [At(req[r], "paced") EXCEPT !.local = doc])
  /\ UNCHANGED <<now, minted, l1, l2, pace, blocked, books, faults, placement>>

TooSoon(c) == c.local # NoDoc /\ c.began - c.local.ts < MinInterval

PassPace(r) ==
  /\ req[r].pc = "paced"
  /\ IF TooSoon(req[r]) THEN Becomes(r, Return(req[r], Entry(r)), Entry(r))
                        ELSE SignInStarts(r, req[r], Entry(r))
  /\ UNCHANGED <<now, minted, l2, pace, blocked, books, faults, placement>>

\* The sign-in ends, the slot is freed and the attempt recorded.  The token is read
\* whatever the status of the answer, the jar of the session only from a 200: a token
\* may come alone, as it always does from the service.  Or there is none: a refusal, by
\* the WAF or otherwise.
SignedOff(token, jar) == [jwt |-> token, ts |-> now, jar |-> jar, inflight |-> FALSE]

JarsOfSignIn(r, token) ==
  IF delegated[r] THEN {NoJar} ELSE {NoJar, JarOf(token)}

Concludes(r, e, hold) ==
  Becomes(r, [At(req[r], "storeSignIn") EXCEPT !.local = Document(e, hold)], e)

SignInAnswers(r) ==
  /\ req[r].pc = "signin"
  /\ \/ \E jar \in JarsOfSignIn(r, Fresh) :
          Mint(key[r], jar # NoJar) /\ Concludes(r, SignedOff(Fresh, jar), TokenHold)
     \/ \E cooldown \in {RetryCooldown, WallCooldown} :
          UNCHANGED minted /\ Concludes(r, SignedOff(NoToken, NoJar), cooldown)
  /\ UNCHANGED <<now, l2, pace, blocked, books, faults, placement>>

\* A write to the cache may fail: nobody notices.
Stored(doc) == [doc EXCEPT !.until = now + doc.until]
StoreSession(r) ==
  \/ l2' = [l2 EXCEPT ![key[r]] = Stored(req[r].local)]
  \/ FlakyCache /\ UNCHANGED l2

StoreToken(r) ==
  /\ req[r].pc = "storeToken"
  /\ StoreSession(r)
  /\ Steps(r, Return(req[r], Entry(r)))
  /\ UNCHANGED <<now, minted, l1, pace, blocked, books, faults, placement>>

\* The stamp of the sign-in is the account's `ts` at that moment.
StoreSignIn(r) ==
  /\ req[r].pc = "storeSignIn"
  /\ StoreSession(r)
  /\ LET stamp == [NoDoc EXCEPT !.ts = Entry(r).ts,
                                !.until = Max2(2 * MinInterval, req[r].local.until)]
     IN Steps(r, [At(req[r], "storePace") EXCEPT !.local = stamp])
  /\ UNCHANGED <<now, minted, l1, pace, blocked, books, faults, placement>>

StorePace(r) ==
  /\ req[r].pc = "storePace"
  /\ \/ pace' = Stored(req[r].local)
     \/ FlakyCache /\ UNCHANGED pace
  /\ Steps(r, Return(req[r], Entry(r)))
  /\ UNCHANGED <<now, minted, l1, l2, blocked, books, faults, placement>>

-----------------------------------------------------------------------------
(* The phases.                                                              *)

AuthPhase(r) ==
  /\ req[r].pc = "auth"
  /\ EnsureSignIn(r, req[r], Entry(r))
  /\ UNCHANGED <<now, minted, l2, pace, blocked, books, faults, placement>>

\* An account the upstream holds off fails at once.  After a 401 the account's
\* token is dropped, its time of the last try kept, and the renewal forced.
HeldOff(r) == now < blocked[home[r]][key[r]]
Dropped(e) == [e EXCEPT !.jwt = NoToken]

RequestPhase(r) ==
  /\ req[r].pc = "request"
  /\ LET refused == req[r].status = "401"
         c == [req[r] EXCEPT !.stage = "request", !.forced = refused]
     IN IF HeldOff(r) THEN Becomes(r, Coroutine("failed"), Entry(r))
        ELSE EnsureSignIn(r, c, IF refused THEN Dropped(Entry(r)) ELSE Entry(r))
  /\ UNCHANGED <<now, minted, l2, pace, blocked, books, faults, placement>>

\* The identity service answers a whole identity, or the request fails.
Equipped(c) == [c EXCEPT !.bx = "fetched", !.draws = @ + 1]
FetchIdentity(r) ==
  /\ req[r].pc = "identity"
  /\ \/ Steps(r, Depart(Equipped(req[r]), Entry(r)))
     \/ Steps(r, Coroutine("failed"))
  /\ UNCHANGED <<now, minted, l1, l2, pace, blocked, books, faults, placement>>

\* A call to the vendor's API that fails: a WAF page holds the account off.
PostFails(r) == Block(r, WafCooldown) \/ UNCHANGED blocked

\* A refusal the vendor words itself: risk control holds the account off, while
\* moderation, quota and overload say nothing of the next request.
VendorRefuses(r) == Block(r, X5secCooldown) \/ UNCHANGED blocked

CallFails(r) == (PostFails(r) \/ VendorRefuses(r)) /\ Steps(r, Coroutine("failed"))

\* The pictures of the request are uploaded, each with a credential of its own.
UploadInputs(r) ==
  /\ req[r].pc = "prepare"
  /\ \/ Steps(r, At(req[r], "chat")) /\ UNCHANGED blocked
     \/ CallFails(r)
  /\ UNCHANGED <<now, minted, l1, l2, pace, books, faults, placement>>

\* The chat of the call, entered for the response phase; a second attempt
\* overwrites the entry of the first.
KeptBook(r) == IF books[home[r]][r] = 0 THEN req[r].attempt + 1 ELSE books[home[r]][r]
Booked(r) == req[r].attempt + 1

CreateChat(r) ==
  /\ req[r].pc = "chat"
  /\ \/ /\ books' = [books EXCEPT ![home[r]][r] = Booked(r)]
        /\ Steps(r, At(req[r], "generate"))
        /\ UNCHANGED blocked
     \/ CallFails(r) /\ UNCHANGED books
  /\ UNCHANGED <<now, minted, l1, l2, pace, faults, placement>>

\* The engine's generation call: answered, refused and offered again once, or
\* failed.
Generate(r) ==
  /\ req[r].pc = "generate"
  /\ LET c == [req[r] EXCEPT !.attempt = @ + 1] IN
       \/ Steps(r, At(c, "response")) /\ UNCHANGED faults
       \/ /\ req[r].attempt = 0 /\ faults < MaxFaults
          /\ faults' = faults + 1
          /\ \E s \in {"401", "4xx"} : Steps(r, [At(c, "request") EXCEPT !.status = s])
       \/ Steps(r, Coroutine("failed")) /\ UNCHANGED faults
  /\ UNCHANGED <<now, minted, l1, l2, pace, blocked, books, placement>>

\* A reply is a stream of frames, or one document.  An error in any frame counts for
\* the whole; a picture counts wherever it is.  Without either, a stream leaves the
\* chat to be read, and a document nothing.
Replies == [streamed : BOOLEAN, frames : SUBSET {"picture", "error"}]
ReadStream(reply) ==
  CASE "error" \in reply.frames -> "error"
    [] reply.frames = {"picture"} -> "pictures"
    [] reply.frames = {} -> IF reply.streamed THEN "none" ELSE "unread"

ResponsePhase(r) ==
  /\ req[r].pc = "response"
  /\ books' = [books EXCEPT ![home[r]][r] = 0]
  /\ LET chat == books[home[r]][r]
     IN \E found \in {ReadStream(reply) : reply \in Replies} :
          \/ /\ found = "none" /\ chat # 0
             /\ Steps(r, [At(req[r], "recover") EXCEPT !.chat = chat])
             /\ UNCHANGED blocked
          \/ /\ found = "unread" \/ (found = "none" /\ chat = 0)
             /\ Steps(r, Coroutine("failed"))
             /\ UNCHANGED blocked
          \/ /\ found = "pictures"
             /\ \E outcome \in Ended : Steps(r, Coroutine(outcome))
             /\ UNCHANGED blocked
          \/ found = "error" /\ Steps(r, Coroutine("failed")) /\ VendorRefuses(r)
  /\ UNCHANGED <<now, minted, l1, l2, pace, faults, placement>>

RecoverImages(r) ==
  /\ req[r].pc = "recover"
  /\ \E outcome \in Ended : Steps(r, Coroutine(outcome))
  /\ UNCHANGED <<now, minted, l1, l2, pace, blocked, books, faults, placement>>

-----------------------------------------------------------------------------
Awaiting == {"l2", "adopt", "refresh", "pace", "paced", "signin", "storeToken",
             "storeSignIn", "storePace", "identity", "prepare", "chat", "recover"}

\* The engine's script timeout cancels the phase at its await; only the
\* `finally` of the sign-in runs.
LeftTaken(r) == Entry(r)
Released(r) == IF req[r].pc = "signin" THEN [Entry(r) EXCEPT !.inflight = FALSE]
               ELSE Entry(r)
Cancel(r) ==
  /\ req[r].pc \in Awaiting
  /\ Becomes(r, Coroutine("failed"), Released(r))
  /\ UNCHANGED <<now, minted, l2, pace, blocked, books, faults, placement>>

\* A worker process ends and is started again: its memory and its requests are
\* gone, the cache is not.
Restart(w) ==
  /\ faults < MaxFaults
  /\ faults' = faults + 1
  /\ l1' = [l1 EXCEPT ![w] = [a \in Accounts |-> ColdEntry]]
  /\ blocked' = [blocked EXCEPT ![w] = [a \in Accounts |-> 0]]
  /\ books' = [books EXCEPT ![w] = [r \in Requests |-> 0]]
  /\ req' = [r \in Requests |->
              IF home[r] = w /\ req[r].pc \notin {"auth", "done"}
              THEN Coroutine("failed") ELSE req[r]]
  /\ UNCHANGED <<now, minted, l2, pace, placement>>

\* Redis drops a document when its time is over.
Kept(doc) == IF doc.until > now' THEN doc ELSE NoDoc
Tick ==
  /\ now < Horizon
  /\ now' = now + 1
  /\ l2' = [a \in Accounts |-> Kept(l2[a])]
  /\ pace' = Kept(pace)
  /\ UNCHANGED <<minted, l1, blocked, books, req, faults, placement>>

Answers(r) ==
  \/ L2Answers(r) \/ RefreshAnswers(r) \/ PaceAnswers(r) \/ SignInAnswers(r)
  \/ StoreToken(r) \/ StoreSignIn(r) \/ StorePace(r)
  \/ FetchIdentity(r) \/ UploadInputs(r) \/ CreateChat(r) \/ Generate(r) \/ RecoverImages(r)

Runs(r) ==
  \/ AuthPhase(r) \/ RequestPhase(r) \/ AdoptL2(r) \/ PassPace(r) \/ ResponsePhase(r)

Finished == (\A r \in Requests : req[r].pc \in Ended) /\ UNCHANGED vars

Next ==
  \/ \E r \in Requests : Answers(r) \/ Runs(r) \/ Cancel(r)
  \/ \E w \in Workers : Restart(w)
  \/ Tick
  \/ Finished

Spec == Init /\ [][Next]_vars

-----------------------------------------------------------------------------
Tokens == 0..Len(minted)
Jars == [token : Tokens, refresh : BOOLEAN]
Times == Int
Docs == [jwt : Tokens, ts : Times, jar : Jars, until : Times]

Coroutines ==
  [pc : Awaiting \cup Ended \cup {"auth", "request", "generate", "response"},
   stage : {"auth", "request"}, forced : BOOLEAN, began : 0..Horizon, local : Docs,
   bx : {"none", "static", "fetched"},
   wire : [token : Tokens, jar : {"session", "option"}, bx : {"none", "static", "fetched"}],
   attempt : 0..2, status : {"none", "401", "4xx"}, chat : 0..2, draws : Nat]

\* The entries of L1 and L2, the locals of the coroutines and their locations
\* stay in their types.
TypeOK ==
  /\ now \in 0..Horizon
  /\ minted \in Seq([owner : Accounts, exp : Nat, jarred : BOOLEAN])
  /\ l1 \in [Workers -> [Accounts ->
               [jwt : Tokens, ts : Times, jar : Jars, inflight : BOOLEAN]]]
  /\ l2 \in [Accounts -> Docs]
  /\ pace \in Docs
  /\ blocked \in [Workers -> [Accounts -> Nat]]
  /\ books \in [Workers -> [Requests -> 0..2]]
  /\ home \in [Requests -> Workers] /\ key \in [Requests -> Accounts]
  /\ delegated \in [Requests -> BOOLEAN]
  /\ req \in [Requests -> Coroutines]
  /\ faults \in 0..MaxFaults

\* Within a worker an account is signed in by one request at a time, and its slot
\* is taken exactly as long as that request's sign-in runs: cancelled, refused or
\* answered, it is free again.
SigningIn(w, a) ==
  {r \in Requests : home[r] = w /\ key[r] = a /\ req[r].pc = "signin"}
SingleFlight ==
  \A w \in Workers, a \in Accounts :
     /\ Cardinality(SigningIn(w, a)) <= 1
     /\ l1[w][a].inflight <=> SigningIn(w, a) # {}

\* A token and the jar it was issued with stay together, with the account they belong
\* to, through sign-ins, renewals, adoptions and both caches: a token that came with a
\* jar never goes out in the operator's cookies, and never with the jar of another
\* session; only a token that came alone does without.
OneSession(jwt, jar, a) ==
  jwt # NoToken => /\ minted[jwt].owner = a
                   /\ minted[jwt].jarred <=> jar # NoJar
                   /\ jar # NoJar => jar.token = jwt
SessionsAreWhole ==
  /\ TypeOK
  /\ \A w \in Workers, a \in Accounts : OneSession(l1[w][a].jwt, l1[w][a].jar, a)
  /\ \A a \in Accounts : OneSession(l2[a].jwt, l2[a].jar, a)
  /\ \A r \in Requests : req[r].wire.token # NoToken =>
       /\ minted[req[r].wire.token].owner = key[r]
       /\ minted[req[r].wire.token].jarred <=> req[r].wire.jar = "session"

\* "One identity per request is the pinned semantic": whatever doors its phases
\* and its second attempt go through, a request draws on the pool once.
OneIdentityPerRequest == \A r \in Requests : req[r].draws <= 1

\* Pictures that the stream does not carry are read back from the chat of the
\* call that was answered, and no entry is left of an answered request.
AnswersOwnChat ==
  \A r \in Requests :
     /\ req[r].pc = "recover" => req[r].chat = req[r].attempt
     /\ req[r].pc \in {"recover", "done"} => books[home[r]][r] = 0

=============================================================================
