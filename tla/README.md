# Verification of image-adapter

The adapter stands between clients that speak one image API and upstreams that
each speak their own.  A *channel* (request headers) names an upstream and a
*script*; the engine runs the script's phases and makes the outbound calls the
script describes.  This directory holds TLA+ models of the engine, of the way a
request takes to it, of the scripts that ship with it, and of the state that
requests, workers and the two side services share; TLC runs over small
instances; and TLAPS proofs for all instances.  Paths below are relative to the
repository.

## 1. Inventory

| Component | State it keeps | Hard behaviour | What makes it correct | Modelled |
|---|---|---|---|---|
| Single-call executor `adapter/executor.py`, `ctxapi/plan.py` | per request: plan, last reply, poll counters | outcomes nobody knows, retries, timeouts | billed at most once; ends, and in time | yes |
| Transport `adapter/transport.py` | none | half-read, oversized, non-JSON bodies | a 4xx is the only proof that nothing ran | outcomes |
| Cascade `adapter/stages.py`, `budget.py` | per request: payload, `ctx.stage`, shared budget | one stage of several failing; a budget that runs out anywhere | right artefact to the right stage; honest result; bounded time | yes |
| Stage lists and channel headers `adapter/channel.py`, `stage_spec.py`, `modelmap.py` | none | headers that contradict each other or the script | an unusable header refuses the request before the script runs | yes, but for the url guard |
| Object storage `storage/fallback_store.py`, `ctxapi/storage.py`, `api/health.py` | per worker: `_parked_until` | interleaved uploads and probes, late failures, silence | parked on evidence only, reported rarely, stands down | put and ping |
| Asset cache and downloads `context.py` (`TTLCache`), `ctxapi/image_ref.py` | per worker: entries, byte total | two limits at once, four paths that adjust the total; the same url fetched twice | exact accounting, never stale, true LRU; bounded size and age | in-process form |
| Redis state and limiter `state_store.py`, `middleware/rate_limit.py` | Redis; per worker: backoff, in-memory copy, local counters | split state, INCR without EXPIRE, commands sent again, late answers | a known ceiling per window; nobody pays for others | yes |
| HTTP front `adapter/api/` | responses: the turns of a chain | four doors, loose items, a chain over workers | scripts get the canonical body; the chain is found | doors, `adapt()`, chain |
| Script supply `script_cache.py`, `sandbox.py`, `script_source.py`, `scriptstore/` | file texts by (mtime, size), compiled scripts by digest | edits between any two reads of one look-up | the text that runs existed during the look-up and was checked | yes, but for the AST scan |
| Fan-out `utils/fanout.py` | per call: semaphore | which failure is raised, what the siblings do | amounts to a loop | yes |
| Vendor scripts `script_store/` | module-level pockets | two phases of one request with others between them | the reply has the form that was asked for; nothing is left behind | references, refusals, carriers, pockets |
| Qwen script `script_store/qwen/images@v1.py` | per worker: sessions, blocks, chats; in Redis: sessions, the sign-in stamp | sign-ins, refreshes and cancellations against each other, two caches, restarts | one sign-in at a time; a token with its own jar or, if it came alone, none; one identity per request | keys `user\|password` |
| Identity and token services `tools/identity_service.py`, `tools/token_service.py` | pools of identities and tokens | takers against a refill thread, a browser that dies, sign-ins that fail | quota and turn; one mint per token; they recover | yes |
| Errors `adapter/errors.py` | none | - | codes the executor tells apart | codes |
| Storage backends, image tools, script capabilities, telemetry, process, probes | none across requests | - | - | no, section 7 |

How they interact: `api/pipeline.py` takes a request through its door, the
channel headers and the script supply, builds the context and calls either
`execute()` or `execute_staged()`.  Both are sequences of `_call_phase` (into
the script) and `_do_upstream` (onto the wire) on one `AdapterContext`, whose
plan the script fills by callback (`ctx.emit`).  A script may call
`ctx.upload_temp_image`, which goes to the worker's one `FallbackStore`, as the
health endpoint's probe does; `ctx.download_image`, which goes through the
worker's `TTLCache`, as `ctx.cache` does; and `ctx.fanout`.  The rate limiter
and the responses door share one `StateStore` per worker, over one Redis.  The
qwen script may draw on the identity service and the token service.  One worker
is one event loop: coroutines interleave at every `await`.  The two services
are threads.

## 2. Modules

| Module | Models | Variables and actions |
|---|---|---|
| `Engine` | `_call_phase`, `_do_upstream`, `_run_poll_loop`, `Budget` | `plan` is `ctx.plan` (auth headers present, `timeout`, `local_result`), `frame` the call site of the call on the wire, `tmo` its `ClientTimeout.total`, `upErr`/`raw` are `ctx.upstream_error`/`upstream_raw`, `attempts`/`deadline` the poll loop's locals; `sent` and `refused` are histories of generation calls |
| `SingleCall` | `execute()` | one action per phase, `OfferRetry` and `RetryRequestPhase` for the re-offer, the engine's call and poll actions in between |
| `Generation` | abstract: what a request promises about the generation it orders | submitted again only after an outright refusal; implemented by `SingleCall` (`ImplementsGeneration`) |
| `Cascade` | `execute_staged()`, `_run_stage()` | `stage` is `ctx.stage`, `last` is `last_artefact`, `input` the position whose artefact is the payload; `Degrade`, `Finish`, `DegradedPhase` leave the loop |
| `FallbackStore` | `FallbackStore.put/ping/_park/_unpark` under `upload_temp_image` and `_storage_ok` | per coroutine the store it awaits and what is left of its timeout; `PrimaryBecomes` is the environment |
| `TTLCache` | `TTLCache.get/set/aclose` | `entries` in LRU order with what is left of each TTL, `bytes` |
| `Downloads` (EXTENDS `TTLCache`) | `ctx.download_image` of several requests | `flight` is the url and clock of each download; `Ask`, the ends of a reply, and the scripts' own `get`/`set`; `asked` and `handed` are histories |
| `StateStore` | `StateStore.get/set/incr_window/ping` | `shared` and `turns` are Redis, `mem`, `retryAt` the workers'; a command takes effect in one step and answers in another |
| `WorkerFront` (EXTENDS `StateStore`) | the limiter and the responses door of several workers | `req` the coroutines, `buckets` is `_local_counters`; `Arrive`, `IncrApplied`, `IncrAnswers`, `IncrSentAgain`, `CountFails`, ..., `Restart`, `HealthProbe` |
| `FrontDoor` | the four doors, `_validate`, the replies, as operators | none |
| `Channel` | `parse_channel`, `resolve_stages`, the model map, as operators | none |
| `ScriptSupply` | `DirStore`, `Manifest`, `ChainStore`, `script_source.py`, `ScriptCache` | `files`, `stats` belong to an operator who edits; `known` is `DirStore._cache`, `compiled` the LRU, `look` the look-up between two system calls |
| `Ingress` (EXTENDS the three above) | `pipeline.adapt` up to the script | one action per step of `adapt()`, in its order |
| `Vendors` | the request and response phases of each script, and the conversions `ctx` offers them, as operators; of qwen the references, the pictures and `_REQUESTS` | none |
| `Exchange` (EXTENDS `Vendors`) | requests of one channel between phases, with the module-level pocket and `fanout` | `pocket` is `_STATE`, `slot` the requests in flight; `JobEnds`/`JobRaises` are the jobs of a fan-out in any order |
| `QwenAccounts` | the phases of the qwen script, `_ensure_signin` between its awaits | `l1`, `blocked`, `books` are its module dictionaries per worker, `l2`, `pace` are keys of `ctx.cache`, `minted` the vendor's tokens |
| `IdentityService` | `Pool`, the refill thread, `main()` | `pool`, `refill`, `browser`, `main` |
| `TokenService` | `TokenPool`, a thread for each request | `tokens`, `locks`, `thread` |
| `QwenServices` (EXTENDS both) | the two services and the script as their caller | `call` is whom each request waits for |
| `*_proofs` | the theorems of section 6 | |
| `MC*` | small instances | |

`SingleCall` and `Cascade` EXTEND `Engine` and share its actions: what is a
generation call, a refusal or a poll is written once, as in the code.

Time.  `Engine` counts whole units since the request began; a step that awaits
moves the clock by what it waited (from 0 to its cap).  `FallbackStore`,
`TTLCache` and `Downloads` keep what is left of each deadline, so their clocks
need no bound.  `StateStore`, `QwenAccounts` and the services have a clock that
stops at `Horizon`.

What is abstracted:

- To the engine, scripts may emit any member of `Emits`, return any body, raise
  any error and take any time up to `ScriptTimeout`; what the shipped scripts do
  is the matter of `Exchange` and `QwenAccounts`.  Bodies are compared only for
  equality, artefacts are `none`, `json` or `handoff` (another value).  An
  upstream answers, refuses, fails or stays silent.  What a phase emitted before
  it raised is left out: no call is ever made from that plan.
- Headers are absent, a value or malformed; a text stands for its digest; one
  script, whose refs are versions and aliases.
- In `Vendors` a channel's configuration is its mode and the one thing `wrong`
  with it (no model, path, key or operation); sizes are units, a size or a
  magnification that does not parse is a failed job; the items of one answer are
  of one kind, the text beside google's pictures apart.
- Of sign-ins only who owns the token, which session's jar it came with, if any, and when
  it ends; the dialogue of one sign-in is one outcome.  A token comes without a jar from
  the token service (option `token_url`, which each request has or has not: `delegated`),
  from an answer other than 200 that carries a token all the same
  (`images@v1.py:857-878`), or out of a document written before jars were captured.
- A script file is readable, locked (its stat succeeds, its read does not), hidden (its
  stat fails), a link out of its root, or missing.
- A download's chunked body is one step: it touches nothing that is shared.  An
  empty cached value is falsy in the code and is fetched again; so it is here.

Assumed and not checked: a phase awaits, so that `asyncio.wait_for` can cut it (a
synchronous `transform` runs to its end and has no cap in the code); reading the
clock and a step without `await` take no time, except that `MaxGap` units may
pass between the two reads of the budget around `build_request`; an edit of a
script file leaves an (mtime, size) that no file had before, and the two layouts of one
version that are there from the start differ in theirs: the text cache compares these two
numbers only, under a key that names neither the layout nor the file.

## 3. Runs

| Run | Instance | What it shows |
|---|---|---|
| `single_call` | all combinations of auth, job channel and poll phases; 2 bodies; emitted timeouts and local results; 3 polls | billed at most once, implements `Generation`, ends in time |
| `cascade` | 3 plain stages; 2 job stages; 2 stages behind auth; fallback at various positions; budgets 2 to 4 | budget, artefact chain, degraded and complete results, termination |
| `fallback_store` | 2 uploads, 1 probe, cooldown 3, timeouts 2 and 1 | the park and its reports under every interleaving; uploads return |
| `ttl_cache` | 2 downloads at a time of one url, 2 keys of the scripts; 2 entries, 3 bytes; values empty, small, page, huge and giant of sizes 0, 1, 3, 4, 5; `MaxAsset` 4 | accounting, limits, no stale value, eviction order; what a request is given is no larger than the cap and no older than the TTL and one timeout |
| `worker_front` | 2 workers, 3 requests of 2 callers, limit 1, windows and TTLs of 1, 1 fault, 1 command sent again, local table of 1 key | how often a caller gets through a window and why; who is turned away; that a chain is found |
| `ingress` | 2 requests, conversations of up to 3 messages, all forms of two fields, image bodies, bodies that arrive in 4 ways, 15 sets of headers, 2 roots, 3 texts, 2 edits (write, remove, link, lock, hide) | what the script is given, and which text runs |
| `vendors` | 12 channels of 8 scripts, 2 slots, width 2, 2 requests (google 4), answers of up to 2 items | the form of the reply, the pockets, the fan-out |
| `qwen_accounts` | 2 workers, 2 accounts, 2 requests on one worker or of one account, one of them with `token_url` or neither, cold starts and warm ones with and without a jar, 2 tokens, 1 fault (a restart or a refused call) | who signs in, which session a call carries, what is drawn from the identity pool, whose chat is read |
| `qwen_services` | 2 callers, 1 account and an unknown one, pool of 2, quota 2, 1 fault | one mint, turn and quota, the services go on |
| `cascade_auth`, `hung_primary`, `empty_last_turn` | the same instances | a disagreement each, section 4 |

A type invariant is stated once in each module.  Where a larger invariant needs
it, it is its first conjunct: in `AdmittedWithinCounters`, `PocketCleared`, `SessionsAreWhole`,
`ScriptsGetCanonical`, `MintedOnce` and `BytesAreAccounted`.

Every property of a passing run has a mutant of a modelled definition in
`PROJECT.json` that breaks it.

Bounds, and why they are enough:

- Timeouts of 1 to 4 units: every cap can be hit and every call can time out or
  answer first; `PollTimeout`, `PollInterval` and `PollMaxAttempts` let either the
  deadline or the attempts end a job.  `MaxEmitTimeout` bounds what a script
  emits and is longer than the defaults, so that an emission matters.
- `MaxGap` = 1 lets the budget run out between its two reads, which makes the cap
  0.  `Horizon` bounds how late an answer arrives to a call without a timer; that
  such a call may also never be answered is a behaviour of the model too.
- Three stages give a skipped, a kept and a given-up one in any order.
- Two uploads and a probe are enough for a late failure after a recovery, and for
  failures that arrive together.  The default relation of the timeouts (probe
  below upload below cooldown) is kept.
- Three keys for two entries, and values that hit either limit first, the cap of
  an asset, and neither.
- `worker_front`: three requests make one more than both a limit of 1 and a
  counter that is started anew; `Horizon` 1 holds two windows; `MaxFaults` counts
  failed commands and restarts together, `MaxResends` what the client library
  sends again.
- `ingress`: three messages are a turn before, the last turn and what follows it;
  `MaxEdits` 2 takes a file away and puts one elsewhere during one look-up.
  `MaxBody` 2 is kept and exceeded, by the length declared and by the chunks.
  Edits happen only while a look-up or a run goes on: between requests an edit
  reaches the next look-up as its initial files do.
- `vendors`: `PocketMax` 2 and four requests of google make the pocket overflow;
  two slots let another request come between the phases of one.
- `qwen_accounts`: `Lifetime` 2, `Margin` 1 and `Horizon` 1 let a token be good,
  due and, after a refusal, gone; `MaxTokens` bounds what the vendor issues and
  `MaxFaults` counts restarts and refused calls.  Which channels have `token_url`, and
  whether the first token has a jar, matters to requests that share an account; where
  they do not, neither is varied.
- `qwen_services`: `Ttl` 1 and `Horizon` 1 let identities and tokens expire;
  `MaxFaults` counts deaths of the browser, stops and kills.

No state constraint is needed: the state graphs are finite because requests end or
wait, clocks stop at a bound or stand still, and the counters above are guarded.

Fairness.  The event loop goes on with a coroutine that can go on and fires due
timers: weak fairness of the request's step while it is not on the wire, of
`CallTimesOut`, of `Tick` and of each timer in `FallbackStore`.  No fairness on the
upstream, the stores, their recovery or the callers.  So `EveryRequestEnds` rests
on the engine's own timers alone, `EveryCascadeEnds` excludes only a call that runs
without a timer, and `SecondaryStandsDown` supposes a primary that is up for good.
In `QwenServices` threads are scheduled and each call they make has a timeout:
weak fairness of each thread.  That a pool fills up again also needs a browser that
starts and a page that gives an identity if they are tried again and again: strong
fairness of those two, an assumption about the world and not about the code.

`CHECK_DEADLOCK` is off in `qwen_services` only, whose services may stand idle once
their callers are served; elsewhere a system that ended stutters by `Finished`.

## 4. Findings

Where the code does not do what a comment or docstring says of it, with a run whose trace
shows it.

1. `AuthOnEveryCall`: `stages.py:212-214` says the auth headers survive each stage's
  plan reset.  They are emitted just before `_run_stage` resets the plan, so no call
  of a cascade carries them.
2. `SlowPrimaryIsParked`: the negative cache is to make a bad primary cost one wait
  per cooldown (`fallback_store.py:12-13`).  A silent one ends in a
  `CancelledError`, which `except Exception` does not catch; nothing is parked and
  each upload waits out its timeout.
3. `TruncatesLikeChat`: `frontdoor.py:272` says that the responses door truncates history
  to the last user turn "exactly as on the chat door".  A turn is banked only if it
  carries anything (298-305) and the last one banked is taken (374), so where the last
  user message is empty an earlier turn goes to the script; the chat door takes the
  empty message, which the validator refuses.  `FoldsLastTurn` says what each door
  does take.

## 5. What the models say besides

Behaviour met while modelling, which the modules reproduce or leave out and no run
is about.  The first four are disagreements as well, and the models reproduce them.

Local results.  `ctxapi/plan.py:79-80` promises that no upstream call is made once
`local_result` is set.  `execute()` looks at it only after the first request phase
(`executor.py:358`); emitted in the second one, or while polling, it is ignored.

Response phases.  `stages.py:165` lets one "emit for the next stage".  The next stage
resets the plan before anything else (124), as the comment there wants.

Files out of reach.  `scriptstore/base.py:10-12` wants only a missing file to fall
through to the next root.  A `stat` that fails on a file that is there counts as a
missing file (`dirstore.py:95-98`).  `FallsBackOnlyWhenUnseen` states what does hold: a
file that could be looked at throughout is never passed over, whether it can be read
or not.

Tokens without jars.  `script_store/qwen/images@v1.py:889-890` calls jar and token one
set, and says that a failed sign-in writes an empty jar because its token is void.  The
token is taken before the status is looked at (859) and the jar is put together for
a 200 only (860-873), so an answer with another status and a token leaves a token that
is kept and used with an empty jar (878-892), in the operator's cookies (1009-1022).
`SessionsAreWhole` states what does hold: a token that came with a jar always goes
with it, one that came alone never gets the jar of another session.

State and limiter.  `rate_limit.py:1` says sliding window, the code counts fixed
ones, so twice the limit passes around a boundary.  `get`, `set` and `incr_window` have no
timeout of their own against a Redis that hangs, which the docstring at
`state_store.py:134-138` suggests.  `_mem` is never evicted.  An INCR whose EXPIRE
fails leaves its key in Redis for ever; its window is part of the key.  So
`AdmittedWithinCounters` states the ceiling that does hold: the limit for each counter
that was ever started.

Doors.  `image` and `image[]` in one form: the later one
wins (`image_edits.py:136`).  Only the first pair of `X-Stage-Timeout` is read, and
`X-Stage-Urls` without `X-Stages` is not looked at.  A header may put a fallback
stage first.

Scripts.  An edit that restores mtime and size is not seen (`dirstore.py:104-115`), nor is a
change from `name@v.py` to `name/v.py` with both the same, since the cache key is the
ref alone.  The stamp is read before the text (112), so a text may be kept under the
stamp of the one before it until the next stat.  A file that is locked after its text was
cached is still served, and a link that is put there between the stat and the read is
followed out of the root.  A text that leaves the compiled LRU and comes back starts
with an empty module: pockets, sessions and blocks are gone.

Proxy and url guard, both unmodelled.  The docstring of `check_proxy_url` says an empty
list refuses every value; an empty list means any host.  `ProxiedHttp.__repr__`
reads `plan.hosts`, which does not exist (`proxy_http.py:46`).

Executor, unmodelled.  The re-offer compares the two bodies only, so a repair of
headers or url alone is not sent (`executor.py:401`).  `X-Async` with a script
without poll phases is found out after the generation was paid for (418).

Vendors.  Pockets are emptied in the response phase, so a failed request leaves its
format behind (openai, fal, tencent_hunyuan, senseaudio, tencent_ci; fal's docstring
at 122-124 says otherwise); `PocketCleared` speaks of answered requests.  Google's
trim may drop the format of a request that is still in flight.  Senseaudio turns a
data URI into a link where there is storage, also for `b64_json` (docstring 97-98).
Google and ark host their references anew under fresh names, so the body of the
second request phase always differs and any 4xx buys a second call.

Qwen.  L1 and L2 are keyed by the account alone, so the token that a channel with
`token_url` fetched, which has no jar, is used by the account's channels without that
option too.  The read-back of a chat uses whatever token L1 holds by then, which may be
a later one of the account than the call went out with, or none.  The pace between
sign-ins of different accounts is read (789-796) and written later (893-896).  The
longer cooldown after a wall is the TTL of the document in Redis only, while the gate
always waits `_SIGNIN_RETRY_COOLDOWN` (768-770).  A forced renewal skips the cooldown
(2043-2047) and may adopt again from Redis the token that was just refused.  The chat of
a generation that failed is never removed (1540-1547).  A WAF hold of 600 s is
overwritten by one of 120 s (359-361).  A request whose auth phase found a sign-in under
way and fetched a guest identity may send it beside the account's token in the request
phase, against the comment at 2020-2023.

Services.  A pool of one identity hands it out twice in a row even if another was
stocked right after; `SpentInTurn` states what does hold.  Only a `MintError` is
answered 503, other exceptions drop the connection.  `minter.close()` is called by the
main thread, which the docstring reserves to the refill thread, and after a join of
5 s a mint may still run.  A launch that fails after the driver started leaves it,
and the next attempt starts a second one.  Requests that waited for a sign-in that
failed try one after another without a pause.  A token cannot be invalidated before its TTL,
so a forced renewal through `token_url` is given the refused token again.

## 6. Proofs

All for any value of the constants that satisfies the modules' ASSUMEs: types, positive
timeouts and TTLs as the settings have them, and what the code fixes.  Of the latter
kind are that google's cap is at least 2 (`_STATE_MAX` is 512; with 1 the trim would
drop nothing), that a body asks for `url`, `b64_json` or nothing (`images.py:102`),
that `stable` is an alias and no version, that the mark of a free lock is no caller,
that a body has the fields of a canonical one and only qwen has the mode `first`,
that a form or a conversation has the fields its door reads, with strings for texts
and references (`Sendable`), and that script files are there with distinct stats at
the start (section 2).  The
bounds of section 3 are constants too, so the theorems hold for
every value of them.

| Module | Theorems | Inductive invariant and argument |
|---|---|---|
| `SingleCall_proofs` | `Typing`, `Billed`, `Implements`, `Timely` | `BillingInv`: at each location, how many calls went out and how many were refused. `BilledAtMostOnce` alone is not inductive: it does not say that a call about to be sent has only refusals behind it. `TimeInv`: at each location, the latest clock value, summed along the code; from it both the poll deadline and the bound on the whole request. `Implements` maps each action to a step or a stutter of `Generation`, using `BillingInv` |
| `Cascade_proofs` | `CascadeTyping`, `Chained`, `DegradedKeeps`, `Complete`, `Budgeting` | `ChainInv`: one call at most per stage (`StageLedger`), and while a stage is open nothing at or after it has run, `last` being what `input` left (`ChainLedger`). `BudgetInv`: how late each location is reached, counted in phases after the latest moment a call can end (`Slots`); every call starts the account again, since none starts once the budget is over, and the account of a position is no larger than that of a later one (`SlotsGrow`) |
| `QwenAccounts_proofs` | `TypeCorrect`, `OneSignInAtATime`, `SessionsStayWhole`, `OneDrawPerRequest`, `RecoversOwnChat` | `AccountsInv`: the slot of an account is taken exactly while one coroutine is between taking and leaving it (`SlotFits`; `SingleFlight` alone does not say that a free slot means nobody signs in); a document, wherever it is on its way, holds one account's token with the jar of the same sign-in, or with none if the token came alone (`Whole`; `minted` remembers which), and the stamp for the pace holds no token, or a coroutine that has just stored it would carry it on; a request has drawn once only where its fingerprint is there for good (`Drawn`), and its booked chat is that of its latest call (`BookFits`; of the account that the chat is read under it says nothing). A step moves one coroutine and one entry of a worker, so each action is shown to leave a pair that fits |
| `WorkerFront_proofs` | `CallersStayWithinCounters`, `NobodyPaysForOthers`, `TurnsAreFound` | `FrontInv`: a balance of places for each key (`Balance`): a counter that is started, in Redis or in a worker, brings `Limit` places, each of which is free, asked for by a request that has its count but no decision, or taken; INCR, its resends, failures, takeovers by the local table and restarts move places or lose them, never make one. The converse account (`OwnCounts`) keeps every counter behind the requests of its key; and while nothing failed every stored turn is in Redis (`Chained`) |
| `Ingress_proofs`, the doors | `BodiesAreCanonical`, `LastTurnIsFolded` | `RequestFits`: a body that is past its door is `Ready`, and `InputJudged`: it is the fold of what was sent, judged. What a fold amounts to is carried from one item to the next. On the Chat door (`ChatFits`): what was read is what the instructions so far and the latest user message say and show. On the Responses door (`InputFits`): of the turn at hand, all of it so far, and, should it stay silent, the banked turn is the latest that carried anything (`TurnFits`, `IsLatest`). What `FoldsLastTurn` says differs by door: the latest user message on Chat, the latest turn that carries anything on Responses (finding 3). It speaks of a conversation that was read to its end; of the middle of one it needs the second half: a turn that carries nothing must not push out the one before. Turns are numbered by how many messages begin or end one, and the number grows there only (`TurnsGrow`) |
| `Ingress_proofs`, the supply | `TextsAreCurrent`, `OverlaysComeFirst`, `ChecksHoldAtRun` | `IngressInv`: a stat that a file ever had is not had again by another text of that file or by its sibling layout (`FilesFit`), so whatever is kept under a stat, in the text cache (`EntryFits`) or by a look-up between stat and read (`ReadFits`), is out of date for good or the text of the one file with that stat; what was passed over had, at some moment since the look-up began, no file or one whose stat failed (`PassedOver`), and what is compiled is the text its key stands for (`CompiledFit`) |
| `Exchange_proofs` | `NothingLeftBehind`, `OwnCarrier`, `CallsServeLikeALoop`, `EarliestFailure` | `ExchangeInv`: the pocket is a dict (no id twice), and between its phases a request finds there the format it asked for itself, then it has it and the pocket has no more of it (`SlotFits`); a step under one id leaves what the pocket has for the others. The ids in use fit (`IdsFit`): no two requests in flight share a minted id, and where the shared id is in use the request that took it left its own to nobody, so the pocket holds no more entries than requests were begun, and google trims nothing before the cap of them. Jobs that run one by one end in order (`JobsFit`), which `FailsLikeALoop` alone does not say and needs: their fan-out is cut at the first failure. `ServedInv`: the body of a slot was accepted by its script, ark's jobs go with its references one for one, and a call that was made is what a loop makes (`LikeALoop`). For google that loop is a meter (`MeterFits`): after each reference, what is inlined and what is left together are the allowance, and nothing is left below zero |
| `SharedState_proofs`, the cache | `BytesAreCounted`, `LimitsHold`, `ValuesAreCurrent`, `OldestGoFirst` | `CacheInv`: the entries are in the order of their keys' last use, each key once and with its latest value (`Sound`), and `bytes` is their size. `EvictsLeastRecent` compares a step with the history of uses; only that order ties the front of the list to it. That each operation adjusts `bytes` by the right amount rests on lemmas about the sums of a list whose entries are appended, taken out or given up from the front (`BytesAppend`, `BytesRemoved`, `BytesOfRest`) |
| `SharedState_proofs`, the downloads | `DownloadsAreFresh`, `DownloadsUseTheCache` | `DownloadInv`: the above, and of each entry of a url that its size is below the cap and that its age and what is left of its TTL are together at most the TTL and one timeout: an image is as old as its download took when it is stored, and grows old as its TTL runs out. The second theorem is a refinement: every step of a download is one operation of the cache or none |
| `SharedState_proofs`, the services | `TokensAreMintedOnce`, `IdentitiesAreSpentInTurn` | `PoolInv`: no identity twice, and whoever an identity has to wait for stands before it (`Queued`), which `take` keeps as it sends the first to the back. `TokensInv`: a thread that signs in holds the lock of its account, and that account has no fresh token: true when it looks under the lock, and nobody else can mint until it leaves |
| `SharedState_proofs`, the store | `StoreTyping`, `ParkIsJustified`, `ReportsAreRare` | `StoreInv`: the park is what is left of the cooldown of the latest failure, and it covers what is left of a cooldown after the latest report; so a park that ran out means a report at least a cooldown old, which `NoReportStorm` alone does not say |
| `Engine_proofs` | lemmas only | types of the engine's primitives, shared by the first two |

Recursion.  What the theorems speak of is written with recursive functions over an
interval and not with RECURSIVE operators, `SelectSeq` or folds, of whose values the
provers know nothing.  Nor can they use the induction rules of the library, whose
hypothesis is an operator; but the set of the numbers that an assertion holds of
will do in place of one, since a set of numbers that is not empty has a least one
(`LeastNumber`, from `NatLessThanWellFounded` and `WFMin`).  `Steps` is that induction.  It
yields that the function exists and what each of its values is (`Recursion`): `Sums` of
the cache, `Picked` of the pool, what google's `Metered` inlines, and in `FrontDoor`
what is strung together (`UpTo`) and what each door has read so far.  A function
that is defined by recursion is a CHOOSE: that some function satisfies its equation has
to be shown before anything is known of it.  Of what google fetches (`Fetched`) and of
the sum of a body's chunks no theorem needs the value.  In `Ingress` manifests are
followed by a function over `0..MaxAliasDepth` of whose values only the last is used,
and only through `Resolve`, which checks it.

What is only model-checked: the liveness properties (`EveryRequestEnds`,
`EveryCascadeEnds`, `UploadsReturn`, `SecondaryStandsDown`, `ServicesCarryOn`), since
fairness and ENABLED are beyond the prover.  Every other property of the passing runs is
a theorem.

## 7. Not modelled

- Storage backends: SDK and HTTP calls; `FallbackStore` models what they may do.
- Image tools and script capabilities: conversions of pixels and bytes, pure helpers.
- The url guard and CORS: functions of one request, without state.  Of the proxy
  plan and the auth template, where they come from and when they are refused, not
  how a call is sent through them.
- The AST scan of the sandbox: which texts pass it is a constant of `Ingress`.
- Which cache failure is told to the script: `ctx.cache` over Redis appears in
  `QwenAccounts` as a cache that answers or (`FlakyCache`) does not.
- Keys of the qwen script other than `user|password` (tokens, jars, guests), its
  chat mode option, tokens whose expiry cannot be read, sizes, and signatures.  Its
  stream is what its frames amount to: an error, pictures, neither, or no end.
- Request ids that the control plane repeats, in the qwen script: `books` is kept by
  request, so two requests under one id would not share an entry as they do in
  `_REQUESTS`.  `Exchange` has such ids for the pockets of the other scripts.
- The raw bytes of replies (`executor.py:228`); a NaN budget (`stage_spec.py:121`).
- Telemetry, rendering of errors, start-up and shutdown of the adapter, probes and
  smoke tools.

## 8. Plan

In `Cascade`: `upstream_raw` across polls and stages.
