----------------------------- MODULE SingleCall -----------------------------
(***************************************************************************)
(* execute() of adapter/executor.py: auth, request, one generation call    *)
(* with at most one re-offer after a 4xx, the poll loop of a job, response.*)
(* One request, whose configuration is chosen in the initial state.        *)
(***************************************************************************)
EXTENDS Engine

\* execute() is called without a budget.
ASSUME SingleAssumption == \A c \in Configs : c.total = 0

vars == engineVars

Terminal == {"done", "failed"}

Init ==
  /\ EngineInit
  /\ cfg \in Configs
  /\ pc = IF cfg.auth THEN "auth" ELSE "request"

-----------------------------------------------------------------------------
\* The headers the auth phase returns go into the plan of the request phase;
\* an auth phase that returns no dict emits nothing.
AuthPhase ==
  /\ pc = "auth"
  /\ \/ /\ \E d \in 0..ScriptTimeout : PhaseTakes(d)
        /\ \E dict \in BOOLEAN : plan' = [plan EXCEPT !.auth = dict]
        /\ pc' = "request"
        /\ UNCHANGED <<cfg, callVars, upErr, pollVars, error>>
     \/ PhaseRaises

\* The first request phase: a local result stands in for the call, unless the
\* channel is a job channel.
RequestPhase ==
  /\ pc = "request"
  /\ \/ /\ \E d \in 0..ScriptTimeout : PhaseTakes(d)
        /\ body' \in Bodies
        /\ plan' \in Emitted(plan)
        /\ \/ /\ ~plan'.local
              /\ pc' = "send"
              /\ UNCHANGED <<reply, error>>
           \/ /\ plan'.local /\ ~cfg.async
              /\ pc' = "got"
              /\ reply' = "local"
              /\ UNCHANGED error
           \/ /\ plan'.local /\ cfg.async
              /\ Raise("config")
              /\ UNCHANGED reply
        /\ UNCHANGED <<cfg, frame, tmo, raw, sent, refused, upErr, pollVars>>
     \/ PhaseRaises

\* Only the first generation call has a handler, and only a 4xx enters it.
RefusedOrUnknown ==
  pc = "raise" /\ frame = "first" /\ error \in {"http_4xx"} \cup UnknownOutcomes
RefusedAgain == pc = "raise" /\ frame \in {"first", "retry"} /\ error = "http_4xx"
Refused == pc = "raise" /\ frame = "first" /\ error = "http_4xx"

OfferRetry ==
  /\ Refused
  /\ upErr' = TRUE
  /\ ResetPlan
  /\ pc' = "rerequest"
  /\ UNCHANGED <<cfg, clock, callVars, pollVars, error>>

\* The second request phase: an unchanged body re-raises the refusal.
RetryRequestPhase ==
  /\ pc = "rerequest"
  /\ frame' = "retry"
  /\ \/ /\ \E d \in 0..ScriptTimeout : PhaseTakes(d)
        /\ plan' \in Emitted(plan)
        /\ body' \in Bodies
        /\ IF body' = body THEN Raise("http_4xx")
                           ELSE pc' = "send" /\ error' = "none"
        /\ UNCHANGED <<cfg, tmo, reply, raw, sent, refused, upErr, pollVars>>
     \/ \E e \in PhaseErrors, d \in 0..ScriptTimeout :
        /\ PhaseTakes(d)
        /\ Raise(e)
        /\ UNCHANGED <<cfg, plan, body, tmo, reply, raw, sent, refused, upErr, pollVars>>

\* The response phase must return an object or an array.
ResponsePhase ==
  /\ pc = "respond"
  /\ \E d \in 0..ScriptTimeout, e \in PhaseErrors \cup {"none"} :
       /\ PhaseTakes(d)
       /\ IF e = "none" THEN pc' = "done" /\ UNCHANGED error ELSE Raise(e)
  /\ ResetPlan
  /\ UNCHANGED <<cfg, callVars, upErr, pollVars>>

Fail ==
  /\ pc = "raise"
  /\ ~Refused
  /\ pc' = "failed"
  /\ UNCHANGED <<cfg, clock, plan, callVars, upErr, pollVars, error>>

Finished == pc \in Terminal /\ UNCHANGED vars

Step ==
  \/ AuthPhase
  \/ RequestPhase
  \/ CallInTime            \* execute() has no budget to run out of
  \/ OfferRetry
  \/ RetryRequestPhase
  \/ PollLoop
  \/ ResponsePhase
  \/ Fail

Next == Step \/ Finished

\* The event loop runs a coroutine that can go on, and fires the timer of a
\* bounded call; nothing makes the upstream answer.
Fairness == WF_vars((pc # "wire" /\ Step) \/ CallTimesOut)

Spec == Init /\ [][Next]_vars /\ Fairness

-----------------------------------------------------------------------------
Locations ==
  {"auth", "request", "send", "wire", "got", "poll", "pollreq", "verdict",
   "rerequest", "respond", "raise"} \cup Terminal

\* Every variable stays in its type: the configuration, the engine's state and
\* the location of the coroutine.
TypeOK ==
  /\ cfg \in Configs
  /\ pc \in Locations
  /\ EngineTypeOK

\* "re-sending on an unknown outcome is how one request gets billed twice":
\* every generation call but one was refused outright, so at most one call of a
\* request can have been billed, whatever phases, errors and polls surround it.
AtMostOneBilled == refused <= sent /\ sent <= refused + 1 /\ sent <= 2

\* A request that is answered had one call accepted, unless the script made the
\* artefact itself, in which case nothing was ever sent.
AnsweredMeansOneAccepted ==
  pc = "done" => IF reply = "local" THEN sent = 0 ELSE sent = refused + 1

\* Polling starts only on a job that a generation call created.
PollsOnlyRealJobs ==
  pc \in {"poll", "pollreq", "verdict"} => sent = refused + 1 /\ reply # "local"

\* What a request may cost: the three together.
BilledAtMostOnce == AtMostOneBilled /\ AnsweredMeansOneAccepted /\ PollsOnlyRealJobs

\* A status check goes out no later than the deadline plus the sleep and the
\* phase that precede it, and never more often than poll_max_attempts allows.
PollsStopAtDeadline ==
  (pc = "wire" /\ frame = "poll") =>
     /\ attempts <= PollMaxAttempts
     /\ clock < deadline + PollInterval + ScriptTimeout + MaxGap

\* Script timeouts, call timeouts and the poll deadline bound the request as a
\* whole: auth, two request phases and the response phase, two generation
\* calls, and a poll loop that can overrun its deadline by one round only.
Longest(t) == IF t < MaxEmitTimeout THEN MaxEmitTimeout ELSE t
PollOverrun == PollInterval + MaxGap + Longest(PollRequestTimeout) + 2 * ScriptTimeout
RequestBound ==
  4 * ScriptTimeout + 2 * (MaxGap + Longest(UpstreamTimeout)) + PollTimeout + PollOverrun
BoundedDuration == clock <= RequestBound

\* How long a request may take: the two together.
BoundedInTime == PollsStopAtDeadline /\ BoundedDuration

\* Every request ends in an answer or an error: no call, retry or job keeps it.
EveryRequestEnds == <>(pc \in Terminal)

-----------------------------------------------------------------------------
(* The billing contract this request keeps: see Generation. *)

BillingStatus ==
  IF pc \in Terminal THEN "closed"
  ELSE IF pc = "wire" /\ frame # "poll" THEN "inflight"
  ELSE IF sent = 0 THEN "idle"
  ELSE IF refused = sent THEN "refused"
  ELSE "settled"

Billing ==
  INSTANCE Generation WITH status <- BillingStatus, submitted <- sent,
                           MaxSubmissions <- 2

\* The request implements the contract: no step of it submits a generation
\* whose predecessor may have been executed.
ImplementsGeneration == Billing!Spec
=============================================================================
