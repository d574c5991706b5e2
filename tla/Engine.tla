------------------------------- MODULE Engine -------------------------------
(***************************************************************************)
(* The primitives of adapter/executor.py that every adapted request is     *)
(* made of: one script phase (_call_phase), one outbound call              *)
(* (_do_upstream) and one job's poll loop (_run_poll_loop), on one request *)
(* context.  SingleCall and Cascade EXTEND this module and sequence the    *)
(* primitives the way execute() and execute_staged() do.                   *)
(*                                                                         *)
(* Time is counted in whole units from the start of the request.  A step   *)
(* that awaits something moves `clock` by the time it waited.  A local of  *)
(* a primitive goes back to 0 when the primitive returns.                  *)
(***************************************************************************)
EXTENDS Naturals

CONSTANTS
  ScriptTimeout,       \* settings.script_timeout: cap on one awaited phase
  UpstreamTimeout,     \* settings.upstream_timeout: one generation call
  PollRequestTimeout,  \* settings.poll_request_timeout: one status check
  PollInterval,        \* X-Async interval: sleep before each status check
  PollTimeout,         \* X-Async timeout: all polls of one job
  PollMaxAttempts,     \* settings.poll_max_attempts
  Emits,               \* what scripts pass to ctx.emit in one phase
  Bodies,              \* the request bodies a request phase can return
  Configs,             \* what channels and scripts declare
  MaxEmitTimeout,      \* bound: the longest timeout a script emits
  MaxGap,              \* bound: time build_request takes between two clock reads
  Horizon              \* bound: how late an answer to an unbounded call arrives

\* An emission: a timeout (0: none given) and whether local_result is given.
Emission == [timeout : Nat, local : BOOLEAN]

\* `polls`: both poll phases are declared; `total` = 0: the call has no budget.
Config == [auth : BOOLEAN, async : BOOLEAN, polls : BOOLEAN, total : Nat]

ASSUME EngineAssumption ==
  /\ ScriptTimeout \in Nat /\ UpstreamTimeout \in Nat \ {0}
  /\ PollRequestTimeout \in Nat \ {0} /\ PollInterval \in Nat
  /\ PollTimeout \in Nat /\ PollMaxAttempts \in Nat
  /\ Emits \subseteq Emission /\ Configs \subseteq Config
  /\ MaxEmitTimeout \in Nat /\ \A e \in Emits : e.timeout <= MaxEmitTimeout
  /\ MaxGap \in Nat /\ Horizon \in Nat
  /\ Bodies # {}

VARIABLES
  cfg,       \* what channel and script declare; chosen once
  clock,     \* time since the request (and its budget) started
  pc,        \* where the coroutine stands
  plan,      \* ctx.plan, the overrides the script emitted
  body,      \* what the last request phase returned
  frame,     \* which call site the outbound call belongs to
  tmo,       \* ClientTimeout(total=...) of the call on the wire; 0 disables it
  reply,     \* kind of the last UpstreamReply
  raw,       \* ctx.upstream_raw is set
  upErr,     \* ctx.upstream_error is set
  attempts,  \* status checks of the poll loop
  deadline,  \* clock value at which the poll loop gives up
  error,     \* code of the exception being raised
  sent,      \* history: generation calls put on the wire (this stage)
  refused    \* history: generation calls answered with a 4xx (this stage)

callVars == <<body, frame, tmo, reply, raw, sent, refused>>
pollVars == <<attempts, deadline>>
engineVars == <<cfg, clock, pc, plan, callVars, upErr, pollVars, error>>

-----------------------------------------------------------------------------
(* Values. *)

Plan == [auth : BOOLEAN, timeout : Nat, local : BOOLEAN]
NegativePlan == [auth |-> FALSE, timeout |-> 0 - 1, local |-> FALSE]
EmptyPlan == [auth |-> FALSE, timeout |-> 0, local |-> FALSE]

Frames == {"first", "retry", "poll"}
Replies == {"none", "json", "bytes", "local"}
UnknownOutcomes == {"upstream_unreachable", "upstream_body_too_large", "http_5xx"}
PhaseErrors == {"script_timeout", "script_runtime_error", "script_reported"}
TimeoutErrors == {"upstream_timeout", "stage_timeout", "pipeline_budget_exceeded", "poll_timeout"}
Errors ==
  {"none", "http_4xx", "job_failed", "config", "internal"}
    \cup UnknownOutcomes \cup PhaseErrors \cup TimeoutErrors

-----------------------------------------------------------------------------
(* Budget: what is left of it, at clock value t. *)

Budgeted == cfg.total > 0
Unfloored(t) == cfg.total - t
Remaining(t) == IF t < cfg.total THEN cfg.total - t ELSE 0
Exhausted(t) == Budgeted /\ Remaining(t) = 0
Uncapped(timeout, t) == timeout
Cap(timeout, t) ==
  IF Budgeted /\ Remaining(t) < timeout THEN Remaining(t) ELSE timeout

\* Python's `a or b or c` over numbers.
FirstTruthy(a, b) == IF a # 0 THEN a ELSE b

-----------------------------------------------------------------------------
(* One phase.  An awaited phase ends within ScriptTimeout or is cut there;  *)
(* a TimeoutError of the script's own is reported like the cut.  What a     *)
(* phase emitted before it raised stays out: no call is made of such a plan. *)

Raise(e) == pc' = "raise" /\ error' = e

PhaseTakes(d) == d \in 0..ScriptTimeout /\ clock' = clock + d

PhaseRaises ==
  \E e \in PhaseErrors, d \in 0..ScriptTimeout :
    /\ clock' = clock + d
    /\ Raise(e)
    /\ UNCHANGED <<cfg, plan, callVars, upErr, pollVars>>

ResetPlan == plan' = EmptyPlan

\* What a phase may add to plan p through ctx.emit.
Emitted(p) ==
  {[p EXCEPT !.timeout = IF e.timeout = 0 THEN @ ELSE e.timeout,
             !.local = @ \/ e.local] : e \in Emits}

-----------------------------------------------------------------------------
(* One outbound call: _do_upstream. *)

CallRefusedByBudget ==
  /\ pc = "send"
  /\ Exhausted(clock)
  /\ Raise("pipeline_budget_exceeded")
  /\ UNCHANGED <<cfg, clock, plan, callVars, upErr, pollVars>>

\* build_request, or aiohttp encoding what a script emitted, can raise anything:
\* no handler turns that into an AdapterError.
AssemblyFails ==
  /\ pc = "send"
  /\ ~Exhausted(clock)
  /\ Raise("internal")
  /\ UNCHANGED <<cfg, clock, plan, callVars, upErr, pollVars>>

\* The budget is read twice: `exhausted` at `clock`, `cap` g later, once the
\* request has been assembled.
SendCall ==
  /\ pc = "send"
  /\ ~Exhausted(clock)
  /\ \E g \in 0..MaxGap :
       /\ clock' = clock + g
       /\ tmo' = Cap(FirstTruthy(plan.timeout,
                       IF frame = "poll" THEN PollRequestTimeout ELSE UpstreamTimeout),
                     clock + g)
  /\ pc' = "wire"
  /\ sent' = IF frame = "poll" THEN sent ELSE sent + 1
  /\ UNCHANGED <<cfg, plan, body, frame, reply, raw, refused, upErr, pollVars, error>>

\* aiohttp arms no timer for a total of 0: such a call waits as long as it takes.
OnlyBudgetBounds == tmo > 0 /\ Budgeted
Bounded == tmo > 0
WireTime == 0..(IF Bounded THEN tmo ELSE Horizon)

\* A status below 400.  Only a body that is not JSON reaches ctx.upstream_raw.
CallAnswered ==
  /\ pc = "wire"
  /\ \E d \in WireTime : clock' = clock + d
  /\ \E kind \in {"json", "bytes"} :
       /\ reply' = kind
       /\ raw' = (raw \/ kind = "bytes")
  /\ pc' = IF frame = "poll" THEN "verdict" ELSE "got"
  /\ tmo' = 0
  /\ UNCHANGED <<cfg, plan, body, frame, sent, refused, upErr, pollVars, error>>

\* raise_for_status: a 4xx is a refusal, anything else leaves the outcome open.
CallRefused ==
  /\ pc = "wire"
  /\ \E d \in WireTime : clock' = clock + d
  /\ refused' = IF frame = "poll" THEN refused ELSE refused + 1
  /\ Raise("http_4xx")
  /\ tmo' = 0
  /\ UNCHANGED <<cfg, plan, body, frame, reply, raw, sent, upErr, pollVars>>

CallFailed ==
  /\ pc = "wire"
  /\ \E d \in WireTime : clock' = clock + d
  /\ \E e \in UnknownOutcomes : Raise(e)
  /\ tmo' = 0
  /\ UNCHANGED <<cfg, plan, body, frame, reply, raw, sent, refused, upErr, pollVars>>

CallTimesOut ==
  /\ pc = "wire"
  /\ Bounded
  /\ clock' = clock + tmo
  /\ Raise(IF Exhausted(clock + tmo) THEN "pipeline_budget_exceeded"
           ELSE IF Budgeted THEN "stage_timeout" ELSE "upstream_timeout")
  /\ tmo' = 0
  /\ UNCHANGED <<cfg, plan, body, frame, reply, raw, sent, refused, upErr, pollVars>>

\* What can happen to a call that the budget, if there is one, leaves time for.
CallInTime ==
  \/ AssemblyFails
  \/ SendCall
  \/ CallAnswered
  \/ CallRefused
  \/ CallFailed
  \/ CallTimesOut

OutboundCall == CallRefusedByBudget \/ CallInTime

-----------------------------------------------------------------------------
(* The poll loop, entered once the generation call has been answered. *)

NotAJob ==
  /\ pc = "got"
  /\ ~cfg.async
  /\ pc' = "respond"
  /\ UNCHANGED <<cfg, clock, plan, callVars, upErr, pollVars, error>>

\* Found out only here, after the generation call has been paid for.
JobWithoutPollPhases ==
  /\ pc = "got"
  /\ cfg.async /\ ~cfg.polls
  /\ Raise("config")
  /\ UNCHANGED <<cfg, clock, plan, callVars, upErr, pollVars>>

LeavePollLoop == attempts' = 0 /\ deadline' = 0

EnterPollLoop ==
  /\ pc = "got"
  /\ cfg.async /\ cfg.polls
  /\ deadline' = clock + PollTimeout
  /\ attempts' = 0
  /\ pc' = "poll"
  /\ UNCHANGED <<cfg, clock, plan, callVars, upErr, error>>

NeverExpires == FALSE
JobExpired == clock >= deadline

PollGivesUp ==
  /\ pc = "poll"
  /\ \/ JobExpired /\ Raise("poll_timeout")
     \/ ~JobExpired /\ Exhausted(clock) /\ Raise("pipeline_budget_exceeded")
     \/ /\ ~JobExpired /\ ~Exhausted(clock)
        /\ attempts + 1 > PollMaxAttempts
        /\ Raise("poll_timeout")
  /\ LeavePollLoop
  /\ UNCHANGED <<cfg, clock, plan, callVars, upErr>>

PollSleeps ==
  /\ pc = "poll"
  /\ ~JobExpired
  /\ ~Exhausted(clock)
  /\ attempts + 1 <= PollMaxAttempts
  /\ attempts' = attempts + 1
  /\ clock' = clock + Cap(PollInterval, clock)
  /\ ResetPlan
  /\ pc' = "pollreq"
  /\ UNCHANGED <<cfg, callVars, upErr, deadline, error>>

PollRequestPhase ==
  /\ pc = "pollreq"
  /\ \/ /\ \E d \in 0..ScriptTimeout : PhaseTakes(d)
        /\ plan' \in Emitted(plan)
        /\ frame' = "poll"
        /\ pc' = "send"
        /\ UNCHANGED <<cfg, body, tmo, reply, raw, sent, refused, upErr, pollVars, error>>
     \/ PhaseRaises

\* The verdict of poll_response: done, an error, not a dict, or go round again.
PollResponsePhase ==
  /\ pc = "verdict"
  /\ \/ /\ \E d \in 0..ScriptTimeout : PhaseTakes(d)
        /\ \/ pc' = "poll" /\ UNCHANGED <<error, pollVars>>
           \/ pc' = "respond" /\ UNCHANGED error /\ LeavePollLoop
           \/ Raise("job_failed") /\ LeavePollLoop
           \/ Raise("script_runtime_error") /\ LeavePollLoop
        /\ UNCHANGED <<cfg, plan, callVars, upErr>>
     \/ PhaseRaises

PollLoop ==
  \/ NotAJob
  \/ JobWithoutPollPhases
  \/ EnterPollLoop
  \/ PollGivesUp
  \/ PollSleeps
  \/ PollRequestPhase
  \/ PollResponsePhase

-----------------------------------------------------------------------------
EngineInit ==
  /\ clock = 0
  /\ plan = EmptyPlan
  /\ body = CHOOSE b \in Bodies : TRUE
  /\ frame = "first"
  /\ tmo = 0
  /\ reply = "none"
  /\ raw = FALSE
  /\ upErr = FALSE
  /\ attempts = 0 /\ deadline = 0
  /\ error = "none"
  /\ sent = 0 /\ refused = 0

EngineTypeOK ==
  /\ clock \in Nat
  /\ plan \in Plan
  /\ body \in Bodies
  /\ frame \in Frames
  /\ tmo \in Nat
  /\ reply \in Replies
  /\ raw \in BOOLEAN /\ upErr \in BOOLEAN
  /\ attempts \in Nat /\ deadline \in Nat
  /\ error \in Errors
  /\ sent \in Nat /\ refused \in Nat
=============================================================================
