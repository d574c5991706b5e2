------------------------------- MODULE Cascade -------------------------------
(***************************************************************************)
(* execute_staged() of adapter/stages.py: an ordered list of stages, each  *)
(* a request phase, one generation call (with its poll loop) and a         *)
(* response phase, under one shared budget.  A stage may be skipped by its *)
(* own request phase, and a failing stage may be given up for the artefact *)
(* an earlier one left.                                                    *)
(***************************************************************************)
EXTENDS Engine

CONSTANTS
  MaxStages,   \* settings.stage_max_count
  Cascades     \* the cascades that channels and scripts declare

\* resolve_total never yields a budget of 0.  X-Stages may reorder and trim what
\* the script declares, so any position of the list may be a fallback stage.
ASSUME CascadeAssumption ==
  /\ MaxStages \in Nat \ {0}
  /\ \A c \in Cascades :
       /\ c.cfg \in Configs /\ c.cfg.total > 0
       /\ c.n \in 1..MaxStages /\ c.fallback \subseteq 1..c.n
       /\ c.reshapes \in BOOLEAN

VARIABLES
  n,           \* how many stages the channel and the script declare
  fallback,    \* STAGE_FALLBACK, as positions in the stage list
  reshapes,    \* the script handles the `degraded` phase
  authHeaders, \* the auth phase returned headers
  idx,         \* position of the stage being run; 0 before the first
  stage,       \* ctx.stage: what each position left, "absent" if it never ran
  input,       \* position whose artefact is the payload; 0: the client body
  last,        \* last_artefact
  calls,       \* outcome.calls
  degraded     \* outcome.degraded_stage, as a position; 0: not degraded

declVars == <<n, fallback, reshapes>>
artefactVars == <<stage, input, last, calls>>
loopVars == <<authHeaders, idx, artefactVars, degraded>>
vars == <<engineVars, declVars, loopVars>>

Terminal == {"done", "failed"}

\* None, a JSON object or array, or another value to hand to the next stage.
Artefacts == {"none", "json", "handoff"}

Init ==
  /\ EngineInit
  /\ \E c \in Cascades :
       cfg = c.cfg /\ n = c.n /\ fallback = c.fallback /\ reshapes = c.reshapes
  /\ pc = IF cfg.auth THEN "auth" ELSE "stage"
  /\ authHeaders = FALSE
  /\ idx = 0
  /\ stage = [i \in 1..n |-> "absent"]
  /\ input = 0 /\ last = "none" /\ calls = 0
  /\ degraded = 0

-----------------------------------------------------------------------------
AuthPhase ==
  /\ pc = "auth"
  /\ \/ /\ \E d \in 0..ScriptTimeout : PhaseTakes(d)
        /\ authHeaders' \in BOOLEAN
        /\ pc' = "stage"
        /\ UNCHANGED <<cfg, plan, callVars, upErr, pollVars, error>>
     \/ PhaseRaises /\ UNCHANGED authHeaders
  /\ UNCHANGED <<declVars, idx, artefactVars, degraded>>

NextUnfilled == IF input = idx THEN idx + 1 ELSE idx
NextPosition == idx + 1

\* The auth headers are emitted into the plan, and _run_stage starts by
\* resetting that very plan.
BeginStage ==
  /\ pc = "stage"
  /\ idx < n
  /\ idx' = NextPosition
  /\ ResetPlan
  /\ sent' = 0 /\ refused' = 0
  /\ frame' = "first"
  /\ pc' = "request"
  /\ UNCHANGED <<cfg, clock, body, tmo, reply, raw, upErr, pollVars, error,
                 declVars, authHeaders, artefactVars, degraded>>

StageRequestPhase ==
  /\ pc = "request"
  /\ \/ /\ \E d \in 0..ScriptTimeout : PhaseTakes(d)
        /\ body' \in Bodies
        /\ plan' \in Emitted(plan)
        /\ pc' \in {"send", "stage"}           \* "stage": it returned ctx.SKIP
        /\ UNCHANGED <<cfg, frame, tmo, reply, raw, sent, refused, upErr,
                       pollVars, error>>
     \/ PhaseRaises
  /\ UNCHANGED <<declVars, loopVars>>

\* What the response phase returns becomes the next payload, None included.
KeepUsable(a) ==
  /\ stage' = [stage EXCEPT ![idx] = a]
  /\ last' = IF a = "none" THEN last ELSE a
  /\ input' = idx
  /\ calls' = calls + 1
Keep(a) ==
  /\ stage' = [stage EXCEPT ![idx] = a]
  /\ last' = a
  /\ input' = idx
  /\ calls' = calls + 1

StageResponsePhase ==
  /\ pc = "respond"
  /\ \/ /\ \E d \in 0..ScriptTimeout : PhaseTakes(d)
        /\ plan' \in Emitted(EmptyPlan)
        /\ \E a \in Artefacts : Keep(a)
        /\ pc' = "stage"
        /\ UNCHANGED <<cfg, callVars, upErr, pollVars, error>>
     \/ PhaseRaises /\ UNCHANGED artefactVars
  /\ UNCHANGED <<declVars, authHeaders, idx, degraded>>

\* A fallback stage that fails with an AdapterError ends the loop; the artefact
\* in hand is kept.
AlwaysDegradable == idx \in fallback /\ error # "internal"
Degradable == idx \in fallback /\ last # "none" /\ error # "internal"

Degrade ==
  /\ pc = "raise"
  /\ Degradable
  /\ degraded' = idx
  /\ pc' = "finish"
  /\ UNCHANGED <<cfg, clock, plan, callVars, upErr, pollVars, error, declVars,
                 authHeaders, idx, artefactVars>>

Fail ==
  /\ pc = "raise"
  /\ ~Degradable
  /\ pc' = "failed"
  /\ UNCHANGED <<cfg, clock, plan, callVars, upErr, pollVars, error, declVars, loopVars>>

AfterLastStage ==
  /\ pc = "stage"
  /\ idx = n
  /\ pc' = "finish"
  /\ UNCHANGED <<cfg, clock, plan, callVars, upErr, pollVars, error, declVars, loopVars>>

\* What leaves the loop is the result only if it is an object or an array; the
\* `degraded` phase may shape it first.
ReturnAny(artefact) ==
  IF artefact # "none" THEN pc' = "done" /\ UNCHANGED error
  ELSE pc' = "failed" /\ error' = "script_runtime_error"
Return(artefact) ==
  IF artefact = "json" THEN pc' = "done" /\ UNCHANGED error
  ELSE pc' = "failed" /\ error' = "script_runtime_error"

Finish ==
  /\ pc = "finish"
  /\ last = "none" \/ degraded = 0 \/ ~reshapes
  /\ Return(last)
  /\ UNCHANGED <<cfg, clock, plan, callVars, upErr, pollVars, declVars, loopVars>>

DegradedPhase ==
  /\ pc = "finish"
  /\ last # "none" /\ degraded # 0 /\ reshapes
  /\ ResetPlan
  /\ \E d \in 0..ScriptTimeout : PhaseTakes(d)
  /\ \/ last' \in Artefacts /\ Return(last')
     \/ pc' = "failed" /\ error' \in PhaseErrors /\ UNCHANGED last
  /\ UNCHANGED <<cfg, callVars, upErr, pollVars, declVars, authHeaders, idx, stage,
                 input, calls, degraded>>

Finished == pc \in Terminal /\ UNCHANGED vars

Step ==
  \/ AuthPhase
  \/ BeginStage
  \/ StageRequestPhase
  \/ OutboundCall /\ UNCHANGED <<declVars, loopVars>>
  \/ PollLoop /\ UNCHANGED <<declVars, loopVars>>
  \/ StageResponsePhase
  \/ Degrade
  \/ Fail
  \/ AfterLastStage
  \/ Finish
  \/ DegradedPhase

Next == Step \/ Finished

\* The event loop runs a coroutine that can go on, and fires the timer of a
\* bounded call; nothing makes the upstream answer.
Fairness == WF_vars((pc # "wire" /\ Step) \/ (CallTimesOut /\ UNCHANGED <<declVars, loopVars>>))

Spec == Init /\ [][Next]_vars /\ Fairness

-----------------------------------------------------------------------------
Locations ==
  {"auth", "stage", "request", "send", "wire", "got", "poll", "pollreq",
   "verdict", "respond", "raise", "finish"} \cup Terminal

Positions == 0..n
Ran == {i \in 1..n : stage[i] # "absent"}

\* Every variable stays in its type; positions stay inside the stage list.
TypeOK ==
  /\ EngineTypeOK
  /\ cfg \in Configs
  /\ pc \in Locations
  /\ n \in 1..MaxStages /\ fallback \subseteq 1..n /\ reshapes \in BOOLEAN
  /\ authHeaders \in BOOLEAN
  /\ idx \in Positions /\ input \in Positions /\ degraded \in Positions
  /\ stage \in [1..n -> Artefacts \cup {"absent"}]
  /\ last \in Artefacts
  /\ calls \in Nat

\* "every outbound call takes the smaller of its own timeout and what is left"
\* (budget.py): a bounded call, status checks of a job included, is cut off no
\* later than the end of the shared budget, wherever in the cascade it starts.
CallsFitBudget == (pc = "wire" /\ Bounded) => clock + tmo <= cfg.total

\* What a cascade can spend beyond its budget: the answer to the one call that
\* may run without a timer, and the phases that no check interrupts, the verdict
\* and the response after the last call, then one for each stage skipped after
\* it, and the degraded phase.
Overrun == MaxGap + Horizon + (n + 2) * ScriptTimeout
BoundedOverrun == clock <= cfg.total + Overrun

\* What the shared budget bounds: the two together.
BudgetHolds == CallsFitBudget /\ BoundedOverrun

\* The payload handed to a stage is the artefact of the latest stage that ran,
\* across any stages skipped in between.  A stage that ran left one artefact in
\* ctx.stage for one generation call: nothing is re-offered, not even after a
\* 4xx.
ArtefactChain ==
  /\ input \in Ran \cup {0} /\ \A i \in Ran : i <= input
  /\ calls <= input /\ (input = 0 <=> calls = 0)
  /\ pc \notin Terminal => last = IF input = 0 THEN "none" ELSE stage[input]
  /\ refused <= sent /\ sent <= 1
  /\ pc \in {"got", "poll", "respond"} => sent = 1 /\ refused = 0

\* A degraded cascade gave up a fallback stage that left nothing, returns what
\* an earlier stage left, and ran no stage after it.
DegradedKeepsEarlierArtefact ==
  degraded # 0 =>
    /\ degraded \in fallback
    /\ 0 < input /\ input < degraded
    /\ \A i \in degraded..n : stage[i] = "absent"

\* A cascade answers only with a JSON artefact that a call paid for, and one
\* that is not marked degraded went through its whole stage list.
DoneIsComplete ==
  pc = "done" =>
    /\ last = "json" /\ calls > 0
    /\ degraded = 0 => idx = n /\ stage[input] = "json"

\* Every cascade ends, unless it waits for a call that no timer bounds.
EveryCascadeEnds == <>(pc \in Terminal \/ (pc = "wire" /\ ~Bounded))

-----------------------------------------------------------------------------
(* What a comment of the code says, and its steps do not keep. *)

\* "the headers it emits survive each stage's plan reset because the engine
\* re-applies them on every outbound call" (stages.py).
AuthOnEveryCall == (pc = "wire" /\ authHeaders) => plan.auth
==============================================================================
