---------------------------- MODULE Engine_proofs ----------------------------
(***************************************************************************)
(* Lemmas about the primitives of Engine, for every value of its           *)
(* constants: what its helpers return, and that a phase, an outbound call  *)
(* and a poll loop keep the engine's types.  The proofs about SingleCall   *)
(* and Cascade rest on them.                                               *)
(***************************************************************************)
EXTENDS Engine, TLAPS

USE DEF engineVars, callVars, pollVars

-----------------------------------------------------------------------------
(* What the helpers return. *)

\* A timeout is only ever shortened to what is left of the budget.
LEMMA CapTyped ==
  ASSUME cfg \in Config, NEW t \in Nat, NEW timeout \in Nat
  PROVE  Cap(timeout, t) \in Nat /\ Cap(timeout, t) <= timeout
BY DEF Cap, Remaining, Config

\* What an awaited thing takes from clock value t on does not reach past the end
\* of the budget, if there is one and it is not over.
LEMMA CapFits ==
  ASSUME cfg \in Config, Budgeted, NEW t \in Nat, NEW timeout \in Nat
  PROVE  Cap(timeout, t) = 0 \/ t + Cap(timeout, t) <= cfg.total
BY DEF Cap, Remaining, Budgeted, Config

\* Emitting changes a plan into a plan, and never touches its headers.
LEMMA EmittedTyped ==
  ASSUME NEW p \in Plan, NEW q \in Emitted(p)
  PROVE  q \in Plan
<1>1. PICK e \in Emits :
        q = [p EXCEPT !.timeout = IF e.timeout = 0 THEN @ ELSE e.timeout,
                      !.local = @ \/ e.local]
  BY DEF Emitted
<1>2. e \in Emission
  BY EngineAssumption
<1>3. (p.local \/ e.local) \in BOOLEAN
  OBVIOUS
<1>4. (IF e.timeout = 0 THEN p.timeout ELSE e.timeout) \in Nat
  BY <1>2 DEF Emission, Plan
<1> QED
  BY <1>1, <1>3, <1>4 DEF Plan

\* A fresh plan is a plan.
LEMMA EmptyPlanTyped == EmptyPlan \in Plan
BY DEF EmptyPlan, Plan

-----------------------------------------------------------------------------
(* Types. *)

\* The codes a primitive raises are error codes.
LEMMA ErrorCodes ==
  /\ {"none", "http_4xx", "job_failed", "config", "internal"} \subseteq Errors
  /\ UnknownOutcomes \subseteq Errors
  /\ PhaseErrors \subseteq Errors
  /\ TimeoutErrors \subseteq Errors
BY DEF Errors

\* The engine starts in its types.
LEMMA EngineInitTyped == EngineInit => EngineTypeOK
<1> SUFFICES ASSUME EngineInit PROVE EngineTypeOK
  OBVIOUS
<1>1. body \in Bodies
  BY EngineAssumption DEF EngineInit
<1> QED
  BY <1>1, EmptyPlanTyped, ErrorCodes DEF EngineInit, EngineTypeOK, Frames, Replies

\* A phase that fails keeps the types.
LEMMA PhaseRaisesTyped ==
  ASSUME EngineTypeOK, PhaseRaises
  PROVE  EngineTypeOK' /\ UNCHANGED cfg /\ pc' = "raise"
BY EngineAssumption, ErrorCodes DEF PhaseRaises, Raise, EngineTypeOK

\* Where the coroutine can stand during and after a call and its poll loop.
CallLocations == {"send", "wire", "got", "poll", "pollreq", "verdict", "respond", "raise"}

\* A call keeps the types.
LEMMA CallTyped ==
  ASSUME EngineTypeOK, cfg \in Config, OutboundCall
  PROVE  EngineTypeOK' /\ UNCHANGED cfg /\ pc' \in CallLocations
<1> USE EngineAssumption, ErrorCodes
<1> USE DEF EngineTypeOK, CallLocations
<1>1. CASE CallRefusedByBudget
  BY <1>1 DEF CallRefusedByBudget, Raise, TimeoutErrors
<1>2. CASE AssemblyFails
  BY <1>2 DEF AssemblyFails, Raise
<1>3. CASE SendCall
  <2>1. PICK g \in 0..MaxGap :
          /\ clock' = clock + g
          /\ tmo' = Cap(FirstTruthy(plan.timeout,
                     IF frame = "poll" THEN PollRequestTimeout ELSE UpstreamTimeout),
                     clock + g)
    BY <1>3 DEF SendCall
  <2>2. FirstTruthy(plan.timeout,
          IF frame = "poll" THEN PollRequestTimeout ELSE UpstreamTimeout) \in Nat
    BY DEF FirstTruthy, Plan
  <2>3. tmo' \in Nat /\ clock' \in Nat
    BY <2>1, <2>2, CapTyped
  <2> QED
    BY <1>3, <2>3 DEF SendCall
<1>4. CASE CallAnswered
  BY <1>4 DEF CallAnswered, WireTime, Replies
<1>5. CASE CallRefused
  BY <1>5 DEF CallRefused, WireTime, Raise
<1>6. CASE CallFailed
  BY <1>6 DEF CallFailed, WireTime, Raise
<1>7. CASE CallTimesOut
  BY <1>7 DEF CallTimesOut, Raise, TimeoutErrors
<1> QED
  BY <1>1, <1>2, <1>3, <1>4, <1>5, <1>6, <1>7 DEF OutboundCall, CallInTime

\* A step of a poll loop keeps the types.
LEMMA PollTyped ==
  ASSUME EngineTypeOK, cfg \in Config, PollLoop
  PROVE  EngineTypeOK' /\ UNCHANGED cfg /\ pc' \in CallLocations
<1> USE EngineAssumption, ErrorCodes
<1> USE DEF EngineTypeOK, CallLocations
<1>1. CASE NotAJob \/ JobWithoutPollPhases \/ EnterPollLoop
  BY <1>1 DEF NotAJob, JobWithoutPollPhases, EnterPollLoop, Raise
<1>2. CASE PollGivesUp
  BY <1>2 DEF PollGivesUp, LeavePollLoop, Raise, TimeoutErrors
<1>3. CASE PollSleeps
  <2>1. Cap(PollInterval, clock) \in Nat
    BY CapTyped
  <2> QED
    BY <1>3, <2>1, EmptyPlanTyped DEF PollSleeps, ResetPlan
<1>4. CASE PollRequestPhase
  <2>1. CASE PhaseRaises
    BY <2>1, PhaseRaisesTyped
  <2>2. CASE ~PhaseRaises
    <3>1. plan' \in Plan
      BY <1>4, <2>2, EmittedTyped DEF PollRequestPhase
    <3> QED
      BY <1>4, <2>2, <3>1 DEF PollRequestPhase, PhaseTakes, Frames
  <2> QED
    BY <2>1, <2>2
<1>5. CASE PollResponsePhase
  <2>1. CASE PhaseRaises
    BY <2>1, PhaseRaisesTyped
  <2>2. CASE ~PhaseRaises
    BY <1>5, <2>2
    DEF PollResponsePhase, PhaseTakes, LeavePollLoop, Raise, PhaseErrors
  <2> QED
    BY <2>1, <2>2
<1> QED
  BY <1>1, <1>2, <1>3, <1>4, <1>5 DEF PollLoop
=============================================================================
