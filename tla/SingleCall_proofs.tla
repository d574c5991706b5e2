-------------------------- MODULE SingleCall_proofs --------------------------
(***************************************************************************)
(* Proofs about SingleCall, for every value of its constants: its types,   *)
(* that a request is billed at most once, that status checks stop at the   *)
(* job's deadline, and that a request implements Generation.               *)
(***************************************************************************)
EXTENDS SingleCall, Engine_proofs

USE DEF engineVars, callVars, pollVars

\* A configuration is a record of the declared type, and has no budget.
LEMMA ConfigTyped ==
  ASSUME cfg \in Configs
  PROVE  cfg \in Config /\ cfg.total = 0 /\ ~Budgeted
BY EngineAssumption, SingleAssumption DEF Budgeted, Config

\* Without a budget, nothing is ever clamped and nothing is exhausted.
LEMMA NoBudget ==
  ASSUME cfg \in Configs, NEW t, NEW timeout
  PROVE  Cap(timeout, t) = timeout /\ ~Exhausted(t)
BY ConfigTyped DEF Cap, Exhausted

-----------------------------------------------------------------------------
(* Type correctness. *)

\* A request starts in its types.
LEMMA InitTyped == Init => TypeOK
<1> SUFFICES ASSUME Init PROVE TypeOK
  OBVIOUS
<1>1. EngineTypeOK
  BY EngineInitTyped DEF Init
<1> QED
  BY <1>1 DEF Init, TypeOK, Locations

\* Every step of a request keeps the types.
LEMMA StepTyped == TypeOK /\ [Next]_vars => TypeOK'
<1> SUFFICES ASSUME TypeOK, [Next]_vars PROVE TypeOK'
  OBVIOUS
<1> USE DEF Locations, Terminal
<1>0. /\ cfg \in Configs /\ cfg \in Config /\ pc \in Locations
      /\ EngineTypeOK
  BY ConfigTyped DEF TypeOK
<1>1. CASE PhaseRaises
  BY <1>0, <1>1, PhaseRaisesTyped DEF TypeOK
<1>2. CASE AuthPhase /\ ~PhaseRaises
  <2>1. PICK dict \in BOOLEAN : plan' = [plan EXCEPT !.auth = dict]
    BY <1>2 DEF AuthPhase
  <2>2. plan' \in Plan
    BY <1>0, <2>1 DEF Plan, EngineTypeOK
  <2> QED
    BY <1>0, <1>2, <2>2, EngineAssumption DEF AuthPhase, PhaseTakes, TypeOK, EngineTypeOK
<1>3. CASE RequestPhase /\ ~PhaseRaises
  <2>1. plan' \in Plan
    BY <1>0, <1>3, EmittedTyped DEF RequestPhase, EngineTypeOK
  <2> QED
    BY <1>0, <1>3, <2>1, EngineAssumption, ErrorCodes
    DEF RequestPhase, PhaseTakes, Raise, Replies, TypeOK, EngineTypeOK
<1>4. CASE CallInTime
  BY <1>0, <1>4, CallTyped DEF OutboundCall, TypeOK, CallLocations
<1>5. CASE OfferRetry
  BY <1>0, <1>5, EmptyPlanTyped DEF OfferRetry, ResetPlan, TypeOK, EngineTypeOK
<1>6. CASE RetryRequestPhase
  <2>1. plan' \in Plan
    BY <1>0, <1>6, EmittedTyped DEF RetryRequestPhase, EngineTypeOK
  <2> QED
    BY <1>0, <1>6, <2>1, EngineAssumption, ErrorCodes
    DEF RetryRequestPhase, PhaseTakes, Raise, Frames, TypeOK, EngineTypeOK
<1>7. CASE PollLoop
  BY <1>0, <1>7, PollTyped DEF TypeOK, CallLocations
<1>8. CASE ResponsePhase
  BY <1>0, <1>8, EmptyPlanTyped, EngineAssumption, ErrorCodes
  DEF ResponsePhase, PhaseTakes, ResetPlan, Raise, TypeOK, EngineTypeOK
<1>9. CASE Fail
  BY <1>0, <1>9 DEF Fail, TypeOK, EngineTypeOK
<1>10. CASE UNCHANGED vars
  BY <1>0, <1>10 DEF vars, TypeOK, EngineTypeOK
<1> QED
  BY <1>1, <1>2, <1>3, <1>4, <1>5, <1>6, <1>7, <1>8, <1>9, <1>10
  DEF Next, Step, Finished

\* Every variable of a request stays in its type: the state of the coroutine,
\* of its call and of its poll loop.
THEOREM Typing == Spec => []TypeOK
<1>1. Init => TypeOK
  BY InitTyped
<1>2. TypeOK /\ [Next]_vars => TypeOK'
  BY StepTyped
<1> QED
  BY <1>1, <1>2, PTL DEF Spec

-----------------------------------------------------------------------------
(* Billing.  The invariant says, for each place the coroutine can stand in,  *)
(* how many generation calls went out and how many of them were refused;     *)
(* AtMostOneBilled alone is not inductive, for it does not say that the      *)
(* retry is offered to the first call only.                                  *)

Unsent == sent = 0 /\ refused = 0
OneRefused == sent = 1 /\ refused = 1 /\ reply # "local"
Accepted == sent = refused + 1 /\ sent <= 2 /\ reply # "local"

SendLedger ==
  /\ frame = "first" => Unsent
  /\ frame = "retry" => OneRefused
  /\ frame = "poll" => Accepted
  /\ reply # "local"

WireLedger == Accepted /\ (frame = "first" => sent = 1)

Ledger ==
  /\ pc \in {"auth", "request"} => Unsent /\ frame = "first" /\ reply # "local"
  /\ pc = "send" => SendLedger
  /\ pc = "wire" => WireLedger
  /\ pc \in {"got", "respond", "done"} => Accepted \/ (reply = "local" /\ Unsent)
  /\ pc = "got" /\ reply = "local" => ~cfg.async
  /\ pc \in {"poll", "pollreq", "verdict"} => Accepted
  /\ pc = "rerequest" => OneRefused
  /\ pc \in {"raise", "failed"} => AtMostOneBilled
  /\ Refused => OneRefused

BillingInv == TypeOK /\ Ledger

\* Nothing has been sent when a request starts.
LEMMA BillingInit == Init => Ledger
BY DEF Init, EngineInit, Ledger, Unsent, Refused

\* Every step keeps the ledger of generation calls.
LEMMA BillingStep == BillingInv /\ [Next]_vars => Ledger'
<1> SUFFICES ASSUME BillingInv, [Next]_vars PROVE Ledger'
  OBVIOUS
<1> USE DEF BillingInv, Ledger, Unsent, OneRefused, Accepted, SendLedger, WireLedger,
            AtMostOneBilled, Refused, Raise, PhaseErrors, UnknownOutcomes
<1>0. sent \in Nat /\ refused \in Nat /\ frame \in Frames
  BY DEF TypeOK, EngineTypeOK
<1>1. CASE AuthPhase
  BY <1>1 DEF AuthPhase, PhaseRaises
<1>2. CASE RequestPhase
  BY <1>2 DEF RequestPhase, PhaseRaises
<1>3. CASE CallInTime
  <2>1. CASE AssemblyFails
    BY <1>0, <2>1 DEF AssemblyFails, Frames
  <2>2. CASE SendCall
    BY <1>0, <2>2 DEF SendCall, Frames
  <2>3. CASE CallAnswered
    BY <1>0, <2>3 DEF CallAnswered
  <2>4. CASE CallRefused
    BY <1>0, <2>4 DEF CallRefused, Frames
  <2>5. CASE CallFailed
    BY <1>0, <2>5 DEF CallFailed
  <2>6. CASE CallTimesOut
    BY <1>0, <2>6 DEF CallTimesOut
  <2> QED
    BY <1>3, <2>1, <2>2, <2>3, <2>4, <2>5, <2>6 DEF CallInTime
<1>4. CASE OfferRetry
  BY <1>4 DEF OfferRetry
<1>5. CASE RetryRequestPhase
  BY <1>5 DEF RetryRequestPhase
<1>6. CASE PollLoop
  <2>1. CASE NotAJob \/ JobWithoutPollPhases \/ EnterPollLoop
    BY <1>0, <2>1 DEF NotAJob, JobWithoutPollPhases, EnterPollLoop
  <2>2. CASE PollGivesUp
    BY <1>0, <2>2 DEF PollGivesUp
  <2>3. CASE PollSleeps
    BY <2>3 DEF PollSleeps
  <2>4. CASE PollRequestPhase
    BY <1>0, <2>4 DEF PollRequestPhase, PhaseRaises
  <2>5. CASE PollResponsePhase
    BY <1>0, <2>5 DEF PollResponsePhase, PhaseRaises
  <2> QED
    BY <1>6, <2>1, <2>2, <2>3, <2>4, <2>5 DEF PollLoop
<1>7. CASE ResponsePhase
  BY <1>0, <1>7 DEF ResponsePhase
<1>8. CASE Fail
  BY <1>0, <1>8 DEF Fail
<1>9. CASE UNCHANGED vars
  BY <1>9 DEF vars
<1> QED
  BY <1>1, <1>2, <1>3, <1>4, <1>5, <1>6, <1>7, <1>8, <1>9 DEF Next, Step, Finished

\* The ledger holds throughout.
LEMMA BillingInvariant == Spec => []BillingInv
<1>1. Init => BillingInv
  BY InitTyped, BillingInit DEF BillingInv
<1>2. BillingInv /\ [Next]_vars => BillingInv'
  BY StepTyped, BillingStep DEF BillingInv
<1> QED
  BY <1>1, <1>2, PTL DEF Spec

\* A request has at most one generation call that was not refused outright,
\* its answer rests on exactly one, and only such a call is ever polled.
THEOREM Billed == Spec => []BilledAtMostOnce
<1>1. BillingInv => BilledAtMostOnce
  <2> SUFFICES ASSUME BillingInv PROVE BilledAtMostOnce
    OBVIOUS
  <2>0. sent \in Nat /\ refused \in Nat /\ pc \in Locations /\ frame \in Frames
    BY DEF BillingInv, TypeOK, EngineTypeOK
  <2> USE DEF BillingInv, Ledger, Unsent, OneRefused, Accepted, SendLedger, WireLedger
  <2>1. AtMostOneBilled
    BY <2>0 DEF AtMostOneBilled, Locations, Terminal, Frames
  <2>2. AnsweredMeansOneAccepted
    BY <2>0 DEF AnsweredMeansOneAccepted
  <2>3. PollsOnlyRealJobs
    BY <2>0 DEF PollsOnlyRealJobs
  <2> QED
    BY <2>1, <2>2, <2>3 DEF BilledAtMostOnce
<1> QED
  BY <1>1, BillingInvariant, PTL

-----------------------------------------------------------------------------
(* Refinement: every step of a request is a step of Generation, or leaves    *)
(* its two variables alone.                                                  *)

\* Away from the wire, the contract's status depends on the two counts only.
LEMMA SilentStep ==
  ASSUME pc # "wire", pc' # "wire", pc \notin Terminal, pc' \notin Terminal,
         UNCHANGED <<sent, refused>>
  PROVE  UNCHANGED Billing!vars
BY DEF Billing!vars, BillingStatus

\* Ending the request closes the contract.
LEMMA ClosingStep ==
  ASSUME pc # "wire", pc \notin Terminal, pc' \in Terminal, UNCHANGED sent
  PROVE  Billing!Close
BY DEF Billing!Close, BillingStatus

\* Every step of a request is allowed by the contract.
LEMMA ContractStep == BillingInv /\ [Next]_vars => [Billing!Next]_(Billing!vars)
<1> SUFFICES ASSUME BillingInv, [Next]_vars PROVE [Billing!Next]_(Billing!vars)
  OBVIOUS
<1>0. sent \in Nat /\ refused \in Nat /\ frame \in Frames
  BY DEF BillingInv, TypeOK, EngineTypeOK
<1> USE DEF Terminal, Raise
<1>1. CASE AuthPhase
  BY <1>1, SilentStep DEF AuthPhase, PhaseRaises
<1>2. CASE RequestPhase
  BY <1>2, SilentStep DEF RequestPhase, PhaseRaises
<1>3. CASE CallInTime
  <2>1. CASE AssemblyFails
    BY <2>1, SilentStep DEF AssemblyFails
  <2>2. CASE SendCall /\ frame = "poll"
    <3>1. pc = "send" /\ pc' = "wire" /\ UNCHANGED <<sent, refused, frame>>
      BY <2>2 DEF SendCall
    <3> QED
      BY <2>2, <3>1 DEF Billing!vars, BillingStatus
  <2>3. CASE SendCall /\ frame # "poll"
    <3>1. /\ pc = "send" /\ pc' = "wire" /\ sent' = sent + 1
          /\ UNCHANGED <<refused, frame>>
      BY <2>3 DEF SendCall
    <3>2. (sent = 0 /\ refused = 0) \/ (sent = 1 /\ refused = 1)
      BY <1>0, <2>3, <3>1
      DEF BillingInv, Ledger, SendLedger, Unsent, OneRefused, Frames
    <3>3. BillingStatus \in {"idle", "refused"} /\ BillingStatus' = "inflight"
      BY <2>3, <3>1, <3>2 DEF BillingStatus
    <3>4. Billing!Submit
      BY <3>1, <3>2, <3>3 DEF Billing!Submit
    <3> QED
      BY <3>4 DEF Billing!Next
  <2>4. CASE CallRefused /\ frame # "poll"
    <3>1. /\ pc = "wire" /\ pc' = "raise" /\ refused' = refused + 1
          /\ UNCHANGED <<sent, frame>>
      BY <2>4 DEF CallRefused
    <3>2. sent = refused + 1
      BY <3>1 DEF BillingInv, Ledger, WireLedger, Accepted
    <3>3. BillingStatus = "inflight" /\ BillingStatus' = "refused"
      BY <1>0, <2>4, <3>1, <3>2 DEF BillingStatus
    <3>4. Billing!Refuse
      BY <3>1, <3>3 DEF Billing!Refuse
    <3> QED
      BY <3>4 DEF Billing!Next
  <2>5. CASE CallAnswered \/ CallFailed \/ CallTimesOut
             \/ (CallRefused /\ frame = "poll")
    <3>1. /\ pc = "wire" /\ pc' \in {"raise", "got", "verdict"}
          /\ UNCHANGED <<sent, refused, frame>>
      BY <2>5 DEF CallAnswered, CallFailed, CallTimesOut, CallRefused
    <3>2. sent = refused + 1
      BY <3>1 DEF BillingInv, Ledger, WireLedger, Accepted
    <3>3. BillingStatus' = "settled"
      BY <1>0, <3>1, <3>2 DEF BillingStatus
    <3>4. BillingStatus \in {"inflight", "settled"}
      BY <1>0, <3>1, <3>2 DEF BillingStatus
    <3>5. Billing!Settle \/ UNCHANGED Billing!vars
      BY <3>1, <3>3, <3>4 DEF Billing!Settle, Billing!vars
    <3> QED
      BY <3>5 DEF Billing!Next
  <2> QED
    BY <1>3, <2>1, <2>2, <2>3, <2>4, <2>5 DEF CallInTime
<1>4. CASE OfferRetry
  BY <1>4, SilentStep DEF OfferRetry, Refused
<1>5. CASE RetryRequestPhase
  BY <1>5, SilentStep DEF RetryRequestPhase
<1>6. CASE PollLoop
  BY <1>6, SilentStep
  DEF PollLoop, NotAJob, JobWithoutPollPhases, EnterPollLoop, PollGivesUp,
      PollSleeps, PollRequestPhase, PollResponsePhase, PhaseRaises
<1>7. CASE ResponsePhase
  <2>1. pc = "respond" /\ pc' \in {"done", "raise"} /\ UNCHANGED <<sent, refused>>
    BY <1>7 DEF ResponsePhase
  <2> QED
    BY <2>1, SilentStep, ClosingStep DEF Billing!Next
<1>8. CASE Fail
  BY <1>8, ClosingStep DEF Fail, Billing!Next
<1>9. CASE UNCHANGED vars
  BY <1>9 DEF vars, Billing!vars, BillingStatus
<1> QED
  BY <1>1, <1>2, <1>3, <1>4, <1>5, <1>6, <1>7, <1>8, <1>9 DEF Next, Step, Finished

\* A request implements the billing contract: it submits its generation again
\* only if every earlier submission was refused outright, and at most twice.
THEOREM Implements == Spec => ImplementsGeneration
<1>1. Init => Billing!Init
  BY DEF Init, EngineInit, Billing!Init, BillingStatus, Terminal
<1>2. BillingInv /\ [Next]_vars => [Billing!Next]_(Billing!vars)
  BY ContractStep
<1> QED
  BY <1>1, <1>2, BillingInvariant, PTL DEF Spec, ImplementsGeneration, Billing!Spec

-----------------------------------------------------------------------------
(* Time.  The invariant says how late each place of the coroutine can be     *)
(* reached; the poll loop is bounded relative to its deadline, and the       *)
(* deadline by the latest time at which a job can have been created.         *)

Call == MaxGap + Longest(UpstreamTimeout)
FirstAnswer == 2 * ScriptTimeout + Call
LastAnswer == 3 * ScriptTimeout + 2 * Call
LastDeadline == LastAnswer + PollTimeout

SendTime ==
  /\ frame = "first" => clock <= 2 * ScriptTimeout
  /\ frame = "retry" => clock <= FirstAnswer + ScriptTimeout
  /\ frame = "poll" => /\ clock < deadline + PollInterval + ScriptTimeout
                       /\ attempts <= PollMaxAttempts

CallTime ==
  /\ tmo > 0
  /\ frame = "first" => clock + tmo <= FirstAnswer
  /\ frame = "retry" => clock + tmo <= LastAnswer
  /\ frame = "poll" =>
       /\ clock < deadline + PollInterval + ScriptTimeout + MaxGap
       /\ tmo <= Longest(PollRequestTimeout)
       /\ attempts <= PollMaxAttempts

Timetable ==
  /\ plan.timeout <= MaxEmitTimeout
  /\ pc \in {"auth", "request"} => frame = "first"
  /\ pc = "auth" => clock = 0
  /\ pc = "request" => clock <= ScriptTimeout
  /\ pc = "send" => SendTime
  /\ pc = "wire" => CallTime
  /\ pc = "got" => clock <= LastAnswer
  /\ deadline <= LastDeadline
  /\ pc = "poll" => clock <= deadline + PollOverrun
  /\ pc = "pollreq" => clock < deadline + PollInterval /\ attempts <= PollMaxAttempts
  /\ pc = "verdict" =>
       clock < deadline + PollInterval + ScriptTimeout + MaxGap + Longest(PollRequestTimeout)
  /\ pc = "rerequest" => clock <= FirstAnswer
  /\ Refused => clock <= FirstAnswer
  /\ pc = "respond" => clock <= LastDeadline + PollOverrun
  /\ pc \in {"raise", "done", "failed"} => clock <= RequestBound

TimeInv == TypeOK /\ Timetable

\* The timeout of a call, and the longest one, are positive naturals.
LEMMA TimeoutTyped ==
  /\ \A t \in Nat \ {0} : Longest(t) \in Nat \ {0} /\ t <= Longest(t)
  /\ ScriptTimeout \in Nat /\ MaxGap \in Nat /\ PollInterval \in Nat
  /\ PollTimeout \in Nat /\ PollMaxAttempts \in Nat /\ MaxEmitTimeout \in Nat
  /\ Longest(UpstreamTimeout) \in Nat \ {0}
  /\ Longest(PollRequestTimeout) \in Nat \ {0}
BY EngineAssumption DEF Longest

\* What a script emits stays below the longest timeout it may emit.
LEMMA EmittedTimeout ==
  ASSUME NEW p \in Plan, p.timeout <= MaxEmitTimeout, NEW q \in Emitted(p)
  PROVE  q.timeout <= MaxEmitTimeout
<1>1. PICK e \in Emits :
        q = [p EXCEPT !.timeout = IF e.timeout = 0 THEN @ ELSE e.timeout,
                      !.local = @ \/ e.local]
  BY DEF Emitted
<1>2. e \in Emission /\ e.timeout <= MaxEmitTimeout
  BY EngineAssumption
<1>3. q.timeout = IF e.timeout = 0 THEN p.timeout ELSE e.timeout
  BY <1>1 DEF Plan
<1> QED
  BY <1>2, <1>3

\* A request starts on time.
LEMMA TimeInit == Init => Timetable
<1> SUFFICES ASSUME Init PROVE Timetable
  OBVIOUS
<1>1. plan.timeout = 0 /\ clock = 0 /\ pc \in {"auth", "request"} /\ frame = "first"
      /\ deadline = 0
  BY DEF Init, EngineInit, EmptyPlan
<1> QED
  BY <1>1, TimeoutTyped DEF Timetable, Refused, LastDeadline, LastAnswer, Call

\* Every step keeps the timetable.
LEMMA TimeStep == TimeInv /\ [Next]_vars => Timetable'
<1> SUFFICES ASSUME TimeInv, [Next]_vars PROVE Timetable'
  OBVIOUS
<1> USE TimeoutTyped
<1> USE DEF Timetable, SendTime, CallTime, Call, FirstAnswer, LastAnswer, LastDeadline,
            PollOverrun, RequestBound, Refused, Raise
<1>0. /\ clock \in Nat /\ tmo \in Nat /\ deadline \in Nat /\ attempts \in Nat
      /\ frame \in Frames /\ plan \in Plan /\ plan.timeout \in Nat
      /\ \A t : ~Exhausted(t) /\ \A x : Cap(x, t) = x
      /\ Timetable
  BY NoBudget DEF TimeInv, TypeOK, EngineTypeOK, Plan
<1>1. CASE AuthPhase
  <2>1. plan'.timeout = plan.timeout
    BY <1>0, <1>1 DEF AuthPhase, PhaseRaises, Plan
  <2> QED
    BY <1>0, <1>1, <2>1 DEF AuthPhase, PhaseTakes, PhaseRaises, PhaseErrors
<1>2. CASE RequestPhase
  <2>1. plan'.timeout <= MaxEmitTimeout
    BY <1>0, <1>2, EmittedTimeout DEF RequestPhase, PhaseRaises
  <2>2. /\ pc = "request" /\ UNCHANGED <<frame, tmo, deadline, attempts>>
        /\ pc' \in {"send", "got"} \/ (pc' = "raise" /\ error' # "http_4xx")
    BY <1>2 DEF RequestPhase, PhaseRaises, PhaseErrors
  <2>3. PICK d \in 0..ScriptTimeout : clock' = clock + d
    BY <1>2 DEF RequestPhase, PhaseTakes, PhaseRaises
  <2> QED
    BY <1>0, <2>1, <2>2, <2>3
<1>3. CASE CallInTime
  <2>1. CASE AssemblyFails
    BY <1>0, <2>1 DEF AssemblyFails, Frames
  <2>2. CASE SendCall
    <3>1. PICK g \in 0..MaxGap :
            /\ clock' = clock + g
            /\ tmo' = Cap(FirstTruthy(plan.timeout,
                       IF frame = "poll" THEN PollRequestTimeout ELSE UpstreamTimeout),
                       clock + g)
      BY <2>2 DEF SendCall
    <3>2. tmo' \in Nat /\ tmo' > 0
          /\ tmo' <= Longest(IF frame = "poll" THEN PollRequestTimeout ELSE UpstreamTimeout)
      BY <1>0, <3>1, EngineAssumption DEF FirstTruthy, Longest
    <3> QED
      BY <1>0, <2>2, <3>1, <3>2 DEF SendCall, Frames
  <2>3. CASE CallAnswered
    <3>1. PICK d \in 0..tmo : clock' = clock + d
      BY <1>0, <2>3 DEF CallAnswered, WireTime, Bounded
    <3> QED
      BY <1>0, <2>3, <3>1 DEF CallAnswered, Frames
  <2>4. CASE CallRefused \/ CallFailed \/ CallTimesOut
    <3>1. PICK d \in 0..tmo : clock' = clock + d
      BY <1>0, <2>4 DEF CallRefused, CallFailed, CallTimesOut, WireTime, Bounded
    <3>2. pc = "wire" /\ pc' = "raise" /\ UNCHANGED <<plan, frame, deadline>>
      BY <2>4 DEF CallRefused, CallFailed, CallTimesOut
    <3> QED
      BY <1>0, <3>1, <3>2 DEF Frames
  <2> QED
    BY <1>3, <2>1, <2>2, <2>3, <2>4 DEF CallInTime
<1>4. CASE OfferRetry
  BY <1>0, <1>4 DEF OfferRetry, ResetPlan, EmptyPlan
<1>5. CASE RetryRequestPhase
  <2>1. plan'.timeout <= MaxEmitTimeout
    BY <1>0, <1>5, EmittedTimeout DEF RetryRequestPhase
  <2>2. /\ pc = "rerequest" /\ pc' \in {"send", "raise"} /\ frame' = "retry"
        /\ UNCHANGED <<tmo, deadline, attempts>>
    BY <1>5 DEF RetryRequestPhase
  <2>3. PICK d \in 0..ScriptTimeout : clock' = clock + d
    BY <1>5 DEF RetryRequestPhase, PhaseTakes
  <2> QED
    BY <1>0, <2>1, <2>2, <2>3
<1>6. CASE PollLoop
  <2>1. CASE NotAJob \/ JobWithoutPollPhases \/ EnterPollLoop
    BY <1>0, <2>1 DEF NotAJob, JobWithoutPollPhases, EnterPollLoop
  <2>2. CASE PollGivesUp
    BY <1>0, <2>2 DEF PollGivesUp, LeavePollLoop
  <2>3. CASE PollSleeps
    BY <1>0, <2>3 DEF PollSleeps, ResetPlan, EmptyPlan, JobExpired
  <2>4. CASE PollRequestPhase
    <3>1. plan'.timeout <= MaxEmitTimeout
      BY <1>0, <2>4, EmittedTimeout DEF PollRequestPhase, PhaseRaises
    <3> QED
      BY <1>0, <2>4, <3>1 DEF PollRequestPhase, PhaseTakes, PhaseRaises, PhaseErrors
  <2>5. CASE PollResponsePhase
    BY <1>0, <2>5
    DEF PollResponsePhase, PhaseTakes, PhaseRaises, PhaseErrors, LeavePollLoop
  <2> QED
    BY <1>6, <2>1, <2>2, <2>3, <2>4, <2>5 DEF PollLoop
<1>7. CASE ResponsePhase
  BY <1>0, <1>7 DEF ResponsePhase, PhaseTakes, ResetPlan, EmptyPlan, PhaseErrors
<1>8. CASE Fail
  BY <1>0, <1>8 DEF Fail
<1>9. CASE UNCHANGED vars
  BY <1>0, <1>9 DEF vars
<1> QED
  BY <1>1, <1>2, <1>3, <1>4, <1>5, <1>6, <1>7, <1>8, <1>9 DEF Next, Step, Finished

\* The timetable holds throughout.
LEMMA TimeInvariant == Spec => []TimeInv
<1>1. Init => TimeInv
  BY InitTyped, TimeInit DEF TimeInv
<1>2. TimeInv /\ [Next]_vars => TimeInv'
  BY StepTyped, TimeStep DEF TimeInv
<1> QED
  BY <1>1, <1>2, PTL DEF Spec

\* A request takes no longer than its timeouts allow, and no status check goes
\* out later than one round after the deadline of its job.
THEOREM Timely == Spec => []BoundedInTime
<1>1. TimeInv => BoundedInTime
  <2> SUFFICES ASSUME TimeInv PROVE BoundedInTime
    OBVIOUS
  <2>0. /\ clock \in Nat /\ tmo \in Nat /\ deadline \in Nat
        /\ pc \in Locations /\ frame \in Frames
    BY DEF TimeInv, TypeOK, EngineTypeOK
  <2> USE TimeoutTyped
  <2> USE DEF TimeInv, Timetable, SendTime, CallTime, Call, FirstAnswer, LastAnswer,
              LastDeadline, PollOverrun, RequestBound
  <2>1. PollsStopAtDeadline
    BY <2>0 DEF PollsStopAtDeadline
  <2>2. BoundedDuration
    BY <2>0 DEF BoundedDuration, Locations, Terminal, Frames
  <2> QED
    BY <2>1, <2>2 DEF BoundedInTime
<1> QED
  BY <1>1, TimeInvariant, PTL
=============================================================================
