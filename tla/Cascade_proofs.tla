---------------------------- MODULE Cascade_proofs ----------------------------
(***************************************************************************)
(* Proofs about Cascade, for any cascades, budgets and timeouts: its       *)
(* types, the chain of artefacts with what a degraded and a complete       *)
(* answer rest on, and the shared budget.                                  *)
(***************************************************************************)
EXTENDS Cascade, Engine_proofs

USE DEF engineVars, callVars, pollVars, declVars, artefactVars, loopVars

\* The declared cascades are well formed.
LEMMA Declared ==
  ASSUME NEW c \in Cascades
  PROVE  /\ c.cfg \in Configs /\ c.cfg \in Config /\ c.cfg.total > 0
         /\ c.n \in 1..MaxStages /\ c.n \in Nat /\ c.fallback \subseteq 1..c.n
         /\ c.reshapes \in BOOLEAN
BY CascadeAssumption, EngineAssumption

-----------------------------------------------------------------------------
(* Type correctness. *)

\* A budget is never 0; that is not part of TypeOK.
CascadeTyped == TypeOK /\ cfg.total > 0

\* A cascade starts in its types.
LEMMA CascadeInitTyped == Init => CascadeTyped
<1> SUFFICES ASSUME Init PROVE CascadeTyped
  OBVIOUS
<1>1. PICK c \in Cascades :
        cfg = c.cfg /\ n = c.n /\ fallback = c.fallback /\ reshapes = c.reshapes
  BY DEF Init
<1>2. EngineTypeOK
  BY EngineInitTyped DEF Init
<1>3. stage \in [1..n -> Artefacts \cup {"absent"}]
  BY DEF Init
<1>4. /\ cfg \in Configs /\ cfg.total > 0 /\ n \in 1..MaxStages /\ n \in Nat
      /\ fallback \subseteq 1..n /\ reshapes \in BOOLEAN
  BY <1>1, Declared
<1>5. pc \in Locations
  BY DEF Init, Locations
<1>6. /\ authHeaders \in BOOLEAN /\ idx = 0 /\ input = 0 /\ degraded = 0
      /\ last = "none" /\ calls = 0
  BY DEF Init
<1> QED
  BY <1>2, <1>3, <1>4, <1>5, <1>6 DEF CascadeTyped, TypeOK, Positions, Artefacts

\* Every step of a cascade keeps the types.
LEMMA CascadeStepTyped == CascadeTyped /\ [Next]_vars => CascadeTyped'
<1> SUFFICES ASSUME CascadeTyped, [Next]_vars PROVE CascadeTyped'
  OBVIOUS
<1> USE DEF Locations, Terminal, CascadeTyped, TypeOK, Positions
<1>0. /\ cfg \in Config /\ EngineTypeOK /\ n \in Nat /\ n > 0 /\ calls \in Nat
  BY EngineAssumption, CascadeAssumption
<1>1. CASE AuthPhase
  <2>1. EngineTypeOK' /\ UNCHANGED cfg /\ pc' \in {"stage", "raise"}
    <3>1. CASE PhaseRaises
      BY <1>0, <3>1, PhaseRaisesTyped
    <3>2. CASE ~PhaseRaises
      BY <1>0, <1>1, <3>2, EngineAssumption DEF AuthPhase, PhaseTakes, EngineTypeOK
    <3> QED
      BY <3>1, <3>2
  <2> QED
    BY <1>0, <1>1, <2>1 DEF AuthPhase
<1>2. CASE BeginStage
  BY <1>0, <1>2, EmptyPlanTyped
  DEF BeginStage, NextPosition, ResetPlan, EngineTypeOK, Frames
<1>3. CASE StageRequestPhase
  <2>1. EngineTypeOK' /\ UNCHANGED cfg /\ pc' \in {"send", "stage", "raise"}
    <3>1. CASE PhaseRaises
      BY <1>0, <3>1, PhaseRaisesTyped
    <3>2. CASE ~PhaseRaises
      <4>1. plan' \in Plan
        BY <1>0, <1>3, <3>2, EmittedTyped DEF StageRequestPhase, EngineTypeOK
      <4> QED
        BY <1>0, <1>3, <3>2, <4>1, EngineAssumption
        DEF StageRequestPhase, PhaseTakes, EngineTypeOK
    <3> QED
      BY <3>1, <3>2
  <2> QED
    BY <1>0, <1>3, <2>1 DEF StageRequestPhase
<1>4. CASE OutboundCall /\ UNCHANGED <<declVars, loopVars>>
  BY <1>0, <1>4, CallTyped DEF CallLocations
<1>5. CASE PollLoop /\ UNCHANGED <<declVars, loopVars>>
  BY <1>0, <1>5, PollTyped DEF CallLocations
<1>6. CASE StageResponsePhase
  <2>1. CASE PhaseRaises
    BY <1>0, <1>6, <2>1, PhaseRaisesTyped DEF StageResponsePhase
  <2>2. CASE ~PhaseRaises
    <3>1. PICK a \in Artefacts : Keep(a)
      BY <1>6, <2>2 DEF StageResponsePhase
    <3>2. plan' \in Plan
      BY <1>6, <2>2, EmittedTyped, EmptyPlanTyped DEF StageResponsePhase
    <3>3. EngineTypeOK'
      BY <1>0, <1>6, <2>2, <3>2, EngineAssumption
      DEF StageResponsePhase, PhaseTakes, EngineTypeOK
    <3>4. stage' \in [1..n -> Artefacts \cup {"absent"}] /\ last' \in Artefacts
      BY <3>1 DEF Keep
    <3>5. input' = idx /\ calls' = calls + 1
      BY <3>1 DEF Keep
    <3> QED
      BY <1>0, <1>6, <2>2, <3>3, <3>4, <3>5 DEF StageResponsePhase
  <2> QED
    BY <2>1, <2>2
<1>7. CASE Degrade
  BY <1>0, <1>7 DEF Degrade, EngineTypeOK
<1>8. CASE Fail
  BY <1>0, <1>8 DEF Fail, EngineTypeOK
<1>9. CASE AfterLastStage
  BY <1>0, <1>9 DEF AfterLastStage, EngineTypeOK
<1>10. CASE Finish
  BY <1>0, <1>10, ErrorCodes DEF Finish, Return, EngineTypeOK, PhaseErrors
<1>11. CASE DegradedPhase
  BY <1>0, <1>11, EmptyPlanTyped, EngineAssumption, ErrorCodes
  DEF DegradedPhase, Return, ResetPlan, PhaseTakes, EngineTypeOK, PhaseErrors
<1>12. CASE UNCHANGED vars
  BY <1>0, <1>12 DEF vars, EngineTypeOK
<1> QED
  BY <1>1, <1>2, <1>3, <1>4, <1>5, <1>6, <1>7, <1>8, <1>9, <1>10, <1>11, <1>12
  DEF Next, Step, Finished

\* Every variable of a cascade stays in its type, and positions stay inside the
\* stage list.
THEOREM CascadeTyping == Spec => []TypeOK
<1>1. Init => CascadeTyped
  BY CascadeInitTyped
<1>2. CascadeTyped /\ [Next]_vars => CascadeTyped'
  BY CascadeStepTyped
<1>3. CascadeTyped => TypeOK
  BY DEF CascadeTyped
<1> QED
  BY <1>1, <1>2, <1>3, PTL DEF Spec

-----------------------------------------------------------------------------
(* Artefacts.  The invariant says what each place of the coroutine knows of  *)
(* the calls of its stage, and that a stage being run has left nothing yet.  *)

NothingSent == sent = 0 /\ refused = 0
OneAccepted == sent = 1 /\ refused = 0

InStage == {"request", "send", "wire", "got", "poll", "pollreq", "verdict", "respond"}
Leaving == {"finish", "done", "failed"}

StageLedger ==
  /\ frame # "retry"
  /\ pc = "request" => NothingSent /\ frame = "first"
  /\ pc = "send" => IF frame = "first" THEN NothingSent ELSE OneAccepted
  /\ pc \in {"wire", "got", "poll", "pollreq", "verdict", "respond"} => OneAccepted
  /\ refused <= sent /\ sent <= 1

StageOpen == idx > 0 /\ input < idx /\ stage[idx] = "absent"

Artefact == last = IF input = 0 THEN "none" ELSE stage[input]

ChainLedger ==
  /\ input \in Ran \cup {0} /\ \A i \in Ran : i <= input
  /\ input <= idx
  /\ calls <= input /\ (input = 0 <=> calls = 0)
  /\ pc = "auth" => idx = 0
  /\ pc \in InStage => StageOpen
  /\ pc = "raise" => idx = 0 \/ StageOpen
  /\ pc \notin Terminal => Artefact
  /\ degraded # 0 => pc \in Leaving /\ idx = degraded /\ DegradedKeepsEarlierArtefact
  /\ pc = "finish" => degraded # 0 \/ idx = n
  /\ DoneIsComplete

ChainInv == CascadeTyped /\ StageLedger /\ ChainLedger

\* A stage puts one generation call on the wire, and only an accepted one leads
\* further.
LEMMA StageLedgerStep ==
  CascadeTyped /\ StageLedger /\ [Next]_vars => StageLedger'
<1> SUFFICES ASSUME CascadeTyped, StageLedger, [Next]_vars PROVE StageLedger'
  OBVIOUS
<1> USE DEF StageLedger, NothingSent, OneAccepted, Raise
<1>0. sent \in Nat /\ refused \in Nat /\ frame \in Frames
  BY DEF CascadeTyped, TypeOK, EngineTypeOK
<1>1. CASE AuthPhase \/ Degrade \/ Fail \/ AfterLastStage
  BY <1>0, <1>1 DEF AuthPhase, PhaseRaises, Degrade, Fail, AfterLastStage
<1>2. CASE BeginStage
  BY <1>2 DEF BeginStage
<1>3. CASE StageRequestPhase
  BY <1>0, <1>3 DEF StageRequestPhase, PhaseRaises
<1>4. CASE OutboundCall
  <2>1. CASE CallRefusedByBudget \/ AssemblyFails
    BY <1>0, <2>1 DEF CallRefusedByBudget, AssemblyFails
  <2>2. CASE SendCall
    BY <1>0, <2>2 DEF SendCall, Frames
  <2>3. CASE CallAnswered \/ CallRefused \/ CallFailed \/ CallTimesOut
    BY <1>0, <2>3 DEF CallAnswered, CallRefused, CallFailed, CallTimesOut
  <2> QED
    BY <1>4, <2>1, <2>2, <2>3 DEF OutboundCall, CallInTime
<1>5. CASE PollLoop
  <2>1. CASE NotAJob \/ JobWithoutPollPhases \/ EnterPollLoop \/ PollGivesUp \/ PollSleeps
    BY <1>0, <2>1
    DEF NotAJob, JobWithoutPollPhases, EnterPollLoop, PollGivesUp, PollSleeps
  <2>2. CASE PollRequestPhase
    BY <1>0, <2>2 DEF PollRequestPhase, PhaseRaises
  <2>3. CASE PollResponsePhase
    BY <1>0, <2>3 DEF PollResponsePhase, PhaseRaises
  <2> QED
    BY <1>5, <2>1, <2>2, <2>3 DEF PollLoop
<1>6. CASE StageResponsePhase
  BY <1>0, <1>6 DEF StageResponsePhase, PhaseRaises
<1>7. CASE Finish
  BY <1>0, <1>7 DEF Finish, Return
<1>8. CASE DegradedPhase
  BY <1>0, <1>8 DEF DegradedPhase, Return
<1>9. CASE UNCHANGED vars
  BY <1>9 DEF vars
<1> QED
  BY <1>1, <1>2, <1>3, <1>4, <1>5, <1>6, <1>7, <1>8, <1>9 DEF Next, Step, Finished

\* A step inside a stage that neither ends it nor keeps an artefact.
LEMMA ChainUntouched ==
  ASSUME CascadeTyped, ChainLedger, UNCHANGED <<declVars, loopVars>>,
         pc \in InStage, pc' \in InStage \cup {"raise"}
  PROVE  ChainLedger'
BY DEF ChainLedger, Ran, InStage, Leaving, StageOpen, Artefact, Terminal, DoneIsComplete,
       DegradedKeepsEarlierArtefact

\* The calls and the poll loop of a stage stay inside it, or raise.
LEMMA EngineStaysInStage ==
  ASSUME CascadeTyped, OutboundCall \/ PollLoop
  PROVE  pc \in InStage /\ pc' \in InStage \cup {"raise"}
<1> USE DEF InStage, Raise
<1>1. CASE OutboundCall
  BY <1>1 DEF OutboundCall, CallInTime, CallRefusedByBudget, AssemblyFails, SendCall, CallAnswered,
              CallRefused, CallFailed, CallTimesOut
<1>2. CASE PollLoop
  BY <1>2 DEF PollLoop, NotAJob, JobWithoutPollPhases, EnterPollLoop, PollGivesUp,
              PollSleeps, PollRequestPhase, PollResponsePhase, PhaseRaises
<1> QED
  BY <1>1, <1>2

\* Every step keeps the chain of artefacts.
LEMMA ChainLedgerStep ==
  CascadeTyped /\ ChainLedger /\ [Next]_vars => ChainLedger'
<1> SUFFICES ASSUME CascadeTyped, ChainLedger, [Next]_vars PROVE ChainLedger'
  OBVIOUS
<1> USE DEF Terminal, Leaving, InStage
<1>0. /\ idx \in 0..n /\ input \in 0..n /\ n \in Nat /\ calls \in Nat
      /\ fallback \subseteq 1..n /\ degraded \in 0..n
      /\ stage \in [1..n -> Artefacts \cup {"absent"}] /\ last \in Artefacts
  BY CascadeAssumption DEF CascadeTyped, TypeOK, Positions
<1>1. CASE AuthPhase
  <2>1. /\ pc = "auth" /\ pc' \in {"stage", "raise"}
        /\ UNCHANGED <<declVars, idx, artefactVars, degraded>>
    BY <1>1 DEF AuthPhase, PhaseRaises, Raise
  <2>2. idx = 0
    BY <2>1 DEF ChainLedger
  <2> QED
    BY <1>0, <2>1, <2>2
    DEF ChainLedger, Ran, Artefact, DoneIsComplete, DegradedKeepsEarlierArtefact
<1>2. CASE BeginStage
  <2>1. /\ pc = "stage" /\ pc' = "request" /\ idx < n /\ idx' = idx + 1
        /\ UNCHANGED <<declVars, artefactVars, degraded>>
    BY <1>2 DEF BeginStage, NextPosition
  <2>2. stage[idx + 1] = "absent"
    BY <1>0, <2>1 DEF ChainLedger, Ran
  <2> QED
    BY <1>0, <2>1, <2>2
    DEF ChainLedger, Ran, StageOpen, Artefact, DoneIsComplete, DegradedKeepsEarlierArtefact
<1>3. CASE StageRequestPhase
  <2>1. /\ pc = "request" /\ pc' \in {"send", "stage", "raise"}
        /\ UNCHANGED <<declVars, loopVars>>
    BY <1>3 DEF StageRequestPhase, PhaseRaises, Raise
  <2> QED
    BY <1>0, <2>1
    DEF ChainLedger, Ran, StageOpen, Artefact, DoneIsComplete, DegradedKeepsEarlierArtefact
<1>4. CASE (OutboundCall \/ PollLoop) /\ UNCHANGED <<declVars, loopVars>>
  BY <1>4, EngineStaysInStage, ChainUntouched
<1>5. CASE StageResponsePhase /\ PhaseRaises
  <2>1. pc = "respond" /\ pc' = "raise" /\ UNCHANGED <<declVars, loopVars>>
    BY <1>5 DEF StageResponsePhase, PhaseRaises, Raise
  <2> QED
    BY <2>1, ChainUntouched
<1>6. CASE StageResponsePhase /\ ~PhaseRaises
  <2>1. /\ pc = "respond" /\ pc' = "stage"
        /\ UNCHANGED <<declVars, idx, degraded>>
    BY <1>6 DEF StageResponsePhase
  <2>2. PICK a \in Artefacts : Keep(a)
    BY <1>6 DEF StageResponsePhase
  <2>3. StageOpen /\ degraded = 0 /\ a # "absent"
    BY <2>1, <2>2 DEF ChainLedger, Artefacts
  <2>4. /\ stage' = [stage EXCEPT ![idx] = a] /\ last' = a /\ input' = idx
        /\ calls' = calls + 1
    BY <2>2 DEF Keep
  <2>5. Ran' = Ran \cup {idx} /\ stage'[idx] = a
    BY <1>0, <2>1, <2>3, <2>4 DEF Ran, StageOpen
  <2>6. /\ (input \in Ran \cup {0})' /\ (\A i \in Ran : i <= input)'
        /\ (calls <= input)' /\ (input = 0 <=> calls = 0)'
    BY <1>0, <2>3, <2>4, <2>5 DEF ChainLedger, StageOpen
  <2> QED
    BY <1>0, <2>1, <2>3, <2>4, <2>5, <2>6
    DEF ChainLedger, StageOpen, Artefact, DoneIsComplete
<1>7. CASE Degrade
  <2>1. /\ pc = "raise" /\ pc' = "finish" /\ degraded' = idx
        /\ idx \in fallback /\ last # "none"
        /\ UNCHANGED <<declVars, idx, artefactVars>>
    BY <1>7 DEF Degrade, Degradable
  <2>2. StageOpen /\ input # 0
    BY <1>0, <2>1 DEF ChainLedger, Artefact
  <2>3. \A i \in idx..n : stage[i] = "absent"
    BY <1>0, <2>1, <2>2 DEF ChainLedger, Ran, StageOpen
  <2>4. DegradedKeepsEarlierArtefact'
    BY <1>0, <2>1, <2>2, <2>3 DEF DegradedKeepsEarlierArtefact, StageOpen
  <2> QED
    BY <1>0, <2>1, <2>2, <2>4 DEF ChainLedger, Ran, Artefact, DoneIsComplete
<1>8. CASE Fail
  <2>1. pc = "raise" /\ pc' = "failed" /\ UNCHANGED <<declVars, loopVars>>
    BY <1>8 DEF Fail
  <2> QED
    BY <1>0, <2>1
    DEF ChainLedger, Ran, DoneIsComplete, DegradedKeepsEarlierArtefact
<1>9. CASE AfterLastStage
  <2>1. pc = "stage" /\ idx = n /\ pc' = "finish" /\ UNCHANGED <<declVars, loopVars>>
    BY <1>9 DEF AfterLastStage
  <2> QED
    BY <1>0, <2>1
    DEF ChainLedger, Ran, Artefact, DoneIsComplete, DegradedKeepsEarlierArtefact
<1>10. CASE Finish
  <2>1. /\ pc = "finish" /\ pc' \in {"done", "failed"}
        /\ pc' = "done" => last = "json"
        /\ UNCHANGED <<declVars, loopVars>>
    BY <1>10 DEF Finish, Return
  <2>2. pc' = "done" => calls > 0 /\ (degraded = 0 => idx = n /\ stage[input] = "json")
    BY <1>0, <2>1 DEF ChainLedger, Artefact
  <2> QED
    BY <1>0, <2>1, <2>2
    DEF ChainLedger, Ran, DoneIsComplete, DegradedKeepsEarlierArtefact
<1>11. CASE DegradedPhase
  <2>1. /\ pc = "finish" /\ pc' \in {"done", "failed"} /\ degraded # 0
        /\ pc' = "done" => last' = "json"
        /\ last # "none"
        /\ UNCHANGED <<declVars, authHeaders, idx, stage, input, calls, degraded>>
    BY <1>11 DEF DegradedPhase, Return
  <2>2. calls > 0
    BY <1>0, <2>1 DEF ChainLedger, Artefact
  <2> QED
    BY <1>0, <2>1, <2>2
    DEF ChainLedger, Ran, DoneIsComplete, DegradedKeepsEarlierArtefact
<1>12. CASE UNCHANGED vars
  BY <1>12
  DEF vars, ChainLedger, Ran, StageOpen, Artefact, DoneIsComplete,
      DegradedKeepsEarlierArtefact
<1> QED
  BY <1>1, <1>2, <1>3, <1>4, <1>5, <1>6, <1>7, <1>8, <1>9, <1>10, <1>11, <1>12
  DEF Next, Step, Finished

\* A cascade starts with no artefact and nothing sent.
LEMMA ChainInit == Init => StageLedger /\ ChainLedger
<1> SUFFICES ASSUME Init PROVE StageLedger /\ ChainLedger
  OBVIOUS
<1>1. /\ pc \in {"auth", "stage"} /\ idx = 0 /\ input = 0 /\ calls = 0
      /\ last = "none" /\ degraded = 0 /\ sent = 0 /\ refused = 0 /\ frame = "first"
      /\ stage = [i \in 1..n |-> "absent"]
  BY DEF Init, EngineInit
<1>2. Ran = {}
  BY <1>1 DEF Ran
<1>3. StageLedger
  BY <1>1 DEF StageLedger, NothingSent
<1>4. ChainLedger
  BY <1>1, <1>2
  DEF ChainLedger, InStage, Terminal, Artefact, DoneIsComplete
<1> QED
  BY <1>3, <1>4

\* The artefact invariant holds throughout.
LEMMA ChainInvariant == Spec => []ChainInv
<1>1. Init => ChainInv
  BY CascadeInitTyped, ChainInit DEF ChainInv
<1>2. ChainInv /\ [Next]_vars => ChainInv'
  BY CascadeStepTyped, StageLedgerStep, ChainLedgerStep DEF ChainInv
<1> QED
  BY <1>1, <1>2, PTL DEF Spec

\* The payload of a stage is the artefact of the latest stage that ran, and each
\* artefact was paid for by one accepted generation call.
THEOREM Chained == Spec => []ArtefactChain
<1>1. ChainInv => ArtefactChain
  BY DEF ChainInv, StageLedger, ChainLedger, OneAccepted, Artefact, ArtefactChain
<1> QED
  BY <1>1, ChainInvariant, PTL

\* A degraded cascade gave up a fallback stage and returns what an earlier stage
\* left.
THEOREM DegradedKeeps == Spec => []DegradedKeepsEarlierArtefact
<1>1. ChainInv => DegradedKeepsEarlierArtefact
  BY DEF ChainInv, ChainLedger, DegradedKeepsEarlierArtefact
<1> QED
  BY <1>1, ChainInvariant, PTL

\* A cascade that answers and is not marked degraded went through its whole list.
THEOREM Complete == Spec => []DoneIsComplete
<1>1. ChainInv => DoneIsComplete
  BY DEF ChainInv, ChainLedger
<1> QED
  BY <1>1, ChainInvariant, PTL

-----------------------------------------------------------------------------
(* The shared budget.  The invariant says how late each place of the         *)
(* coroutine is reached, in phases after the latest end of a call; every     *)
(* call starts this account again, for none starts once the budget is over.  *)

Slots(total, i) == total + MaxGap + Horizon + i * ScriptTimeout

WireLedger ==
  /\ clock <= cfg.total + MaxGap
  /\ Bounded => clock + tmo <= cfg.total

BudgetLedger ==
  /\ pc = "auth" => clock = 0
  /\ pc \in {"stage", "raise", "finish"} => clock <= Slots(cfg.total, idx + 1)
  /\ pc = "request" => clock <= Slots(cfg.total, idx)
  /\ pc = "send" => clock <= Slots(cfg.total, idx + 1)
  /\ pc = "wire" => WireLedger
  /\ pc \in {"got", "verdict"} => clock <= Slots(cfg.total, 0)
  /\ pc \in {"poll", "respond"} => clock <= Slots(cfg.total, 1)
  /\ pc = "pollreq" => clock <= Slots(cfg.total, 0)
  /\ pc \in Terminal => clock <= Slots(cfg.total, n + 2)

BudgetInv == ChainInv /\ BudgetLedger

\* How the account grows along a cascade that stands at stage i of m.
LEMMA SlotsGrow ==
  ASSUME NEW total \in Nat, NEW i \in Nat, NEW m \in Nat, i <= m
  PROVE  /\ Slots(total, 0) = total + MaxGap + Horizon
         /\ Slots(total, 1) = Slots(total, 0) + ScriptTimeout
         /\ Slots(total, 2) = Slots(total, 1) + ScriptTimeout
         /\ Slots(total, i + 1) = Slots(total, i) + ScriptTimeout
         /\ Slots(total, 1) <= Slots(total, i + 1)
         /\ i >= 1 => Slots(total, 2) <= Slots(total, i + 1)
         /\ Slots(total, i + 1) + ScriptTimeout <= Slots(total, m + 2)
         /\ Slots(total, 0) \in Nat /\ Slots(total, 1) \in Nat /\ Slots(total, 2) \in Nat
         /\ Slots(total, i) \in Nat /\ Slots(total, i + 1) \in Nat
         /\ Slots(total, m + 2) \in Nat
<1> USE EngineAssumption
<1>1. \A j \in Nat : j * ScriptTimeout \in Nat
  OBVIOUS
<1>2. /\ 0 * ScriptTimeout = 0 /\ 1 * ScriptTimeout = ScriptTimeout
      /\ 2 * ScriptTimeout = ScriptTimeout + ScriptTimeout
      /\ i * ScriptTimeout \in Nat
      /\ (i + 1) * ScriptTimeout = i * ScriptTimeout + ScriptTimeout
  OBVIOUS
<1>3. ASSUME i >= 1
      PROVE  ScriptTimeout <= i * ScriptTimeout
  <2>1. i - 1 \in Nat
    BY <1>3
  <2>2. (i - 1) * ScriptTimeout \in Nat
    BY <1>1, <2>1
  <2>3. i * ScriptTimeout = (i - 1) * ScriptTimeout + ScriptTimeout
    BY <1>3
  <2> QED
    BY <1>2, <2>2, <2>3
<1>4. /\ (m + 2) * ScriptTimeout \in Nat
      /\ i * ScriptTimeout + ScriptTimeout + ScriptTimeout <= (m + 2) * ScriptTimeout
  <2>1. m - i \in Nat /\ m + 2 \in Nat
    OBVIOUS
  <2>2. (m - i) * ScriptTimeout \in Nat /\ (m + 2) * ScriptTimeout \in Nat
    BY <1>1, <2>1
  <2>3. (m + 2) * ScriptTimeout
          = i * ScriptTimeout + ScriptTimeout + ScriptTimeout + (m - i) * ScriptTimeout
    OBVIOUS
  <2> QED
    BY <1>2, <2>2, <2>3
<1> QED
  BY <1>2, <1>3, <1>4 DEF Slots

\* A cascade starts at clock value 0.
LEMMA BudgetInit == Init => BudgetLedger
<1> SUFFICES ASSUME Init PROVE BudgetLedger
  OBVIOUS
<1>1. /\ clock = 0 /\ pc \in {"auth", "stage"} /\ idx = 0 /\ cfg.total \in Nat
      /\ 0 <= 0
  BY CascadeInitTyped, EngineAssumption DEF Init, EngineInit, CascadeTyped, TypeOK, Config
<1>2. Slots(cfg.total, idx + 1) \in Nat
  BY <1>1, SlotsGrow
<1> QED
  BY <1>1, <1>2 DEF BudgetLedger, Terminal

\* Every step keeps the account of time.
LEMMA BudgetStep == BudgetInv /\ [Next]_vars => BudgetLedger'
<1> SUFFICES ASSUME BudgetInv, [Next]_vars PROVE BudgetLedger'
  OBVIOUS
<1> USE EngineAssumption
<1> USE DEF BudgetLedger, Terminal, Raise
<1>0. /\ cfg.total \in Nat /\ cfg.total > 0 /\ cfg \in Config /\ clock \in Nat /\ tmo \in Nat
      /\ idx \in Nat /\ n \in Nat /\ idx <= n /\ plan \in Plan /\ BudgetLedger /\ Budgeted
      /\ pc \in InStage => idx >= 1
  BY CascadeAssumption
  DEF BudgetInv, ChainInv, ChainLedger, StageOpen, CascadeTyped, TypeOK, EngineTypeOK,
      Positions, Config, Budgeted
<1>a. /\ Slots(cfg.total, 0) = cfg.total + MaxGap + Horizon
      /\ Slots(cfg.total, 1) = Slots(cfg.total, 0) + ScriptTimeout
      /\ Slots(cfg.total, 2) = Slots(cfg.total, 1) + ScriptTimeout
      /\ Slots(cfg.total, idx + 1) = Slots(cfg.total, idx) + ScriptTimeout
      /\ Slots(cfg.total, 1) <= Slots(cfg.total, idx + 1)
      /\ idx >= 1 => Slots(cfg.total, 2) <= Slots(cfg.total, idx + 1)
      /\ Slots(cfg.total, idx + 1) + ScriptTimeout <= Slots(cfg.total, n + 2)
      /\ Slots(cfg.total, 0) \in Nat /\ Slots(cfg.total, 1) \in Nat
      /\ Slots(cfg.total, idx) \in Nat /\ Slots(cfg.total, idx + 1) \in Nat
      /\ Slots(cfg.total, n + 2) \in Nat
  BY <1>0, SlotsGrow
<1>b. InStage = {"request", "send", "wire", "got", "poll", "pollreq", "verdict", "respond"}
  BY DEF InStage
<1>1. CASE AuthPhase
  <2>1. /\ pc = "auth" /\ pc' \in {"stage", "raise"} /\ UNCHANGED <<cfg, idx, n>>
    BY <1>1 DEF AuthPhase, PhaseRaises
  <2>2. PICK d \in 0..ScriptTimeout : clock' = clock + d
    BY <1>1 DEF AuthPhase, PhaseTakes, PhaseRaises
  <2> QED
    BY <1>0, <1>a, <2>1, <2>2
<1>2. CASE BeginStage
  <2>1. pc = "stage" /\ pc' = "request" /\ idx' = idx + 1 /\ UNCHANGED <<cfg, clock>>
    BY <1>2 DEF BeginStage, NextPosition
  <2> QED
    BY <1>0, <2>1
<1>3. CASE StageRequestPhase
  <2>1. /\ pc = "request" /\ pc' \in {"send", "stage", "raise"}
        /\ UNCHANGED <<cfg, idx, n>>
    BY <1>3 DEF StageRequestPhase, PhaseRaises
  <2>2. PICK d \in 0..ScriptTimeout : clock' = clock + d
    BY <1>3 DEF StageRequestPhase, PhaseTakes, PhaseRaises
  <2> QED
    BY <1>0, <1>a, <2>1, <2>2
<1>4. CASE OutboundCall /\ UNCHANGED <<declVars, loopVars>>
  <2>1. CASE CallRefusedByBudget \/ AssemblyFails
    <3>1. pc = "send" /\ pc' = "raise" /\ UNCHANGED <<cfg, clock, idx>>
      BY <1>4, <2>1 DEF CallRefusedByBudget, AssemblyFails
    <3> QED
      BY <1>0, <3>1
  <2>2. CASE SendCall
    <3>1. PICK g \in 0..MaxGap :
            /\ clock' = clock + g
            /\ tmo' = Cap(FirstTruthy(plan.timeout,
                       IF frame = "poll" THEN PollRequestTimeout ELSE UpstreamTimeout),
                       clock + g)
      BY <2>2 DEF SendCall
    <3>2. clock < cfg.total
      BY <1>0, <2>2 DEF SendCall, Exhausted, Remaining
    <3>3. FirstTruthy(plan.timeout,
            IF frame = "poll" THEN PollRequestTimeout ELSE UpstreamTimeout) \in Nat
      BY <1>0 DEF FirstTruthy, Plan
    <3>4. tmo' = 0 \/ clock' + tmo' <= cfg.total
      BY <1>0, <3>1, <3>3, CapFits
    <3>5. pc' = "wire" /\ cfg' = cfg
      BY <2>2 DEF SendCall
    <3> QED
      BY <1>0, <3>1, <3>2, <3>4, <3>5 DEF WireLedger, Bounded
  <2>3. CASE CallAnswered \/ CallRefused \/ CallFailed
    <3>1. /\ pc = "wire" /\ pc' \in {"got", "verdict", "raise"}
          /\ UNCHANGED <<cfg, idx>>
      BY <1>4, <2>3 DEF CallAnswered, CallRefused, CallFailed
    <3>2. PICK d \in WireTime : clock' = clock + d
      BY <2>3 DEF CallAnswered, CallRefused, CallFailed
    <3>3. clock' <= Slots(cfg.total, 0)
      BY <1>0, <1>a, <3>1, <3>2 DEF WireTime, WireLedger, Bounded
    <3> QED
      BY <1>0, <1>a, <3>1, <3>2, <3>3 DEF WireTime
  <2>4. CASE CallTimesOut
    <3>1. /\ pc = "wire" /\ pc' = "raise" /\ Bounded /\ clock' = clock + tmo
          /\ UNCHANGED <<cfg, idx>>
      BY <1>4, <2>4 DEF CallTimesOut
    <3> QED
      BY <1>0, <1>a, <3>1 DEF WireLedger
  <2> QED
    BY <1>4, <2>1, <2>2, <2>3, <2>4 DEF OutboundCall, CallInTime
<1>5. CASE PollLoop /\ UNCHANGED <<declVars, loopVars>>
  <2>1. CASE NotAJob \/ JobWithoutPollPhases \/ EnterPollLoop
    <3>1. /\ pc = "got" /\ pc' \in {"respond", "raise", "poll"}
          /\ UNCHANGED <<cfg, clock, idx>>
      BY <1>5, <2>1 DEF NotAJob, JobWithoutPollPhases, EnterPollLoop
    <3> QED
      BY <1>0, <1>a, <3>1
  <2>2. CASE PollGivesUp
    <3>1. pc = "poll" /\ pc' = "raise" /\ UNCHANGED <<cfg, clock, idx>>
      BY <1>5, <2>2 DEF PollGivesUp
    <3> QED
      BY <1>0, <1>a, <3>1
  <2>3. CASE PollSleeps
    <3>1. /\ pc' = "pollreq" /\ clock' = clock + Cap(PollInterval, clock)
          /\ UNCHANGED cfg
      BY <2>3 DEF PollSleeps
    <3>2. clock < cfg.total
      BY <1>0, <2>3 DEF PollSleeps, Exhausted, Remaining
    <3>3. /\ Cap(PollInterval, clock) \in Nat
          /\ Cap(PollInterval, clock) = 0 \/ clock + Cap(PollInterval, clock) <= cfg.total
      BY <1>0, CapFits, CapTyped
    <3> QED
      BY <1>0, <1>a, <3>1, <3>2, <3>3
  <2>4. CASE PollRequestPhase
    <3>1. /\ pc = "pollreq" /\ pc' \in {"send", "raise"} /\ UNCHANGED <<cfg, idx>>
      BY <1>5, <2>4 DEF PollRequestPhase, PhaseRaises
    <3>2. PICK d \in 0..ScriptTimeout : clock' = clock + d
      BY <2>4 DEF PollRequestPhase, PhaseTakes, PhaseRaises
    <3> QED
      BY <1>0, <1>a, <3>1, <3>2
  <2>5. CASE PollResponsePhase
    <3>1. /\ pc = "verdict" /\ pc' \in {"poll", "respond", "raise"}
          /\ UNCHANGED <<cfg, idx>>
      BY <1>5, <2>5 DEF PollResponsePhase, PhaseRaises
    <3>2. PICK d \in 0..ScriptTimeout : clock' = clock + d
      BY <2>5 DEF PollResponsePhase, PhaseTakes, PhaseRaises
    <3> QED
      BY <1>0, <1>a, <3>1, <3>2
  <2> QED
    BY <1>5, <2>1, <2>2, <2>3, <2>4, <2>5 DEF PollLoop
<1>6. CASE StageResponsePhase
  <2>1. /\ pc = "respond" /\ pc' \in {"stage", "raise"} /\ UNCHANGED <<cfg, idx>>
    BY <1>6 DEF StageResponsePhase, PhaseRaises
  <2>2. PICK d \in 0..ScriptTimeout : clock' = clock + d
    BY <1>6 DEF StageResponsePhase, PhaseTakes, PhaseRaises
  <2> QED
    BY <1>0, <1>a, <1>b, <2>1, <2>2
<1>7. CASE Degrade \/ AfterLastStage
  <2>1. /\ pc \in {"raise", "stage"} /\ pc' = "finish" /\ UNCHANGED <<cfg, clock, idx>>
    BY <1>7 DEF Degrade, AfterLastStage
  <2> QED
    BY <1>0, <2>1
<1>8. CASE Fail \/ Finish
  <2>1. /\ pc \in {"raise", "finish"} /\ pc' \in {"failed", "done"}
        /\ UNCHANGED <<cfg, clock, n>>
    BY <1>8 DEF Fail, Finish, Return
  <2> QED
    BY <1>0, <1>a, <2>1
<1>9. CASE DegradedPhase
  <2>1. /\ pc = "finish" /\ pc' \in {"failed", "done"} /\ UNCHANGED <<cfg, n>>
    BY <1>9 DEF DegradedPhase, Return
  <2>2. PICK d \in 0..ScriptTimeout : clock' = clock + d
    BY <1>9 DEF DegradedPhase, PhaseTakes
  <2> QED
    BY <1>0, <1>a, <2>1, <2>2
<1>10. CASE UNCHANGED vars
  BY <1>0, <1>10 DEF vars, WireLedger, Bounded
<1> QED
  BY <1>1, <1>2, <1>3, <1>4, <1>5, <1>6, <1>7, <1>8, <1>9, <1>10 DEF Next, Step, Finished

\* A bounded call ends no later than the shared budget does, and a cascade goes on
\* beyond it for a bounded time only.
THEOREM Budgeting == Spec => []BudgetHolds
<1>1. Init => BudgetInv
  BY CascadeInitTyped, ChainInit, BudgetInit DEF BudgetInv, ChainInv
<1>2. BudgetInv /\ [Next]_vars => BudgetInv'
  BY CascadeStepTyped, StageLedgerStep, ChainLedgerStep, BudgetStep
  DEF BudgetInv, ChainInv
<1>3. BudgetInv => BudgetHolds
  <2> SUFFICES ASSUME BudgetInv PROVE BudgetHolds
    OBVIOUS
  <2> USE EngineAssumption
  <2>1. /\ cfg.total \in Nat /\ clock \in Nat /\ idx \in Nat /\ n \in Nat /\ idx <= n
        /\ pc \in Locations
    BY CascadeAssumption
    DEF BudgetInv, ChainInv, CascadeTyped, TypeOK, EngineTypeOK, Positions, Config
  <2>2. /\ Slots(cfg.total, 0) = cfg.total + MaxGap + Horizon
        /\ Slots(cfg.total, 1) = Slots(cfg.total, 0) + ScriptTimeout
        /\ Slots(cfg.total, idx + 1) = Slots(cfg.total, idx) + ScriptTimeout
        /\ Slots(cfg.total, 1) <= Slots(cfg.total, idx + 1)
        /\ Slots(cfg.total, idx + 1) + ScriptTimeout <= Slots(cfg.total, n + 2)
        /\ Slots(cfg.total, 0) \in Nat /\ Slots(cfg.total, 1) \in Nat
        /\ Slots(cfg.total, idx) \in Nat /\ Slots(cfg.total, idx + 1) \in Nat
        /\ Slots(cfg.total, n + 2) \in Nat
    BY <2>1, SlotsGrow
  <2>3. clock <= Slots(cfg.total, n + 2)
    BY <2>1, <2>2
    DEF BudgetInv, BudgetLedger, WireLedger, Locations, Terminal
  <2>4. Slots(cfg.total, n + 2) = cfg.total + Overrun
    BY <2>1 DEF Slots, Overrun
  <2> QED
    BY <2>3, <2>4
    DEF BudgetInv, BudgetLedger, WireLedger, BudgetHolds, CallsFitBudget, BoundedOverrun
<1> QED
  BY <1>1, <1>2, <1>3, PTL DEF Spec
===============================================================================
