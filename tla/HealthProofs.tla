---------------------------- MODULE HealthProofs ----------------------------
(***************************************************************************)
(* Proofs about Health for every set of sessions and lists, every cadence  *)
(* and every pair of thresholds.                                           *)
(***************************************************************************)
EXTENDS Health, TLAPS

\* The history is long enough to look back over either threshold.
LEMMA WindowFacts ==
    /\ Window \in Nat \ {0}
    /\ Threshold <= Window
    /\ RejectedThreshold <= Window
  BY ConstantsAssumption DEF Window

\* The saturating counter goes up by one at most and stays in its range.
LEMMA CountFacts ==
    ASSUME NEW c \in 0..FailureCap
    PROVE  /\ Count(c) \in 0..FailureCap
           /\ Count(c) <= c + 1
           /\ Count(c) >= c
           /\ c < FailureCap => Count(c) = c + 1
  BY ConstantsAssumption DEF Count

\* A run of rejections is cut to nothing or grows by one at most.
LEMMA RunFacts ==
    ASSUME rejections \in 0..FailureCap, NEW a \in Answers
    PROVE  /\ rejectionRun(a) \in 0..FailureCap
           /\ rejectionRun(a) <= rejections + 1
           /\ a # "denied" => rejectionRun(a) = 0
  BY CountFacts, ConstantsAssumption DEF rejectionRun, classify, Answers

\* A verdict is never "ok", and "rejected" needs a run of RejectedThreshold.
LEMMA VerdictFacts ==
    ASSUME rejections \in 0..FailureCap, NEW a \in Answers
    PROVE  /\ confirmedKind(a) \in {"unreachable", "rejected"}
           /\ confirmedKind(a) = "rejected" => rejectionRun(a) >= RejectedThreshold
  BY RunFacts, ConstantsAssumption DEF confirmedKind, classify

\* Whatever state the gate is in, the timer is set to one of the known waits.
LEMMA DelayFacts ==
    ASSUME NEW isUp, NEW why, NEW f \in 0..FailureCap, NEW ever
    PROVE  nextInterval(isUp, why, f, ever) \in Delays
  BY DEF nextInterval, Delays

-----------------------------------------------------------------------------
(* Who changes what *)

Outside ==
    \/ Shutdown \/ ProbeNow \/ NetworkChanges \/ SourcesChange
    \/ \E s \in Sessions : Session(s)

core == <<gateVars, pc, checkerVars, wait, bound, registry, histVars>>

\* Nothing but the checker's goroutine moves the gate, the registry, the
\* checker's counters or its timer.
LEMMA OnlyCheckerMovesTheGate == Outside \/ UNCHANGED vars => UNCHANGED core
  BY DEF Outside, core, vars, gateVars, checkerVars, serveVars, sessVars, netVars,
     histVars, Shutdown, ProbeNow, NetworkChanges, SourcesChange, Session, Admitted,
     Refused, Answered, QueryEnds, QueryDies

\* The checker leaves the sessions, the flag, the context and Redash alone.
LEMMA CheckerFrame ==
    Checker => UNCHANGED <<sessVars, wait, cancelled, netVars>>
  BY DEF Checker, gateVars, checkerVars, serveVars, sessVars, netVars, histVars,
     ServeWaiting, StartupProbe, ServeBinds, RunProbes, RunArms, Tick, Woken,
     BeginProbe, ProbeSucceeds, SwapAndPublish, RecoverGate, ProbeFails,
     ProbeCancelled, RecordFailure, RunReturns

-----------------------------------------------------------------------------
(* Types *)

\* No verdict outside Kinds reaches the gate.
LEMMA GateTypeStep == ASSUME TypeOK, [Next]_vars PROVE GateTypeOK'
<1> USE DEF TypeOK, GateTypeOK, gateVars
<1>1. CASE Outside
  BY <1>1 DEF Outside, Shutdown, ProbeNow, NetworkChanges, SourcesChange, Session,
     Admitted, Refused, Answered, QueryEnds, QueryDies, Suspect
<1>2. CASE RecordFailure
  <2>1. confirmedKind(answer) \in Kinds
    BY VerdictFacts DEF CheckerTypeOK, Kinds
  <2>2. QED
    BY <1>2, <2>1 DEF RecordFailure, Fail
<1>3. CASE Checker /\ ~RecordFailure
  BY <1>3 DEF Checker, ServeWaiting, StartupProbe, ServeBinds, RunProbes, RunArms,
     Tick, Woken, BeginProbe, ProbeSucceeds, SwapAndPublish, RecoverGate, ProbeFails,
     ProbeCancelled, RunReturns, Fail, Recover, Kinds
<1>4. CASE UNCHANGED vars
  BY <1>4 DEF vars
<1>5. QED
  BY <1>1, <1>2, <1>3, <1>4 DEF Next, Outside

\* The counters saturate and the timer is set to known waits.
LEMMA CheckerTypeStep == ASSUME TypeOK, [Next]_vars PROVE CheckerTypeOK'
<1> USE DEF TypeOK, CheckerTypeOK, checkerVars
<1>1. CASE Outside \/ UNCHANGED vars
  BY <1>1, OnlyCheckerMovesTheGate DEF core
<1>2. CASE ServeWaiting \/ StartupProbe \/ ServeBinds \/ RunProbes
  BY <1>2 DEF ServeWaiting, StartupProbe, ServeBinds, RunProbes, BeginProbe
<1>3. CASE RunArms \/ ProbeCancelled
  BY <1>3, DelayFacts DEF RunArms, ProbeCancelled
<1>4. CASE Tick \/ Woken \/ RunReturns
  BY <1>4 DEF Tick, Woken, RunReturns, BeginProbe
<1>5. CASE ProbeSucceeds
  BY <1>5, ConstantsAssumption DEF ProbeSucceeds, EnvTypeOK, Kinds, Answers
<1>6. CASE SwapAndPublish
  BY <1>6 DEF SwapAndPublish, publish
<1>7. CASE RecoverGate
  BY <1>7, DelayFacts DEF RecoverGate
<1>8. CASE ProbeFails
  BY <1>8 DEF ProbeFails, Outcomes
<1>9. CASE RecordFailure
  <2>1. Count(failures) \in 0..FailureCap /\ rejectionRun(answer) \in 0..FailureCap
    BY CountFacts, RunFacts
  <2>2. confirmedKind(answer) \in Kinds
    BY VerdictFacts DEF Kinds
  <2>3. delay' \in Delays
    BY <1>9, <2>1, DelayFacts DEF RecordFailure
  <2>4. QED
    BY <1>9, <2>1, <2>2, <2>3 DEF RecordFailure
<1>10. QED
  BY <1>1, <1>2, <1>3, <1>4, <1>5, <1>6, <1>7, <1>8, <1>9
  DEF Next, Checker, Outside

\* Every line sent is a known event with a known kind and countdown.
LEMMA EventTypeStep == ASSUME TypeOK, [Next]_vars PROVE EventTypeOK'
<1> USE DEF TypeOK, EventTypeOK, checkerVars
<1>1. CASE Outside \/ UNCHANGED vars
  BY <1>1, OnlyCheckerMovesTheGate DEF core
<1>2. CASE RecoverGate
  BY <1>2 DEF RecoverGate, Kinds
<1>3. CASE RecordFailure
  <2>1. confirmedKind(answer) \in Kinds
    BY VerdictFacts DEF CheckerTypeOK, Kinds
  <2>2. retryDelay(confirmedKind(answer)) \in Delays
    BY CountFacts, DelayFacts DEF CheckerTypeOK, retryDelay
  <2>3. QED
    BY <1>3, <2>1, <2>2 DEF RecordFailure, failureEvent, Answering
<1>4. CASE Checker /\ ~RecoverGate /\ ~RecordFailure
  BY <1>4 DEF Checker, ServeWaiting, StartupProbe, ServeBinds, RunProbes, RunArms,
     Tick, Woken, BeginProbe, ProbeSucceeds, SwapAndPublish, ProbeFails,
     ProbeCancelled, RunReturns
<1>5. QED
  BY <1>1, <1>2, <1>3, <1>4 DEF Next, Outside

\* The history shifts within its window.
LEMMA HistoryTypeStep == ASSUME TypeOK, [Next]_vars PROVE HistoryTypeOK'
<1> USE DEF TypeOK, HistoryTypeOK, histVars
<1>1. CASE Outside \/ UNCHANGED vars
  BY <1>1, OnlyCheckerMovesTheGate DEF core
<1>2. CASE ProbeSucceeds \/ RecordFailure
  <2>1. answer \in Answers /\ "ok" \in Answers
    BY DEF CheckerTypeOK, Answers
  <2>2. \A i \in 1..Window : i # 1 => i - 1 \in 1..Window
    BY WindowFacts
  <2>3. CASE ProbeSucceeds
    BY <2>3, <2>1, <2>2 DEF ProbeSucceeds
  <2>4. CASE RecordFailure
    BY <2>4, <2>1, <2>2 DEF RecordFailure, gateVars
  <2>5. QED
    BY <1>2, <2>3, <2>4
<1>3. CASE Checker /\ ~ProbeSucceeds /\ ~RecordFailure
  BY <1>3 DEF Checker, ServeWaiting, StartupProbe, ServeBinds, RunProbes, RunArms,
     Tick, Woken, BeginProbe, SwapAndPublish, RecoverGate, ProbeFails,
     ProbeCancelled, RunReturns
<1>4. QED
  BY <1>1, <1>2, <1>3 DEF Next, Outside

\* serve()'s flags, the sessions and Redash keep their types.
LEMMA OuterTypeStep ==
    ASSUME TypeOK, [Next]_vars
    PROVE  ServeTypeOK' /\ SessionTypeOK' /\ EnvTypeOK'
<1> USE DEF TypeOK
<1>1. ServeTypeOK'
  <2>1. CASE Outside \/ UNCHANGED vars
    BY <2>1 DEF ServeTypeOK, serveVars, vars, Outside, Shutdown, ProbeNow,
       NetworkChanges, SourcesChange, Session, Admitted, Refused, Answered,
       QueryEnds, QueryDies
  <2>2. CASE Checker
    BY <2>2 DEF ServeTypeOK, serveVars, Checker, ServeWaiting, StartupProbe,
       ServeBinds, RunProbes, RunArms, Tick, Woken, BeginProbe, ProbeSucceeds,
       SwapAndPublish, RecoverGate, ProbeFails, ProbeCancelled, RecordFailure,
       RunReturns
  <2>3. QED
    BY <2>1, <2>2 DEF Next, Outside
<1>2. SessionTypeOK'
  <2>1. ASSUME NEW s \in Sessions, Session(s) PROVE SessionTypeOK'
    BY <2>1 DEF SessionTypeOK, GateTypeOK, Session, Admitted, Refused, Answered,
       QueryEnds, QueryDies, Kinds
  <2>2. CASE UNCHANGED sessVars
    BY <2>2 DEF sessVars, SessionTypeOK
  <2>3. QED
    BY <2>1, <2>2, CheckerFrame DEF Next, vars, Shutdown, ProbeNow, NetworkChanges,
       SourcesChange
<1>3. EnvTypeOK'
  <2>1. CASE NetworkChanges \/ SourcesChange
    BY <2>1 DEF EnvTypeOK, NetworkChanges, SourcesChange
  <2>2. CASE UNCHANGED netVars
    BY <2>2 DEF netVars, EnvTypeOK
  <2>3. QED
    BY <2>1, <2>2, CheckerFrame DEF Next, vars, Shutdown, ProbeNow, Session,
       Admitted, Refused, Answered, QueryEnds, QueryDies
<1>4. QED
  BY <1>1, <1>2, <1>3

\* The state serve() starts from is well typed.
LEMMA InitTypes == Init => TypeOK
<1> SUFFICES ASSUME Init PROVE TypeOK
  OBVIOUS
<1>1. GateTypeOK /\ ServeTypeOK /\ EnvTypeOK
  BY DEF Init, GateTypeOK, ServeTypeOK, EnvTypeOK, Kinds
<1>2. CheckerTypeOK
  <2>1. 0 \in 0..FailureCap /\ Interval \in Delays
    BY ConstantsAssumption DEF Delays
  <2>2. NoSources \in Lists
    BY ConstantsAssumption
  <2>3. QED
    BY <2>1, <2>2 DEF Init, CheckerTypeOK, Kinds, Answers
<1>3. EventTypeOK
  BY DEF Init, EventTypeOK, Kinds
<1>4. SessionTypeOK /\ HistoryTypeOK
  BY WindowFacts DEF Init, SessionTypeOK, HistoryTypeOK, Kinds
<1>5. QED
  BY <1>1, <1>2, <1>3, <1>4 DEF TypeOK

\* Every variable keeps its type: the counters stay in range, the timer is only
\* ever set to a wait nextInterval returns, and the app only ever reads the
\* events it knows.
THEOREM TypeCorrect == Spec => []TypeOK
<1>1. Init => TypeOK
  BY InitTypes
<1>2. TypeOK /\ [Next]_vars => TypeOK'
  BY GateTypeStep, CheckerTypeStep, EventTypeStep, HistoryTypeStep, OuterTypeStep
  DEF TypeOK
<1>3. QED
  BY <1>1, <1>2, PTL DEF Spec

-----------------------------------------------------------------------------
(* The invariant, conjunct by conjunct *)

\* A failed probe adds its answer to the history and to the counters together.
LEMMA CountersStep == ASSUME HealthInv, [Next]_vars PROVE CountersMatch'
<1> USE DEF CountersMatch, HealthInv
<1>1. CASE Outside \/ UNCHANGED vars
  BY <1>1, OnlyCheckerMovesTheGate DEF core, checkerVars, histVars
<1>2. CASE ProbeSucceeds
  BY <1>2, WindowFacts DEF ProbeSucceeds
<1>3. CASE RecordFailure
  <2>1. answer \in {"denied", "down"} /\ answer \in Answers
    BY <1>3 DEF RecordFailure, Progress, TypeOK, CheckerTypeOK, Answers
  <2>2. /\ failures \in 0..FailureCap /\ rejections \in 0..FailureCap
        /\ failures' \in 0..FailureCap /\ failures' <= failures + 1
        /\ rejections' \in 0..FailureCap /\ rejections' <= rejections + 1
        /\ answer # "denied" => rejections' = 0
    BY <1>3, <2>1, CountFacts, RunFacts DEF RecordFailure, TypeOK, CheckerTypeOK
  <2>3. \A i \in 1..Window : recent'[i] = IF i = 1 THEN answer ELSE recent[i - 1]
    BY <1>3 DEF RecordFailure
  <2>4. FailureCap \in Nat
    BY ConstantsAssumption
  <2>5. SUFFICES ASSUME NEW i \in 1..Window
                 PROVE  /\ i <= failures' => recent'[i] \in {"denied", "down"}
                        /\ i <= rejections' => recent'[i] = "denied"
    OBVIOUS
  <2>6. CASE i = 1
    BY <2>1, <2>2, <2>3, <2>4, <2>6
  <2>7. CASE i # 1
    <3>1. i - 1 \in 1..Window
      BY <2>7, WindowFacts
    <3>2. QED
      BY <2>2, <2>3, <2>4, <2>7, <3>1
  <2>8. QED
    BY <2>6, <2>7
<1>4. CASE Checker /\ ~ProbeSucceeds /\ ~RecordFailure
  BY <1>4 DEF Checker, ServeWaiting, StartupProbe, ServeBinds, RunProbes, RunArms,
     Tick, Woken, BeginProbe, SwapAndPublish, RecoverGate, ProbeFails,
     ProbeCancelled, RunReturns, checkerVars, histVars
<1>5. QED
  BY <1>1, <1>2, <1>3, <1>4 DEF Next, Outside

\* The gate is moved only by a verdict its counters have earned.
LEMMA VerdictStep == ASSUME HealthInv, [Next]_vars PROVE VerdictBacked'
<1> USE DEF VerdictBacked, Reopening, HealthInv
<1>1. CASE Outside \/ UNCHANGED vars
  BY <1>1, OnlyCheckerMovesTheGate DEF core, gateVars, checkerVars
<1>2. CASE RecordFailure
  <2>1. answer \in Answers
    BY DEF TypeOK, CheckerTypeOK
  <2>2. /\ confirmedKind(answer) \in {"unreachable", "rejected"}
        /\ confirmedKind(answer) = "rejected"
             => rejectionRun(answer) >= RejectedThreshold
    BY <2>1, VerdictFacts DEF TypeOK, CheckerTypeOK
  <2>3. /\ failures \in 0..FailureCap /\ Count(failures) \in 0..FailureCap
        /\ Count(failures) >= failures
    BY CountFacts DEF TypeOK, CheckerTypeOK
  <2>4. everUp /\ ~Absorbs => Count(failures) >= Threshold
    BY <1>2, <2>3, ConstantsAssumption DEF Absorbs, RecordFailure
  <2>5. CASE Absorbs
    BY <1>2, <2>5 DEF RecordFailure, Absorbs, gateVars
  <2>6. CASE ~Absorbs
    BY <1>2, <2>2, <2>4, <2>6 DEF RecordFailure, Fail
  <2>7. QED
    BY <2>5, <2>6
<1>3. CASE ServeWaiting
  BY <1>3 DEF ServeWaiting, Fail, checkerVars, Progress
<1>4. CASE StartupProbe \/ ServeBinds \/ RunProbes \/ RunArms \/ Tick \/ Woken
  BY <1>4 DEF StartupProbe, ServeBinds, RunProbes, RunArms, Tick, Woken, BeginProbe,
     checkerVars, gateVars
<1>5. CASE ProbeSucceeds \/ SwapAndPublish
  BY <1>5 DEF ProbeSucceeds, SwapAndPublish, gateVars
<1>6. CASE RecoverGate
  BY <1>6 DEF RecoverGate, Recover
<1>7. CASE ProbeFails \/ ProbeCancelled \/ RunReturns
  BY <1>7 DEF ProbeFails, ProbeCancelled, RunReturns, checkerVars, gateVars
<1>8. QED
  BY <1>1, <1>2, <1>3, <1>4, <1>5, <1>6, <1>7 DEF Next, Outside, Checker

\* The checker's position keeps telling what it has done.
LEMMA ProgressStep == ASSUME HealthInv, [Next]_vars PROVE Progress'
<1> USE DEF Progress, Reopening, HealthInv
<1>1. CASE Outside \/ UNCHANGED vars
  BY <1>1, OnlyCheckerMovesTheGate DEF core, gateVars, checkerVars, histVars
<1>2. CASE ServeWaiting
  BY <1>2 DEF ServeWaiting, Fail, checkerVars
<1>3. CASE StartupProbe \/ RunProbes \/ Tick \/ Woken
  BY <1>3 DEF StartupProbe, RunProbes, Tick, Woken, BeginProbe
<1>4. CASE ServeBinds
  BY <1>4 DEF ServeBinds, checkerVars
<1>5. CASE RunArms \/ ProbeCancelled
  BY <1>5 DEF RunArms, ProbeCancelled, gateVars, serveVars
<1>6. CASE ProbeSucceeds
  BY <1>6 DEF ProbeSucceeds
<1>7. CASE SwapAndPublish
  BY <1>7 DEF SwapAndPublish, publish
<1>8. CASE RecoverGate
  BY <1>8 DEF RecoverGate, Recover, histVars
<1>9. CASE ProbeFails \/ RunReturns
  BY <1>9 DEF ProbeFails, RunReturns, checkerVars
<1>10. CASE RecordFailure
  BY <1>10 DEF RecordFailure
<1>11. QED
  BY <1>1, <1>2, <1>3, <1>4, <1>5, <1>6, <1>7, <1>8, <1>9, <1>10
  DEF Next, Checker, Outside

\* A client can be served only once a probe has opened the gate, and the probe
\* that opens it has replaced the registry first.
LEMMA OpenStep == ASSUME HealthInv, [Next]_vars PROVE OpenOverFreshRegistry'
<1> USE DEF OpenOverFreshRegistry, HealthInv
<1>1. CASE Outside \/ UNCHANGED vars
  BY <1>1, OnlyCheckerMovesTheGate DEF core, gateVars, checkerVars, histVars
<1>2. CASE ServeWaiting
  BY <1>2 DEF ServeWaiting, Fail
<1>3. CASE StartupProbe \/ RunProbes \/ Tick \/ Woken
  BY <1>3 DEF StartupProbe, RunProbes, Tick, Woken, BeginProbe, gateVars, serveVars,
     histVars
<1>4. CASE ServeBinds
  BY <1>4 DEF ServeBinds, Progress, gateVars, checkerVars, histVars
<1>5. CASE RunArms \/ ProbeCancelled \/ ProbeFails \/ RunReturns
  BY <1>5 DEF RunArms, ProbeCancelled, ProbeFails, RunReturns, gateVars, checkerVars,
     serveVars, histVars
<1>6. CASE ProbeSucceeds \/ SwapAndPublish
  BY <1>6 DEF ProbeSucceeds, SwapAndPublish, gateVars, serveVars
<1>7. CASE RecoverGate
  BY <1>7 DEF RecoverGate, Progress, Reopening, histVars
<1>8. CASE RecordFailure
  BY <1>8 DEF RecordFailure, Fail, gateVars, serveVars
<1>9. QED
  BY <1>1, <1>2, <1>3, <1>4, <1>5, <1>6, <1>7, <1>8 DEF Next, Checker, Outside

\* The token outlives everything but the probe it asks for.
LEMMA SuspicionStep == ASSUME HealthInv, [Next]_vars PROVE SuspicionIsKept'
<1> USE DEF SuspicionIsKept, HealthInv
<1>1. CASE Outside
  BY <1>1 DEF Outside, Shutdown, ProbeNow, NetworkChanges, SourcesChange, Session,
     Admitted, Refused, Answered, QueryEnds, QueryDies, Suspect
<1>2. CASE Checker
  BY <1>2 DEF Checker, ServeWaiting, StartupProbe, ServeBinds, RunProbes, RunArms,
     Tick, Woken, BeginProbe, ProbeSucceeds, SwapAndPublish, RecoverGate, ProbeFails,
     ProbeCancelled, RecordFailure, RunReturns
<1>3. CASE UNCHANGED vars
  BY <1>3 DEF vars
<1>4. QED
  BY <1>1, <1>2, <1>3 DEF Next, Outside

\* The countdown depends on nothing but the verdict and the counters.
LEMMA RetryFrame ==
    UNCHANGED <<kind, failures, everUp>> => closedRetry' = closedRetry
  BY DEF closedRetry

\* A line goes out with every verdict, and only a verdict or a recovery changes
\* what the last line must say.
LEMMA AnnouncedStep == ASSUME HealthInv, [Next]_vars PROVE AnnouncedBacked'
<1> USE DEF AnnouncedBacked, Reopening, HealthInv
<1>1. CASE Outside \/ UNCHANGED vars
  BY <1>1, OnlyCheckerMovesTheGate, RetryFrame
  DEF core, gateVars, checkerVars, histVars
<1>2. CASE ServeWaiting
  BY <1>2 DEF ServeWaiting, Fail, checkerVars, Progress
<1>3. CASE StartupProbe \/ RunProbes \/ Tick \/ Woken
  BY <1>3, RetryFrame
  DEF StartupProbe, RunProbes, Tick, Woken, BeginProbe, gateVars, histVars
<1>4. CASE RunArms \/ ProbeCancelled \/ ServeBinds
  BY <1>4, RetryFrame
  DEF RunArms, ProbeCancelled, ServeBinds, gateVars, checkerVars, histVars
<1>5. CASE ProbeFails \/ RunReturns
  BY <1>5, RetryFrame DEF ProbeFails, RunReturns, gateVars, checkerVars, histVars
<1>6. CASE ProbeSucceeds \/ SwapAndPublish
  BY <1>6 DEF ProbeSucceeds, SwapAndPublish, gateVars
<1>7. CASE RecoverGate
  BY <1>7 DEF RecoverGate, Recover, Answering, Progress
<1>8. CASE RecordFailure
  <2>1. CASE Absorbs
    BY <1>8, <2>1 DEF RecordFailure, Absorbs, gateVars
  <2>2. CASE ~Absorbs
    <3> DEFINE verdict == confirmedKind(answer)
    <3>1. kind' = verdict /\ failures' = Count(failures) /\ everUp' = everUp
      BY <1>8, <2>2 DEF RecordFailure, Fail
    <3>2. closedRetry' = RetryIn(retryDelay(verdict))
      BY <3>1 DEF closedRetry, retryDelay
    <3>3. announced' = [event |-> failureEvent(verdict), kind |-> verdict,
                        retryIn |-> RetryIn(retryDelay(verdict))]
      BY <1>8, <2>2 DEF RecordFailure
    <3>4. ~up' /\ lastKind' = verdict
      BY <1>8, <2>2 DEF RecordFailure, Fail
    <3> HIDE DEF verdict
    <3>5. QED
      BY <3>1, <3>2, <3>3, <3>4 DEF failureEvent, Answering
  <2>3. QED
    BY <2>1, <2>2
<1>9. QED
  BY <1>1, <1>2, <1>3, <1>4, <1>5, <1>6, <1>7, <1>8 DEF Next, Checker, Outside

-----------------------------------------------------------------------------
(* Theorems *)

\* The conjunction of all the parts is inductive.
THEOREM Invariance == Spec => []HealthInv
<1>1. Init => HealthInv
  <2> SUFFICES ASSUME Init, TypeOK PROVE HealthInv
    <3>1. Init => TypeOK
      BY InitTypes
    <3>2. QED
      BY <3>1
  <2>1. CountersMatch
    BY DEF Init, CountersMatch
  <2>2. VerdictBacked /\ OpenOverFreshRegistry /\ SuspicionIsKept
    BY DEF Init, VerdictBacked, OpenOverFreshRegistry, SuspicionIsKept
  <2>3. Progress
    BY WindowFacts DEF Init, Progress, Reopening
  <2>4. AnnouncedBacked
    BY DEF Init, AnnouncedBacked, Answering
  <2>5. QED
    BY <2>1, <2>2, <2>3, <2>4 DEF HealthInv
<1>2. HealthInv /\ [Next]_vars => HealthInv'
  BY GateTypeStep, CheckerTypeStep, EventTypeStep, HistoryTypeStep, OuterTypeStep,
     CountersStep, VerdictStep, ProgressStep, AnnouncedStep, OpenStep, SuspicionStep
  DEF HealthInv, TypeOK
<1>3. QED
  BY <1>1, <1>2, PTL DEF Spec

\* Once Redash has answered, the gate is closed only over Threshold failed
\* probes in a row.
THEOREM ClosedOnlyWhenConfirmed == Spec => []ClosedIsConfirmed
<1>1. HealthInv => ClosedIsConfirmed
  BY WindowFacts, ConstantsAssumption
  DEF HealthInv, CountersMatch, VerdictBacked, ClosedIsConfirmed, TypeOK,
      CheckerTypeOK
<1>2. QED
  BY <1>1, Invariance, PTL

\* The key is called rejected only over RejectedThreshold rejections in a row.
THEOREM RejectedOnlyWhenConfirmed == Spec => []RejectedIsConfirmed
<1>1. HealthInv => RejectedIsConfirmed
  BY WindowFacts, ConstantsAssumption
  DEF HealthInv, CountersMatch, VerdictBacked, RejectedIsConfirmed, TypeOK,
      CheckerTypeOK
<1>2. QED
  BY <1>1, Invariance, PTL

\* No client is ever served over a registry older than the last outage.
THEOREM ServedOverFreshRegistry == Spec => []OpenOverFreshRegistry
<1>1. HealthInv => OpenOverFreshRegistry
  BY DEF HealthInv
<1>2. QED
  BY <1>1, Invariance, PTL

\* No suspicion is lost, whenever it is raised.
THEOREM NoSuspicionIsLost == Spec => []SuspicionIsKept
<1>1. HealthInv => SuspicionIsKept
  BY DEF HealthInv
<1>2. QED
  BY <1>1, Invariance, PTL

\* Between probes the app's last health line describes the gate and its timer.
THEOREM AppShowsTheGate == Spec => []AnnouncedAgrees
<1>1. HealthInv => AnnouncedAgrees
  <2> SUFFICES ASSUME HealthInv, pc = "idle", recent[1] # "none"
               PROVE  \/ up /\ announced.event \notin Answering
                      \/ /\ ~up /\ announced.event \in Answering
                         /\ announced.kind = kind
                         /\ announced.retryIn = RetryIn(delay)
    BY DEF AnnouncedAgrees
  <2>1. CASE up
    BY <2>1 DEF HealthInv, AnnouncedBacked
  <2>2. CASE ~up
    <3>1. lastKind = kind /\ kind # "ok" /\ announced.retryIn = closedRetry
      BY <2>2 DEF HealthInv, AnnouncedBacked, VerdictBacked, Reopening
    <3>2. delay = nextInterval(up, kind, failures, everUp)
      BY DEF HealthInv, Progress
    <3>3. nextInterval(up, kind, failures, everUp)
            = nextInterval(FALSE, kind, failures, everUp)
      BY <2>2 DEF nextInterval
    <3>4. QED
      BY <2>2, <3>1, <3>2, <3>3 DEF HealthInv, AnnouncedBacked, closedRetry
  <2>3. QED
    BY <2>1, <2>2
<1>2. QED
  BY <1>1, Invariance, PTL

\* redash_retry only repeats the verdict on show.
THEOREM RetryIsARepetition == Spec => RetryRepeatsTheVerdict
<1> DEFINE Repeats ==
      (announced' # announced /\ announced'.event = "redash_retry") =>
          announced.event \in Answering /\ announced.kind = announced'.kind
<1>1. HealthInv /\ [Next]_vars => [Repeats]_vars
  <2> SUFFICES ASSUME HealthInv, [Next]_vars, announced' # announced,
                      announced'.event = "redash_retry"
               PROVE  announced.event \in Answering
                      /\ announced.kind = announced'.kind
    OBVIOUS
  <2>1. CASE RecordFailure
    <3> DEFINE verdict == confirmedKind(answer)
    <3>1. announced' = [event |-> failureEvent(verdict), kind |-> verdict,
                        retryIn |-> RetryIn(retryDelay(verdict))]
      BY <2>1 DEF RecordFailure
    <3>2. verdict # "ok"
      BY VerdictFacts DEF HealthInv, TypeOK, CheckerTypeOK
    <3> HIDE DEF verdict
    <3>3. lastKind = verdict
      BY <3>1 DEF failureEvent
    <3>4. QED
      BY <3>1, <3>2, <3>3 DEF HealthInv, AnnouncedBacked
  <2>2. CASE RecoverGate
    BY <2>2 DEF RecoverGate
  <2>3. CASE Checker /\ ~RecordFailure /\ ~RecoverGate
    BY <2>3 DEF Checker, ServeWaiting, StartupProbe, ServeBinds, RunProbes, RunArms,
       Tick, Woken, BeginProbe, ProbeSucceeds, SwapAndPublish, ProbeFails,
       ProbeCancelled, RunReturns, checkerVars
  <2>4. CASE Outside \/ UNCHANGED vars
    BY <2>4, OnlyCheckerMovesTheGate DEF core, checkerVars
  <2>5. QED
    BY <2>1, <2>2, <2>3, <2>4 DEF Next, Outside
<1>2. QED
  BY <1>1, Invariance, PTL DEF Spec, RetryRepeatsTheVerdict
=============================================================================
