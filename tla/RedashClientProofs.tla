------------------------- MODULE RedashClientProofs -------------------------
(***************************************************************************)
(* RedashClient for every error budget: the job is attended, the outcome   *)
(* is the job's, the error budget is spent by failures in a row, and the   *)
(* call implements QueryCall (its safety part).                            *)
(***************************************************************************)
EXTENDS RedashClient, TLAPS

\* The invariant holds before the first request is served.
LEMMA InitClientInv == Init => ClientInv
<1> SUFFICES ASSUME Init PROVE ClientInv
  OBVIOUS
<1>1. ControlTypes
  BY PollErrorsAssumption DEF Init, ControlTypes, Answers
<1>2. ret \in [at : Places, err : Errors] /\ recent \in Seq({"ok", "failed"})
  BY DEF Init, NoReturn, Places, Errors
<1>3. Stage /\ SeenIsTrue /\ CtxIsTrue /\ NotLeftRunning /\ OutcomeIsTheJobs
  BY PollErrorsAssumption
     DEF Init, Stage, SeenIsTrue, CtxIsTrue, NotLeftRunning, OutcomeIsTheJobs, NoReturn
<1> QED BY <1>1, <1>2, <1>3 DEF ClientInv, TypeOK

\* The history of job-status requests is a sequence of outcomes.
LEMMA NotedType ==
    ASSUME recent \in Seq({"ok", "failed"}), NEW how \in {"ok", "failed"}, Noted(how)
    PROVE  recent' \in Seq({"ok", "failed"})
<1> DEFINE all == Append(recent, how)
<1>1. all \in Seq({"ok", "failed"}) /\ all # <<>>
  OBVIOUS
<1>2. Tail(all) \in Seq({"ok", "failed"})
  BY <1>1
<1> QED BY <1>1, <1>2 DEF Noted

\* A success leaves the error budget whole.
LEMMA WholeBudget == 0 \in 0..MaxConsecutivePollErrors
BY PollErrorsAssumption

\* The errors a failed request can leave, and what they say of the context.
LEMMA ErrOfType ==
    ASSUME NEW answer
    PROVE  /\ ErrOf(answer) \in {"deadline", "canceled", "other"}
           /\ ErrOf(answer) = "canceled" => answer = "canceled"
BY DEF ErrOf

\* Every step keeps the types of what the call and the server hold.
LEMMA NextControlTypes ==
    ASSUME ControlTypes, Stage, SeenIsTrue, [Next]_vars
    PROVE  ControlTypes'
<1> USE DEF ControlTypes
<1>1. CASE Submitted
  BY <1>1 DEF Submitted, Report, Running, Ended, Answers
<1>2. CASE AnsweredAtOnce
  BY <1>2 DEF AnsweredAtOnce
<1>3. CASE SubmitFails
  BY <1>3, ErrOfType DEF SubmitFails
<1>4. CASE PollCancelled
  BY <1>4 DEF PollCancelled, cancelJob
<1>5. CASE PollTimesOut
  BY <1>5 DEF PollTimesOut, cancelJob
<1>6. CASE PollTicks
  BY <1>6 DEF PollTicks
<1>7. CASE fetchJob
  BY <1>7 DEF fetchJob, Report, RequestFailures, Running, Ended, Answers, Transient, Fatal,
     Stage, SeenIsTrue
<1>8. CASE FatalAnswer
  BY <1>8 DEF FatalAnswer, Return
<1>9. CASE TransientFailure
  <2>1. CASE ctx = "done"
    BY <1>9, <2>1 DEF TransientFailure, cancelJob
  <2>2. CASE ctx = "live"
    <3>1. consecutiveErrors' = consecutiveErrors + 1
      BY <1>9, <2>2 DEF TransientFailure
    <3>2. consecutiveErrors < MaxConsecutivePollErrors
      BY <1>9 DEF TransientFailure, Stage
    <3>3. consecutiveErrors' \in 0..MaxConsecutivePollErrors
      BY <3>1, <3>2, PollErrorsAssumption
    <3> QED BY <1>9, <2>2, <3>3 DEF TransientFailure, cancelJob
  <2> QED BY <2>1, <2>2
<1>10. CASE StillRunning
  BY <1>10, WholeBudget DEF StillRunning
<1>11. CASE JobFinished
  BY <1>11, WholeBudget DEF JobFinished, Return
<1>12. CASE JobFailed
  BY <1>12, WholeBudget DEF JobFailed, Return
<1>13. CASE UnknownStatus
  BY <1>13, WholeBudget DEF UnknownStatus, Return
<1>14. CASE getQueryResult
  BY <1>14 DEF getQueryResult, Return
<1>15. CASE CancelReturns
  BY <1>15 DEF CancelReturns
<1>16. CASE JobCreated
  BY <1>16 DEF JobCreated, clientVars, Running
<1>17. CASE DeadlineFires
  BY <1>17 DEF DeadlineFires
<1>18. CASE CtxEnds
  BY <1>18 DEF CtxEnds, clientVars
<1>19. CASE JobMoves
  BY <1>19 DEF JobMoves, clientVars, Running, Ended
<1>20. CASE DeleteServed
  BY <1>20 DEF DeleteServed, clientVars, Ended
<1>21. CASE UNCHANGED vars
  BY <1>21 DEF vars, clientVars
<1> QED
  BY <1>1, <1>2, <1>3, <1>4, <1>5, <1>6, <1>7, <1>8, <1>9, <1>10, <1>11, <1>12,
     <1>13, <1>14, <1>15, <1>16, <1>17, <1>18, <1>19, <1>20, <1>21
     DEF Next, Progress, Select

\* Every step keeps the type of what the call returns.
LEMMA NextRetType ==
    ASSUME ret \in [at : Places, err : Errors], [Next]_vars
    PROVE  ret' \in [at : Places, err : Errors]
<1> USE DEF Places, Errors
<1>1. CASE Submitted
  BY <1>1 DEF Submitted
<1>2. CASE AnsweredAtOnce
  BY <1>2 DEF AnsweredAtOnce
<1>3. CASE SubmitFails
  <2>1. PICK f \in RequestFailures : ret' = [at |-> "submit", err |-> ErrOf(f)]
    BY <1>3 DEF SubmitFails
  <2>2. ErrOf(f) \in Errors
    BY ErrOfType
  <2> QED BY <2>1, <2>2
<1>4. CASE PollCancelled
  BY <1>4 DEF PollCancelled, cancelJob
<1>5. CASE PollTimesOut
  BY <1>5 DEF PollTimesOut, cancelJob
<1>6. CASE PollTicks
  BY <1>6 DEF PollTicks
<1>7. CASE fetchJob
  BY <1>7 DEF fetchJob
<1>8. CASE FatalAnswer
  BY <1>8 DEF FatalAnswer, Return, ErrOf
<1>9. CASE TransientFailure
  <2>1. ErrOf(seen) \in Errors
    BY ErrOfType
  <2>2. \/ ret' = [at |-> "ctx", err |-> "canceled"]
        \/ ret' = [at |-> "gaveUp", err |-> ErrOf(seen)]
        \/ ret' = ret
    BY <1>9 DEF TransientFailure, cancelJob
  <2> QED BY <2>1, <2>2
<1>10. CASE StillRunning
  BY <1>10 DEF StillRunning
<1>11. CASE JobFinished
  <2>1. \/ ret' = ret
        \/ ret' = [at |-> "job", err |-> "nil"]
        \/ ret' = [at |-> "job", err |-> "other"]
    BY <1>11 DEF JobFinished, Return
  <2> QED BY <2>1
<1>12. CASE JobFailed
  BY <1>12 DEF JobFailed, Return, FailureErr
<1>13. CASE UnknownStatus
  BY <1>13 DEF UnknownStatus, Return
<1>14. CASE getQueryResult
  <2>1. \/ ret' = [at |-> "download", err |-> "nil"]
        \/ \E f \in RequestFailures : ret' = [at |-> "download", err |-> ErrOf(f)]
    BY <1>14 DEF getQueryResult, Return
  <2> QED BY <2>1, ErrOfType
<1>15. CASE CancelReturns
  BY <1>15 DEF CancelReturns
<1>16. CASE JobCreated
  BY <1>16 DEF JobCreated, clientVars
<1>17. CASE DeadlineFires
  BY <1>17 DEF DeadlineFires
<1>18. CASE CtxEnds
  BY <1>18 DEF CtxEnds, clientVars
<1>19. CASE JobMoves
  BY <1>19 DEF JobMoves, clientVars
<1>20. CASE DeleteServed
  BY <1>20 DEF DeleteServed, clientVars
<1>21. CASE UNCHANGED vars
  BY <1>21 DEF vars, clientVars
<1> QED
  BY <1>1, <1>2, <1>3, <1>4, <1>5, <1>6, <1>7, <1>8, <1>9, <1>10, <1>11, <1>12,
     <1>13, <1>14, <1>15, <1>16, <1>17, <1>18, <1>19, <1>20, <1>21
     DEF Next, Progress, Select

\* Every step keeps the type of the history.
LEMMA NextRecentType ==
    ASSUME recent \in Seq({"ok", "failed"}), [Next]_vars
    PROVE  recent' \in Seq({"ok", "failed"})
<1>1. CASE Submitted
  BY <1>1 DEF Submitted
<1>2. CASE AnsweredAtOnce
  BY <1>2 DEF AnsweredAtOnce
<1>3. CASE SubmitFails
  BY <1>3, ErrOfType DEF SubmitFails
<1>4. CASE PollCancelled
  BY <1>4 DEF PollCancelled
<1>5. CASE PollTimesOut
  BY <1>5 DEF PollTimesOut
<1>6. CASE PollTicks
  BY <1>6 DEF PollTicks
<1>7. CASE fetchJob
  BY <1>7 DEF fetchJob
<1>8. CASE FatalAnswer
  BY <1>8, NotedType DEF FatalAnswer
<1>9. CASE TransientFailure
  BY <1>9, NotedType DEF TransientFailure
<1>10. CASE StillRunning
  BY <1>10, NotedType DEF StillRunning
<1>11. CASE JobFinished
  BY <1>11, NotedType DEF JobFinished
<1>12. CASE JobFailed
  BY <1>12, NotedType DEF JobFailed
<1>13. CASE UnknownStatus
  BY <1>13, NotedType DEF UnknownStatus
<1>14. CASE getQueryResult
  BY <1>14 DEF getQueryResult
<1>15. CASE CancelReturns
  BY <1>15 DEF CancelReturns
<1>16. CASE JobCreated
  BY <1>16 DEF JobCreated, clientVars
<1>17. CASE DeadlineFires
  BY <1>17 DEF DeadlineFires
<1>18. CASE CtxEnds
  BY <1>18 DEF CtxEnds, clientVars
<1>19. CASE JobMoves
  BY <1>19 DEF JobMoves, clientVars
<1>20. CASE DeleteServed
  BY <1>20 DEF DeleteServed, clientVars
<1>21. CASE UNCHANGED vars
  BY <1>21 DEF vars, clientVars
<1> QED
  BY <1>1, <1>2, <1>3, <1>4, <1>5, <1>6, <1>7, <1>8, <1>9, <1>10, <1>11, <1>12,
     <1>13, <1>14, <1>15, <1>16, <1>17, <1>18, <1>19, <1>20, <1>21
     DEF Next, Progress, Select

\* Every step keeps the rest of the invariant.
LEMMA NextParts ==
    ASSUME ClientInv, [Next]_vars
    PROVE  /\ Stage' /\ SeenIsTrue' /\ CtxIsTrue'
           /\ NotLeftRunning' /\ OutcomeIsTheJobs'
<1>0. Stage /\ SeenIsTrue /\ CtxIsTrue /\ NotLeftRunning /\ OutcomeIsTheJobs
      /\ ControlTypes /\ ret \in [at : Places, err : Errors]
  BY DEF ClientInv, TypeOK
<1> USE <1>0 DEF ControlTypes, Stage, SeenIsTrue, CtxIsTrue, NotLeftRunning,
            OutcomeIsTheJobs, NoReturn, Running
<1>1. CASE Submitted
  BY <1>1 DEF Submitted, Report, Ended
<1>2. CASE AnsweredAtOnce
  BY <1>2 DEF AnsweredAtOnce
<1>3. CASE SubmitFails
  <2>1. PICK f \in RequestFailures : ret' = [at |-> "submit", err |-> ErrOf(f)]
    BY <1>3 DEF SubmitFails
  <2>2. ErrOf(f) \in {"deadline", "canceled", "other"}
        /\ (ErrOf(f) = "canceled" => ctx = "done")
    BY ErrOfType DEF RequestFailures
  <2> QED BY <1>3, <2>1, <2>2 DEF SubmitFails
<1>4. CASE PollCancelled
  BY <1>4 DEF PollCancelled, cancelJob
<1>5. CASE PollTimesOut
  BY <1>5 DEF PollTimesOut, cancelJob
<1>6. CASE PollTicks
  BY <1>6 DEF PollTicks
<1>7. CASE fetchJob
  <2>1. /\ seen' \in {"finished", "noData"} => job = seen'
        /\ seen' = "failed" => job \in {"failed", "cancelled"}
    BY <1>7 DEF fetchJob, Report, RequestFailures, Fatal
  <2>2. seen' = "canceled" => ctx = "done"
    BY <1>7 DEF fetchJob, Report, RequestFailures, Fatal, Ended
  <2> QED BY <1>7, <2>1, <2>2 DEF fetchJob
<1>8. CASE FatalAnswer
  BY <1>8 DEF FatalAnswer, Return, ErrOf, Fatal
<1>9. CASE TransientFailure
  <2>1. CASE ctx = "done"
    BY <1>9, <2>1 DEF TransientFailure, cancelJob
  <2>2. CASE ctx = "live" /\ GivesUp(consecutiveErrors + 1)
    <3>1. ErrOf(seen) \in {"deadline", "canceled", "other"}
          /\ (ErrOf(seen) = "canceled" => ctx = "done")
      BY ErrOfType
    <3> QED BY <1>9, <2>2, <3>1 DEF TransientFailure, cancelJob
  <2>3. CASE ctx = "live" /\ ~GivesUp(consecutiveErrors + 1)
    <3>1. consecutiveErrors + 1 < MaxConsecutivePollErrors
      BY <2>3, PollErrorsAssumption DEF GivesUp
    <3> QED BY <1>9, <2>3, <3>1 DEF TransientFailure
  <2> QED BY <2>1, <2>2, <2>3
<1>10. CASE StillRunning
  <2>1. 0 < MaxConsecutivePollErrors
    BY PollErrorsAssumption
  <2> QED BY <1>10, <2>1 DEF StillRunning
<1>11. CASE JobFinished
  BY <1>11 DEF JobFinished, Return
<1>12. CASE JobFailed
  BY <1>12 DEF JobFailed, Return, FailureErr
<1>13. CASE UnknownStatus
  BY <1>13 DEF UnknownStatus, Return
<1>14. CASE getQueryResult
  BY <1>14, ErrOfType DEF getQueryResult, Return, RequestFailures
<1>15. CASE CancelReturns
  BY <1>15 DEF CancelReturns
<1>16. CASE JobCreated
  BY <1>16 DEF JobCreated, clientVars
<1>17. CASE DeadlineFires
  BY <1>17 DEF DeadlineFires
<1>18. CASE CtxEnds
  BY <1>18 DEF CtxEnds, clientVars
<1>19. CASE JobMoves
  BY <1>19 DEF JobMoves, clientVars, Ended
<1>20. CASE DeleteServed
  BY <1>20 DEF DeleteServed, clientVars
<1>21. CASE UNCHANGED vars
  BY <1>21 DEF vars, clientVars
<1> QED
  BY <1>1, <1>2, <1>3, <1>4, <1>5, <1>6, <1>7, <1>8, <1>9, <1>10, <1>11, <1>12,
     <1>13, <1>14, <1>15, <1>16, <1>17, <1>18, <1>19, <1>20, <1>21
     DEF Next, Progress, Select

\* The invariant holds in every state of every behaviour of the client.
THEOREM ClientInvariance == Spec => []ClientInv
<1>1. ClientInv /\ [Next]_vars => ClientInv'
  BY NextControlTypes, NextRetType, NextRecentType, NextParts DEF ClientInv, TypeOK
<1> QED BY InitClientInv, <1>1, PTL DEF Spec

\* The types hold: in particular consecutiveErrors never passes the budget, the
\* returns of pollJob and pollSchemaJob coming first.
THEOREM ClientTypeCorrect == Spec => []TypeOK
<1>1. ClientInv => TypeOK
  BY DEF ClientInv
<1> QED BY ClientInvariance, <1>1, PTL

\* A job whose id the client has is over, DELETEd or disowned by the server when
\* the call returns (pollJob's returns), whatever the error budget.
THEOREM JobIsAttended == Spec => []NotLeftRunning
<1>1. ClientInv => NotLeftRunning
  BY DEF ClientInv
<1> QED BY ClientInvariance, <1>1, PTL

\* A result or a query error is what the job came to, though the client only saw
\* an earlier answer (pollJob's switch on the status).
THEOREM OutcomeIsFaithful == Spec => []OutcomeIsTheJobs
<1>1. ClientInv => OutcomeIsTheJobs
  BY DEF ClientInv
<1> QED BY ClientInvariance, <1>1, PTL

\* What noting an answer does to a history no longer than the budget: the answer
\* comes last, the rest keeps its order, and the oldest entry goes when it is full.
LEMMA NotedShifts ==
    ASSUME recent \in Seq({"ok", "failed"}), NEW n, n = Len(recent),
           n <= MaxConsecutivePollErrors, NEW how \in {"ok", "failed"}, Noted(how)
    PROVE  /\ n \in Nat /\ Len(recent') \in 1..MaxConsecutivePollErrors
           /\ recent'[Len(recent')] = how
           /\ \/ Len(recent') = n + 1 /\ \A k \in 1..n : recent'[k] = recent[k]
              \/ /\ n = MaxConsecutivePollErrors /\ Len(recent') = n
                 /\ \A k \in 1..(n - 1) : recent'[k] = recent[k + 1]
<1> DEFINE all == Append(recent, how)
<1>1. /\ n \in Nat /\ all \in Seq({"ok", "failed"}) /\ Len(all) = n + 1 /\ all[n + 1] = how
      /\ \A k \in 1..n : all[k] = recent[k]
  OBVIOUS
<1> HIDE DEF all
<1>2. recent' = IF Len(all) > MaxConsecutivePollErrors THEN Tail(all) ELSE all
  BY DEF Noted, all
<1>3. Len(Tail(all)) = n /\ \A k \in 1..n : Tail(all)[k] = all[k + 1]
  BY <1>1
<1>4. CASE n < MaxConsecutivePollErrors
  <2>1. recent' = all
    BY <1>1, <1>2, <1>4, PollErrorsAssumption
  <2>2. QED
    BY <1>1, <1>4, <2>1, PollErrorsAssumption
<1>5. CASE n = MaxConsecutivePollErrors
  <2>1. recent' = Tail(all)
    BY <1>1, <1>2, <1>5, PollErrorsAssumption
  <2>2. \A k \in 1..(n - 1) : k \in 1..n /\ k + 1 \in 1..n
    BY <1>1
  <2>3. \A k \in 1..(n - 1) : recent'[k] = recent[k + 1]
    BY <1>1, <1>3, <2>1, <2>2
  <2>4. n \in 1..n /\ recent'[n] = how
    BY <1>1, <1>3, <1>5, <2>1, PollErrorsAssumption
  <2>5. QED
    BY <1>1, <1>3, <1>5, <2>1, <2>3, <2>4
<1>6. QED
  BY <1>1, <1>4, <1>5, PollErrorsAssumption

\* A failure makes the streak one longer, and the whole history if the budget
\* is spent.
LEMMA StreakGrows ==
    ASSUME ClientInv, CountIsTheStreak, pc = "getting", Noted("failed"), NEW c,
           c = consecutiveErrors
    PROVE  /\ Len(recent') \in Nat /\ Len(recent') <= MaxConsecutivePollErrors
           /\ c + 1 <= Len(recent')
           /\ \A m \in (Len(recent') - (c + 1) + 1)..Len(recent') : recent'[m] = "failed"
           /\ c + 1 < Len(recent') => recent'[Len(recent') - (c + 1)] = "ok"
<1>1. PICK n \in Nat, M \in Nat : n = Len(recent) /\ M = MaxConsecutivePollErrors
  BY PollErrorsAssumption DEF ClientInv, TypeOK
<1>2. /\ c \in Nat /\ c < M /\ n <= M /\ c <= n
      /\ \A m \in (n - c + 1)..n : recent[m] = "failed"
      /\ c < n => recent[n - c] = "ok"
  BY <1>1 DEF CountIsTheStreak, ClientInv, TypeOK, ControlTypes, Stage
<1>3. /\ Len(recent') \in 1..M /\ recent'[Len(recent')] = "failed"
      /\ \/ Len(recent') = n + 1 /\ \A k \in 1..n : recent'[k] = recent[k]
         \/ /\ n = M /\ Len(recent') = n
            /\ \A k \in 1..(n - 1) : recent'[k] = recent[k + 1]
  BY <1>1, <1>2, NotedShifts DEF ClientInv, TypeOK
<1>4. CASE Len(recent') = n + 1 /\ \A k \in 1..n : recent'[k] = recent[k]
  <2>1. \A m \in ((n + 1) - (c + 1) + 1)..(n + 1) : recent'[m] = "failed"
    <3> SUFFICES ASSUME NEW m \in ((n + 1) - (c + 1) + 1)..(n + 1) PROVE recent'[m] = "failed"
      OBVIOUS
    <3>1. m = n + 1 \/ (m \in (n - c + 1)..n /\ m \in 1..n)
      BY <1>2
    <3>2. QED
      BY <1>2, <1>3, <1>4, <3>1
  <2>2. c + 1 < n + 1 => recent'[(n + 1) - (c + 1)] = "ok"
    <3>1. c < n => n - c \in 1..n /\ (n + 1) - (c + 1) = n - c
      BY <1>2
    <3>2. QED
      BY <1>2, <1>4, <3>1
  <2>3. QED
    BY <1>1, <1>2, <1>3, <1>4, <2>1, <2>2
<1>5. CASE /\ n = M /\ Len(recent') = n
           /\ \A k \in 1..(n - 1) : recent'[k] = recent[k + 1]
  <2>1. \A m \in (n - (c + 1) + 1)..n : recent'[m] = "failed"
    <3> SUFFICES ASSUME NEW m \in (n - (c + 1) + 1)..n PROVE recent'[m] = "failed"
      OBVIOUS
    <3>1. m = n \/ (m \in 1..(n - 1) /\ m + 1 \in (n - c + 1)..n)
      BY <1>2, <1>5
    <3>2. QED
      BY <1>2, <1>3, <1>5, <3>1
  <2>2. c + 1 < n => recent'[n - (c + 1)] = "ok"
    <3>1. c + 1 < n => n - (c + 1) \in 1..(n - 1) /\ (n - (c + 1)) + 1 = n - c
      BY <1>2
    <3>2. QED
      BY <1>2, <1>5, <3>1
  <2>3. QED
    BY <1>1, <1>2, <1>3, <1>5, <2>1, <2>2
<1>6. QED
  BY <1>3, <1>4, <1>5

\* Every step keeps the counter true to the history.
LEMMA NextCount ==
    ASSUME ClientInv, CountIsTheStreak, [Next]_vars
    PROVE  CountIsTheStreak'
<1>0. /\ ret \in [at : Places, err : Errors] /\ Stage
      /\ recent \in Seq({"ok", "failed"}) /\ Len(recent) \in Nat
      /\ Len(recent) <= MaxConsecutivePollErrors
  BY DEF ClientInv, TypeOK, CountIsTheStreak
<1>1. ASSUME UNCHANGED <<recent, consecutiveErrors>>,
             pc' \in {"submit", "poll", "getting"} => pc \in {"submit", "poll", "getting"},
             ret'.at = "gaveUp" => ret.at = "gaveUp"
      PROVE  CountIsTheStreak'
  BY <1>1 DEF CountIsTheStreak
<1>2. CASE \/ Submitted \/ AnsweredAtOnce \/ SubmitFails \/ PollCancelled \/ PollTimesOut
           \/ PollTicks \/ fetchJob \/ getQueryResult \/ CancelReturns \/ JobCreated
           \/ DeadlineFires \/ CtxEnds \/ JobMoves \/ DeleteServed \/ UNCHANGED vars
  <2>1. UNCHANGED <<recent, consecutiveErrors>>
    BY <1>2 DEF Submitted, AnsweredAtOnce, SubmitFails, PollCancelled, PollTimesOut, PollTicks,
                fetchJob, getQueryResult, CancelReturns, JobCreated, DeadlineFires, CtxEnds,
                JobMoves, DeleteServed, vars, clientVars
  <2>2. pc' \in {"submit", "poll", "getting"} => pc \in {"submit", "poll", "getting"}
    BY <1>2 DEF Submitted, AnsweredAtOnce, SubmitFails, PollCancelled, PollTimesOut, PollTicks,
                fetchJob, getQueryResult, CancelReturns, JobCreated, DeadlineFires, CtxEnds,
                JobMoves, DeleteServed, vars, clientVars, cancelJob, Return
  <2>3. ret'.at = "gaveUp" => ret.at = "gaveUp"
    BY <1>2 DEF Submitted, AnsweredAtOnce, SubmitFails, PollCancelled, PollTimesOut, PollTicks,
                fetchJob, getQueryResult, CancelReturns, JobCreated, DeadlineFires, CtxEnds,
                JobMoves, DeleteServed, vars, clientVars, cancelJob, Return
  <2>4. QED
    BY <1>1, <2>1, <2>2, <2>3
<1>3. CASE FatalAnswer \/ JobFinished \/ JobFailed \/ UnknownStatus
  <2>1. PICK how \in {"ok", "failed"} : Noted(how)
    BY <1>3 DEF FatalAnswer, JobFinished, JobFailed, UnknownStatus
  <2>2. Len(recent') <= MaxConsecutivePollErrors
    BY <1>0, <2>1, NotedShifts, PollErrorsAssumption
  <2>3. pc' \notin {"submit", "poll", "getting"}
    BY <1>3 DEF FatalAnswer, JobFinished, JobFailed, UnknownStatus, Return
  <2>4. ret'.at # "gaveUp"
    BY <1>0, <1>3 DEF FatalAnswer, JobFinished, JobFailed, UnknownStatus, Return, Stage, NoReturn
  <2>5. QED
    BY <2>2, <2>3, <2>4 DEF CountIsTheStreak
<1>4. CASE StillRunning
  <2>1. /\ Noted("ok") /\ consecutiveErrors' = 0 /\ ret'.at # "gaveUp"
    BY <1>0, <1>4 DEF StillRunning, Stage, NoReturn
  <2>2. PICK n \in Nat : n = Len(recent') /\ n <= MaxConsecutivePollErrors /\ recent'[n] = "ok"
    BY <1>0, <2>1, NotedShifts, PollErrorsAssumption
  <2>3. (n - 0 + 1)..n = {} /\ n - 0 = n
    OBVIOUS
  <2>4. QED
    BY <2>1, <2>2, <2>3 DEF CountIsTheStreak
<1>5. CASE TransientFailure
  <2>1. PICK c \in Nat, M \in Nat :
           c = consecutiveErrors /\ M = MaxConsecutivePollErrors /\ c < M
    BY <1>0, <1>5, PollErrorsAssumption DEF TransientFailure, Stage, ClientInv, TypeOK, ControlTypes
  <2>2. /\ Len(recent') \in Nat /\ Len(recent') <= M
        /\ c + 1 <= Len(recent')
        /\ \A m \in (Len(recent') - (c + 1) + 1)..Len(recent') : recent'[m] = "failed"
        /\ c + 1 < Len(recent') => recent'[Len(recent') - (c + 1)] = "ok"
    BY <1>5, <2>1, StreakGrows DEF TransientFailure
  <2>3. CASE ctx = "done"
    <3>1. pc' = "cancelling" /\ ret'.at = "ctx"
      BY <1>5, <2>3 DEF TransientFailure, cancelJob
    <3>2. QED
      BY <2>1, <2>2, <3>1 DEF CountIsTheStreak
  <2>4. CASE ctx = "live" /\ GivesUp(consecutiveErrors + 1)
    <3>1. pc' = "cancelling"
      BY <1>5, <2>4 DEF TransientFailure, cancelJob
    <3>2. Len(recent') = M /\ Len(recent') - (c + 1) + 1 = 1
      BY <2>1, <2>2, <2>4 DEF GivesUp
    <3>3. \A m \in 1..Len(recent') : recent'[m] = "failed"
      BY <2>2, <3>2
    <3>4. QED
      BY <2>1, <3>1, <3>2, <3>3 DEF CountIsTheStreak
  <2>5. CASE ctx = "live" /\ ~GivesUp(consecutiveErrors + 1)
    <3>1. consecutiveErrors' = c + 1 /\ ret'.at # "gaveUp"
      BY <1>0, <1>5, <2>1, <2>5 DEF TransientFailure, Stage, NoReturn
    <3>2. QED
      BY <2>1, <2>2, <3>1 DEF CountIsTheStreak
  <2>6. QED
    BY <1>5, <2>3, <2>4, <2>5 DEF TransientFailure
<1>6. QED
  BY <1>2, <1>3, <1>4, <1>5 DEF Next, Progress, Select

\* The history of failures the counter stands for is the one in the budget.
LEMMA BudgetFollows == ASSUME ClientInv, CountIsTheStreak PROVE ErrorBudget
<1>1. PICK n \in Nat, M \in Nat :
         /\ n = Len(recent) /\ M = MaxConsecutivePollErrors /\ M > 0
         /\ DOMAIN recent = 1..n /\ n <= M
  BY PollErrorsAssumption DEF ClientInv, TypeOK, CountIsTheStreak
<1>2. ASSUME ret.at = "gaveUp" PROVE Streak = 1..M
  <2>1. n = M /\ \A m \in 1..n : recent[m] = "failed"
    BY <1>1, <1>2 DEF CountIsTheStreak
  <2>2. \A k \in 1..n : k..n \subseteq 1..n
    OBVIOUS
  <2>3. QED
    BY <1>1, <2>1, <2>2 DEF Streak
<1>3. ASSUME pc = "poll", Streak = 1..M PROVE FALSE
  <2>1. PICK c \in Nat : c = consecutiveErrors /\ c < M /\ (c < n => recent[n - c] = "ok")
    BY <1>1, <1>3 DEF CountIsTheStreak, ClientInv, TypeOK, ControlTypes, Stage
  <2>2. 1 \in Streak /\ M \in Streak
    BY <1>1, <1>3
  <2>3. M \in 1..n /\ \A m \in 1..n : recent[m] = "failed"
    BY <1>1, <2>2 DEF Streak
  <2>4. c < n /\ n - c \in 1..n
    BY <1>1, <2>1, <2>3
  <2>5. QED
    BY <2>1, <2>3, <2>4
<1>4. QED
  BY <1>1, <1>2, <1>3 DEF ErrorBudget

\* Polling gives up after exactly MaxConsecutivePollErrors failures in a row and
\* never goes on after as many (pollJob's and pollSchemaJob's consecutiveErrors),
\* for every budget.
THEOREM BudgetIsSpent == Spec => []ErrorBudget
<1>1. Init => CountIsTheStreak
  <2> SUFFICES ASSUME Init PROVE CountIsTheStreak
    OBVIOUS
  <2>1. Len(recent) = 0 /\ consecutiveErrors = 0 /\ ret.at # "gaveUp"
    BY DEF Init, NoReturn
  <2>2. QED
    BY <2>1, PollErrorsAssumption DEF CountIsTheStreak
<1>2. ClientInv /\ CountIsTheStreak /\ [Next]_vars => CountIsTheStreak'
  BY NextCount
<1>3. ClientInv /\ CountIsTheStreak => ErrorBudget
  BY BudgetFollows
<1> QED BY ClientInvariance, <1>1, <1>2, <1>3, PTL DEF Spec

\* ExecuteQuery implements, without its liveness, the call PgSession relies on:
\* one outcome, "cancelled" only once the caller's context has ended.
THEOREM ClientImplementsCall ==
    Spec => Abstract!Init /\ [][Abstract!Next]_<<ctx, outcome>>
<1>1. Init => Abstract!Init
  BY DEF Init, Abstract!Init, outcome
<1>2. ASSUME ClientInv, ClientInv', [Next]_vars
      PROVE  [Abstract!Next]_<<ctx, outcome>>
  <2>1. CASE CtxEnds
    <3>1. outcome' = outcome
      BY <2>1 DEF CtxEnds, clientVars, outcome
    <3> QED BY <2>1, <3>1 DEF CtxEnds, Abstract!Next, Abstract!CtxEnds
  <2>2. CASE UNCHANGED <<pc, ret, ctx>>
    BY <2>2 DEF outcome
  <2>3. CASE pc # "done" /\ pc' # "done" /\ ctx' = ctx
    BY <2>3 DEF outcome
  <2>4. CASE pc # "done" /\ pc' = "done" /\ ctx' = ctx
    <3>1. outcome = "none"
      BY <2>4 DEF outcome
    <3>2. ret'.err \in {"nil", "query", "canceled", "deadline", "other"}
      BY <1>2, <2>4 DEF ClientInv, TypeOK, Stage, Errors
    <3>3. outcome' \in Abstract!Outcomes
      BY <2>4, <3>2 DEF outcome, OutcomeOf, Abstract!Outcomes
    <3>4. outcome' = "cancelled" => ctx = "done"
      BY <1>2, <2>4, <3>2 DEF outcome, OutcomeOf, ClientInv, CtxIsTrue
    <3> QED BY <2>4, <3>1, <3>3, <3>4 DEF Abstract!Next, Abstract!Returns
  <2>5. \/ CtxEnds \/ UNCHANGED <<pc, ret, ctx>>
        \/ pc # "done" /\ ctx' = ctx
    BY <1>2 DEF Next, Progress, Select, AnsweredAtOnce,
         SubmitFails, Submitted, PollCancelled, PollTimesOut, PollTicks, fetchJob,
         FatalAnswer, TransientFailure, StillRunning, JobFinished, JobFailed,
         UnknownStatus, getQueryResult, CancelReturns, JobCreated, DeadlineFires,
         JobMoves, DeleteServed, clientVars, vars
  <2> QED BY <2>1, <2>2, <2>3, <2>4, <2>5
<1> QED BY ClientInvariance, <1>1, <1>2, PTL DEF Spec
=============================================================================
