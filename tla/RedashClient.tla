---------------------------- MODULE RedashClient ----------------------------
(***************************************************************************)
(* One call of the Redash client that may become a job on the server:      *)
(* ExecuteQuery or GetSchema of internal/redash/client.go, with pollJob,   *)
(* pollSchemaJob, cancelJob, fetchJob and getQueryResult.                  *)
(*                                                                         *)
(* The server and the network are external: a request may be served with   *)
(* its answer lost, an answer describes the job as it was when the request *)
(* was served, and the job goes on whoever is listening.                   *)
(***************************************************************************)
EXTENDS Integers, Sequences

CONSTANT MaxConsecutivePollErrors

ASSUME PollErrorsAssumption == MaxConsecutivePollErrors \in Nat \ {0}

VARIABLES
    call,               \* "query" or "schema"
    pc,                 \* where the caller's goroutine is
    ctx,                \* the caller's context: "live" or "done"
    deadline,           \* time.After(pollTimeout): "pending" or "fired"
    consecutiveErrors,
    seen,               \* the answer to the request in flight, or the last one
    ret,                \* what the call returns: where it ended, and its error
    id,                 \* the job's id: "unknown" or "known" to the client
    delete,             \* the DELETE for the job: "unsent" or "sent"
    job,                \* the job on the server
    recent              \* history: the latest job-status requests, newest last

clientVars == <<call, pc, deadline, consecutiveErrors, seen, ret, id, delete>>
vars == <<clientVars, ctx, job, recent>>

Running == {"queued", "started"}
\* "noData" is a job that failed only for want of a result set.
Ended == {"finished", "failed", "noData", "cancelled"}

NoReturn == [at |-> "none", err |-> "none"]

\* Job-status requests that failed.  A timeout is http.Client.Timeout.
Fatal == {"fatal"}
Transient == {"error", "timeout", "canceled"}

\* Mutant: every request that ended early is put down to the caller.
ErrOfEarly(answer) == IF answer \in {"timeout", "canceled"} THEN "canceled" ELSE "other"

\* What errors.Is and errors.As find in the error of a failed request.
ErrOf(answer) ==
    IF answer = "timeout" THEN "deadline"
    ELSE IF answer = "canceled" THEN "canceled" ELSE "other"

\* Failures any request may meet; the transport reports the context's end.
RequestFailures == {"error", "timeout"} \cup (IF ctx = "done" THEN {"canceled"} ELSE {})

\* The statuses under which a job is reported; "odd" is one the client does not
\* know.
Report(j) == {"odd", IF j = "cancelled" THEN "failed" ELSE j}

-----------------------------------------------------------------------------
(* The request that starts the call *)

\* Redash accepts the query, or finds no schema cached, and enqueues a job.
JobCreated ==
    /\ pc = "submit" /\ job = "none"
    /\ job' = "queued"
    /\ UNCHANGED <<clientVars, ctx, recent>>

\* The answer carries the job: a query is first looked at on the first tick, a
\* schema job's status comes with it.
Submitted ==
    /\ pc = "submit" /\ job # "none"
    /\ id' = "known"
    /\ IF call = "query"
       THEN pc' = "poll" /\ seen' = "none"
       ELSE pc' = "getting" /\ seen' \in Report(job)
    /\ UNCHANGED <<call, ctx, deadline, consecutiveErrors, ret, delete, job, recent>>

\* The answer is the result itself.
AnsweredAtOnce ==
    /\ pc = "submit" /\ job = "none"
    /\ ret' = [at |-> "submit", err |-> "nil"]
    /\ pc' = "done"
    /\ UNCHANGED <<call, ctx, deadline, consecutiveErrors, seen, id, delete, job, recent>>

\* The request failed, whether or not the server acted on it: the transport, a
\* timeout, the context, a status other than 200, a body that does not decode or
\* has neither result nor job.
SubmitFails ==
    /\ pc = "submit"
    /\ \E f \in RequestFailures : ret' = [at |-> "submit", err |-> ErrOf(f)]
    /\ pc' = "done"
    /\ UNCHANGED <<call, ctx, deadline, consecutiveErrors, seen, id, delete, job, recent>>

-----------------------------------------------------------------------------
(* The poll loop *)

Return(at, err) ==
    /\ ret' = [at |-> at, err |-> err]
    /\ pc' = "done"

\* cancelJob, then the return.
cancelJob(at, err) ==
    /\ ret' = [at |-> at, err |-> err]
    /\ delete' = "sent"
    /\ pc' = "cancelling"

\* The three cases of the select; when several are ready any may be taken.
PollCancelled ==
    /\ pc = "poll" /\ ctx = "done"
    /\ cancelJob("ctx", "canceled")
    /\ UNCHANGED <<call, ctx, deadline, consecutiveErrors, seen, id, job, recent>>

\* Mutant: the timeout returns and leaves the job.
PollTimesOutLeavesJob ==
    /\ pc = "poll" /\ deadline = "fired"
    /\ Return("timeout", "other")
    /\ UNCHANGED <<call, ctx, deadline, consecutiveErrors, seen, id, delete, job, recent>>

PollTimesOut ==
    /\ pc = "poll" /\ deadline = "fired"
    /\ cancelJob("timeout", "other")
    /\ UNCHANGED <<call, ctx, deadline, consecutiveErrors, seen, id, job, recent>>

\* The tick sends the next job-status request.
PollTicks ==
    /\ pc = "poll"
    /\ seen' = "none"
    /\ pc' = "getting"
    /\ UNCHANGED <<call, ctx, deadline, consecutiveErrors, ret, id, delete, job, recent>>

\* fetchJob: the server's answer, one that never arrives, or a fatal status (the
\* key revoked, the job forgotten).
fetchJob ==
    /\ pc = "getting" /\ seen = "none"
    /\ seen' \in Report(job) \cup RequestFailures \cup Fatal
    /\ UNCHANGED <<call, pc, ctx, deadline, consecutiveErrors, ret, id, delete, job, recent>>

\* The last MaxConsecutivePollErrors job-status requests.
Noted(how) ==
    LET all == Append(recent, how) IN
    recent' = IF Len(all) > MaxConsecutivePollErrors THEN Tail(all) ELSE all

FatalAnswer ==
    /\ pc = "getting" /\ seen \in Fatal
    /\ Noted("failed")
    /\ Return("fatal", ErrOf(seen))
    /\ UNCHANGED <<call, ctx, deadline, consecutiveErrors, seen, id, delete, job>>

GivesUp(n) == n >= MaxConsecutivePollErrors

\* A transient failure: the context first, then the error budget, else the next
\* tick.
TransientFailure ==
    /\ pc = "getting" /\ seen \in Transient
    /\ Noted("failed")
    /\ \/ /\ ctx = "done"
          /\ cancelJob("ctx", "canceled")
          /\ UNCHANGED consecutiveErrors
       \/ /\ ctx = "live" /\ GivesUp(consecutiveErrors + 1)
          /\ consecutiveErrors' = consecutiveErrors + 1
          /\ cancelJob("gaveUp", ErrOf(seen))
       \/ /\ ctx = "live" /\ ~GivesUp(consecutiveErrors + 1)
          /\ consecutiveErrors' = consecutiveErrors + 1
          /\ pc' = "poll"
          /\ UNCHANGED <<ret, delete>>
    /\ UNCHANGED <<call, ctx, deadline, seen, id, job>>

\* Mutant: the errors of a whole call are counted together.
StillRunningKeepsCount ==
    /\ pc = "getting" /\ seen \in Running
    /\ Noted("ok")
    /\ pc' = "poll"
    /\ UNCHANGED <<call, ctx, deadline, consecutiveErrors, seen, ret, id, delete, job>>

StillRunning ==
    /\ pc = "getting" /\ seen \in Running
    /\ Noted("ok")
    /\ consecutiveErrors' = 0
    /\ pc' = "poll"
    /\ UNCHANGED <<call, ctx, deadline, seen, ret, id, delete, job>>

\* A finished query has its result downloaded, unless it has none; a finished
\* schema job carries the schema, which may not decode.
JobFinished ==
    /\ pc = "getting" /\ seen = "finished"
    /\ Noted("ok")
    /\ consecutiveErrors' = 0
    /\ \/ /\ call = "query"
          /\ pc' = "download"
          /\ UNCHANGED ret
       \/ Return("job", "nil")
       \/ call = "schema" /\ Return("job", "other")
    /\ UNCHANGED <<call, ctx, deadline, seen, id, delete, job>>

\* Mutant: a schema job's failure reported as the query's own.
FailureErrOwn == IF seen = "noData" THEN "nil" ELSE "query"

\* A failed query is the query's own error, except that "noData" is an empty
\* result; a failed schema job is an error of the client.
FailureErr ==
    IF call = "schema" THEN "other"
    ELSE IF seen = "noData" THEN "nil" ELSE "query"

JobFailed ==
    /\ pc = "getting" /\ seen \in {"failed", "noData"}
    /\ Noted("ok")
    /\ consecutiveErrors' = 0
    /\ Return("job", FailureErr)
    /\ UNCHANGED <<call, ctx, deadline, seen, id, delete, job>>

UnknownStatus ==
    /\ pc = "getting" /\ seen = "odd"
    /\ Noted("ok")
    /\ consecutiveErrors' = 0
    /\ Return("unknownStatus", "other")
    /\ UNCHANGED <<call, ctx, deadline, seen, id, delete, job>>

\* getQueryResult: rows, or an error; "timeout" is its own bound of pollTimeout.
getQueryResult ==
    /\ pc = "download"
    /\ \/ Return("download", "nil")
       \/ \E f \in RequestFailures : Return("download", ErrOf(f))
    /\ UNCHANGED <<call, ctx, deadline, consecutiveErrors, seen, id, delete, job, recent>>

\* The DELETE is answered, lost, or out of its five seconds.
CancelReturns ==
    /\ pc = "cancelling"
    /\ pc' = "done"
    /\ UNCHANGED <<call, ctx, deadline, consecutiveErrors, seen, ret, id, delete, job, recent>>

-----------------------------------------------------------------------------
(* Timers, the caller's context and the server *)

DeadlineFires ==
    /\ pc \in {"poll", "getting"} /\ deadline = "pending"
    /\ deadline' = "fired"
    /\ UNCHANGED <<call, pc, ctx, consecutiveErrors, seen, ret, id, delete, job, recent>>

CtxEnds ==
    /\ ctx = "live"
    /\ ctx' = "done"
    /\ UNCHANGED <<clientVars, job, recent>>

\* A worker takes the job, or the job ends, by itself or cancelled by someone.
JobMoves ==
    /\ job \in Running
    /\ job' \in {"started"} \cup Ended
    /\ UNCHANGED <<clientVars, ctx, recent>>

\* The DELETE arrives.
DeleteServed ==
    /\ pc = "cancelling" /\ job \in Running
    /\ job' = "cancelled"
    /\ UNCHANGED <<clientVars, ctx, recent>>

-----------------------------------------------------------------------------
Init ==
    /\ call \in {"query", "schema"}
    /\ pc = "submit" /\ ctx = "live" /\ deadline = "pending"
    /\ consecutiveErrors = 0 /\ seen = "none" /\ ret = NoReturn
    /\ id = "unknown" /\ delete = "unsent" /\ job = "none" /\ recent = <<>>

Select == PollCancelled \/ PollTimesOut \/ PollTicks

\* Steps the client takes by itself, each request ending by its timeout.
Progress ==
    \/ Submitted \/ AnsweredAtOnce \/ SubmitFails \/ Select \/ fetchJob
    \/ FatalAnswer \/ TransientFailure \/ StillRunning \/ JobFinished \/ JobFailed
    \/ UnknownStatus \/ getQueryResult \/ CancelReturns

Next == Progress \/ JobCreated \/ DeadlineFires \/ CtxEnds \/ JobMoves \/ DeleteServed

\* The goroutine runs and its timers fire.  A select with several cases ready
\* picks one at random, so a deadline that stays ready is not passed over for
\* ever.  Nothing is asked of the server, or of the caller.
Fairness ==
    /\ WF_vars(Progress) /\ WF_vars(DeadlineFires)
    /\ SF_vars(PollTimesOut)

Spec == Init /\ [][Next]_vars /\ Fairness

-----------------------------------------------------------------------------
(* Properties *)

Answers == Running \cup Ended \cup {"odd"} \cup Transient \cup Fatal

Places == {"none", "submit", "ctx", "timeout", "gaveUp", "fatal", "job",
           "unknownStatus", "download"}
Errors == {"none", "nil", "query", "canceled", "deadline", "other"}

ControlTypes ==
    /\ call \in {"query", "schema"}
    /\ pc \in {"submit", "poll", "getting", "download", "cancelling", "done"}
    /\ ctx \in {"live", "done"} /\ deadline \in {"pending", "fired"}
    /\ consecutiveErrors \in 0..MaxConsecutivePollErrors
    /\ seen \in Answers \cup {"none"}
    /\ id \in {"unknown", "known"} /\ delete \in {"unsent", "sent"}
    /\ job \in Running \cup Ended \cup {"none"}

\* The values each variable can take.
TypeOK ==
    /\ ControlTypes
    /\ ret \in [at : Places, err : Errors]
    /\ recent \in Seq({"ok", "failed"})

\* A job the client knows of is never left running unattended: when the call has
\* returned the job is over, or a DELETE for it has been sent, or the server's
\* last word was one pollJob takes for the end: the job is not the client's, or
\* has a status it does not know.
NotLeftRunning ==
    (pc = "done" /\ id = "known" /\ job \in Running) =>
        delete = "sent" \/ seen \in Fatal \cup {"odd"}

\* What a call returns is what its job came to, though the answer describes the
\* job as it was: a result only of a job that finished or had no data, or of an
\* answer without a job; the query's own error, which the client is shown, only
\* of a query's job that failed or was cancelled.
OutcomeIsTheJobs ==
    /\ ret.err = "nil" => job \in {"finished", "noData"} \/ ret.at = "submit"
    /\ ret.err = "query" => job \in {"failed", "cancelled"} /\ call = "query"

\* The failures at the end of the latest job-status requests.
Streak == {k \in DOMAIN recent : \A m \in k..Len(recent) : recent[m] = "failed"}

\* The error budget: polling gives up after MaxConsecutivePollErrors failures in a
\* row, and never sooner; while it goes on there have been fewer.
ErrorBudget ==
    /\ ret.at = "gaveUp" => Streak = 1..MaxConsecutivePollErrors
    /\ pc = "poll" => Streak # 1..MaxConsecutivePollErrors

OutcomeOf ==
    [nil |-> "result", query |-> "queryError", other |-> "infraError",
     deadline |-> "timedOut", canceled |-> "cancelled"]

\* The call as its caller sees it.
outcome == IF pc = "done" THEN OutcomeOf[ret.err] ELSE "none"

Abstract == INSTANCE QueryCall WITH ctx <- ctx, outcome <- outcome

\* The client keeps the promise PgSession relies on: one outcome, "cancelled"
\* only after the caller's context has ended, and an outcome in the end.
ImplementsQueryCall == Abstract!Spec

-----------------------------------------------------------------------------
(* The inductive invariant behind the safety properties *)

\* Where the call is, against what it knows and what it will return.
Stage ==
    /\ pc \in {"submit", "poll", "getting", "download"} => ret = NoReturn
    /\ pc \in {"poll", "getting", "download", "cancelling"} => id = "known"
    /\ pc = "download" => seen = "finished" /\ call = "query"
    /\ pc = "submit" => id = "unknown"
    /\ pc = "cancelling" => delete = "sent" /\ ret.err \notin {"nil", "query"}
    /\ pc \in {"cancelling", "done"} => ret.err # "none"
    /\ pc \in {"submit", "poll", "getting"} => consecutiveErrors < MaxConsecutivePollErrors

\* An answer that says the job is over stays true of it.
SeenIsTrue ==
    /\ id = "known" => job # "none"
    /\ seen \in {"finished", "noData"} => job = seen
    /\ seen = "failed" => job \in {"failed", "cancelled"}

\* The context's end is reported only once it has ended.
CtxIsTrue == (seen = "canceled" \/ ret.err = "canceled") => ctx = "done"

\* The counter against the history it stands for: that many failures end it, and
\* a success comes before them if the history goes back so far.  Giving up leaves
\* a history of failures only.
CountIsTheStreak ==
    LET n == Len(recent)
        c == consecutiveErrors
    IN  /\ n <= MaxConsecutivePollErrors
        /\ pc \in {"submit", "poll", "getting"} =>
             /\ c <= n
             /\ \A m \in (n - c + 1)..n : recent[m] = "failed"
             /\ c < n => recent[n - c] = "ok"
        /\ ret.at = "gaveUp" =>
             n = MaxConsecutivePollErrors /\ \A m \in 1..n : recent[m] = "failed"

ClientInv ==
    TypeOK /\ Stage /\ SeenIsTrue /\ CtxIsTrue /\ NotLeftRunning /\ OutcomeIsTheJobs
=============================================================================
