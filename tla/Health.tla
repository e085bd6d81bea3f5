------------------------------- MODULE Health -------------------------------
(***************************************************************************)
(* The health checker, the gate it moves, the registry it swaps and the    *)
(* sessions that ask the gate: internal/health (Gate, Checker), the        *)
(* SwappableRegistry of internal/redash, and the part of serve() in        *)
(* cmd/redash-wire/main.go that starts, wakes and stops the checker.       *)
(*                                                                         *)
(* One goroutine runs the checker (pc), one goroutine per client session   *)
(* reads the gate (sess), and Redash with the network in front of it is    *)
(* the environment (net, sources).  Only the checker moves the gate, so    *)
(* each of its steps ends where a session can see its effect.              *)
(***************************************************************************)
EXTENDS Integers

CONSTANTS
    PgSessions,         \* PostgreSQL sessions: a refusal also calls Suspect
    MySessions,         \* MySQL sessions: a refusal does not
    Lists,              \* the data source lists Redash may answer with
    NoSources,          \* the empty list, what the registry starts with
    Unpublished,        \* the checker's fingerprint before the first publish
    Second,             \* time units in a second, for retry_in_seconds
    Interval, ConfirmDelay, RejectedInterval, MaxOffline,
    Threshold, RejectedThreshold,
    FailureCap          \* where the failure counters saturate (see Count)

Sessions == PgSessions \cup MySessions

Kinds == {"ok", "unreachable", "rejected"}

\* What ListDataSources returns: a list, an error with status 401/403/404, or
\* any other error (a timeout included).
Answers == {"ok", "denied", "down"}

\* The length of the answer history the properties look back over.
Window == IF Threshold > RejectedThreshold THEN Threshold ELSE RejectedThreshold

ASSUME ConstantsAssumption ==
    /\ PgSessions \cap MySessions = {}
    /\ NoSources \in Lists
    /\ Unpublished \notin Lists
    /\ Second \in Nat \ {0}
    /\ Interval \in Nat \ {0}
    /\ ConfirmDelay \in Nat \ {0}
    /\ RejectedInterval \in Nat \ {0}
    /\ MaxOffline \in Nat \ {0}
    /\ Threshold \in Nat \ {0}
    /\ RejectedThreshold \in Nat \ {0}
    /\ FailureCap \in Nat
    /\ FailureCap >= Threshold
    /\ FailureCap >= RejectedThreshold

VARIABLES
    \* The Gate.
    up, kind,
    suspect,        \* a token is in the suspect channel (depth 1)
    \* The Checker and serve().
    pc,             \* where the checker's goroutine is
    failures, rejections, probed, everUp, lastKind, fingerprint,
    answer,         \* the answer of the probe being recorded
    found,          \* the list that answer carried
    delay,          \* what the timer of Run was last set to
    announced,      \* the last redash_up, redash_down or redash_retry line
    listed,         \* the list in the last data_sources line that carried one
    \* serve().
    wait,           \* the -wait-for-redash flag
    bound,          \* the listeners are open
    cancelled,      \* the process-wide context
    \* The SwappableRegistry.
    registry,
    \* The sessions.
    sess,           \* what each session's goroutine is doing
    \* Redash and the network (external).
    net, sources,
    \* History, read by no action.
    recent,         \* the last Window answers recorded, newest first
    fresh,          \* the registry was replaced since the gate last closed
    owed            \* Suspect was called since the last probe began

gateVars == <<up, kind>>
checkerVars == <<failures, rejections, probed, everUp, lastKind, fingerprint,
                 answer, found, delay, announced, listed>>
serveVars == <<wait, bound, cancelled>>
sessVars == sess
netVars == <<net, sources>>
histVars == <<recent, fresh>>
vars == <<gateVars, suspect, pc, checkerVars, serveVars, registry, sessVars,
          netVars, histVars, owed>>

-----------------------------------------------------------------------------
(* Cadence *)

Limit == IF MaxOffline > Interval THEN MaxOffline ELSE Interval

\* d after n turns of the doubling loop of nextInterval.
Doubled[n \in Nat] ==
    IF n = 0 THEN Interval
    ELSE IF Doubled[n - 1] < Limit THEN 2 * Doubled[n - 1] ELSE Doubled[n - 1]

Backoff(f) ==
    LET d == Doubled[IF f > Threshold THEN f - Threshold ELSE 0]
    IN  IF d < Limit THEN d ELSE Limit

nextInterval(isUp, why, f, ever) ==
    IF ~isUp /\ why = "rejected" THEN RejectedInterval
    ELSE IF isUp /\ f > 0 THEN ConfirmDelay
    ELSE IF ~isUp /\ ever THEN Backoff(f)
    ELSE Interval

RetryIn(d) == d \div Second

-----------------------------------------------------------------------------
(* Verdicts *)

classify(a) == IF a = "denied" THEN "rejected" ELSE "unreachable"

\* c++ on a counter nothing tells apart beyond FailureCap.
Count(c) == IF c < FailureCap THEN c + 1 ELSE c

\* Mutant: a run that survives other answers.
rejectionRunKept(a) ==
    IF classify(a) = "rejected" THEN Count(rejections) ELSE rejections

\* confirmedKind: the run of rejections after answer a, and the kind it earns.
rejectionRun(a) == IF classify(a) = "rejected" THEN Count(rejections) ELSE 0
confirmedKind(a) ==
    IF classify(a) = "rejected" /\ rejectionRun(a) < RejectedThreshold
    THEN "unreachable" ELSE classify(a)

-----------------------------------------------------------------------------
(* Gate *)

Fail(why) ==
    /\ kind' = why
    /\ up' = FALSE

Recover ==
    /\ kind' = "ok"
    /\ up' = TRUE

\* Mutant: a probe already in flight is taken for the answer.
SuspectUnlessProbing ==
    /\ suspect' = (suspect \/ pc # "probing")
    /\ owed' = TRUE

\* A send that falls through when the channel is full: no call is counted twice
\* and none blocks.
Suspect ==
    /\ suspect' = TRUE
    /\ owed' = TRUE

-----------------------------------------------------------------------------
(* serve() and the checker's goroutine *)

\* Mutant: bound behind a gate left as NewGate made it.
ServeWaitingOpen ==
    /\ pc = "boot" /\ wait
    /\ bound' = TRUE
    /\ pc' = "run"
    /\ UNCHANGED <<gateVars, suspect, checkerVars, wait, cancelled, registry,
                   sessVars, netVars, histVars, owed>>

\* -wait-for-redash: close the gate by hand, bind, start Run.
ServeWaiting ==
    /\ pc = "boot" /\ wait
    /\ Fail("unreachable")
    /\ fresh' = FALSE
    /\ bound' = TRUE
    /\ pc' = "run"
    /\ UNCHANGED <<suspect, checkerVars, wait, cancelled, registry, sessVars,
                   netVars, recent, owed>>

\* The first lines of Probe, up to the request.
BeginProbe ==
    /\ pc' = "probing"
    /\ probed' = TRUE
    /\ owed' = FALSE
    /\ UNCHANGED <<gateVars, failures, rejections, everUp, lastKind, fingerprint,
                   answer, found, delay, announced, listed, serveVars, registry,
                   sessVars, netVars, histVars>>

\* Without the flag: serve probes before anything binds.
StartupProbe ==
    /\ pc = "boot" /\ ~wait
    /\ BeginProbe
    /\ UNCHANGED suspect

\* The startup probe passed: bind the listeners and start Run.
ServeBinds ==
    /\ pc = "bind"
    /\ bound' = TRUE
    /\ pc' = "run"
    /\ UNCHANGED <<gateVars, suspect, checkerVars, wait, cancelled, registry,
                   sessVars, netVars, histVars, owed>>

\* The head of Run: probe at once unless serve already did, else arm the timer.
RunProbes ==
    /\ pc = "run" /\ ~probed
    /\ BeginProbe
    /\ UNCHANGED suspect

RunArms ==
    /\ pc = "run" /\ probed
    /\ delay' = nextInterval(up, kind, failures, everUp)
    /\ pc' = "idle"
    /\ UNCHANGED <<gateVars, suspect, failures, rejections, probed, everUp,
                   lastKind, fingerprint, answer, found, announced, listed,
                   serveVars, registry, sessVars, netVars, histVars, owed>>

\* Mutant: no timer over a rejected key.
TickUnlessRejected ==
    /\ pc = "idle" /\ kind # "rejected"
    /\ BeginProbe
    /\ UNCHANGED suspect

\* Run's select: the timer, or a suspicion.
Tick ==
    /\ pc = "idle"
    /\ BeginProbe
    /\ UNCHANGED suspect

Woken ==
    /\ pc = "idle" /\ suspect
    /\ suspect' = FALSE
    /\ BeginProbe

\* What the network in front of Redash can make of a probe (external).
Outcomes ==
    {a \in Answers : \/ net = "flaky"
                     \/ net = "good" /\ a = "ok"
                     \/ net = "gone" /\ a = "down"
                     \/ net = "denied" /\ a = "denied"}

\* ListDataSources returned a list: the counters of recordSuccess.
ProbeSucceeds ==
    /\ pc = "probing"
    /\ "ok" \in Outcomes
    /\ found' = sources
    /\ answer' = "ok"
    /\ recent' = [i \in 1..Window |-> IF i = 1 THEN "ok" ELSE recent[i - 1]]
    /\ failures' = 0
    /\ rejections' = 0
    /\ everUp' = TRUE
    /\ lastKind' = "ok"
    /\ pc' = "swap"
    /\ UNCHANGED <<gateVars, suspect, probed, fingerprint, delay, announced,
                   listed, serveVars, registry, sessVars, netVars, fresh, owed>>

\* A list equal to the last one sent is not sent again; another is sent and
\* remembered.  Encoding it cannot fail: the views hold strings, numbers and flags.
publish(l) ==
    \/ l = fingerprint /\ UNCHANGED <<fingerprint, listed>>
    \/ l # fingerprint /\ fingerprint' = l /\ listed' = l

\* registry.Replace, then publish.
SwapAndPublish ==
    /\ pc = "swap"
    /\ registry' = found
    /\ fresh' = TRUE
    /\ publish(found)
    /\ pc' = "recover"
    /\ UNCHANGED <<gateVars, suspect, failures, rejections, probed, everUp,
                   lastKind, answer, found, delay, announced, serveVars, sessVars,
                   netVars, recent, owed>>

\* gate.Recover and its event; serve exits over an empty list, Run rearms.
RecoverGate ==
    /\ pc = "recover"
    /\ Recover
    /\ announced' = IF up THEN announced
                    ELSE [event |-> "redash_up", kind |-> "ok", retryIn |-> 0]
    /\ \/ /\ bound
          /\ delay' = nextInterval(TRUE, "ok", failures, everUp)
          /\ pc' = "idle"
       \/ /\ ~bound
          /\ delay' = delay
          /\ pc' = IF registry = NoSources THEN "exited" ELSE "bind"
    /\ UNCHANGED <<suspect, failures, rejections, probed, everUp, lastKind,
                   fingerprint, answer, found, listed, serveVars, registry,
                   sessVars, netVars, histVars, owed>>

\* ListDataSources returned an error and the context was still live.
ProbeFails ==
    /\ pc = "probing" /\ ~cancelled
    /\ answer' \in Outcomes \ {"ok"}
    /\ pc' = "failed"
    /\ UNCHANGED <<gateVars, suspect, failures, rejections, probed, everUp,
                   lastKind, fingerprint, found, delay, announced, listed,
                   serveVars, registry, sessVars, netVars, histVars, owed>>

\* The request died with the process's context: nothing is recorded.
ProbeCancelled ==
    /\ pc = "probing" /\ cancelled
    /\ delay' = nextInterval(up, kind, failures, everUp)
    /\ pc' = "idle"
    /\ UNCHANGED <<gateVars, suspect, failures, rejections, probed, everUp,
                   lastKind, fingerprint, answer, found, announced, listed,
                   serveVars, registry, sessVars, netVars, histVars, owed>>

\* Mutant: one failure too few.
AbsorbsOneLess == everUp /\ Count(Count(failures)) < Threshold /\ up

\* The early return of recordFailure: below the threshold and still serving.
Absorbs == everUp /\ Count(failures) < Threshold /\ up

\* Mutant: the countdown read before the gate moved.
retryDelayStale(verdict) == nextInterval(up, kind, Count(failures), everUp)

\* The cadence of the state the failure leads to, for retry_in_seconds.
retryDelay(verdict) == nextInterval(FALSE, verdict, Count(failures), everUp)

failureEvent(verdict) ==
    IF up \/ verdict # lastKind THEN "redash_down" ELSE "redash_retry"

\* recordFailure, and then the timer of Run or the exit of serve.
RecordFailure ==
    LET verdict == confirmedKind(answer) IN
    /\ pc = "failed"
    /\ recent' = [i \in 1..Window |-> IF i = 1 THEN answer ELSE recent[i - 1]]
    /\ failures' = Count(failures)
    /\ rejections' = rejectionRun(answer)
    /\ \/ /\ Absorbs
          /\ UNCHANGED <<gateVars, announced, lastKind, fresh>>
       \/ /\ ~Absorbs
          /\ Fail(verdict)
          /\ fresh' = (fresh /\ ~up)
          /\ announced' = [event |-> failureEvent(verdict), kind |-> verdict,
                           retryIn |-> RetryIn(retryDelay(verdict))]
          /\ lastKind' = verdict
    /\ delay' = nextInterval(up', kind', failures', everUp)
    /\ pc' = IF bound THEN "idle" ELSE "exited"
    /\ UNCHANGED <<suspect, probed, everUp, fingerprint, answer, found, listed, serveVars,
                   registry, sessVars, netVars, owed>>

\* Run's select saw the context end.
RunReturns ==
    /\ pc = "idle" /\ cancelled
    /\ pc' = "exited"
    /\ UNCHANGED <<gateVars, suspect, checkerVars, serveVars, registry, sessVars,
                   netVars, histVars, owed>>

Checker ==
    \/ ServeWaiting \/ StartupProbe \/ ServeBinds
    \/ RunProbes \/ RunArms \/ Tick \/ Woken
    \/ ProbeSucceeds \/ SwapAndPublish \/ RecoverGate
    \/ ProbeFails \/ ProbeCancelled \/ RecordFailure
    \/ RunReturns

\* SIGINT, SIGTERM, a closed stdin or a dead listener.
Shutdown ==
    /\ bound /\ ~cancelled
    /\ cancelled' = TRUE
    /\ UNCHANGED <<gateVars, suspect, pc, checkerVars, wait, bound, registry,
                   sessVars, netVars, histVars, owed>>

\* SIGUSR1 from the menu bar app: handled until the context ends.
ProbeNow ==
    /\ ~cancelled /\ pc # "exited"
    /\ Suspect
    /\ UNCHANGED <<gateVars, pc, checkerVars, serveVars, registry, sessVars,
                   netVars, histVars>>

-----------------------------------------------------------------------------
(* Sessions: a login or a query asks the gate, in one critical section to    *)
(* decide and in another to word the refusal.                                *)

Admitted(s) ==
    /\ bound /\ sess[s] = "idle" /\ up
    /\ sess' = [sess EXCEPT ![s] = "working"]
    /\ UNCHANGED <<gateVars, suspect, pc, checkerVars, serveVars, registry,
                   netVars, histVars, owed>>

Refused(s) ==
    /\ bound /\ sess[s] = "idle" /\ ~up
    /\ sess' = [sess EXCEPT ![s] = "refusing"]
    /\ IF s \in PgSessions THEN Suspect ELSE UNCHANGED <<suspect, owed>>
    /\ UNCHANGED <<gateVars, pc, checkerVars, serveVars, registry, netVars,
                   histVars>>

\* The refusal goes out with the sentence ClientMessage gives at this moment.
Answered(s) ==
    /\ sess[s] = "refusing"
    /\ sess' = [sess EXCEPT ![s] = "idle"]
    /\ UNCHANGED <<gateVars, suspect, pc, checkerVars, serveVars, registry,
                   netVars, histVars, owed>>

\* The query succeeded, failed on its own SQL, or was cancelled.
QueryEnds(s) ==
    /\ sess[s] = "working"
    /\ sess' = [sess EXCEPT ![s] = "idle"]
    /\ UNCHANGED <<gateVars, suspect, pc, checkerVars, serveVars, registry,
                   netVars, histVars, owed>>

\* The query died on an error Suspicious accepts.
QueryDies(s) ==
    /\ sess[s] = "working"
    /\ sess' = [sess EXCEPT ![s] = "idle"]
    /\ Suspect
    /\ UNCHANGED <<gateVars, pc, checkerVars, serveVars, registry, netVars,
                   histVars>>

Session(s) ==
    Admitted(s) \/ Refused(s) \/ Answered(s) \/ QueryEnds(s) \/ QueryDies(s)

-----------------------------------------------------------------------------
(* Redash and the network (external) *)

NetworkChanges ==
    /\ net' \in {"good", "flaky", "gone", "denied"} \ {net}
    /\ UNCHANGED <<gateVars, suspect, pc, checkerVars, serveVars, registry,
                   sessVars, sources, histVars, owed>>

SourcesChange ==
    /\ sources' \in Lists \ {sources}
    /\ UNCHANGED <<gateVars, suspect, pc, checkerVars, serveVars, registry,
                   sessVars, net, histVars, owed>>

-----------------------------------------------------------------------------
Init ==
    /\ up = TRUE /\ kind = "ok" /\ suspect = FALSE
    /\ pc = "boot"
    /\ failures = 0 /\ rejections = 0
    /\ probed = FALSE /\ everUp = FALSE
    /\ lastKind = "ok" /\ fingerprint = Unpublished
    /\ answer = "ok" /\ found = NoSources
    /\ delay = Interval
    /\ announced = [event |-> "none", kind |-> "ok", retryIn |-> 0]
    /\ listed = NoSources
    /\ wait \in BOOLEAN /\ bound = FALSE /\ cancelled = FALSE
    /\ registry = NoSources
    /\ sess = [s \in Sessions |-> "idle"]
    /\ net \in {"good", "flaky", "gone", "denied"}
    /\ sources \in Lists
    /\ recent = [i \in 1..Window |-> "none"]
    /\ fresh = FALSE /\ owed = FALSE

Next ==
    \/ Checker \/ Shutdown \/ ProbeNow
    \/ \E s \in Sessions : Session(s)
    \/ NetworkChanges \/ SourcesChange

\* The checker's goroutine runs: its timer fires, its probes end by their
\* timeout, its code is never blocked.  Nothing is assumed of the clients, the
\* app or Redash.
Fairness == WF_vars(Checker)

Spec == Init /\ [][Next]_vars /\ Fairness

-----------------------------------------------------------------------------
(* Properties *)

Answering == {"redash_down", "redash_retry"}

\* The waits nextInterval can return.
Delays ==
    {Interval, ConfirmDelay, RejectedInterval} \cup
    {Backoff(f) : f \in 0..FailureCap}

GateTypeOK ==
    /\ up \in BOOLEAN /\ kind \in Kinds
    /\ suspect \in BOOLEAN /\ owed \in BOOLEAN

CheckerTypeOK ==
    /\ pc \in {"boot", "run", "probing", "failed", "swap", "recover", "bind",
               "idle", "exited"}
    /\ failures \in 0..FailureCap /\ rejections \in 0..FailureCap
    /\ probed \in BOOLEAN /\ everUp \in BOOLEAN
    /\ lastKind \in Kinds /\ fingerprint \in Lists \cup {Unpublished}
    /\ answer \in Answers /\ found \in Lists /\ registry \in Lists /\ listed \in Lists
    /\ delay \in Delays

EventTypeOK ==
    announced \in [event : {"none", "redash_up"} \cup Answering, kind : Kinds,
                   retryIn : {0} \cup {RetryIn(d) : d \in Delays}]

ServeTypeOK == wait \in BOOLEAN /\ bound \in BOOLEAN /\ cancelled \in BOOLEAN

SessionTypeOK == sess \in [Sessions -> {"idle", "working", "refusing"}]

EnvTypeOK == net \in {"good", "flaky", "gone", "denied"} /\ sources \in Lists

HistoryTypeOK ==
    recent \in [1..Window -> Answers \cup {"none"}] /\ fresh \in BOOLEAN

\* The values each variable can take.
TypeOK ==
    /\ GateTypeOK /\ CheckerTypeOK /\ EventTypeOK /\ ServeTypeOK
    /\ SessionTypeOK /\ EnvTypeOK /\ HistoryTypeOK

\* A success is between its answer and the gate it opens.
Reopening == pc \in {"swap", "recover"}

\* Once Redash has answered, the gate is closed only over Threshold failed
\* probes in a row: no single lost packet, no probe cut short by a shutdown and
\* no count left over from an earlier run closes it (recordFailure).
ClosedIsConfirmed ==
    (~up /\ everUp /\ ~Reopening) =>
        \A i \in 1..Threshold : recent[i] \in {"denied", "down"}

\* Sessions are told to check the api_key, and the checker backs off for
\* RejectedInterval, only over RejectedThreshold rejections in a row: a captive
\* portal that comes and goes never gets there (confirmedKind).
RejectedIsConfirmed ==
    (kind = "rejected" /\ ~Reopening) =>
        \A i \in 1..RejectedThreshold : recent[i] = "denied"

\* Whenever a client can be served, Redash has answered, and the registry was
\* fetched after the last time the gate closed (swap before recover).
OpenOverFreshRegistry == (bound /\ up) => (everUp /\ fresh)

\* A suspicion raised at any moment, one that finds the channel full or a probe
\* already in flight included, still has a token in the channel: it gets a probe
\* that begins after it and does not wait for the timer (Suspect, Run).
SuspicionIsKept == owed => suspect

\* Between probes, from the first answer on, the last health line the app read
\* describes the gate: its state, its kind, and the seconds until the timer fires.
AnnouncedAgrees ==
    (pc = "idle" /\ recent[1] # "none") =>
        \/ up /\ announced.event \notin Answering
        \/ /\ ~up /\ announced.event \in Answering
           /\ announced.kind = kind
           /\ announced.retryIn = RetryIn(delay)

(* The inductive invariant behind them, part by part. *)

\* The counters count what the history shows.
CountersMatch ==
    \A i \in 1..Window :
        /\ i <= failures => recent[i] \in {"denied", "down"}
        /\ i <= rejections => recent[i] = "denied"

\* The counters stand behind the gate's verdict.
VerdictBacked ==
    /\ up <=> kind = "ok"
    /\ (~up /\ everUp /\ ~Reopening) => failures >= Threshold
    /\ (kind = "rejected" /\ ~Reopening) => rejections >= RejectedThreshold

\* Where the checker is tells what it has done.
Progress ==
    /\ pc = "failed" => answer # "ok"
    /\ pc = "boot" => ~bound /\ ~everUp /\ recent[1] = "none"
    /\ Reopening => everUp /\ lastKind = "ok"
    /\ pc = "recover" => fresh
    /\ pc = "bind" => up /\ everUp /\ fresh
    /\ pc = "idle" => delay = nextInterval(up, kind, failures, everUp)

\* The countdown a closed gate calls for.
closedRetry == RetryIn(nextInterval(FALSE, kind, failures, everUp))

\* The last line sent says what lastKind and the gate say.
AnnouncedBacked ==
    /\ up => announced.event \notin Answering
    /\ lastKind # "ok" => announced.event \in Answering /\ announced.kind = lastKind
    /\ (~up /\ ~Reopening /\ recent[1] # "none") =>
           /\ lastKind = kind
           /\ announced.retryIn = closedRetry

HealthInv ==
    /\ TypeOK /\ CountersMatch /\ VerdictBacked /\ Progress /\ AnnouncedBacked
    /\ OpenOverFreshRegistry /\ SuspicionIsKept

\* redash_retry only ever repeats the verdict the app is already showing: a
\* change of kind while down is announced as redash_down (recordFailure).
RetryRepeatsTheVerdict ==
    [][ (announced' # announced /\ announced'.event = "redash_retry") =>
            announced.event \in Answering /\ announced.kind = announced'.kind ]_vars

\* What lasts is noticed, with no query running: a Redash that stays reachable
\* has its clients served again, whatever backoff the checker was in; one that
\* stays away closes the gate; a key that stays rejected ends up named as the
\* cause (Run, recordSuccess, recordFailure).
LastingChangeIsNoticed ==
    LET lasting(where) == <>[](net \in where /\ ~cancelled /\ pc # "exited") IN
    /\ lasting({"good"}) => <>[](up /\ bound)
    /\ lasting({"gone", "denied"}) => <>[]~up
    /\ lasting({"denied"}) => <>[](kind = "rejected")
=============================================================================
