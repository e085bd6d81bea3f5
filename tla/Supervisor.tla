----------------------------- MODULE Supervisor -----------------------------
(***************************************************************************)
(* The macOS app's ProxySupervisor and the ProxyTracker inside it: one     *)
(* child process at a time, started, stopped and restarted by commands     *)
(* that run one after another on the main actor, by a backoff timer and by *)
(* a deadline.  Children are numbered by generation.  Times are abstracted *)
(* to what is compared: whether the give-up deadline has passed and        *)
(* whether a run was stable.                                               *)
(*                                                                         *)
(* The handlers run in any order.  The one assumption about time,          *)
(* HopsAreShort, is a conjunct of the specification and of no handler.     *)
(***************************************************************************)
EXTENDS Integers, Sequences, FiniteSets

CONSTANTS
    Profiles,
    BackoffLimit,   \* the length of backoffDelays
    Listeners,      \* the listeners a profile enables
    MaxCommands,    \* bound: commands given by the user and the model
    MaxChildren,    \* bound: processes spawned
    MaxLines        \* bound: lines a child writes

ASSUME SupervisorAssumption ==
    /\ BackoffLimit \in Nat /\ Listeners \in Nat
    /\ MaxCommands \in Nat /\ MaxChildren \in Nat /\ MaxLines \in Nat
    /\ "none" \notin Profiles

VARIABLES
    \* the supervisor
    process,        \* the generation of the process held, 0 for nil
    generation,
    stopRequested, pendingGiveUp,
    exitSeen,       \* exitStatus is set
    stderrDrained,
    commands,       \* the chain of tasks: queued commands, first to run first
    stopping,       \* the command that awaits an exit, "none" if none does
    resumed,        \* its waiter has been resumed
    restartTask,    \* "none" or the profile the backoff timer will spawn
    given,          \* commands given so far
    retries,        \* retries asked for that have not reached start, by when they were
    \* the tracker
    state,
    health,         \* the health of the running state, "checking" in the others
    reportedHealth, activeProfile,
    seenListeners, reachedReady, everConnected,
    giveUpAt,       \* "none", "set" or "passed"
    restartAttempts,
    \* the children
    child,          \* [generation -> "none", "running" or "exited"]
    signalled,      \* [generation -> what a running child was sent: "none", "term" or "kill"]
    lines,          \* [generation -> lines written and not yet ingested]
    wrote,          \* [generation -> lines a running child has written]
    told,           \* [generation -> which of "exit" and "eof" were delivered]
    stable          \* the running state has lasted stableRun

supervisor == <<process, generation, stopRequested, pendingGiveUp, exitSeen, stderrDrained,
                commands, stopping, resumed, restartTask, given, retries>>
tracker == <<state, health, reportedHealth, activeProfile, seenListeners, reachedReady,
             everConnected, giveUpAt, restartAttempts>>
children == <<child, signalled, lines, wrote, told, stable>>
vars == <<supervisor, tracker, children>>

Generations == 1..MaxChildren
Idle == [op |-> "none"]
\* after: the generation when the start was asked for, a history variable
Start(p, g) == [op |-> "start", profile |-> p, after |-> g]
Stop == [op |-> "stop"]
Restart(p) == [op |-> "restart", profile |-> p]
GiveUp(g) == [op |-> "giveup", generation |-> g]

Init ==
    /\ process = 0 /\ generation = 0
    /\ stopRequested = FALSE /\ pendingGiveUp = "none"
    /\ exitSeen = FALSE /\ stderrDrained = FALSE
    /\ commands = <<>> /\ stopping = Idle /\ resumed = FALSE
    /\ restartTask = "none" /\ given = 0 /\ retries = {}
    /\ state = "stopped" /\ health = "checking" /\ reportedHealth = "checking"
    /\ activeProfile = "none"
    /\ seenListeners = 0 /\ reachedReady = FALSE /\ everConnected = FALSE
    /\ giveUpAt = "none" /\ restartAttempts = 0
    /\ child = [g \in Generations |-> "none"]
    /\ signalled = [g \in Generations |-> "none"]
    /\ lines = [g \in Generations |-> <<>>]
    /\ wrote = [g \in Generations |-> 0]
    /\ told = [g \in Generations |-> {}]
    /\ stable = FALSE

isActive == state \in {"running", "starting"}
isAwaitingRetry == state \in {"failed", "gaveUp"}

-----------------------------------------------------------------------------
(* Commands: the app model looks at the state and enqueues, in one step    *)
(* but for Retry.                                                          *)

Enqueue(c) == commands' = Append(commands, c)

Asks == given < MaxCommands /\ given' = given + 1

Give(c) == Asks /\ Enqueue(c) /\ UNCHANGED retries

Asked == UNCHANGED <<process, generation, stopRequested, pendingGiveUp, exitSeen, stderrDrained,
                     stopping, resumed, restartTask, tracker, children>>

(* The menu's Start and Stop. *)
ToggleProxy ==
    /\ IF isActive THEN Give(Stop) ELSE \E p \in Profiles : Give(Start(p, generation))
    /\ Asked

(* Picking a profile, flipping its lock, a first run. *)
Select ==
    /\ \E p \in Profiles : Give(IF isActive THEN Restart(p) ELSE Start(p, generation))
    /\ Asked

(* Reload Configuration, and Restart Proxy Now.  Both read that a proxy    *)
(* was active, and by when they give the command it may be anything.       *)
Reload ==
    /\ \/ isAwaitingRetry /\ \E p \in Profiles : Give(Start(p, generation))
       \/ /\ activeProfile # "none" /\ ~isAwaitingRetry
          /\ Give(Stop) \/ \E p \in Profiles : Give(Restart(p))
       \/ activeProfile # "none" /\ Give(Restart(activeProfile))
    /\ Asked

(* Retry is in the menu of a proxy that failed or gave up, and a network   *)
(* change after a give-up asks for it too; both hop to a task, which gives *)
(* the start and looks at nothing.                                         *)
Retry ==
    /\ isAwaitingRetry
    /\ Asks
    /\ retries' = retries \cup {generation}
    /\ UNCHANGED commands
    /\ Asked

RetryGives(g) ==
    /\ g \in retries
    /\ retries' = retries \ {g}
    /\ \E p \in Profiles : Enqueue(Start(p, g))
    /\ UNCHANGED given
    /\ Asked

-----------------------------------------------------------------------------
(* The tracker's transitions, as what they leave in its variables.         *)

Launched(p) ==
    /\ state' = "starting" /\ activeProfile' = p
    /\ seenListeners' = 0 /\ reachedReady' = FALSE
    /\ reportedHealth' = "checking" /\ health' = "checking"

Stopped(s) ==
    /\ state' = s
    /\ reachedReady' = FALSE /\ seenListeners' = 0 /\ giveUpAt' = "none"
    /\ health' = "checking"
    /\ UNCHANGED <<reportedHealth, activeProfile, everConnected, restartAttempts>>

giveUpReason ==
    IF everConnected \/ state # "running" THEN "none"
    ELSE IF health = "rejected" \/ (health # "ok" /\ giveUpAt = "passed") THEN health
    ELSE "none"

(* A process for the profile, or the failure to run the binary. *)
Spawn ==
    /\ generation < MaxChildren
    /\ generation' = generation + 1
    /\ stopRequested' = FALSE /\ pendingGiveUp' = "none"
    /\ exitSeen' = FALSE /\ stderrDrained' = FALSE

SpawnRuns == process' = generation + 1 /\ child' = [child EXCEPT ![generation + 1] = "running"]
SpawnFails == UNCHANGED <<process, child>>

\* launchFailed on top of the tracker's start.
StartNow(p) ==
    /\ Spawn
    /\ restartAttempts' = 0 /\ everConnected' = FALSE /\ giveUpAt' = "none"
    /\ \/ SpawnRuns /\ Launched(p)
       \/ /\ SpawnFails /\ state' = "failed" /\ activeProfile' = p
          /\ seenListeners' = 0 /\ reachedReady' = FALSE
          /\ reportedHealth' = "checking" /\ health' = "checking"
    /\ stable' = FALSE
    /\ UNCHANGED <<signalled, lines, wrote, told>>

-----------------------------------------------------------------------------
(* Running the commands.  A command starts when none awaits an exit.       *)

Runnable == stopping = Idle /\ commands # <<>>

Dequeue == commands' = Tail(commands)

\* Mutant: a start does not look whether there is a process.
RunStartAnyway ==
    /\ Runnable /\ Head(commands).op = "start"
    /\ Dequeue
    /\ StartNow(Head(commands).profile)
    /\ UNCHANGED <<stopping, resumed, restartTask, given, retries>>

(* start: guard process == nil. *)
RunStart ==
    /\ Runnable /\ Head(commands).op = "start"
    /\ Dequeue
    /\ IF process # 0
       THEN UNCHANGED <<process, generation, stopRequested, pendingGiveUp, exitSeen, stderrDrained,
                        tracker, children>>
       ELSE StartNow(Head(commands).profile)
    /\ UNCHANGED <<stopping, resumed, restartTask, given, retries>>

(* The first half of stopNow: with no process the stop is complete, and a  *)
(* restart goes on to its start; else the child is told and awaited.       *)
StopNothing ==
    /\ Runnable /\ Head(commands).op \in {"stop", "restart"} /\ process = 0
    /\ Dequeue
    /\ restartTask' = "none"
    /\ IF Head(commands).op = "stop"
       THEN /\ Stopped("stopped") /\ stopRequested' = FALSE
            /\ UNCHANGED <<process, generation, pendingGiveUp, exitSeen, stderrDrained, children>>
       ELSE StartNow(Head(commands).profile)
    /\ UNCHANGED <<stopping, resumed, given, retries>>

Terminate(c) ==
    /\ restartTask' = "none" /\ stopRequested' = TRUE
    /\ signalled' = [signalled EXCEPT ![process] = IF child[process] = "running" /\ @ = "none" THEN "term" ELSE @]
    /\ stopping' = c /\ resumed' = FALSE

StopProcess ==
    /\ Runnable /\ Head(commands).op \in {"stop", "restart"} /\ process # 0
    /\ Dequeue
    /\ Terminate(Head(commands))
    /\ UNCHANGED <<process, generation, pendingGiveUp, exitSeen, stderrDrained, given, retries, tracker,
                   child, lines, wrote, told, stable>>

(* A give-up asks again: Redash may have answered while it waited. *)
RunGiveUp ==
    /\ Runnable /\ Head(commands).op = "giveup"
    /\ Dequeue
    /\ IF Head(commands).generation = generation /\ process # 0 /\ giveUpReason # "none"
       THEN pendingGiveUp' = giveUpReason /\ Terminate(Head(commands))
       ELSE UNCHANGED <<pendingGiveUp, restartTask, stopRequested, signalled, stopping, resumed>>
    /\ UNCHANGED <<process, generation, exitSeen, stderrDrained, given, retries, tracker,
                   child, lines, wrote, told, stable>>

(* The second half of stopNow, after the exit; a restart then starts. *)
Resume ==
    /\ resumed
    /\ resumed' = FALSE /\ stopping' = Idle
    /\ IF stopping.op = "restart" /\ process = 0
       THEN StartNow(stopping.profile)
       ELSE UNCHANGED <<process, generation, stopRequested, pendingGiveUp, exitSeen, stderrDrained,
                        tracker, children>>
    /\ UNCHANGED <<commands, restartTask, given, retries>>

(* The killer, terminationGrace after the stop. *)
KillerFires ==
    /\ stopping # Idle /\ ~resumed /\ process # 0
    /\ child[process] = "running"
    /\ signalled' = [signalled EXCEPT ![process] = "kill"]
    /\ UNCHANGED <<supervisor, tracker, child, lines, wrote, told, stable>>

(* The backoff timer: a cancelled task does nothing. *)
RestartFires ==
    /\ restartTask # "none"
    /\ Spawn
    /\ restartTask' = "none"
    /\ \/ SpawnRuns /\ Launched(restartTask)
       \/ /\ SpawnFails /\ state' = "failed" /\ activeProfile' = restartTask
          /\ seenListeners' = 0 /\ reachedReady' = FALSE
          /\ reportedHealth' = "checking" /\ health' = "checking"
    /\ stable' = FALSE
    /\ UNCHANGED <<commands, stopping, resumed, given, retries, everConnected, giveUpAt, restartAttempts,
                   signalled, lines, wrote, told>>

-----------------------------------------------------------------------------
(* What the children do.                                                   *)

Kinds == {"ready", "unreachable", "rejected", "up"}

Speak(g) ==
    /\ child[g] = "running" /\ wrote[g] < MaxLines
    /\ \E e \in Kinds : lines' = [lines EXCEPT ![g] = Append(@, e)]
    /\ wrote' = [wrote EXCEPT ![g] = @ + 1]
    /\ UNCHANGED <<supervisor, tracker, child, signalled, told, stable>>

(* A child that was not told to stop may stop too; bound: while processes  *)
(* are left for the restart and for every command to come.                 *)
Room == generation + (MaxCommands - given) + Len(commands) + Cardinality(retries) + 2 <= MaxChildren

Exit(g) ==
    /\ child[g] = "running" /\ (signalled[g] # "none" \/ Room)
    /\ child' = [child EXCEPT ![g] = "exited"]
    /\ signalled' = [signalled EXCEPT ![g] = "none"]
    /\ wrote' = [wrote EXCEPT ![g] = 0]
    /\ UNCHANGED <<supervisor, tracker, lines, told, stable>>

(* The running state lasts; it matters once a restart has been spent. *)
Settle ==
    /\ state = "running" /\ ~stable /\ restartAttempts > 0
    /\ stable' = TRUE
    /\ UNCHANGED <<supervisor, tracker, child, signalled, lines, wrote, told>>

-----------------------------------------------------------------------------
(* What is heard of them.  giveUpIfDue enqueues after each line; of equal  *)
(* give-ups waiting in the queue one is kept.                              *)

GiveUpIfDue(due) ==
    IF due /\ \A k \in DOMAIN commands : commands[k] # GiveUp(generation)
    THEN Enqueue(GiveUp(generation)) ELSE UNCHANGED commands

\* Mutant: lines that arrive after the exit was handled are recorded.
HeardLate(g) == g = generation

Heard(g) == g = generation /\ process # 0

\* tracker.record: the health shown follows the health reported while running.
Record(e) ==
    LET down == e \in {"unreachable", "rejected"}
        ready == e = "ready" /\ ~reachedReady /\ seenListeners + 1 >= Listeners
        reported == IF down THEN e ELSE IF e = "up" THEN "ok" ELSE reportedHealth
        running == ready \/ state = "running"
    IN  /\ seenListeners' = IF e = "ready" THEN seenListeners + 1 ELSE seenListeners
        /\ reachedReady' = (reachedReady \/ ready)
        /\ state' = IF ready THEN "running" ELSE state
        /\ reportedHealth' = reported
        /\ health' = IF running THEN reported ELSE health
        /\ everConnected' = (everConnected \/ e = "up")
        /\ giveUpAt' = CASE e = "up" -> "none"
                         [] ready /\ ~everConnected -> "set"
                         [] OTHER -> giveUpAt
        /\ UNCHANGED <<activeProfile, restartAttempts>>

Ingest(g) ==
    /\ lines[g] # <<>>
    /\ lines' = [lines EXCEPT ![g] = Tail(@)]
    /\ IF Heard(g)
       THEN /\ Record(Head(lines[g]))
            /\ GiveUpIfDue(giveUpReason' # "none")
       ELSE UNCHANGED <<tracker, commands>>
    /\ UNCHANGED <<process, generation, stopRequested, pendingGiveUp, exitSeen, stderrDrained,
                   stopping, resumed, restartTask, given, retries, child, signalled, wrote, told, stable>>

\* tracker.exit: stopped, failed, or a restart while the budget lasts.
Exited ==
    LET attempts == IF state = "running" /\ stable THEN 0 ELSE restartAttempts
        again == reachedReady /\ attempts < BackoffLimit
    IN  IF stopRequested THEN Stopped("stopped") /\ UNCHANGED restartTask
        ELSE /\ state' = IF again THEN "starting" ELSE "failed"
             /\ restartAttempts' = IF again THEN attempts + 1
                                   ELSE IF reachedReady THEN attempts ELSE restartAttempts
             /\ restartTask' = IF again THEN activeProfile ELSE restartTask
             /\ health' = "checking"
             /\ UNCHANGED <<reportedHealth, activeProfile, seenListeners, reachedReady,
                            everConnected, giveUpAt>>

\* Mutant: a handled exit resumes nobody.
HandleExitForgets ==
    /\ process' = 0 /\ stopRequested' = FALSE /\ pendingGiveUp' = "none"
    /\ IF pendingGiveUp # "none"
       THEN Stopped("gaveUp") /\ UNCHANGED restartTask
       ELSE Exited
    /\ UNCHANGED resumed

HandleExit ==
    /\ process' = 0 /\ stopRequested' = FALSE /\ pendingGiveUp' = "none"
    /\ IF pendingGiveUp # "none"
       THEN Stopped("gaveUp") /\ UNCHANGED restartTask
       ELSE Exited
    /\ resumed' = (stopping # Idle)

Unheard == UNCHANGED <<process, stopRequested, pendingGiveUp, tracker, restartTask, resumed>>

ProcessTerminated(g) ==
    /\ child[g] = "exited" /\ "exit" \notin told[g]
    /\ told' = [told EXCEPT ![g] = @ \cup {"exit"}]
    /\ IF g = generation
       THEN /\ exitSeen' = TRUE
            /\ IF stderrDrained /\ process # 0 THEN HandleExit ELSE Unheard
       ELSE UNCHANGED exitSeen /\ Unheard
    /\ UNCHANGED <<generation, stderrDrained, commands, stopping, given, retries,
                   child, signalled, lines, wrote, stable>>

StderrClosed(g) ==
    /\ child[g] = "exited" /\ lines[g] = <<>> /\ "eof" \notin told[g]
    /\ told' = [told EXCEPT ![g] = @ \cup {"eof"}]
    /\ IF g = generation
       THEN /\ stderrDrained' = TRUE
            /\ IF exitSeen /\ process # 0 THEN HandleExit ELSE Unheard
       ELSE UNCHANGED stderrDrained /\ Unheard
    /\ UNCHANGED <<generation, exitSeen, commands, stopping, given, retries,
                   child, signalled, lines, wrote, stable>>

(* drainGrace after the exit, whether stderr has closed or not. *)
DrainGrace(g) ==
    /\ "exit" \in told[g] /\ g = generation /\ exitSeen /\ process # 0
    /\ HandleExit
    /\ UNCHANGED <<generation, exitSeen, stderrDrained, commands, stopping, given, retries, children>>

\* Mutant: the deadline passes and nobody asks.
GiveUpDueUnasked ==
    /\ giveUpAt = "set"
    /\ giveUpAt' = "passed"
    /\ UNCHANGED <<supervisor, state, health, reportedHealth, activeProfile, seenListeners,
                   reachedReady, everConnected, restartAttempts, children>>

(* The deadline passes and the task that sleeps until it asks. *)
GiveUpDue ==
    /\ giveUpAt = "set"
    /\ giveUpAt' = "passed"
    /\ UNCHANGED <<process, generation, stopRequested, pendingGiveUp, exitSeen, stderrDrained,
                   stopping, resumed, restartTask, given, retries, state, health, reportedHealth,
                   activeProfile, seenListeners, reachedReady, everConnected, restartAttempts, children>>
    /\ GiveUpIfDue(giveUpReason' # "none")

-----------------------------------------------------------------------------
Main == RunStart \/ StopNothing \/ StopProcess \/ RunGiveUp \/ Resume \/ RestartFires

Reports(g) == Ingest(g) \/ ProcessTerminated(g) \/ StderrClosed(g) \/ DrainGrace(g)

Next ==
    \/ ToggleProxy \/ Select \/ Reload \/ Retry
    \/ \E g \in retries : RetryGives(g)
    \/ Main \/ KillerFires \/ GiveUpDue \/ Settle
    \/ \E g \in Generations : Speak(g) \/ Exit(g) \/ Reports(g)

(* The one assumption about time.  A start hops from task to task on the   *)
(* main actor; a child is spawned, binds its listeners, says so, dies and  *)
(* has its exit handled.  When nothing holds the start up, the second      *)
(* takes longer: no child that was spawned after a start was asked for     *)
(* crashes into the backoff timer before that start has run.  A child that *)
(* was there before is heard at any moment.                                *)
WaitingStarts ==
    retries \cup {commands[k].after : k \in {i \in DOMAIN commands : commands[i].op = "start"}}

TimerIsSet == restartTask = "none" /\ restartTask' # "none"

HopsAreShort == TimerIsSet => \A g \in WaitingStarts : g >= process

(* The main actor runs what is runnable, timers fire, what a child wrote   *)
(* and that it died is delivered, and a SIGKILLed process dies.  Nothing   *)
(* is assumed of a child that is not killed, nor that its stderr closes.   *)
Fairness ==
    /\ WF_vars(Main) /\ WF_vars(KillerFires) /\ WF_vars(GiveUpDue)
    /\ WF_vars(\E g \in retries : RetryGives(g))
    /\ \A g \in Generations :
         /\ WF_vars(Ingest(g)) /\ WF_vars(ProcessTerminated(g)) /\ WF_vars(DrainGrace(g))
         /\ WF_vars(signalled[g] = "kill" /\ Exit(g))

Spec == Init /\ [][Next /\ HopsAreShort]_vars /\ Fairness

-----------------------------------------------------------------------------
(* One child at a time, and it is the one the supervisor holds: no start,  *)
(* stop, backoff restart or give-up leaves a second process on the same    *)
(* ports, or one that nobody can stop.                                     *)
OneChild ==
    \A g \in Generations : child[g] = "running" => g = process /\ g = generation

(* What the menu shows is what there is: running and starting have a       *)
(* process or a restart on its way, the other states have neither, and a   *)
(* proxy shown as running is the current one.                              *)
ShownIsTrue ==
    /\ state \in {"stopped", "gaveUp", "failed"} => process = 0 /\ restartTask = "none"
    /\ state = "running" => process # 0
    /\ state = "starting" => (process # 0) # (restartTask # "none")

-----------------------------------------------------------------------------
(* What the proofs need besides.                                           *)

Commands ==
    [op : {"stop"}] \cup [op : {"start"}, profile : Profiles, after : Nat]
        \cup [op : {"restart"}, profile : Profiles] \cup [op : {"giveup"}, generation : Nat]

(* The types of what the supervisor decides by. *)
TypeOK ==
    /\ generation \in 0..MaxChildren /\ process \in 0..MaxChildren
    /\ stopRequested \in BOOLEAN /\ resumed \in BOOLEAN
    /\ exitSeen \in BOOLEAN /\ stderrDrained \in BOOLEAN
    /\ commands \in Seq(Commands) /\ retries \subseteq Nat /\ stopping \in Commands \cup {Idle}
    /\ restartTask \in Profiles \cup {"none"}
    /\ activeProfile \in Profiles \cup {"none"}
    /\ state \in {"stopped", "starting", "running", "failed", "gaveUp"}
    /\ child \in [Generations -> {"none", "running", "exited"}]
    /\ told \in [Generations -> SUBSET {"exit", "eof"}]

(* The process held is the last one spawned, none is alive beyond it, and  *)
(* the end of a child is reported only of one that ended.                  *)
Ownership ==
    /\ process \in {0, generation}
    /\ \A g \in Generations :
         /\ child[g] = "running" => g = process
         /\ child[g] # "none" => g <= generation
         /\ told[g] # {} => child[g] = "exited"

(* A command that awaits an exit has asked a process to stop and nothing   *)
(* else will start one: there is no timer, and the exit will not be taken  *)
(* for a crash.                                                            *)
Awaiting ==
    /\ stopRequested = (stopping # Idle /\ ~resumed)
    /\ stopping # Idle => restartTask = "none"
    /\ stopping # Idle /\ ~resumed => process # 0
    /\ resumed => stopping # Idle /\ process = 0

(* A start that waits was asked for before the process that runs, if one   *)
(* does, was spawned.                                                      *)
StartsAreOlder ==
    \A g \in WaitingStarts : g <= generation /\ (process # 0 => g < process)

(* A process is shown as one and has its profile; while the timer runs no  *)
(* start waits that would spawn beside it.                                 *)
OneStarter ==
    /\ process # 0 =>
         /\ state \in {"starting", "running"} /\ activeProfile \in Profiles
         /\ restartTask = "none"
    /\ restartTask # "none" =>
         /\ state = "starting"
         /\ WaitingStarts = {}

(* A start that never reaches Redash does not go on for ever: it connects, *)
(* or leaves the running state (by giving up, if by nothing else), even    *)
(* when the child hangs and writes nothing.                                *)
GivesUpOrConnects == (state = "running" /\ ~everConnected) ~> (everConnected \/ state # "running")

(* Every command runs to its end: no stop waits for an exit for ever, and  *)
(* nothing stays in the queue behind it.                                   *)
CommandsEnd == (commands # <<>> \/ stopping # Idle) ~> (commands = <<>> /\ stopping = Idle)
=============================================================================
