-------------------------- MODULE SupervisorProofs --------------------------
(* Theorems about Supervisor, for every set of profiles, every restart     *)
(* budget and any number of commands, processes and lines.                 *)
EXTENDS Supervisor, TLAPS

SafeInv == TypeOK /\ Ownership /\ Awaiting /\ StartsAreOlder /\ OneStarter /\ ShownIsTrue

\* The starts that wait in a queue: when they were asked for.
Starts(q) == {q[k].after : k \in {i \in DOMAIN q : q[i].op = "start"}}

\* What the commands are.
LEMMA CommandFacts ==
    ASSUME NEW c \in Commands
    PROVE  /\ c # Idle
           /\ c.op \in {"stop", "start", "restart", "giveup"}
           /\ c.op \in {"start", "restart"} => c.profile \in Profiles
           /\ c.op = "start" => c.after \in Nat
  BY DEF Commands, Idle

LEMMA CommandsMade ==
    /\ Stop \in Commands /\ Stop.op # "start"
    /\ \A p \in Profiles : Restart(p) \in Commands /\ Restart(p).op # "start"
    /\ \A p \in Profiles, g \in Nat : Start(p, g) \in Commands /\ Start(p, g).after = g
    /\ \A g \in Nat : GiveUp(g) \in Commands /\ GiveUp(g).op # "start"
  BY DEF Commands, Stop, Start, Restart, GiveUp

\* A command added at the end, and the first one taken.
LEMMA Appended ==
    ASSUME NEW q \in Seq(Commands), NEW c \in Commands
    PROVE  /\ Append(q, c) \in Seq(Commands)
           /\ Starts(Append(q, c)) \subseteq Starts(q) \cup {c.after}
           /\ c.op # "start" => Starts(Append(q, c)) \subseteq Starts(q)
  BY DEF Starts

LEMMA Taken ==
    ASSUME NEW q \in Seq(Commands), q # <<>>
    PROVE  /\ Head(q) \in Commands /\ Tail(q) \in Seq(Commands)
           /\ Starts(Tail(q)) \subseteq Starts(q)
           /\ Head(q).op = "start" => Head(q).after \in Starts(q)
<1>1. Head(q) \in Commands /\ Tail(q) \in Seq(Commands)
  OBVIOUS
<1>2. Starts(Tail(q)) \subseteq Starts(q)
  <2>1. \A k \in DOMAIN Tail(q) : k + 1 \in DOMAIN q /\ Tail(q)[k] = q[k + 1]
    OBVIOUS
  <2>2. QED
    BY <2>1 DEF Starts
<1>3. 1 \in DOMAIN q /\ Head(q) = q[1]
  OBVIOUS
<1>4. QED
  BY <1>1, <1>2, <1>3 DEF Starts

LEMMA WaitingAreNumbers ==
    ASSUME TypeOK
    PROVE  WaitingStarts \subseteq Nat
<1>1. \A k \in DOMAIN commands : commands[k] \in Commands
  BY DEF TypeOK
<1>2. \A k \in DOMAIN commands : commands[k].op = "start" => commands[k].after \in Nat
  BY <1>1, CommandFacts
<1>3. QED
  BY <1>2 DEF WaitingStarts, TypeOK

\* Starts that waited stay older than what runs: a process goes, or a new one comes.
LEMMA StillOlder ==
    ASSUME TypeOK, Ownership, StartsAreOlder, WaitingStarts' \subseteq WaitingStarts,
           \/ UNCHANGED <<process, generation>>
           \/ process' = 0 /\ UNCHANGED generation
           \/ generation' = generation + 1 /\ process' \in {0, generation + 1}
    PROVE  StartsAreOlder'
<1>1. generation \in Nat /\ process \in Nat
  BY SupervisorAssumption DEF TypeOK
<1>2. \A g \in WaitingStarts' : g \in Nat /\ g <= generation /\ (process # 0 => g < process)
  BY WaitingAreNumbers DEF StartsAreOlder
<1>3. QED
  BY <1>1, <1>2 DEF StartsAreOlder

\* What an asked give-up leaves in the queue.
LEMMA GiveUpQueues ==
    ASSUME TypeOK, UNCHANGED retries,
           UNCHANGED commands \/ commands' = Append(commands, GiveUp(generation))
    PROVE  commands' \in Seq(Commands) /\ WaitingStarts' \subseteq WaitingStarts
<1>1. generation \in Nat /\ commands \in Seq(Commands)
  BY SupervisorAssumption DEF TypeOK
<1>2. GiveUp(generation) \in Commands /\ GiveUp(generation).op # "start"
  BY <1>1, CommandsMade
<1>3. commands' \in Seq(Commands) /\ Starts(commands') \subseteq Starts(commands)
  BY <1>1, <1>2, Appended
<1>4. WaitingStarts' = retries' \cup Starts(commands') /\ WaitingStarts = retries \cup Starts(commands)
  BY DEF WaitingStarts, Starts
<1>5. QED
  BY <1>3, <1>4

Asking == ToggleProxy \/ Select \/ Reload \/ Retry \/ \E g \in retries : RetryGives(g)

\* A start is asked for only where there is neither a process nor a timer.
LEMMA AskedStarts ==
    ASSUME SafeInv, Asking
    PROVE  /\ commands' \in Seq(Commands) /\ retries' \subseteq Nat
           /\ \/ WaitingStarts' \subseteq WaitingStarts
              \/ /\ process = 0 /\ restartTask = "none"
                 /\ WaitingStarts' \subseteq WaitingStarts \cup {generation}
<1> USE DEF SafeInv
<1>1. generation \in Nat /\ commands \in Seq(Commands) /\ retries \subseteq Nat
  BY SupervisorAssumption DEF TypeOK
<1>2. WaitingStarts' = retries' \cup Starts(commands') /\ WaitingStarts = retries \cup Starts(commands)
  BY DEF WaitingStarts, Starts
<1>3. ~isActive \/ isAwaitingRetry => process = 0 /\ restartTask = "none"
  BY DEF isActive, isAwaitingRetry, ShownIsTrue, TypeOK
<1>4. ASSUME NEW c \in Commands, c.op # "start", Give(c)
      PROVE  commands' \in Seq(Commands) /\ retries' \subseteq Nat /\ WaitingStarts' \subseteq WaitingStarts
  BY <1>1, <1>2, <1>4, Appended DEF Give, Enqueue
<1>5. ASSUME NEW p \in Profiles, Give(Start(p, generation))
      PROVE  /\ commands' \in Seq(Commands) /\ retries' \subseteq Nat
             /\ WaitingStarts' \subseteq WaitingStarts \cup {generation}
  BY <1>1, <1>2, <1>5, Appended, CommandsMade DEF Give, Enqueue
<1>6. CASE ToggleProxy
  BY <1>3, <1>4, <1>5, <1>6, CommandsMade DEF ToggleProxy
<1>7. CASE Select
  BY <1>3, <1>4, <1>5, <1>7, CommandsMade DEF Select
<1>8. CASE Reload
  <2>1. activeProfile # "none" => activeProfile \in Profiles
    BY DEF TypeOK
  <2>2. QED
    BY <1>3, <1>4, <1>5, <1>8, <2>1, CommandsMade DEF Reload
<1>9. CASE Retry
  BY <1>1, <1>2, <1>3, <1>9 DEF Retry
<1>10. ASSUME NEW g \in retries, RetryGives(g)
       PROVE  commands' \in Seq(Commands) /\ retries' \subseteq Nat /\ WaitingStarts' \subseteq WaitingStarts
  <2>1. PICK p \in Profiles : commands' = Append(commands, Start(p, g))
    BY <1>10 DEF RetryGives, Enqueue
  <2>2. Start(p, g) \in Commands /\ Start(p, g).after = g
    BY <1>1, CommandsMade
  <2>3. commands' \in Seq(Commands) /\ Starts(commands') \subseteq Starts(commands) \cup {g}
    BY <1>1, <2>1, <2>2, Appended
  <2>4. retries' \subseteq retries
    BY <1>10 DEF RetryGives
  <2>5. QED
    BY <1>1, <1>2, <2>3, <2>4
<1>11. QED
  BY <1>6, <1>7, <1>8, <1>9, <1>10 DEF Asking

LEMMA GiveStep ==
    ASSUME SafeInv, Asking
    PROVE  SafeInv'
<1> USE DEF SafeInv
<1>1. UNCHANGED <<process, generation, stopRequested, pendingGiveUp, exitSeen, stderrDrained,
                  stopping, resumed, restartTask, tracker, children>>
  BY DEF Asking, ToggleProxy, Select, Reload, Retry, RetryGives, Asked
<1>2. /\ commands' \in Seq(Commands) /\ retries' \subseteq Nat
      /\ \/ WaitingStarts' \subseteq WaitingStarts
         \/ /\ process = 0 /\ restartTask = "none"
            /\ WaitingStarts' \subseteq WaitingStarts \cup {generation}
  BY AskedStarts
<1>3. TypeOK'
  BY <1>1, <1>2 DEF TypeOK, tracker, children
<1>4. Ownership' /\ Awaiting' /\ ShownIsTrue'
  BY <1>1 DEF Ownership, Awaiting, ShownIsTrue, tracker, children
<1>5. StartsAreOlder'
  <2>1. CASE WaitingStarts' \subseteq WaitingStarts
    BY <1>1, <2>1, StillOlder
  <2>2. CASE process = 0 /\ WaitingStarts' \subseteq WaitingStarts \cup {generation}
    <3>1. generation \in Nat
      BY SupervisorAssumption DEF TypeOK
    <3>2. QED
      BY <1>1, <2>2, <3>1 DEF StartsAreOlder
  <2>3. QED
    BY <1>2, <2>1, <2>2
<1>6. OneStarter'
  BY <1>1, <1>2 DEF OneStarter, tracker
<1>7. QED
  BY <1>3, <1>4, <1>5, <1>6

\* A new generation: nothing is known of it yet.
LEMMA NextGeneration ==
    ASSUME TypeOK, Ownership, generation < MaxChildren
    PROVE  /\ generation + 1 \in Generations
           /\ generation + 1 \in 0..MaxChildren /\ generation + 1 # 0
           /\ child[generation + 1] = "none" /\ told[generation + 1] = {}
  BY SupervisorAssumption DEF TypeOK, Ownership, Generations

\* What a spawn leaves of the children and of the process held, whether or
\* not the binary runs.
LEMMA SpawnStep ==
    ASSUME TypeOK, Ownership, process = 0, Spawn, SpawnRuns \/ SpawnFails, UNCHANGED told
    PROVE  /\ Ownership'
           /\ generation' \in 0..MaxChildren /\ process' \in 0..MaxChildren
           /\ child' \in [Generations -> {"none", "running", "exited"}]
           /\ stopRequested' = FALSE /\ exitSeen' = FALSE /\ stderrDrained' = FALSE
           /\ SpawnRuns => process' # 0
           /\ SpawnFails => process' = 0
           /\ generation' = generation + 1 /\ process' \in {0, generation + 1}
<1>1. /\ generation + 1 \in Generations
      /\ generation + 1 \in 0..MaxChildren /\ generation + 1 # 0
      /\ child[generation + 1] = "none" /\ told[generation + 1] = {}
      /\ generation' = generation + 1
  BY NextGeneration DEF Spawn
<1>2. CASE SpawnRuns
  <2>1. child' \in [Generations -> {"none", "running", "exited"}]
    BY <1>1, <1>2 DEF SpawnRuns, TypeOK
  <2>2. \A g \in Generations : child'[g] = IF g = generation + 1 THEN "running" ELSE child[g]
    BY <1>1, <1>2 DEF SpawnRuns, TypeOK
  <2>3. Ownership'
    BY <1>1, <1>2, <2>2, SupervisorAssumption DEF SpawnRuns, TypeOK, Ownership, Generations
  <2>4. QED
    BY <1>1, <1>2, <2>1, <2>3, SupervisorAssumption DEF Spawn, SpawnRuns, SpawnFails
<1>3. CASE SpawnFails
  <2>1. Ownership'
    BY <1>1, <1>3, SupervisorAssumption DEF SpawnFails, TypeOK, Ownership, Generations
  <2>2. QED
    BY <1>1, <1>3, <2>1, SupervisorAssumption DEF Spawn, SpawnFails, SpawnRuns, TypeOK
<1>4. QED
  BY <1>2, <1>3

\* A start of a profile when there is neither a process nor a timer.
LEMMA StartStep ==
    ASSUME SafeInv, process = 0, NEW p \in Profiles, StartNow(p),
           restartTask' = "none", stopping' = Idle, resumed' = FALSE,
           commands' \in Seq(Commands), retries' \subseteq Nat,
           WaitingStarts' \subseteq WaitingStarts
    PROVE  SafeInv'
<1> USE DEF SafeInv
<1>1. Spawn /\ (SpawnRuns \/ SpawnFails) /\ UNCHANGED told
  BY DEF StartNow
<1>2. /\ Ownership'
      /\ generation' \in 0..MaxChildren /\ process' \in 0..MaxChildren
      /\ child' \in [Generations -> {"none", "running", "exited"}]
      /\ stopRequested' = FALSE /\ exitSeen' = FALSE /\ stderrDrained' = FALSE
      /\ SpawnRuns => process' # 0
      /\ SpawnFails => process' = 0
      /\ generation' = generation + 1 /\ process' \in {0, generation + 1}
  BY <1>1, SpawnStep
<1>3. \/ process' # 0 /\ state' = "starting" /\ activeProfile' = p
      \/ process' = 0 /\ state' = "failed" /\ activeProfile' = p
  BY <1>2 DEF StartNow, Launched
<1>4. TypeOK'
  BY <1>1, <1>2, <1>3 DEF TypeOK
<1>5. Awaiting'
  BY <1>2 DEF Awaiting
<1>6. OneStarter' /\ ShownIsTrue'
  BY <1>3 DEF OneStarter, ShownIsTrue
<1>7. StartsAreOlder'
  BY <1>2, StillOlder
<1>8. QED
  BY <1>2, <1>4, <1>5, <1>6, <1>7

\* The queue's first command: a start, or what a stop finds to do.
LEMMA RunStep ==
    ASSUME SafeInv, RunStart \/ StopNothing \/ StopProcess \/ RunGiveUp
    PROVE  SafeInv'
<1> USE DEF SafeInv
<1> DEFINE c == Head(commands)
<1>1. /\ stopping = Idle /\ commands # <<>> /\ commands' = Tail(commands)
      /\ ~resumed /\ ~stopRequested /\ UNCHANGED retries
  BY DEF RunStart, StopNothing, StopProcess, RunGiveUp, Runnable, Dequeue, Awaiting, TypeOK
<1>2. /\ c \in Commands /\ c # Idle /\ commands' \in Seq(Commands) /\ retries' \subseteq Nat
      /\ c.op \in {"start", "restart"} => c.profile \in Profiles
      /\ WaitingStarts' \subseteq WaitingStarts
      /\ c.op = "start" => WaitingStarts # {}
  <2>1. WaitingStarts' = retries' \cup Starts(commands') /\ WaitingStarts = retries \cup Starts(commands)
    BY DEF WaitingStarts, Starts
  <2>2. QED
    BY <1>1, <2>1, Taken, CommandFacts DEF TypeOK
<1> HIDE DEF c
<1>3. CASE RunStart
  <2>1. c.op = "start" /\ UNCHANGED <<stopping, resumed, restartTask>>
    BY <1>3 DEF RunStart, c
  <2>2. restartTask = "none"
    BY <1>2, <2>1 DEF OneStarter
  <2>3. CASE process = 0
    <3>1. StartNow(c.profile)
      BY <1>3, <2>3 DEF RunStart, c
    <3>2. QED
      BY <1>1, <1>2, <2>1, <2>2, <2>3, <3>1, StartStep DEF TypeOK
  <2>4. CASE process # 0
    <3>1. UNCHANGED <<process, generation, stopRequested, pendingGiveUp, exitSeen, stderrDrained,
                      tracker, children>>
      BY <1>3, <2>4 DEF RunStart
    <3>2. TypeOK'
      BY <1>2, <2>1, <3>1 DEF TypeOK, tracker, children
    <3>3. Ownership' /\ Awaiting' /\ ShownIsTrue'
      BY <2>1, <3>1 DEF Ownership, Awaiting, ShownIsTrue, tracker, children
    <3>4. OneStarter'
      BY <2>1, <2>2, <3>1 DEF OneStarter, tracker
    <3>5. StartsAreOlder'
      BY <1>2, <3>1, StillOlder
    <3>6. QED
      BY <3>2, <3>3, <3>4, <3>5
  <2>5. QED
    BY <2>3, <2>4
<1>4. CASE StopNothing
  <2>1. /\ c.op \in {"stop", "restart"} /\ process = 0
        /\ restartTask' = "none" /\ UNCHANGED <<stopping, resumed>>
    BY <1>4 DEF StopNothing, c
  <2>2. CASE c.op = "stop"
    <3>1. /\ state' = "stopped" /\ stopRequested' = FALSE
          /\ UNCHANGED <<process, generation, exitSeen, stderrDrained, activeProfile, child, told>>
      BY <1>4, <2>2 DEF StopNothing, Stopped, c, children
    <3>2. TypeOK'
      BY <1>2, <2>1, <3>1 DEF TypeOK
    <3>3. Ownership'
      BY <3>1 DEF Ownership
    <3>4. Awaiting' /\ OneStarter' /\ ShownIsTrue'
      BY <1>1, <2>1, <3>1 DEF Awaiting, OneStarter, ShownIsTrue
    <3>5. StartsAreOlder'
      BY <1>2, <3>1, StillOlder
    <3>6. QED
      BY <3>2, <3>3, <3>4, <3>5
  <2>3. CASE c.op = "restart"
    <3>1. StartNow(c.profile)
      BY <1>4, <2>3 DEF StopNothing, c
    <3>2. QED
      BY <1>1, <1>2, <2>1, <2>3, <3>1, StartStep DEF TypeOK
  <2>4. QED
    BY <2>1, <2>2, <2>3
<1>5. ASSUME process # 0, Terminate(c),
             UNCHANGED <<process, generation, exitSeen, stderrDrained, tracker, child, told>>
      PROVE  SafeInv'
  <2>1. /\ restartTask' = "none" /\ stopRequested' = TRUE /\ stopping' = c /\ resumed' = FALSE
    BY <1>5 DEF Terminate
  <2>2. TypeOK'
    BY <1>2, <1>5, <2>1 DEF TypeOK, tracker
  <2>3. Ownership' /\ Awaiting'
    BY <1>2, <1>5, <2>1 DEF Ownership, Awaiting
  <2>4. OneStarter' /\ ShownIsTrue'
    BY <1>5, <2>1 DEF OneStarter, ShownIsTrue, tracker
  <2>5. StartsAreOlder'
    BY <1>2, <1>5, StillOlder
  <2>6. QED
    BY <2>2, <2>3, <2>4, <2>5
<1>6. CASE StopProcess
  BY <1>5, <1>6 DEF StopProcess, c
<1>7. CASE RunGiveUp
  <2>1. CASE process # 0 /\ Terminate(c)
    BY <1>5, <1>7, <2>1 DEF RunGiveUp
  <2>2. CASE UNCHANGED <<pendingGiveUp, restartTask, stopRequested, signalled, stopping, resumed>>
    <3>1. UNCHANGED <<process, generation, exitSeen, stderrDrained, tracker, child, told>>
      BY <1>7 DEF RunGiveUp
    <3>2. TypeOK'
      BY <1>2, <2>2, <3>1 DEF TypeOK, tracker
    <3>3. Ownership' /\ Awaiting' /\ ShownIsTrue'
      BY <2>2, <3>1 DEF Ownership, Awaiting, ShownIsTrue, tracker
    <3>4. OneStarter'
      BY <1>2, <2>2, <3>1 DEF OneStarter, tracker
    <3>5. StartsAreOlder'
      BY <1>2, <3>1, StillOlder
    <3>6. QED
      BY <3>2, <3>3, <3>4, <3>5
  <2>3. QED
    BY <1>7, <2>1, <2>2 DEF RunGiveUp, c
<1>8. QED
  BY <1>3, <1>4, <1>6, <1>7

\* The second half of a stop, and the start of the restart it belongs to.
LEMMA ResumeStep == ASSUME SafeInv, Resume PROVE SafeInv'
<1> USE DEF SafeInv
<1>1. /\ resumed /\ stopping # Idle /\ process = 0 /\ restartTask = "none" /\ ~stopRequested
      /\ resumed' = FALSE /\ stopping' = Idle /\ UNCHANGED <<commands, restartTask, retries>>
  BY DEF Resume, Awaiting, TypeOK
<1>2. stopping \in Commands /\ WaitingStarts' = WaitingStarts
  BY <1>1 DEF TypeOK, WaitingStarts
<1>3. CASE stopping.op = "restart"
  <2>1. StartNow(stopping.profile) /\ stopping.profile \in Profiles
    BY <1>1, <1>2, <1>3, CommandFacts DEF Resume
  <2>2. QED
    BY <1>1, <1>2, <2>1, StartStep DEF TypeOK
<1>4. CASE stopping.op # "restart"
  <2>1. UNCHANGED <<process, generation, stopRequested, pendingGiveUp, exitSeen, stderrDrained,
                    tracker, children>>
    BY <1>4 DEF Resume
  <2>2. TypeOK'
    BY <1>1, <2>1 DEF TypeOK, tracker, children
  <2>3. Ownership' /\ Awaiting'
    BY <1>1, <2>1 DEF Ownership, Awaiting, TypeOK, children
  <2>4. OneStarter' /\ ShownIsTrue'
    BY <1>1, <2>1 DEF OneStarter, ShownIsTrue, tracker
  <2>5. StartsAreOlder'
    BY <1>2, <2>1, StillOlder
  <2>6. QED
    BY <2>2, <2>3, <2>4, <2>5
<1>5. QED
  BY <1>3, <1>4

\* The backoff timer spawns only where there is no process.
LEMMA RestartFiresStep == ASSUME SafeInv, RestartFires PROVE SafeInv'
<1> USE DEF SafeInv
<1>1. /\ restartTask # "none" /\ restartTask' = "none"
      /\ UNCHANGED <<commands, stopping, resumed, retries>>
      /\ Spawn /\ (SpawnRuns \/ SpawnFails) /\ UNCHANGED told
  BY DEF RestartFires
<1>2. process = 0 /\ stopping = Idle /\ ~resumed /\ restartTask \in Profiles
  BY <1>1 DEF OneStarter, Awaiting, TypeOK
<1>3. /\ Ownership'
      /\ generation' \in 0..MaxChildren /\ process' \in 0..MaxChildren
      /\ child' \in [Generations -> {"none", "running", "exited"}]
      /\ stopRequested' = FALSE /\ exitSeen' = FALSE /\ stderrDrained' = FALSE
      /\ SpawnRuns => process' # 0
      /\ SpawnFails => process' = 0
      /\ generation' = generation + 1 /\ process' \in {0, generation + 1}
  BY <1>1, <1>2, SpawnStep
<1>4. \/ process' # 0 /\ state' = "starting" /\ activeProfile' = restartTask
      \/ process' = 0 /\ state' = "failed" /\ activeProfile' = restartTask
  BY <1>3 DEF RestartFires, Launched
<1>5. TypeOK'
  BY <1>1, <1>2, <1>3, <1>4 DEF TypeOK
<1>6. Awaiting' /\ OneStarter' /\ ShownIsTrue'
  BY <1>1, <1>2, <1>3, <1>4 DEF Awaiting, OneStarter, ShownIsTrue
<1>7. StartsAreOlder'
  <2>1. WaitingStarts' = WaitingStarts
    BY <1>1 DEF WaitingStarts
  <2>2. QED
    BY <1>3, <2>1, StillOlder
<1>8. QED
  BY <1>3, <1>5, <1>6, <1>7

\* What the children do changes nothing the supervisor knows.
LEMMA ChildStep ==
    ASSUME SafeInv, NEW g \in Generations, Speak(g) \/ Exit(g)
    PROVE  SafeInv'
<1> USE DEF SafeInv
<1>1. UNCHANGED <<supervisor, tracker, told>>
  BY DEF Speak, Exit
<1>2. child[g] = "running" /\ (child' = child \/ child' = [child EXCEPT ![g] = "exited"])
  BY DEF Speak, Exit
<1>3. TypeOK'
  BY <1>1, <1>2 DEF TypeOK, supervisor, tracker
<1>4. Ownership'
  BY <1>1, <1>2 DEF Ownership, TypeOK, supervisor
<1>5. Awaiting' /\ OneStarter' /\ ShownIsTrue'
  BY <1>1 DEF Awaiting, OneStarter, ShownIsTrue, WaitingStarts, supervisor, tracker
<1>6. StartsAreOlder'
  BY <1>1 DEF StartsAreOlder, WaitingStarts, supervisor
<1>7. QED
  BY <1>3, <1>4, <1>5, <1>6

\* Timers and lines that leave the process, the queue's starts and the
\* timer as they are.
LEMMA QuietStep ==
    ASSUME SafeInv,
           UNCHANGED <<process, generation, stopRequested, exitSeen, stderrDrained, stopping,
                       resumed, restartTask, retries, activeProfile, child, told>>,
           UNCHANGED commands \/ commands' = Append(commands, GiveUp(generation)),
           UNCHANGED state \/ (process # 0 /\ state' = "running")
    PROVE  SafeInv'
<1> USE DEF SafeInv
<1>1. commands' \in Seq(Commands) /\ WaitingStarts' \subseteq WaitingStarts
  BY GiveUpQueues
<1>2. TypeOK'
  BY <1>1 DEF TypeOK
<1>3. Ownership' /\ Awaiting'
  BY DEF Ownership, Awaiting
<1>4. OneStarter' /\ ShownIsTrue'
  BY <1>1 DEF OneStarter, ShownIsTrue
<1>5. StartsAreOlder'
  BY <1>1, StillOlder
<1>6. QED
  BY <1>2, <1>3, <1>4, <1>5

LEMMA IngestStep == ASSUME SafeInv, NEW g \in Generations, Ingest(g) PROVE SafeInv'
<1>1. UNCHANGED <<process, generation, stopRequested, exitSeen, stderrDrained, stopping,
                  resumed, restartTask, retries, activeProfile, child, told>>
  BY DEF Ingest, Record, tracker
<1>2. UNCHANGED commands \/ commands' = Append(commands, GiveUp(generation))
  BY DEF Ingest, GiveUpIfDue, Enqueue
<1>3. UNCHANGED state \/ (process # 0 /\ state' = "running")
  BY DEF Ingest, Heard, Record, tracker
<1>4. QED
  BY <1>1, <1>2, <1>3, QuietStep

LEMMA TimerStep == ASSUME SafeInv, KillerFires \/ GiveUpDue \/ Settle PROVE SafeInv'
<1>1. UNCHANGED <<process, generation, stopRequested, exitSeen, stderrDrained, stopping,
                  resumed, restartTask, retries, activeProfile, child, told, state>>
  BY DEF KillerFires, GiveUpDue, Settle, supervisor, tracker, children
<1>2. UNCHANGED commands \/ commands' = Append(commands, GiveUp(generation))
  BY DEF KillerFires, GiveUpDue, Settle, GiveUpIfDue, Enqueue, supervisor
<1>3. QED
  BY <1>1, <1>2, QuietStep

\* An exit is handled once the child has exited: a command that waits for it
\* is resumed, and a timer is set only where no start waits, since all that
\* wait were asked for before the child was spawned.
LEMMA HandleExitStep ==
    ASSUME SafeInv, HopsAreShort, process # 0, child[generation] = "exited", HandleExit,
           told' \in [Generations -> SUBSET {"exit", "eof"}],
           \A g \in Generations : told'[g] # {} => child[g] = "exited",
           exitSeen' \in BOOLEAN, stderrDrained' \in BOOLEAN,
           UNCHANGED <<generation, commands, retries, stopping, child>>
    PROVE  SafeInv'
<1> USE DEF SafeInv
<1>1. /\ process' = 0 /\ stopRequested' = FALSE /\ resumed' = (stopping # Idle)
      /\ process = generation /\ restartTask = "none" /\ activeProfile \in Profiles
      /\ UNCHANGED activeProfile
  BY DEF HandleExit, Ownership, OneStarter, Stopped, Exited
<1>2. \/ state' \in {"gaveUp", "stopped", "failed"} /\ restartTask' = "none"
      \/ ~stopRequested /\ state' = "starting" /\ restartTask' = activeProfile
  BY <1>1 DEF HandleExit, Stopped, Exited
<1>3. restartTask' # "none" => stopping = Idle /\ WaitingStarts = {}
  <2>1. ASSUME restartTask' # "none" PROVE WaitingStarts = {}
    <3>1. \A g \in WaitingStarts : g >= process /\ g < process /\ g \in Nat
      BY <1>1, <2>1, WaitingAreNumbers DEF HopsAreShort, TimerIsSet, StartsAreOlder
    <3>2. process \in Nat
      BY SupervisorAssumption DEF TypeOK
    <3>3. QED
      BY <3>1, <3>2
  <2>2. QED
    BY <1>1, <1>2, <2>1 DEF Awaiting, TypeOK
<1>4. TypeOK'
  <2>1. resumed' \in BOOLEAN /\ stopRequested' \in BOOLEAN
    BY <1>1
  <2>2. /\ restartTask' \in Profiles \cup {"none"}
        /\ state' \in {"stopped", "starting", "running", "failed", "gaveUp"}
    BY <1>1, <1>2
  <2>3. process' \in 0..MaxChildren
    BY <1>1, SupervisorAssumption
  <2>4. QED
    BY <1>1, <2>1, <2>2, <2>3 DEF TypeOK
<1>5. Ownership'
  BY <1>1 DEF Ownership
<1>6. Awaiting'
  <2>1. stopping' = stopping /\ (resumed' = (stopping' # Idle))
    BY <1>1
  <2>2. stopping' # Idle => restartTask' = "none"
    BY <1>3, <2>1
  <2>3. QED
    BY <1>1, <2>1, <2>2 DEF Awaiting
<1>7. OneStarter' /\ ShownIsTrue'
  BY <1>1, <1>2, <1>3, SupervisorAssumption DEF OneStarter, ShownIsTrue, WaitingStarts
<1>8. StartsAreOlder'
  BY <1>1, StillOlder DEF WaitingStarts
<1>9. QED
  BY <1>4, <1>5, <1>6, <1>7, <1>8

\* The two reports of a child's end, and the grace after the first.
LEMMA ReportStep ==
    ASSUME SafeInv, HopsAreShort, NEW g \in Generations,
           ProcessTerminated(g) \/ StderrClosed(g) \/ DrainGrace(g)
    PROVE  SafeInv'
<1> USE DEF SafeInv
<1>1. child[g] = "exited" /\ UNCHANGED <<generation, commands, retries, stopping, child>>
  BY DEF ProcessTerminated, StderrClosed, DrainGrace, Ownership, children
<1>2. \E s \in SUBSET {"exit", "eof"} : told' = [told EXCEPT ![g] = s]
  <2>1. CASE ProcessTerminated(g)
    BY <2>1 DEF ProcessTerminated, TypeOK
  <2>2. CASE StderrClosed(g)
    BY <2>2 DEF StderrClosed, TypeOK
  <2>3. CASE DrainGrace(g)
    <3>1. told' = [told EXCEPT ![g] = told[g]] /\ told[g] \in SUBSET {"exit", "eof"}
      BY <2>3 DEF DrainGrace, TypeOK, children
    <3>2. QED
      BY <3>1
  <2>4. QED
    BY <2>1, <2>2, <2>3
<1>3. /\ told' \in [Generations -> SUBSET {"exit", "eof"}]
      /\ \A h \in Generations : told'[h] # {} => child[h] = "exited"
  BY <1>1, <1>2 DEF TypeOK, Ownership
<1>4. exitSeen' \in BOOLEAN /\ stderrDrained' \in BOOLEAN
  BY DEF ProcessTerminated, StderrClosed, DrainGrace, TypeOK
<1>5. (g = generation /\ process # 0 /\ HandleExit) \/ Unheard
  BY DEF ProcessTerminated, StderrClosed, DrainGrace
<1>6. CASE g = generation /\ process # 0 /\ HandleExit
  BY <1>1, <1>3, <1>4, <1>6, HandleExitStep
<1>7. CASE Unheard
  <2>1. TypeOK'
    BY <1>1, <1>3, <1>4, <1>7 DEF TypeOK, Unheard, tracker
  <2>2. Ownership' /\ Awaiting'
    BY <1>1, <1>3, <1>7 DEF Ownership, Awaiting, Unheard
  <2>3. OneStarter' /\ ShownIsTrue'
    BY <1>1, <1>7 DEF OneStarter, ShownIsTrue, WaitingStarts, Unheard, tracker
  <2>4. StartsAreOlder'
    BY <1>1, <1>7 DEF StartsAreOlder, WaitingStarts, Unheard
  <2>5. QED
    BY <2>1, <2>2, <2>3, <2>4
<1>8. QED
  BY <1>5, <1>6, <1>7

LEMMA SafeInit == Init => SafeInv
<1> SUFFICES ASSUME Init PROVE SafeInv
  OBVIOUS
<1>1. TypeOK
  <2>1. /\ generation \in 0..MaxChildren /\ process \in 0..MaxChildren
    BY SupervisorAssumption DEF Init
  <2>2. /\ child \in [Generations -> {"none", "running", "exited"}]
        /\ told \in [Generations -> SUBSET {"exit", "eof"}]
    BY DEF Init
  <2>3. commands \in Seq(Commands)
    BY DEF Init
  <2>4. QED
    BY <2>1, <2>2, <2>3 DEF Init, TypeOK
<1>2. Ownership
  BY DEF Init, Ownership
<1>3. Awaiting /\ OneStarter /\ StartsAreOlder /\ ShownIsTrue
  <2>1. WaitingStarts = {}
    BY DEF Init, WaitingStarts
  <2>2. QED
    BY <2>1 DEF Init, Awaiting, OneStarter, StartsAreOlder, ShownIsTrue
<1>4. QED
  BY <1>1, <1>2, <1>3 DEF SafeInv

LEMMA SafeStep == SafeInv /\ [Next /\ HopsAreShort]_vars => SafeInv'
<1> SUFFICES ASSUME SafeInv, [Next /\ HopsAreShort]_vars PROVE SafeInv'
  OBVIOUS
<1>1. CASE Asking
  BY <1>1, GiveStep
<1>2. CASE Main
  BY <1>2, RunStep, ResumeStep, RestartFiresStep DEF Main
<1>3. CASE KillerFires \/ GiveUpDue \/ Settle
  BY <1>3, TimerStep
<1>4. ASSUME HopsAreShort, NEW g \in Generations, Speak(g) \/ Exit(g) \/ Reports(g) PROVE SafeInv'
  BY <1>4, ChildStep, IngestStep, ReportStep DEF Reports
<1>5. CASE UNCHANGED vars
  <2>1. TypeOK' /\ Ownership'
    BY <1>5 DEF vars, supervisor, tracker, children, SafeInv, TypeOK, Ownership
  <2>2. Awaiting' /\ ShownIsTrue'
    BY <1>5 DEF vars, supervisor, tracker, SafeInv, Awaiting, ShownIsTrue
  <2>3. WaitingStarts' = WaitingStarts
    BY <1>5 DEF vars, supervisor, WaitingStarts
  <2>4. StartsAreOlder' /\ OneStarter'
    BY <1>5, <2>3 DEF vars, supervisor, tracker, SafeInv, StartsAreOlder, OneStarter
  <2>5. QED
    BY <2>1, <2>2, <2>4 DEF SafeInv
<1>6. QED
  BY <1>1, <1>2, <1>3, <1>4, <1>5 DEF Next, Asking

\* The invariant of the supervisor: commands, timer and reports never disagree
\* about who may start a process, whatever order they come in, provided that
\* a start does not wait while a child spawned after it crashes (HopsAreShort).
THEOREM SupervisorIsSafe == Spec => []SafeInv
  BY SafeInit, SafeStep, PTL DEF Spec

\* At most one child runs, it is the one the supervisor holds and the last one
\* it spawned: stops, restarts, give-ups, the backoff timer and what children
\* report come in any order that HopsAreShort allows.
THEOREM OneChildAtATime == Spec => []OneChild
<1>1. SafeInv => OneChild
  BY SupervisorAssumption DEF SafeInv, TypeOK, Ownership, OneChild, Generations
<1>2. QED
  BY <1>1, SupervisorIsSafe, PTL

\* What the menu shows is what there is: a process, a restart on its way, or
\* neither.
THEOREM ShownStateIsTrue == Spec => []ShownIsTrue
<1>1. SafeInv => ShownIsTrue
  BY DEF SafeInv
<1>2. QED
  BY <1>1, SupervisorIsSafe, PTL
=============================================================================
