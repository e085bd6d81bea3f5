--------------------------- MODULE ServingProofs ---------------------------
(* Theorems about Serving, for every set of wires, every limit on          *)
(* connections and every backoff.                                          *)
EXTENDS Serving, TLAPS

\* One step of one wire, by action.
WireStep(w) ==
    \/ Bind(w) \/ BindFails(w) \/ CloseListener(w) \/ Accept(w) \/ AcceptError(w)
    \/ Wake(w) \/ AcceptEnds(w) \/ Acquire(w) \/ SessionEnds(w) \/ LeavesGroup(w)
    \/ Drained(w) \/ Send(w) \/ ServerDone(w)

MainStep == StopAsked \/ ServerFailed \/ Exit \/ ForceExit

\* A step belongs to a wire or to main.
LEMMA Steps ==
    ASSUME [Next]_vars
    PROVE  (\E w \in Wires : WireStep(w)) \/ MainStep \/ UNCHANGED vars
  BY DEF Next, WireStep, MainStep, Server

\* The wait after an error is within its bounds and no shorter than the last.
LEMMA NextBackoffFacts ==
    ASSUME NEW b \in Nat, b = 0 \/ b \in acceptBackoffMin..acceptBackoffMax
    PROVE  /\ NextBackoff(b) \in acceptBackoffMin..acceptBackoffMax
           /\ NextBackoff(b) >= b /\ NextBackoff(b) \in Nat
  BY ServingAssumption DEF NextBackoff

\* Counters stay natural: a session gives back only a token it took.
LEMMA TypeStep == ASSUME TypeOK, TokensMatch, Restraint, [Next]_vars PROVE TypeOK'
<1> USE DEF TypeOK, Returning, loopVars, connVars, mainVars, Goto
<1>1. ASSUME NEW w \in Wires, WireStep(w) PROVE TypeOK'
  <2>1. CASE AcceptError(w)
    BY <2>1, NextBackoffFacts DEF AcceptError, Restraint
  <2>2. CASE SessionEnds(w)
    BY <2>2 DEF SessionEnds, TokensMatch
  <2>3. CASE Accept(w)
    BY <2>3 DEF Accept
  <2>4. CASE Acquire(w)
    <3>1. sem[w] + 1 \in Nat /\ running[w] + 1 \in Nat
      OBVIOUS
    <3>2. QED
      BY <2>4, <3>1 DEF Acquire
  <2>5. CASE LeavesGroup(w)
    <3>1. released[w] - 1 \in Nat
      BY <2>5 DEF LeavesGroup
    <3>2. QED
      BY <2>5, <3>1 DEF LeavesGroup
  <2>6. CASE Send(w)
    BY <2>6 DEF Send
  <2>7. CASE \/ Bind(w) \/ BindFails(w) \/ CloseListener(w) \/ Wake(w)
             \/ AcceptEnds(w) \/ Drained(w) \/ ServerDone(w)
    BY <2>7 DEF Bind, BindFails, CloseListener, Wake, AcceptEnds, Drained, ServerDone
  <2>8. QED
    BY <1>1, <2>1, <2>2, <2>3, <2>4, <2>5, <2>6, <2>7 DEF WireStep
<1>2. CASE MainStep
  <2>1. CASE ServerFailed
    <3>1. Tail(errCh) \in Seq({"nil", "err"})
      BY <2>1 DEF ServerFailed
    <3>2. QED
      BY <2>1, <3>1 DEF ServerFailed
  <2>2. CASE MainStep /\ ~ServerFailed
    BY <2>2 DEF MainStep, StopAsked, Exit, ForceExit
  <2>3. QED
    BY <1>2, <2>1, <2>2
<1>3. CASE UNCHANGED vars
  BY <1>3 DEF vars
<1>4. QED
  BY <1>1, <1>2, <1>3, Steps

\* Tokens and sessions come and go together.
LEMMA TokensStep == ASSUME TypeOK, TokensMatch, [Next]_vars PROVE TokensMatch'
<1> USE DEF TypeOK, TokensMatch, loopVars, connVars, mainVars, Goto
<1>1. ASSUME NEW w \in Wires, WireStep(w) PROVE TokensMatch'
  <2>1. CASE Acquire(w)
    BY <2>1, ServingAssumption DEF Acquire, HasSlot
  <2>2. CASE SessionEnds(w)
    BY <2>2, ServingAssumption DEF SessionEnds
  <2>3. CASE \/ Bind(w) \/ BindFails(w) \/ CloseListener(w) \/ Accept(w)
             \/ AcceptError(w) \/ Wake(w) \/ AcceptEnds(w) \/ LeavesGroup(w)
             \/ Drained(w) \/ Send(w) \/ ServerDone(w)
    BY <2>3 DEF Bind, BindFails, CloseListener, Accept, AcceptError, Wake, AcceptEnds,
       LeavesGroup, Drained, Send, ServerDone
  <2>4. QED
    BY <1>1, <2>1, <2>2, <2>3 DEF WireStep
<1>2. CASE MainStep
  BY <1>2 DEF MainStep, StopAsked, ServerFailed, Exit, ForceExit
<1>3. CASE UNCHANGED vars
  BY <1>3 DEF vars
<1>4. QED
  BY <1>1, <1>2, <1>3, Steps

\* Nobody is served before the loop starts or after it has drained.
LEMMA OutsideStep == ASSUME TypeOK, NoSessionOutside, [Next]_vars PROVE NoSessionOutside'
<1> USE DEF TypeOK, NoSessionOutside, Returning, loopVars, connVars, mainVars, Goto
<1>1. ASSUME NEW w \in Wires, WireStep(w) PROVE NoSessionOutside'
  <2>1. CASE Drained(w)
    BY <2>1 DEF Drained, GroupEmpty
  <2>2. CASE Acquire(w) \/ SessionEnds(w) \/ LeavesGroup(w)
    BY <2>2 DEF Acquire, SessionEnds, LeavesGroup
  <2>3. CASE \/ Bind(w) \/ BindFails(w) \/ CloseListener(w) \/ Accept(w)
             \/ AcceptError(w) \/ Wake(w) \/ AcceptEnds(w) \/ Send(w)
             \/ ServerDone(w)
    BY <2>3 DEF Bind, BindFails, CloseListener, Accept, AcceptError, Wake, AcceptEnds,
       Send, ServerDone
  <2>4. QED
    BY <1>1, <2>1, <2>2, <2>3 DEF WireStep
<1>2. CASE MainStep
  BY <1>2 DEF MainStep, StopAsked, ServerFailed, Exit, ForceExit
<1>3. CASE UNCHANGED vars
  BY <1>3 DEF vars
<1>4. QED
  BY <1>1, <1>2, <1>3, Steps

\* The wait stays within its limits and main waits for every server.
LEMMA RestraintStep == ASSUME TypeOK, Restraint, [Next]_vars PROVE Restraint'
<1> USE DEF TypeOK, Restraint, AllDone, loopVars, connVars, mainVars, Goto
<1>1. ASSUME NEW w \in Wires, WireStep(w) PROVE Restraint'
  <2>1. CASE AcceptError(w)
    BY <2>1, NextBackoffFacts DEF AcceptError, Alive
  <2>2. CASE \/ Bind(w) \/ BindFails(w) \/ CloseListener(w) \/ Accept(w)
             \/ Wake(w) \/ AcceptEnds(w) \/ Acquire(w) \/ SessionEnds(w)
             \/ LeavesGroup(w) \/ Drained(w) \/ Send(w) \/ ServerDone(w)
    BY <2>2 DEF Bind, BindFails, CloseListener, Accept, Wake, AcceptEnds, Acquire,
       SessionEnds, LeavesGroup, Drained, Send, ServerDone, Alive
  <2>3. QED
    BY <1>1, <2>1, <2>2 DEF WireStep
<1>2. CASE MainStep
  BY <1>2 DEF MainStep, StopAsked, ServerFailed, Exit, ForceExit
<1>3. CASE UNCHANGED vars
  BY <1>3 DEF vars
<1>4. QED
  BY <1>1, <1>2, <1>3, Steps

\* The invariant holds at the start and is kept by every step.
LEMMA ServingInvInit == ASSUME Init PROVE ServingInv
  BY ServingAssumption DEF Init, ServingInv, TypeOK, TokensMatch, NoSessionOutside,
     Restraint, Returning

LEMMA ServingInvStep == ASSUME ServingInv, [Next]_vars PROVE ServingInv'
  BY TypeStep, TokensStep, OutsideStep, RestraintStep DEF ServingInv

\* Every reachable state satisfies the invariant.
THEOREM Invariance == Spec => []ServingInv
  BY ServingInvInit, ServingInvStep, PTL DEF Spec

\* At most maxConcurrentConns sessions per listener.
THEOREM Bounded == Spec => []SlotsBounded
<1>1. ServingInv => SlotsBounded
  BY DEF ServingInv, TokensMatch, SlotsBounded
<1>2. QED
  BY <1>1, Invariance, PTL

\* A process that left without being forced to has left no session behind.
THEOREM CleanExit == Spec => []CleanExitLeavesNobody
<1>1. ServingInv => CleanExitLeavesNobody
  BY DEF ServingInv, Restraint, AllDone, NoSessionOutside, Returning,
     CleanExitLeavesNobody
<1>2. QED
  BY <1>1, Invariance, PTL

\* Only AcceptError puts a loop to sleep.
LEMMA SleepStep ==
    ASSUME ServingInv, [Next]_vars, NEW v \in Wires,
           loop[v] = "accept", loop'[v] = "sleep"
    PROVE  /\ backoff'[v] \in acceptBackoffMin..acceptBackoffMax
           /\ backoff'[v] >= backoff[v]
<1> USE DEF ServingInv, TypeOK, loopVars, Goto
<1>1. ASSUME NEW w \in Wires, AcceptError(w)
      PROVE  /\ backoff'[v] \in acceptBackoffMin..acceptBackoffMax
             /\ backoff'[v] >= backoff[v]
  <2>1. w = v /\ backoff'[v] = NextBackoff(backoff[v])
    BY <1>1 DEF AcceptError
  <2>2. QED
    BY <2>1, NextBackoffFacts DEF Restraint
<1>2. ASSUME NEW w \in Wires, WireStep(w), ~AcceptError(w) PROVE FALSE
  BY <1>2 DEF WireStep, Bind, BindFails, CloseListener, Accept, Wake, AcceptEnds,
     Acquire, SessionEnds, LeavesGroup, Drained, Send, ServerDone
<1>3. CASE MainStep \/ UNCHANGED vars
  BY <1>3 DEF MainStep, StopAsked, ServerFailed, Exit, ForceExit, vars
<1>4. QED
  BY <1>1, <1>2, <1>3, Steps

\* Accept errors in a row are waited out longer and longer, up to the limit.
THEOREM BackoffGrows == Spec => AcceptErrorsBackOff
<1>1. ServingInv /\ [Next]_vars =>
        [\A w \in Wires :
            (loop[w] = "accept" /\ loop'[w] = "sleep") =>
                /\ backoff'[w] \in acceptBackoffMin..acceptBackoffMax
                /\ backoff'[w] >= backoff[w]]_vars
  BY SleepStep
<1>2. QED
  BY <1>1, Invariance, PTL DEF Spec, AcceptErrorsBackOff
=============================================================================
