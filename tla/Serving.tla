------------------------------ MODULE Serving ------------------------------
(***************************************************************************)
(* From bind to exit: the accept loops of internal/proxy/server.go and     *)
(* internal/mysqlwire/server.go, which are the same code, and the part of  *)
(* serve() in cmd/redash-wire/main.go that starts them, waits for a reason *)
(* to stop and drains them.                                                *)
(*                                                                         *)
(* One accept loop per configured wire (loop), one goroutine per           *)
(* connection (counted by running and released), one per wire that closes  *)
(* the listener, and main.  A session ends when its client likes, or       *)
(* because the context ended (modules PgSession and MySessions).           *)
(***************************************************************************)
EXTENDS Integers, Sequences, FiniteSets

CONSTANTS
    Wires,                  \* the configured listeners
    maxConcurrentConns,
    acceptBackoffMin, acceptBackoffMax,
    MaxReleased             \* bound on goroutines between slot and WaitGroup

ASSUME ServingAssumption ==
    /\ maxConcurrentConns \in Nat \ {0}
    /\ acceptBackoffMin \in Nat \ {0} /\ acceptBackoffMax \in Nat
    /\ acceptBackoffMin <= acceptBackoffMax
    /\ MaxReleased \in Nat \ {0}

VARIABLES
    loop,       \* Serve: "bind", "accept", "sleep", "acquire", "wait", "send",
                \* "finish" and "done"
    listener,   \* "unbound", "open", "closed"
    backoff,    \* the loop's wait after an accept error, 0 after a success
    sem,        \* tokens in the semaphore channel
    running,    \* goroutines in handleConn
    released,   \* those that gave their token back and have yet to leave the
                \* WaitGroup
    verdict,    \* what Serve is about to return: "nil" or "err"
    errCh,      \* the channel main reads the first of them from
    ctx,        \* the process-wide context: "live" or "done"
    main,       \* "serving", "draining", "exited", "forced"
    exitCode

loopVars == <<loop, backoff, verdict>>
connVars == <<sem, running, released>>
mainVars == <<ctx, main, exitCode>>
vars == <<loopVars, listener, connVars, errCh, mainVars>>

Alive == main \in {"serving", "draining"}

\* make(chan error, 2)
ErrChCap == 2

Goto(w, s) == loop' = [loop EXCEPT ![w] = s]

-----------------------------------------------------------------------------
(* Serve *)

Bind(w) ==
    /\ Alive /\ loop[w] = "bind"
    /\ listener' = [listener EXCEPT ![w] = "open"]
    /\ Goto(w, "accept")
    /\ UNCHANGED <<backoff, verdict, connVars, errCh, mainVars>>

\* The address is taken, or the context ended first.
BindFails(w) ==
    /\ Alive /\ loop[w] = "bind"
    /\ verdict' = [verdict EXCEPT ![w] = "err"]
    /\ Goto(w, "send")
    /\ UNCHANGED <<listener, backoff, connVars, errCh, mainVars>>

\* The goroutine that closes the listener when the context ends.
CloseListener(w) ==
    /\ Alive /\ ctx = "done" /\ listener[w] = "open"
    /\ listener' = [listener EXCEPT ![w] = "closed"]
    /\ UNCHANGED <<loopVars, connVars, errCh, mainVars>>

Accept(w) ==
    /\ Alive /\ loop[w] = "accept" /\ listener[w] = "open"
    /\ backoff' = [backoff EXCEPT ![w] = 0]
    /\ Goto(w, "acquire")
    /\ UNCHANGED <<listener, verdict, connVars, errCh, mainVars>>

NextBackoff(b) ==
    IF b = 0 THEN acceptBackoffMin
    ELSE IF 2 * b < acceptBackoffMax THEN 2 * b ELSE acceptBackoffMax

\* Accept failed with the listener still open, as when descriptors run out.
AcceptError(w) ==
    /\ Alive /\ loop[w] = "accept" /\ listener[w] = "open" /\ ctx = "live"
    /\ backoff' = [backoff EXCEPT ![w] = NextBackoff(@)]
    /\ Goto(w, "sleep")
    /\ UNCHANGED <<listener, verdict, connVars, errCh, mainVars>>

\* time.After(backoff) or ctx.Done.
Wake(w) ==
    /\ Alive /\ loop[w] = "sleep"
    /\ Goto(w, "accept")
    /\ UNCHANGED <<listener, backoff, verdict, connVars, errCh, mainVars>>

\* Accept failed for good: the context ended or the listener is closed.
AcceptEnds(w) ==
    /\ Alive /\ loop[w] = "accept"
    /\ ctx = "done" \/ listener[w] = "closed"
    /\ Goto(w, "wait")
    /\ UNCHANGED <<listener, backoff, verdict, connVars, errCh, mainVars>>

\* Mutant: a connection over the limit is served too.
HasSlotAlways(w) == TRUE

HasSlot(w) == sem[w] < maxConcurrentConns

\* sem <- struct{}{}, then wg.Go.
Acquire(w) ==
    /\ Alive /\ loop[w] = "acquire" /\ HasSlot(w)
    /\ sem' = [sem EXCEPT ![w] = @ + 1]
    /\ running' = [running EXCEPT ![w] = @ + 1]
    /\ Goto(w, "accept")
    /\ UNCHANGED <<listener, backoff, verdict, released, errCh, mainVars>>

\* Mutant: the token is lost with a session that panicked.
SessionEndsWithToken(w) ==
    /\ Alive /\ running[w] > 0 /\ released[w] < MaxReleased
    /\ running' = [running EXCEPT ![w] = @ - 1]
    /\ released' = [released EXCEPT ![w] = @ + 1]
    /\ UNCHANGED <<loopVars, listener, sem, errCh, mainVars>>

\* handleConn returned or panicked: the deferred functions recover and give the
\* token back.
SessionEnds(w) ==
    /\ Alive /\ running[w] > 0 /\ released[w] < MaxReleased
    /\ running' = [running EXCEPT ![w] = @ - 1]
    /\ sem' = [sem EXCEPT ![w] = @ - 1]
    /\ released' = [released EXCEPT ![w] = @ + 1]
    /\ UNCHANGED <<loopVars, listener, errCh, mainVars>>

\* wg.Done
LeavesGroup(w) ==
    /\ Alive /\ released[w] > 0
    /\ released' = [released EXCEPT ![w] = @ - 1]
    /\ UNCHANGED <<loopVars, listener, sem, running, errCh, mainVars>>

\* Mutant: wg.Wait is dropped.
GroupEmptyAlways(w) == TRUE

GroupEmpty(w) == running[w] + released[w] = 0

\* wg.Wait returns, and Serve with nil if the context is what ended it (nothing
\* else closes the listener in this program).
Drained(w) ==
    /\ Alive /\ loop[w] = "wait" /\ GroupEmpty(w)
    /\ verdict' = [verdict EXCEPT ![w] = IF ctx = "done" THEN "nil" ELSE "err"]
    /\ Goto(w, "send")
    /\ UNCHANGED <<listener, backoff, connVars, errCh, mainVars>>

-----------------------------------------------------------------------------
(* serve() *)

CanSend == Len(errCh) < ErrChCap

\* errCh <- serve(ctx)
Send(w) ==
    /\ Alive /\ loop[w] = "send" /\ CanSend
    /\ errCh' = Append(errCh, verdict[w])
    /\ Goto(w, "finish")
    /\ UNCHANGED <<listener, backoff, verdict, connVars, mainVars>>

\* The deferred wg.Done of startServer.
ServerDone(w) ==
    /\ Alive /\ loop[w] = "finish"
    /\ Goto(w, "done")
    /\ UNCHANGED <<listener, backoff, verdict, connVars, errCh, mainVars>>

\* SIGINT, SIGTERM or the end of stdin: cancel() and drain.
StopAsked ==
    /\ main = "serving"
    /\ main' = "draining" /\ ctx' = "done"
    /\ UNCHANGED <<loopVars, listener, connVars, errCh, exitCode>>

\* The first server to return takes the process with it.
ServerFailed ==
    /\ main = "serving" /\ errCh # <<>>
    /\ exitCode' = IF Head(errCh) = "err" THEN 1 ELSE exitCode
    /\ errCh' = Tail(errCh)
    /\ main' = "draining" /\ ctx' = "done"
    /\ UNCHANGED <<loopVars, listener, connVars>>

AllDone == \A w \in Wires : loop[w] = "done"

\* wg.Wait returned and done is closed.
Exit ==
    /\ main = "draining" /\ AllDone
    /\ main' = "exited"
    /\ UNCHANGED <<loopVars, listener, connVars, errCh, ctx, exitCode>>

\* Five seconds are up.
ForceExit ==
    /\ main = "draining"
    /\ main' = "forced"
    /\ UNCHANGED <<loopVars, listener, connVars, errCh, ctx, exitCode>>

-----------------------------------------------------------------------------
Init ==
    /\ loop = [w \in Wires |-> "bind"]
    /\ listener = [w \in Wires |-> "unbound"]
    /\ backoff = [w \in Wires |-> 0]
    /\ sem = [w \in Wires |-> 0]
    /\ running = [w \in Wires |-> 0]
    /\ released = [w \in Wires |-> 0]
    /\ verdict = [w \in Wires |-> "nil"]
    /\ errCh = <<>>
    /\ ctx = "live" /\ main = "serving" /\ exitCode = 0

\* The goroutines of one wire, its clients aside.
Server(w) ==
    \/ Bind(w) \/ BindFails(w) \/ CloseListener(w) \/ Wake(w) \/ AcceptEnds(w)
    \/ Acquire(w) \/ LeavesGroup(w) \/ Drained(w) \/ Send(w) \/ ServerDone(w)

Next ==
    \/ \E w \in Wires :
          Server(w) \/ Accept(w) \/ AcceptError(w) \/ SessionEnds(w)
    \/ StopAsked \/ ServerFailed \/ Exit \/ ForceExit

\* Goroutines run, and sessions end once the context has (modules PgSession and
\* MySessions).  Nothing is asked of clients, nor of the five seconds.
Fairness ==
    /\ \A w \in Wires :
          /\ WF_vars(Bind(w) \/ BindFails(w)) /\ WF_vars(CloseListener(w))
          /\ WF_vars(listener[w] = "closed" /\ AcceptEnds(w))
          /\ WF_vars(Wake(w)) /\ WF_vars(Acquire(w))
          /\ WF_vars(LeavesGroup(w)) /\ WF_vars(Drained(w))
          /\ WF_vars(Send(w)) /\ WF_vars(ServerDone(w))
          /\ WF_vars(ctx = "done" /\ SessionEnds(w))
    /\ WF_vars(ServerFailed) /\ WF_vars(Exit)

Spec == Init /\ [][Next]_vars

FairSpec == Spec /\ Fairness

-----------------------------------------------------------------------------
(* Properties *)

Returning == {"send", "finish", "done"}

\* The values each variable can take.
TypeOK ==
    /\ loop \in [Wires -> {"bind", "accept", "sleep", "acquire", "wait"} \cup Returning]
    /\ listener \in [Wires -> {"unbound", "open", "closed"}]
    /\ backoff \in [Wires -> Nat]
    /\ sem \in [Wires -> Nat]
    /\ running \in [Wires -> Nat]
    /\ released \in [Wires -> Nat]
    /\ verdict \in [Wires -> {"nil", "err"}]
    /\ errCh \in Seq({"nil", "err"})
    /\ ctx \in {"live", "done"}
    /\ main \in {"serving", "draining", "exited", "forced"}
    /\ exitCode \in {0, 1}

\* At most maxConcurrentConns sessions per listener, at every moment between a
\* session's end and the next one's start (Serve).
SlotsBounded == \A w \in Wires : running[w] <= maxConcurrentConns

\* A process that left without being forced to has left no session, of any
\* wire, in the middle of a query: main waits for both servers and each of them
\* for its sessions, those accepted after the shutdown began included.
CleanExitLeavesNobody ==
    main = "exited" => \A w \in Wires : running[w] = 0 /\ released[w] = 0

\* Accept errors in a row are waited out longer and longer, up to the limit: the
\* loop never spins (Serve).
AcceptErrorsBackOff ==
    [][ \A w \in Wires :
            (loop[w] = "accept" /\ loop'[w] = "sleep") =>
                /\ backoff'[w] \in acceptBackoffMin..acceptBackoffMax
                /\ backoff'[w] >= backoff[w] ]_vars

\* Nobody waits for ever.  A shutdown needs no force: with every slot taken, a
\* connection waiting for one, a loop asleep on an error or both servers
\* reporting at once, all servers return.  A listener that cannot bind stops the
\* proxy rather than leave it half up.  A connection that waits at the limit is
\* served once a session has ended (Serve, serve).
ServingProgress ==
    /\ ctx = "done" ~> (AllDone \/ main = "forced")
    /\ \A w \in Wires :
          /\ (loop[w] = "send" /\ verdict[w] = "err") ~> (main # "serving")
          /\ (loop[w] = "acquire" /\ running[w] < maxConcurrentConns)
                 ~> (loop[w] # "acquire" \/ ~Alive)

(* The inductive invariant behind them, part by part. *)

\* A token per running session.
TokensMatch ==
    \A w \in Wires : sem[w] = running[w] /\ sem[w] <= maxConcurrentConns

\* A server that has not begun, or has come back, has no session.
NoSessionOutside ==
    \A w \in Wires :
        loop[w] \in Returning \cup {"bind"} => running[w] = 0 /\ released[w] = 0

\* The wait stays within its limits; a clean exit waited for every server.
Restraint ==
    /\ \A w \in Wires :
          backoff[w] = 0 \/ backoff[w] \in acceptBackoffMin..acceptBackoffMax
    /\ main = "exited" => AllDone

ServingInv == TypeOK /\ TokensMatch /\ NoSessionOutside /\ Restraint
=============================================================================
