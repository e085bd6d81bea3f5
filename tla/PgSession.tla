------------------------------ MODULE PgSession ------------------------------
(***************************************************************************)
(* One PostgreSQL session: internal/proxy/session.go with the connection   *)
(* handling of server.go and the startup exchange of pgwire/startup.go.    *)
(*                                                                         *)
(* Four goroutines share it: the session's main loop (pc), the disconnect  *)
(* watcher that reads the socket while a query is in flight (watcher), the *)
(* closer that shuts the socket when the context ends, and the handler of  *)
(* another connection that carries a CancelRequest (held).  The client     *)
(* sends what it likes when it likes, and may leave at any moment.         *)
(*                                                                         *)
(* Client bytes are a sequence of message numbers: sent[i] is the type of  *)
(* message i, and the socket, the watcher's chunk, peekConn's unread bytes *)
(* and the protocol reader's buffer hold message numbers.                  *)
(***************************************************************************)
EXTENDS Integers, Sequences, FiniteSets

CONSTANTS
    MaxMsgs,        \* messages the client sends in a behaviour
    MaxCancels,     \* CancelRequests in a behaviour
    ChunkMax,       \* messages that fit in the watcher's 512-byte buffer
    ClientTypes,    \* the types of message the client sends
    RareTypes,      \* those of them it sends rarely
    MaxRare,        \* bound: messages of the rare types in a behaviour
    ReadOnly        \* the read_only mode

ASSUME SessionAssumption ==
    /\ MaxMsgs \in Nat /\ MaxCancels \in Nat /\ MaxRare \in Nat
    /\ ChunkMax \in Nat \ {0}
    /\ ReadOnly \in BOOLEAN

\* Query messages by what handleQuery makes of their text: blank or a batch;
\* answered locally; answered from the catalog; a write; any other statement.
Queries == {"blank", "local", "catalog", "write", "read"}
\* Parse, Bind, Describe, Execute, Close and Flush; Sync; Terminate; the rest.
Types == Queries \cup {"extended", "sync", "terminate", "other"}

ASSUME TypesAssumption == ClientTypes \subseteq Types

VARIABLES
    pc,             \* the main loop
    rbuf,           \* messages the protocol reader has buffered
    unread,         \* peekConn.unread
    extendedErr,
    ds,             \* a data source was found for the database at login
    deadline,       \* the read deadline: "handshake", "none" or "past"
    queryCancel,    \* the query whose cancel function is set, 0 when nil
    current,        \* the query being answered
    res,            \* what ExecuteQuery returned
    watcher,        \* the disconnect watcher
    chunk,          \* the bytes it has read and not yet pushed back
    cancelled,      \* queries whose context is cancelled
    ctx,            \* the connection: "live", "done" (context), "closed" (socket)
    held,           \* the query a CancelRequest is about to cancel
    cancels,        \* CancelRequests so far
    up,             \* the gate, moved by the checker
    suspect,        \* the session has called Suspect
    sent,           \* the client: types of the messages sent
    sock,           \* the kernel's receive buffer
    eof,            \* the client has closed its end
    taken,          \* history: messages handled, in order
    out             \* history: replies, each with the message it answers

readerVars == <<rbuf, unread, extendedErr>>
queryVars == <<queryCancel, current, res>>
watchVars == <<watcher, chunk>>
cancelVars == <<held, cancels>>
clientVars == <<sent, sock, eof>>
vars == <<pc, readerVars, ds, deadline, queryVars, watchVars, cancelled, ctx,
          cancelVars, up, suspect, clientVars, taken, out>>

\* Mutant: ExecuteQuery handed the connection's context.
CtxDoneByConn == ctx # "live"

\* queryCtx: done with the connection's context or by its own cancel function.
CtxDone == ctx # "live" \/ current \in cancelled

Reply(kind) == [to |-> current, kind |-> kind]
ReadyTo(i) == [to |-> i, kind |-> "ready"]
ErrorTo(i) == [to |-> i, kind |-> "error"]

-----------------------------------------------------------------------------
(* Startup *)

\* authenticate passed and admit found the gate open: parameters through
\* ReadyForQuery are sent, the handshake deadline is cleared and the database
\* is looked up once.
StartupDone ==
    /\ pc = "startup" /\ ctx # "closed" /\ up
    /\ ds' \in BOOLEAN
    /\ deadline' = "none"
    /\ pc' = "receive"
    /\ UNCHANGED <<readerVars, queryVars, watchVars, cancelled, ctx, cancelVars, up,
                   suspect, clientVars, taken, out>>

\* admit over a closed gate: ask for a probe, then FATAL.
StartupRefused ==
    /\ pc = "startup" /\ ~up
    /\ suspect' = TRUE
    /\ pc' = "closed"
    /\ UNCHANGED <<readerVars, ds, deadline, queryVars, watchVars, cancelled, ctx,
                   cancelVars, up, clientVars, taken, out>>

\* A wrong password, a client that left, a closed socket, or one that stalled
\* until the handshake deadline.
StartupFails ==
    /\ pc = "startup"
    /\ pc' = "closed"
    /\ UNCHANGED <<readerVars, ds, deadline, queryVars, watchVars, cancelled, ctx,
                   cancelVars, up, suspect, clientVars, taken, out>>

-----------------------------------------------------------------------------
(* Receive: the protocol reader over peekConn.Read *)

\* Pushed-back bytes first, as many as the reader's buffer takes.
FillFromUnread ==
    /\ pc = "receive" /\ rbuf = <<>> /\ unread # <<>>
    /\ \E n \in 1..Len(unread) :
          /\ rbuf' = SubSeq(unread, 1, n)
          /\ unread' = SubSeq(unread, n + 1, Len(unread))
    /\ UNCHANGED <<pc, extendedErr, ds, deadline, queryVars, watchVars, cancelled,
                   ctx, cancelVars, up, suspect, clientVars, taken, out>>

\* Then whatever part of the socket's bytes a read returns.
FillFromSocket ==
    /\ pc = "receive" /\ rbuf = <<>> /\ unread = <<>>
    /\ sock # <<>> /\ ctx # "closed" /\ deadline # "past"
    /\ \E n \in 1..Len(sock) :
          /\ rbuf' = SubSeq(sock, 1, n)
          /\ sock' = SubSeq(sock, n + 1, Len(sock))
    /\ UNCHANGED <<pc, unread, extendedErr, ds, deadline, queryVars, watchVars,
                   cancelled, ctx, cancelVars, up, suspect, sent, eof, taken, out>>

\* EOF, a closed socket or a deadline: serve returns.
ReceiveFails ==
    /\ pc = "receive" /\ rbuf = <<>> /\ unread = <<>>
    /\ \/ sock = <<>> /\ eof
       \/ ctx = "closed"
       \/ deadline = "past"
    /\ pc' = "closed"
    /\ UNCHANGED <<readerVars, ds, deadline, queryVars, watchVars, cancelled, ctx,
                   cancelVars, up, suspect, clientVars, taken, out>>

\* The main loop takes message i of type t off the reader.
Take(i, t) ==
    /\ pc = "receive" /\ rbuf # <<>>
    /\ i = Head(rbuf) /\ t = sent[i]
    /\ rbuf' = Tail(rbuf)
    /\ taken' = Append(taken, i)

-----------------------------------------------------------------------------
(* Messages other than Query *)

HandleTerminate ==
    /\ \E i \in DOMAIN sent : Take(i, "terminate")
    /\ pc' = "closed"
    /\ UNCHANGED <<unread, extendedErr, ds, deadline, queryVars, watchVars, cancelled,
                   ctx, cancelVars, up, suspect, clientVars, out>>

\* The first of a pipeline gets one ErrorResponse and no ReadyForQuery; the rest
\* are discarded.  A failed write ends the session.
HandleExtended ==
    /\ \E i \in DOMAIN sent :
          /\ Take(i, "extended")
          /\ out' = IF extendedErr THEN out ELSE Append(out, ErrorTo(i))
    /\ extendedErr' = TRUE
    /\ pc' = IF ~extendedErr /\ ctx = "closed" THEN "closed" ELSE "receive"
    /\ UNCHANGED <<unread, ds, deadline, queryVars, watchVars, cancelled, ctx,
                   cancelVars, up, suspect, clientVars>>

\* Mutant: the latch survives the Sync.
HandleSyncKeepsLatch ==
    /\ \E i \in DOMAIN sent :
          /\ Take(i, "sync")
          /\ out' = Append(out, ReadyTo(i))
    /\ pc' = IF ctx = "closed" THEN "closed" ELSE "receive"
    /\ UNCHANGED <<unread, extendedErr, ds, deadline, queryVars, watchVars, cancelled,
                   ctx, cancelVars, up, suspect, clientVars>>

\* Sync: one ReadyForQuery, whatever was discarded before it.
HandleSync ==
    /\ \E i \in DOMAIN sent :
          /\ Take(i, "sync")
          /\ out' = Append(out, ReadyTo(i))
    /\ extendedErr' = FALSE
    /\ pc' = IF ctx = "closed" THEN "closed" ELSE "receive"
    /\ UNCHANGED <<unread, ds, deadline, queryVars, watchVars, cancelled, ctx,
                   cancelVars, up, suspect, clientVars>>

\* An unsupported type: an error with its ReadyForQuery, or nothing while the
\* pipeline is being discarded.
HandleOther ==
    /\ \E i \in DOMAIN sent :
          /\ Take(i, "other")
          /\ out' = IF extendedErr THEN out
                    ELSE out \o <<ErrorTo(i), ReadyTo(i)>>
    /\ pc' = IF ~extendedErr /\ ctx = "closed" THEN "closed" ELSE "receive"
    /\ UNCHANGED <<unread, extendedErr, ds, deadline, queryVars, watchVars, cancelled,
                   ctx, cancelVars, up, suspect, clientVars>>

-----------------------------------------------------------------------------
(* handleQuery *)

\* handleQuery before the first call to Redash, in the order of its returns:
\* blank text and batches; the closed gate; local answers; the catalog; no data
\* source; a write in read-only mode; the rest goes to Redash.
Route(t) ==
    IF t = "blank" THEN "answer"
    ELSE IF ~up THEN "refuse"
    ELSE IF t = "local" THEN "answer"
    ELSE IF t = "catalog" THEN (IF ds THEN "fetch" ELSE "answer")
    ELSE IF ~ds THEN "answer"
    ELSE IF t = "write" /\ ReadOnly THEN "answer"
    ELSE "execute"

\* An answer made on the spot, error replies included: one ReadyForQuery.
AnswerAtOnce ==
    /\ \E i \in DOMAIN sent, t \in Queries :
          /\ Take(i, t)
          /\ Route(t) \in {"answer", "refuse"}
          /\ out' = Append(out, ReadyTo(i))
          /\ suspect' = (suspect \/ Route(t) = "refuse")
    /\ extendedErr' = FALSE
    /\ UNCHANGED <<pc, unread, ds, deadline, queryVars, watchVars, cancelled, ctx,
                   cancelVars, up, clientVars>>

\* getSchema: the catalog answer waits for the schema cache's fetch.
FetchSchema ==
    /\ \E i \in DOMAIN sent :
          /\ Take(i, "catalog")
          /\ Route("catalog") = "fetch"
          /\ current' = i
    /\ extendedErr' = FALSE
    /\ pc' = "fetching"
    /\ UNCHANGED <<unread, ds, deadline, queryCancel, res, watchVars, cancelled, ctx,
                   cancelVars, up, suspect, clientVars, out>>

\* The fetch returned, a schema or an error; either way the catalog answers.
SchemaFetched ==
    /\ pc = "fetching"
    /\ out' = Append(out, Reply("ready"))
    /\ current' = 0
    /\ pc' = "receive"
    /\ UNCHANGED <<readerVars, ds, deadline, queryCancel, res, watchVars, cancelled,
                   ctx, cancelVars, up, suspect, clientVars, taken>>

\* executeQuery: a fresh cancellable context, its cancel function where a
\* CancelRequest finds it, and the watcher started.
ExecuteQuery ==
    /\ \E i \in DOMAIN sent, t \in {"read", "write"} :
          /\ Take(i, t)
          /\ Route(t) = "execute"
          /\ current' = i
          /\ queryCancel' = i
    /\ extendedErr' = FALSE
    /\ watcher' = "reading"
    /\ pc' = "querying"
    /\ UNCHANGED <<unread, ds, deadline, res, chunk, cancelled, ctx, cancelVars, up,
                   suspect, clientVars, out>>

\* Redash answered: rows, the query's own error, an infrastructure error, or the
\* HTTP client's timeout, which Suspicious takes for the caller giving up.
\* The deferred stop() sets a deadline in the past.
QueryReturns ==
    /\ pc = "querying"
    /\ res' \in {"rows", "queryError", "infraError", "timedOut"}
    /\ deadline' = "past"
    /\ pc' = "stopping"
    /\ UNCHANGED <<readerVars, ds, queryCancel, current, watchVars, cancelled, ctx,
                   cancelVars, up, suspect, clientVars, taken, out>>

\* The query's context ended first.
QueryAborts ==
    /\ pc = "querying" /\ CtxDone
    /\ res' = "cancelled"
    /\ deadline' = "past"
    /\ pc' = "stopping"
    /\ UNCHANGED <<readerVars, ds, queryCancel, current, watchVars, cancelled, ctx,
                   cancelVars, up, suspect, clientVars, taken, out>>

\* Mutant: stop() without its receive from done.
WatcherGoneAlways == TRUE

\* What stop() waits for.
WatcherGone == watcher = "done"

\* stop() has waited for the watcher and clears the deadline; the cancel
\* function is withdrawn, the context released, and the reply sent.
QueryEnds ==
    /\ pc = "stopping" /\ WatcherGone
    /\ deadline' = "none"
    /\ queryCancel' = 0
    /\ cancelled' = cancelled \cup {current}
    /\ suspect' = (suspect \/ res = "infraError")
    /\ out' = Append(out, Reply("ready"))
    /\ current' = 0
    /\ res' = "none"
    /\ pc' = "receive"
    /\ UNCHANGED <<readerVars, ds, watchVars, ctx, cancelVars, up, clientVars, taken>>

Main ==
    \/ StartupDone \/ StartupRefused \/ StartupFails
    \/ FillFromUnread \/ FillFromSocket \/ ReceiveFails
    \/ HandleTerminate \/ HandleExtended \/ HandleSync \/ HandleOther
    \/ AnswerAtOnce \/ FetchSchema \/ SchemaFetched
    \/ ExecuteQuery \/ QueryAborts \/ QueryEnds

-----------------------------------------------------------------------------
(* watchDisconnect *)

WatchReads ==
    /\ watcher = "reading" /\ deadline # "past" /\ ctx # "closed"
    /\ \E n \in 1..Len(sock) :
          /\ n <= ChunkMax
          /\ chunk' = SubSeq(sock, 1, n)
          /\ sock' = SubSeq(sock, n + 1, Len(sock))
    /\ watcher' = "pushing"
    /\ UNCHANGED <<pc, readerVars, ds, deadline, queryVars, cancelled, ctx,
                   cancelVars, up, suspect, sent, eof, taken, out>>

\* Mutant: only the last chunk is kept.
pushBackReplaces(b) == unread' = b

\* peekConn.pushBack: in front of what is already there.
pushBack(b) == unread' = b \o unread

\* Mutant: the watcher leaves after the first bytes.
WatchPushesOnce ==
    /\ watcher = "pushing"
    /\ pushBack(chunk)
    /\ chunk' = <<>>
    /\ watcher' = "done"
    /\ UNCHANGED <<pc, rbuf, extendedErr, ds, deadline, queryVars, cancelled, ctx,
                   cancelVars, up, suspect, clientVars, taken, out>>

WatchPushes ==
    /\ watcher = "pushing"
    /\ pushBack(chunk)
    /\ chunk' = <<>>
    /\ watcher' = "reading"
    /\ UNCHANGED <<pc, rbuf, extendedErr, ds, deadline, queryVars, cancelled, ctx,
                   cancelVars, up, suspect, clientVars, taken, out>>

\* EOF or a closed socket: cancel the query.
WatchSeesEnd ==
    /\ watcher = "reading"
    /\ \/ ctx = "closed"
       \/ eof /\ sock = <<>> /\ deadline # "past"
    /\ cancelled' = cancelled \cup {current}
    /\ watcher' = "done"
    /\ UNCHANGED <<pc, readerVars, ds, deadline, queryVars, chunk, ctx, cancelVars,
                   up, suspect, clientVars, taken, out>>

\* stop() woke it.
WatchTimesOut ==
    /\ watcher = "reading" /\ deadline = "past"
    /\ watcher' = "done"
    /\ UNCHANGED <<pc, readerVars, ds, deadline, queryVars, chunk, cancelled, ctx,
                   cancelVars, up, suspect, clientVars, taken, out>>

Watcher == WatchReads \/ WatchPushes \/ WatchSeesEnd \/ WatchTimesOut

-----------------------------------------------------------------------------
(* A CancelRequest on another connection, and the end of the process *)

\* cancelByKey with the right secret, then cancelInFlight up to the unlock: the
\* cancel function of the query in flight, if there is one.
CancelLooksUp ==
    /\ pc \notin {"startup", "closed"} /\ held = 0 /\ cancels < MaxCancels
    /\ cancels' = cancels + 1
    /\ held' = queryCancel
    /\ UNCHANGED <<pc, readerVars, ds, deadline, queryVars, watchVars, cancelled, ctx,
                   up, suspect, clientVars, taken, out>>

\* The function is called after the unlock.
CancelFires ==
    /\ held # 0
    /\ cancelled' = cancelled \cup {held}
    /\ held' = 0
    /\ UNCHANGED <<pc, readerVars, ds, deadline, queryVars, watchVars, ctx, cancels,
                   up, suspect, clientVars, taken, out>>

\* The server's context ends, and with it the connection's.
Shutdown ==
    /\ ctx = "live"
    /\ ctx' = "done"
    /\ UNCHANGED <<pc, readerVars, ds, deadline, queryVars, watchVars, cancelled,
                   cancelVars, up, suspect, clientVars, taken, out>>

\* handleConn's goroutine closes the socket.
CloserCloses ==
    /\ ctx = "done"
    /\ ctx' = "closed"
    /\ UNCHANGED <<pc, readerVars, ds, deadline, queryVars, watchVars, cancelled,
                   cancelVars, up, suspect, clientVars, taken, out>>

-----------------------------------------------------------------------------
(* The client and the gate (external) *)

ClientSends ==
    /\ ~eof /\ Len(sent) < MaxMsgs
    /\ \E t \in ClientTypes : sent' = Append(sent, t)
    /\ Cardinality({k \in DOMAIN sent' : sent'[k] \in RareTypes}) <= MaxRare
    /\ sock' = Append(sock, Len(sent) + 1)
    /\ UNCHANGED <<pc, readerVars, ds, deadline, queryVars, watchVars, cancelled, ctx,
                   cancelVars, up, suspect, eof, taken, out>>

ClientCloses ==
    /\ ~eof
    /\ eof' = TRUE
    /\ UNCHANGED <<pc, readerVars, ds, deadline, queryVars, watchVars, cancelled, ctx,
                   cancelVars, up, suspect, sent, sock, taken, out>>

GateMoves ==
    /\ up' = ~up
    /\ UNCHANGED <<pc, readerVars, ds, deadline, queryVars, watchVars, cancelled, ctx,
                   cancelVars, suspect, clientVars, taken, out>>

-----------------------------------------------------------------------------
Init ==
    /\ pc = "startup"
    /\ rbuf = <<>> /\ unread = <<>> /\ extendedErr = FALSE
    /\ ds = FALSE /\ deadline = "handshake"
    /\ queryCancel = 0 /\ current = 0 /\ res = "none"
    /\ watcher = "done" /\ chunk = <<>>
    /\ cancelled = {} /\ ctx = "live"
    /\ held = 0 /\ cancels = 0
    /\ up \in BOOLEAN /\ suspect = FALSE
    /\ sent = <<>> /\ sock = <<>> /\ eof = FALSE
    /\ taken = <<>> /\ out = <<>>

Next ==
    \/ Main \/ QueryReturns \/ Watcher
    \/ CancelLooksUp \/ CancelFires \/ Shutdown \/ CloserCloses
    \/ ClientSends \/ ClientCloses \/ GateMoves

\* The goroutines run, a schema fetch ends by the HTTP client's timeout and a
\* query ends once its context does.  Redash need never answer a query, and
\* nothing is asked of the client.
Fairness ==
    /\ WF_vars(Main) /\ WF_vars(Watcher)
    /\ WF_vars(CancelFires) /\ WF_vars(CloserCloses)

Spec == Init /\ [][Next]_vars /\ Fairness

-----------------------------------------------------------------------------
(* Properties *)

Msgs == 1..MaxMsgs
ReplySet == [to : Msgs, kind : {"ready", "error"}]

\* The values each variable can take.
TypeOK ==
    /\ pc \in {"startup", "receive", "fetching", "querying", "stopping", "closed"}
    /\ rbuf \in Seq(Msgs) /\ unread \in Seq(Msgs) /\ chunk \in Seq(Msgs)
    /\ extendedErr \in BOOLEAN /\ ds \in BOOLEAN
    /\ deadline \in {"handshake", "none", "past"}
    /\ queryCancel \in Msgs \cup {0} /\ current \in Msgs \cup {0}
    /\ res \in {"none", "rows", "queryError", "infraError", "timedOut",
               "cancelled"}
    /\ watcher \in {"reading", "pushing", "done"}
    /\ cancelled \subseteq Msgs /\ ctx \in {"live", "done", "closed"}
    /\ held \in Msgs \cup {0} /\ cancels \in 0..MaxCancels
    /\ up \in BOOLEAN /\ suspect \in BOOLEAN /\ eof \in BOOLEAN
    /\ sent \in Seq(ClientTypes) /\ sock \in Seq(Msgs)
    /\ taken \in Seq(Msgs)
    /\ out \in Seq(ReplySet)

\* The main loop and the watcher never read the socket at the same time, and the
\* main loop never reads under the deadline stop() set to wake the watcher: a
\* query that ends hands the socket back whole (watchDisconnect, stop).
OneReader ==
    pc = "receive" => watcher = "done" /\ deadline = "none"

\* OneReader with what each stage of the loop leaves behind it: the inductive
\* form.
ReaderInv ==
    /\ watcher # "done" => pc \in {"querying", "stopping"}
    /\ deadline = "past" => pc = "stopping"
    /\ pc \in {"receive", "fetching", "querying"} => deadline = "none"
    /\ queryCancel # 0 => pc \in {"querying", "stopping"} /\ queryCancel = current
    /\ pc \in {"querying", "stopping"} => queryCancel = current
    /\ pc \notin {"fetching", "querying", "stopping"} => current = 0

\* What the watcher holds is on its way back, and there is a message behind
\* every query.
HeldInv ==
    /\ watcher # "pushing" => chunk = <<>>
    /\ pc \in {"fetching", "querying", "stopping"} => current # 0

\* Everything the client has sent, from the oldest byte handled to the newest in
\* the kernel.
Stream == taken \o rbuf \o unread \o chunk \o sock

\* Nothing the client sends is lost or seen twice, whoever reads it off the
\* socket and however often it is pushed back.
NothingLost ==
    /\ Len(Stream) = Len(sent)
    /\ {Stream[k] : k \in DOMAIN Stream} = DOMAIN sent

\* What the comments on watchDisconnect and peekConn say of bytes that arrive
\* during a query: they are handed back undisturbed, so the protocol reader sees
\* the client's messages in the order they were sent.
StreamInOrder == Stream = [k \in 1..Len(sent) |-> k]

typeAt(k) == sent[taken[k]]

\* Message k of those handled falls in a failed pipeline: an extended message
\* came before it, which got the error, and no Sync since.
Discarded(k) ==
    \E j \in 1..(k - 1) :
        /\ typeAt(j) = "extended"
        /\ \A m \in (j + 1)..(k - 1) : typeAt(m) # "sync"

\* The replies message k has coming, by the comment on the extended protocol:
\* a Sync its ReadyForQuery, what a failed pipeline discards nothing, a Query its
\* ReadyForQuery, an extended message its error, and an unsupported one both.
Due(k, kind) ==
    \/ kind = "ready" /\ typeAt(k) = "sync"
    \/ /\ ~Discarded(k)
       /\ \/ kind = "ready" /\ typeAt(k) \in Queries \cup {"other"}
          \/ kind = "error" /\ typeAt(k) \in {"extended", "other"}

Replies(k, kind) ==
    Cardinality({n \in DOMAIN out : out[n] = [to |-> taken[k], kind |-> kind]})

\* The replies are in the order of the messages.
RepliesInOrder ==
    \A m, n \in DOMAIN out : m < n =>
        \E j, k \in DOMAIN taken :
            j <= k /\ taken[j] = out[m].to /\ taken[k] = out[n].to

\* What the comment says, with no exception: between messages each one handled
\* has had the replies it has coming and no others, "everything after it is
\* discarded until Sync, which then gets exactly one ReadyForQuery".
PipelineIsDiscarded ==
    pc = "receive" =>
        \A k \in DOMAIN taken, kind \in {"ready", "error"} :
            Replies(k, kind) = IF Due(k, kind) THEN 1 ELSE 0

\* Message k comes, in a failed pipeline, at or after a Query: the code answers
\* that Query and ends the pipeline there, where the comment discards it.
AfterStrayQuery(k) ==
    \E j \in 1..k :
        /\ typeAt(j) \in Queries /\ Discarded(j)
        /\ \A m \in (j + 1)..(k - 1) : typeAt(m) # "sync"

\* Between messages each one handled has had exactly the replies it has coming:
\* one ReadyForQuery to a Query and to a Sync, one error and no ReadyForQuery to
\* the first message of a pipeline, nothing to what the pipeline discards, and
\* the replies are in the order of the messages.  Not claimed of the part of a
\* failed pipeline from a Query to the Sync (PipelineIsDiscarded fails there).
RepliesMatch ==
    pc = "receive" =>
        /\ \A k \in DOMAIN taken, kind \in {"ready", "error"} :
             ~AfterStrayQuery(k) => Replies(k, kind) = IF Due(k, kind) THEN 1 ELSE 0
        /\ RepliesInOrder

\* What the latch says of message k, and the replies the loop makes by it.
Latched(k) ==
    \E j \in 1..(k - 1) :
        /\ typeAt(j) = "extended"
        /\ \A m \in (j + 1)..(k - 1) : typeAt(m) \notin Queries \cup {"sync"}

Given(k, kind) ==
    \/ kind = "ready" /\ typeAt(k) \in Queries \cup {"sync"}
    \/ kind = "ready" /\ typeAt(k) = "other" /\ ~Latched(k)
    \/ kind = "error" /\ typeAt(k) \in {"extended", "other"} /\ ~Latched(k)

\* The replies at every stage: the messages answered so far, all of them or all
\* but the query in flight, have had the replies the loop gives them, no reply is
\* a second one or another one, and the latch says whether a pipeline is being
\* discarded.
InFlight == pc \in {"fetching", "querying", "stopping"}
Answered == IF InFlight THEN Len(taken) - 1 ELSE Len(taken)

NoReplyTwice == \A m, n \in DOMAIN out : out[m] = out[n] => m = n
NoReplyUndue ==
    \A n \in DOMAIN out :
        \E k \in 1..Answered : out[n].to = taken[k] /\ Given(k, out[n].kind)
NoneOwed ==
    \A k \in 1..Answered, kind \in {"ready", "error"} :
        Given(k, kind) => \E n \in DOMAIN out : out[n] = [to |-> taken[k], kind |-> kind]
LatchInv == extendedErr <=> Latched(Len(taken) + 1)
InFlightInv ==
    InFlight => /\ taken # <<>> /\ current = taken[Len(taken)]
                /\ typeAt(Len(taken)) \in Queries

AnswersInv ==
    NoReplyTwice /\ NoReplyUndue /\ NoneOwed /\ RepliesInOrder /\ LatchInv /\ InFlightInv

\* A client that leaves, at any moment, releases its session and the slot it
\* holds, though Redash never answers the query in flight; so does a shutdown.
SessionEnds == (eof \/ ctx # "live") ~> (pc = "closed")

\* A CancelRequest that found a query in flight ends that query.
CancelStops ==
    \A q \in Msgs : (held = q /\ current = q) ~> (current # q)
=============================================================================
