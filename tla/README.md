# redash-wire: a TLA+ verification project

redash-wire is a proxy that lets PostgreSQL and MySQL clients query the data
sources of a Redash server. This directory holds TLA+ modules that model its
concurrent core, its text algorithms, its configuration and the supervisor of its macOS
app, TLC configurations that check them on small instances, and TLAPS proofs of the
properties that matter most for every value of the constants.

## The system

| Component | State | Operations | Interacts with |
|---|---|---|---|
| Health gate (`internal/health/gate.go`) | `up`, `kind`, `reason`, the depth-1 `suspect` channel | `Fail`, `Recover`, `Up`, `Status`, `Suspect`, `ClientMessage` | moved by the checker only; asked by every session at login and before every query |
| Health checker (`internal/health/checker.go`) | `failures`, `rejections`, `probed`, `everUp`, `lastKind`, `fingerprint`, the timer | `Run`, `Probe`, `recordSuccess`, `recordFailure`, `publish`, `nextInterval` | calls Redash, swaps the registry, moves the gate, writes the event lines the macOS app reads |
| `serve` (`cmd/redash-wire/main.go`) | the process context, listeners, exit code | startup probe or `-wait-for-redash`, SIGUSR1, SIGINT/SIGTERM/stdin EOF, shutdown | builds and stops everything |
| Registry (`internal/redash/registry.go`) | an atomically swapped name table | `Replace`, `Lookup`, `All`, views | replaced by the checker, read by sessions |
| PostgreSQL server (`internal/proxy/server.go`) | semaphore of 200, cancelers by process id | accept loop, `handleConn`, `cancelByKey` | starts sessions; dispatches CancelRequests to them |
| PostgreSQL session (`internal/proxy/session.go`) | `extendedErr`, `dataSourceID`, `queryCancel`, `peekConn.unread`, the read deadline | `serve`, `handleQuery`, `executeQuery`, `watchDisconnect`, `cancelInFlight` | main loop, watcher, closer and CancelRequest handler share the socket and the cancel function |
| MySQL server and session (`internal/mysqlwire`) | connection table, `pendingDB`, `authenticated`, `cancelQuery` | login, `UseDB`, `HandleQuery`, `KILL` | sessions interrupt one another through the table |
| Redash client (`internal/redash/client.go`) | per call: job id, `consecutiveErrors`, deadline | `ExecuteQuery`, `GetSchema`, `pollJob`, `pollSchemaJob`, `cancelJob`, `getQueryResult` | HTTP to Redash, whose job outlives the call |
| Schema cache (`internal/redash/schema_cache.go`) | `ready`, `attempts`, `schema` | `Get`, `Reset` | one per session |
| SQL scanner (`internal/sqltext`) | none | mask, `Redact`, statement split, `WriteVerb` | routing, read-only mode, batches |
| PostgreSQL answers (`internal/pgwire`) | none | routing, session answers, the emulated catalog, timestamp rewriting, result encoding | asked by the session before Redash is |
| MySQL answers (`internal/mysqlwire/query.go`) | none | a second lexer, SELECT without FROM, SHOW, `information_schema`, result encoding | asked by the session before Redash is |
| Configuration (`internal/config`), setup, CLI | the file on disk | overlay, `Validate`, `Load`, `LoadAll`, `Resolve`, `WriteConfig`, `init`, the wizard | read once at startup, written once by setup |
| Supervisor and tracker (`macos/RedashWire`) | the process held, its generation, queued commands, the restart and give-up timers; the state the menu shows | start, stop, restart, `ingest`, `handleExit`, `giveUpIfDue` | runs the proxy as a child and reads its event lines |

What is hard to test here: the gate's hysteresis over sequences of probe results;
suspicions that race a probe; the hand-over of one socket between two readers;
bytes that arrive while a query runs; a cancellation at every stage of a call whose
job lives elsewhere; error budgets and backoffs at their limits; and everything that
must happen in the end. And what is hard in another way: text that is read by several
scanners which must agree, and answers put together from patterns. `PROJECT.json` lists each hazard at its line.

## Modules

| Module | Models |
|---|---|
| `Health` | gate, checker, `serve`'s start and stop, registry swap, the sessions' use of the gate |
| `HealthProofs` | its theorems |
| `PgSession` | one PostgreSQL session: main loop, watcher, closer, CancelRequest, client |
| `PgSessionProofs` | its theorems |
| `QueryCall` | abstract: what a query call promises the session |
| `RedashClient` | one query or schema call and its job; implements `QueryCall` |
| `RedashClientProofs` | its theorems |
| `SchemaCache` | the schema cache, as operators |
| `MySessions` | the MySQL sessions, the connection table and KILL; uses `SchemaCache` |
| `MySessionsProofs` | its theorems |
| `Serving` | both accept loops and `serve`'s start, drain and exit |
| `ServingProofs` | its theorems |
| `SqlText` | the scanner of `internal/sqltext`, for both dialects |
| `SqlTexts` | texts for the scanners, with the positions that are code by construction, and what is required of them |
| `MySqlText` | the MySQL wire's own lexer, LIKE, select lists and `stripDBQualifier`; extends `SqlText` |
| `MyAnswers` | what the MySQL wire answers itself; extends `MySqlText` |
| `PgCatalog` | the emulated PostgreSQL catalog; extends `SqlText` |
| `PgLocal` | routing and session answers of the PostgreSQL wire, timestamp rewriting; extends `PgCatalog` |
| `Results` | the type of a result column and the form of its values, on both wires |
| `Listings` | the inputs of `Results` and `Registry`: columns and lists of data sources of any length, and what is required of them |
| `AnswersProofs` | theorems about the loops of `SqlText`, `Results` and `Registry` |
| `Registry` | the name table of the data sources and the published list |
| `Config` | the configuration file, its layers, its validation and where it is looked for |
| `Setup` | concurrent setups and first starts over the file system; extends `Config` |
| `SetupProofs` | its theorems |
| `Supervisor` | the macOS supervisor with its tracker, its commands and its children |
| `SupervisorProofs` | its theorems |
| `MCHealth`, `MCPgSession`, `MCRedashClient`, `MCMySessions`, `MCServing`, `MCAnswers`, `MCSetup`, `MCSupervisor` | the instances TLC checks; `MCAnswers` also composes `SqlTexts` and `Listings` with queries for the local answers and holds what these are compared with; `MCMySessions` composes the scenes of its run |

### Health

`pc` is the checker's goroutine. A probe is split where another goroutine can see
or disturb it: the request (`BeginProbe` to `ProbeSucceeds`, `ProbeFails` or
`ProbeCancelled`), the registry swap (`SwapAndPublish`), the gate (`RecoverGate`,
`RecordFailure`). `RecordFailure` is one step because only its `gate.Fail` is visible
outside. A session decides (`Admitted`, `Refused`) and words its refusal
(`Answered`) in two steps, as the code reads the gate twice. PostgreSQL sessions
call `Suspect` when they are refused, MySQL sessions do not. `announced` is the last
health line the app has read, `listed` the list. `SwapAndPublish` swaps the registry and then
publishes the list, does not because it is unchanged, or cannot encode it. `recent`, `fresh` and
`owed` are history that no action reads. `ServeWaiting` takes
`gate.Fail` and the binding of the listeners as one step, since no session exists
before the listeners do.

The failure counters saturate at `FailureCap`: past it the backoff has reached its
limit, so nothing distinguishes larger counts (`FailureCapIsExact` in `MCHealth` is
evaluated on every run). Durations are integers; `Second` is a number of units so
that the division of `retry_in_seconds` is not the identity.

### PgSession

Bytes are message numbers: the kernel's buffer `sock`, the watcher's `chunk`,
`peekConn.unread`, the protocol reader's `rbuf`. A read returns any non-empty prefix
of what is there, the watcher's at most `ChunkMax`. A message is its type; the text
of a Query is what `handleQuery` makes of it. `ctx` is "done" when the server's
context ends and "closed" once the closer has shut the socket. A CancelRequest takes
the cancel function under the lock (`CancelLooksUp`) and calls it later
(`CancelFires`). `ds` is found once at login. Redash's side of a query is
`QueryReturns` and `QueryAborts`, the two ways of `QueryCall`.

### RedashClient

`seen` is the answer to a request, taken from the job at one moment and acted on at
another. `JobCreated` may happen without the answer ever arriving. A DELETE may be
lost. `ErrOf` keeps what `errors.Is` and `errors.As` see, because
`health.Suspicious` and the reply to the client depend on it; in particular
`http.Client.Timeout` matches `context.DeadlineExceeded` (Go 1.25).
`pollSchemaJob` differs from `pollJob` in that the first answer already carries a
status, a failure is never the query's own, and the result comes with the job.

### MySessions

`st` is a session's goroutine and a connection is its own id. `ctx` is as in
`PgSession`. go-mysql is external: it calls `UseDB` while it reads the handshake
(`ReadHandshake`), `login` once the password is verified (`Login`), and the handler for
a command. `Say` is its write, which fails over a closed socket. A KILL takes three
steps, since each takes another lock: the lookup in the table (`KillLookup`), the
interrupt under the target's lock (`KillInterrupts`) and the end of the target's context
(`KillDisconnects`). A statement answered locally asks the gate twice (`BeginLocal`, then
`NeedsFetch`). The gate, the registry and the suspect token belong to `Health` and move
freely. Replies are told apart as far as the properties do: error 1045, error 1317, any
other packet. `struck` and `ordered` are history: a KILL named the session while its query
ran; a KILL CONNECTION named it. A session that is over drops its handler, so `Leave`
clears what it held.

### Serving

One accept loop per wire; the two servers' loops are the same code. Sessions are counts:
`running` in `handleConn`, `released` between giving back the token and leaving the
WaitGroup (bounded by `MaxReleased`). `verdict` is what `Serve` returns and `errCh` the
channel `main` reads one of them from. `ForceExit` is the five-second timeout.

### The text algorithms: SqlText, MySqlText, MyAnswers, PgCatalog, PgLocal

A text is a sequence of atoms. An atom is a character where the code looks at characters
(quotes, backslash, comment openers, `$`, `;`, parentheses, blanks, newline) and a whole word
or number elsewhere, in lower case: what the code tells apart is whether two neighbours are
identifier characters, so `a` next to `e` is one longer word. Byte positions become positions
in the sequence, and `Redact` keeps them as the code does. Regular expressions are written as
what they match. The catalog's rows are records of field values; the values the proxy makes up
(versions, addresses, process ids) are single atoms.

`SqlTexts` grows a text by lexemes, each given with the positions that are code by the rules
of its dialect; the mask, the redaction, the split into statements and the MySQL wire's second
lexer are compared with that. `MCAnswers` puts queries together from select items and
predicates, each given with its text, the name SQL gives its column and the rows SQL selects,
with single blanks, newlines and comments between the words; the answer is compared with the
one put together from the parts.

### Results and Registry

A value of a result is a kind (null, number, string, true, false, nested) and a text; what Go's
parsers make of a text (fits 64 bits, survives a double, is a timestamp with or without zone)
are constants. `Registry` builds the two maps from the list in Redash's order, loop by loop;
`sort.Slice`, which is not stable, may leave any sorted arrangement. `Listings` grows a column
or a list of sources by one value or source at a time and states what both must satisfy.

### Config and Setup

A layer of the file is a function from keys to texts. `Setup` runs commands over three places
(`-config`, the working directory, the home directory): each system call of `WriteConfig` is a
step that may fail, and a command may die between or inside any two (`Crash`); a write under
way leaves any prefix. Only the death of the process is modelled, not of the machine: the code
does not `fsync`. `asked` is what the user answered (profile, URL, key, login, `read_only`) and
which listeners that enables; the wizard asks for no login and takes the built-in one. A
`stat` that fails counts as a free place for `serve` and is an error for `init`, as in the
code.

### Supervisor

Commands run one after another on the main actor (`commands`, `stopping`). The two halves of
`stopNow` around its wait are two steps, and `resumed` is the continuation. Each child is a
generation with the lines it wrote and what was delivered of its end: lines, exit, end of
stderr and the grace timer come in any order. Time is what is compared: whether the give-up
deadline has passed and whether a run was stable. `after`, in a start and in `retries`, is
history: the generation when the start was asked for. A retry hops through a task between the
look at the state and the start (`Retry`, `RetryGives`), and what it finds then may be anything.

The handlers run in any order: what a child reports is delivered at any moment, whatever is
queued. One assumption about time is made, and it is a conjunct of `Spec` and not a guard:
`HopsAreShort`. No child that was spawned after a start was asked for crashes into the backoff
timer before that start has run; a start hops from task to task on the main actor, while a
child must be spawned, bind its listeners, say so, die and have its exit handled. A start held
up behind a stop that awaits an exit meets no such child, because nothing is spawned
meanwhile. The assumption is needed: `startNow` does not cancel `restartTask`, and it relies on
its callers, who look at the state when they ask. Without it, two Starts given at once could
end with two children: the first one's child gets ready and crashes, the second Start then
finds no process and spawns beside the timer, and the timer spawns a third.

## Runs

| Run | Shows |
|---|---|
| `health` | safety and action properties of the checker, gate and event lines; recovery reopens, outage closes, rejection is named |
| `pgsession` | one reader, nothing lost, exactly the replies owed; disconnects and shutdown end the session, a CancelRequest ends its query |
| `redashclient` | jobs attended, outcomes the job's, exact error budget, refinement of `QueryCall` with its termination |
| `mysessions` | two sessions that kill one another: interruptions, contexts, what a KILL or a shutdown ends does end; one session through login and USE while the gate and the registry move and the client may leave |
| `serving` | slots, clean exit; a shutdown drains, a bind failure stops the proxy, a freed slot is used |
| `answers` | the scanners against the dialects' rules; slices of a text scan as they did inside it; `EXPLAIN` and batches are judged as their statements; only the database's own qualifier is removed; both wires' own answers against SQL's; routing blind to literals; timestamp rewriting; column types; name lookup independent of order |
| `setup` | atomic setups under failures, crashes and races; what was answered is what loads |
| `supervisor` | one child, a truthful menu, hopeless starts and commands that end |
| `pgsession_order`, `pgsession_pipeline`, `answers_quoted`, `answers_empty` | each one disagreement between a comment and the code (below) |

Bounds, and why they are enough:

* `Threshold = 2` and `RejectedThreshold = 3` are the code's. `Interval = 20`,
  `MaxOffline = 50`, two units to the second: the backoff takes the values 20, 40,
  50, so it doubles once and is cut off by the limit once, at `FailureCap = 4`. One
  session of each wire suffices because a session writes only the suspect channel;
  two lists, one empty, cover "unchanged", "changed" and "nothing to serve".
* `MaxMsgs = 3` lets two messages arrive during the first one's query, in one read or
  in two (`ChunkMax = 1`), or a pipeline of three. One CancelRequest can span the end
  of one query and the start of the next.
* `mysessions` has two connections and two scenes (`SceneSpec`). In "kills" each connection can
  be killer, target, both or itself over one data source, and the gate, the registry and the
  clients hold still, because nothing the liveness asks waits for them. In "databases" one
  connection is alone with the whole environment, a name, three data sources, one of the wrong
  type, and two fetches (`maxSchemaFetchAttempts`; the code's three differ only in one more):
  sessions share nothing that a switch of database touches. The safety properties are proved
  without either restriction.
* `Serving` has the two wires, two slots each, and waits of 1, 2 and 3 so that one is
  doubled and one cut off by the limit. `MaxReleased = 1` is enough: the WaitGroup only
  tells none from some.
* `answers`, texts: three lexemes (`MaxLexemes`) put every region next to and inside every other
  kind, and at the end of the text; three words (`MaxWords`) make a
  statement with a token before and after it, and the `EXPLAIN` that the property puts in front
  of it, with its options, makes that a nested one; the qualified queries are a fixed family.
* `answers`, queries: `MaxParts = 2` items and predicates in every layout, `MaxPlain = 3` for one item
  and single blanks, so that predicates meet in pairs; `MaxRows = 3` values decide the type of
  a column with a null among two others; `MaxSources = 3` allows two names that differ in case
  and one that does not. Statements without parts are checked in the initial states.
* `setup`: two interchangeable commands (`MCSymmetry`) and three places; answers with the
  built-in login, with an empty password and a username that looks like a reference, with keys
  whose references are set and unset; no `-profile` flag or one that names another profile.
* `supervisor`: three commands, four children, two lines each, one restart
  (`BackoffLimit = 1`), one listener and one profile: enough for a crash, its restart and a
  second crash with commands queued at any point. A child that was not signalled exits only
  while generations are left for what is queued (`Room`), so the bound cuts no command off.
  `retries` is a set: two retries asked for in the same generation count as one.
* In `pgsession` a behaviour has at most one (`MaxRare`) of the messages that are handled
  alike wherever they come (`RareTypes`).
* `MaxConsecutivePollErrors = 5` is the code's. One call is enough: calls share no
  state.

Deadlock checking is off for `PgSession`, `RedashClient`, `MySessions`, `Serving` and
`Supervisor`, where a closed session, a returned call, a process that exited and a user who
has given all commands stop, and for the text runs, which end at their longest text. It is on for `Health`,
whose environment always moves, and for `Setup`, which ends in `Done`.

Fairness. `Health`: weak fairness of the checker's goroutine, whose timer fires and
whose probes end by their timeout; nothing is asked of clients, the app or Redash.
`PgSession`: the goroutines run, a schema fetch ends by the HTTP timeout, and a
query ends once its context has, which is what `QueryCall` promises and
`RedashClient` is shown to keep; Redash itself need never answer. `RedashClient`: the
goroutine and its timers, and strong fairness of the deadline case, because Go's
`select` picks among ready cases at random. `MySessions`: the goroutines run, a
schema fetch and a handshake end by their timeouts and a query ends once its context
has; Redash need never answer and clients need never leave. `Serving`: goroutines run and
sessions end once the context has, which `SessionEnds` of `PgSession` and `KillEnds` of
`MySessions` show; clients and the five seconds are free. `Supervisor`: the main actor runs
what is runnable, timers fire, what a child wrote and that it died is delivered, and a
SIGKILLed process dies; nothing is asked of a child that was not killed, nor that its stderr
ever closes. `Setup` and the text runs state no liveness.

## Findings

* `pgsession_order`: `pushBack` puts a later chunk in front of an earlier one, so
  bytes that arrive in two reads during one query are seen in the wrong order.
* `pgsession_pipeline`: a Query clears `extendedErr` and is answered even inside a failed
  pipeline, which the comment says is discarded until its Sync (`session.go:128`, 136).
  `RepliesMatch` is not claimed of a failed pipeline from such a Query to the Sync, and of
  everything else it is.
* `answers_empty`: `;DELETE FROM t` is one statement whose `WriteVerb` is empty
  (`sqltext.go:317`), so read-only mode lets it through, against the comments on `WriteVerb` and
  in `handleQuery` (`session.go:239`). `JudgedAsItsStatement` leaves out texts that open with an
  empty statement (`OpensEmpty`), and only those.
* `answers_quoted`: `selectStartRe` is matched on the redacted text, where a quoted
  identifier is blank, so a select list that opens with one loses it; the comment on
  `selectList` says that quoted identifiers survive.

Differences between comments and code that were met on the way and have no run:

* an unconfirmed rejection is already backed off (`checker.go:278`), although the comments at
  67 and 289 say it is retried at the normal interval;
* a refusal reads the gate twice (`session.go:206`) and can name a cause that held at neither
  moment, against `gate.go:21` and `116`;
* a query cancelled while it is being submitted leaves its job without a DELETE
  (`client.go:471`, against `session.go:327`);
* a query that dies on the HTTP client's own timeout does not ask for a probe
  (`checker.go:329`, against `session.go:262`);
* `WHEN a = 'literal'` and `WHEN a <> 'literal'` in a searched CASE are never satisfied:
  `condRe` is matched on the redacted condition, and what it takes for the right-hand side is
  the literal's last blank (`catalog.go:402`, against the comments at 332 and 399; IN and
  numbers work, and so does the simple CASE). It has the cause of `answers_quoted`;
  `CatalogAnswersAsSQL` has no such item;
* a MySQL session has its OK packet before `conns.add` (`mysqlwire/server.go:187`), so a KILL
  quick enough is told there is no such thread;
* `checker.Run` is started after the servers' goroutines, not after the binding, so its first
  event can come before theirs (`main.go:304`).

Limits of the emulated answers, kept out of the texts the runs enumerate because no comment
or test promises otherwise: predicates are read anywhere in the text, a CASE of the select list
included; comments or `*` in a select list give the default columns; several comparisons of a
name are alternatives; NOT IN takes no account of a NULL in its list; `asksForReadWrite` has a
branch for START that `IsLocalQuery` never routes to it; a comment between
`transaction_read_only` and its `=` hides the value; of two data sources with equal names the
last listed wins.

## Proofs

All for every value of the constants that satisfies the named assumptions.

* `HealthProofs`. `HealthInv` adds to the types: the counters count what the history
  shows (`CountersMatch`), they stand behind the gate's verdict (`VerdictBacked`),
  the checker's place tells what it has done (`Progress`), and the last line sent
  says what `lastKind` and the gate say (`AnnouncedBacked`). None of the properties is
  inductive alone: the gate does not see the history and the history does not see
  the gate; the counters link them. From it follow `ClosedIsConfirmed`,
  `RejectedIsConfirmed`, `OpenOverFreshRegistry`, `SuspicionIsKept`,
  `AnnouncedAgrees` and `RetryRepeatsTheVerdict`. Assumption:
  `ConstantsAssumption` (positive durations and thresholds, counters that can reach
  them).
* `PgSessionProofs`. `ReaderInv` says at which places of the main loop a watcher can
  exist and which deadline is set; `OneReader` follows, for any number of messages,
  CancelRequests and any buffer sizes. `NothingLost` follows from `BytesInv`, which keeps the
  sum of the lengths of the five buffers a message can be in and the union of their elements:
  no step says where in the stream a byte is (the push-back of `peekConn` may reorder it, see
  the findings), so the concatenation itself is not inductive. It needs `HeldInv`, the
  watcher's chunk being empty unless it is pushing back. `RepliesMatch` speaks of the moments
  between messages, and leaves out a failed pipeline from a Query on (see the findings);
  `AnswersInv` says the same of every moment, with the query in flight set
  apart: no reply twice, none undue, none owed, the replies in order, and the latch
  `extendedErr` set exactly while the loop takes a pipeline for failed (`Latched`). That no message is handled twice,
  which "exactly one reply" needs, is a pigeonhole argument from `NothingLost`: as many
  messages as were sent, and all of them, so each once (`StreamDistinct`, `TakenOnce`).
* `RedashClientProofs`. `ClientInv` adds to the types what each place of the loop
  knows (`Stage`), that an answer saying the job is over stays true (`SeenIsTrue`), and
  that the context is blamed only once it has ended (`CtxIsTrue`). `NotLeftRunning`,
  `OutcomeIsTheJobs` and the safety part of the refinement of `QueryCall` follow.
  `ErrorBudget` compares the counter with the history of the last requests, which slides once
  it is full; `CountIsTheStreak` says which part of that history the counter stands for, and
  that giving up leaves failures only.
* `MySessionsProofs`. `MyInv` adds to the types and the properties what each place of a
  session implies (`Stage`: past login means authenticated, a cancel function is set only
  inside `executeRemote`) and that contexts end for a reason (`KillsAreTrue`). The
  properties need both: an interruption is reported from the context alone, long after
  the KILL. For any number of sessions, names and data sources.
* `ServingProofs`. `ServingInv`: a token per running session (`TokensMatch`), no session
  before a loop starts or after it drained (`NoSessionOutside`), waits within their limits
  and an exit after every server (`Restraint`). `SlotsBounded`, `CleanExitLeavesNobody`
  and `AcceptErrorsBackOff` follow for any wires, limits and waits.
* `SetupProofs`. `SetupInv` adds to the types and `SetupIsAtomic` what each step of a command
  implies (`Stage`): no file in place and no outcome before the link, a whole file when it is
  linked, and past the link a failure or the ownership of the place. `SetupIsAtomic` alone does
  not say what is about to be linked. `NeverReplaced` follows too. `LoadsAsEntered` holds
  because a file a setup put in place is whole, is what `NewFileConfig` makes of the answers
  `asked` keeps (`Stage`), and resolves to them layer by layer (`NewFileResolves`): a blank
  login is overlaid by the built-in one, a listener that was left out stays off, and a reference
  that expands to nothing is complained of. `SetupProofs` also shows, of any file at all and of
  the operators of `Config` alone, that what `config` reports is what serve finds
  (`AnyFileIsReportedAsLoaded`); no run is about that.
  Assumptions: a command is neither "absent" nor "hand", and an answer has a profile, a URL and
  a key, as `cmdInit` and `RunWizard` insist (`SetupAssumption`); the defaults are not empty
  and the written durations parse and are positive (`ConfigAssumption`).
* `SupervisorProofs`. `SafeInv`: the process held is the last spawned and no other child is
  alive (`Ownership`); a command that awaits an exit has asked for it, and neither a timer nor
  a second wait exists beside it (`Awaiting`); a start that waits was asked for before the
  process that runs was spawned (`StartsAreOlder`); while the restart timer runs no start waits,
  in the queue or in a retry's task (`OneStarter`). `OneChild` alone says nothing of who may
  spawn next: a timer and a waiting start could each do so, and the last two clauses exclude it,
  by `HopsAreShort` in the one step that sets the timer. `ShownIsTrue` is part of the
  induction. Assumptions: `HopsAreShort`, a conjunct of `Spec`; "none", which stands for no
  timer, is not a profile (`SupervisorAssumption`).
* `AnswersProofs`. About operators that loop over their input, for inputs of any length. The
  scanner (`SqlTexts`) and the listings (`Listings`) only supply the inputs;
  the content is in the operators.
  - Induction. What a recursive function computes is derived rather than taken from the
    library: a set of naturals that has 0 and every successor is `Nat` (`NatSetInduction`), a
    bounded recursion has a solution and its `CHOOSE` is one (`BoundedRecursion`,
    `ForwardRecursion` for loops over a prefix, `BackwardRecursion` for the scanner, which jumps
    ahead by a distance it computes), and `UpTo` and `BackwardInduction` prove facts along them.
  - Scanner. `RedactedIsAllCode`: what stays after `Redact` was code where it stood, so nothing
    there opened a region then, and a blank in its place opens none now. `SliceScansAlike` is
    harder: a region can end at the end of a text, a dollar tag is searched ahead, a nested
    comment counts, and whether a backslash escapes depends on the two atoms before the quote.
    It needs that every region inside the slice ends at the same place in both texts, because
    the next code position lies behind it, and that the cut hides from a quote nothing it looks
    at; the word-boundary condition is what excludes a cut between `e` and the letter before
    it. Both are stated for every sequence of atoms; `SlicesAlwaysScanAlike` says that the
    texts of lexemes are such sequences.
  - Columns. The kind `columnKind` gives a column decides the Go type of every value in it
    (`OneTypePerColumn`), so go-mysql accepts the result; each advertised PostgreSQL type
    promises the form of every value (`DatetimeKeeps`, `PlainKeeps`). From both,
    `ColumnsAlwaysKeepTheirType`, whatever texts Go's parsers accept.
  - Registry. The loops are followed source by source: `byExact` has each name's source,
    `byLower` the lowest id of each lower-case name (`ByExactIs`, `ByLowerIs`), `FilterByType`
    each source of the type once. `sort.Slice` leaves some list, shown by inserting one view at
    a time (`CanBeSorted`), and no other: two sorted lists agree from the first position on
    because names and ids order the views completely (`OneSortedList`). `OrderNeverDecides`
    follows. Assumptions: `Rank` orders the lower-case names without ties
    (`RegistryAssumption`); ids are integers, and ids and names are distinct, as `ListSource`
    lists them.

The prover's SMT translation takes the domain of anything that has a `Len` to be `1..Len`.
Loops over `0..n` are therefore kept in lemmas that do not mention `Len`, so that no proof
rests on that axiom for a function that is not a sequence.

Only model-checked. Liveness (`LastingChangeIsNoticed`, `SessionEnds`, `CancelStops`,
`KillEnds`, `ServingProgress`, `GivesUpOrConnects`, `CommandsEnd`, and the fairness of
`ImplementsQueryCall`) is out of the prover's reach. Of the text algorithms,
`ScanFindsTheCode`, `JudgedAsItsStatement` and `OnlyTheQualifierGoes` compare with what was put
into a text, lexeme by lexeme or word by word, and use the splits, which rest on the library's
`SetToSortSeq` and `SelectSeq`; `CatalogAnswersAsSQL`, `MyAnswersAsAsked`,
`SessionAnswersAsAsked`, `LiteralsDecideNothing` and `RewritesOnlyComparisons` are about a
finite family of whole queries, which the run enumerates, and the PostgreSQL wire's catalog is
written with RECURSIVE operators, which the prover does not take.

## Not modelled, and the plan

The bytes of both protocols and the wording of values and errors; YAML and JSON beyond
whether they parse; the wizard's dialogue, flags and the commands that only print
(`config`, `datasources`); the PostgreSQL startup exchange beyond its outcomes; the app's
preferences, notifications and views. Process ids that wrap after 2^32 sessions, and the
loss of a file's contents with the machine, are outside the models.

Next: the PostgreSQL startup exchange, and the event lines of `Health` composed with the
tracker of `Supervisor`.
