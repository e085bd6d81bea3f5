----------------------------- MODULE MySessions -----------------------------
(***************************************************************************)
(* The MySQL sessions: internal/mysqlwire/handler.go with handleConn and   *)
(* the connection table of server.go and the schema cache of               *)
(* internal/redash.                                                        *)
(*                                                                         *)
(* Every connection has a goroutine (st) and a closer that shuts its       *)
(* socket when its context ends (ctx).  A connection's id is the           *)
(* connection itself.  Sessions meet in the connection table: KILL finds   *)
(* another session there, cancels its query under that session's lock and  *)
(* then, unless only the query was meant, cancels its context.             *)
(*                                                                         *)
(* The gate and the registry belong to the checker (module Health) and     *)
(* move freely here.  The wire protocol is go-mysql's: it calls UseDB      *)
(* while it reads the handshake, login once the password is verified, and  *)
(* HandleQuery or UseDB for a command.                                     *)
(***************************************************************************)
EXTENDS SchemaCache

CONSTANTS
    Conns,              \* connections, by connection id
    Names, NoName,      \* database names a client asks for, and none
    Sources,            \* data sources, by id
    Compatible,         \* those of a MySQL-compatible type
    ReadOnly            \* the read_only mode

ASSUME MySessionsAssumption ==
    /\ NoName \notin Names
    /\ Compatible \subseteq Sources
    /\ NoSource \notin Sources
    /\ ReadOnly \in BOOLEAN

VARIABLES
    st,             \* the session's goroutine
    authenticated,  \* "yes" once go-mysql has verified the password
    pendingDB,      \* the database named in the handshake
    dataSourceID,
    schemaCache,
    cancelQuery,    \* "set" while a query can be interrupted
    qctx,           \* the query's own context: "live" or "done"
    result,         \* what ExecuteQuery returned
    kill,           \* the KILL the session is carrying out
    ctx,            \* its context: "live", "done", and "closed" with the socket
    conns,          \* the connection table
    reply,          \* what the session's last step sent: "denied" for error 1045,
                    \* "interrupted" for 1317, "answered" for any other packet
    peer,           \* the client: "here" or "left"
    gate, registry, \* the gate and the registry, moved by the checker
    suspect,        \* the token in the gate's suspect channel: "none" or "token"
    shutdown,       \* the server's context: "no" or "yes"
    struck,         \* history: a KILL named the session during the query at hand
    ordered         \* history: a KILL CONNECTION named the session

loginVars == <<authenticated, pendingDB>>
dbVars == <<dataSourceID, schemaCache>>
queryVars == <<cancelQuery, qctx, result, struck>>
killVars == <<kill, ordered>>
checkerVars == <<gate, registry, suspect>>
serverVars == <<conns, ctx, shutdown>>
vars == <<st, loginVars, dbVars, queryVars, killVars, serverVars, reply, peer,
          checkerVars>>

\* A session inside executeRemote.
InQuery == {"query", "returned"}

NoKill == [target |-> "none", what |-> "none"]
Kills == [target : Conns, what : {"query", "connection"}]

\* The session goes to s with nothing said.
Goto(c, s) ==
    /\ st' = [st EXCEPT ![c] = s]
    /\ reply' = [reply EXCEPT ![c] = "none"]

\* go-mysql writes packet r and the session goes to s; over a closed socket the
\* write fails and the session ends.
Say(c, r, s) ==
    IF ctx[c] = "closed" THEN Goto(c, "leaving")
    ELSE /\ reply' = [reply EXCEPT ![c] = r]
         /\ st' = [st EXCEPT ![c] = s]

Answer(c, r) == st[c] = "ready" /\ Say(c, r, "ready")

-----------------------------------------------------------------------------
(* Login *)

\* Mutant: the name is looked up whoever asks.
UseDBAtOnce(auth, name) ==
    IF gate = "closed" THEN "unavailable"
    ELSE IF registry[name] \notin Compatible THEN "unknownDB"
    ELSE "found"

\* UseDB: what it makes of a name, for a client that is or is not authenticated.
UseDB(auth, name) ==
    IF auth = "no" THEN "pending"
    ELSE IF gate = "closed" THEN "unavailable"
    ELSE IF registry[name] \notin Compatible THEN "unknownDB"
    ELSE "found"

\* Mutant: the schema of the database left behind is kept.
SwitchKeepsSchema(c, name) ==
    /\ dataSourceID' = [dataSourceID EXCEPT ![c] = registry[name]]
    /\ UNCHANGED schemaCache

\* UseDB's effect once it has found the data source.
SwitchDB(c, name) ==
    /\ dataSourceID' = [dataSourceID EXCEPT ![c] = registry[name]]
    /\ schemaCache' = [schemaCache EXCEPT ![c] = EmptyCache]

\* Serve hands the connection to handleConn.
Connect(c) ==
    /\ st[c] = "new" /\ shutdown = "no"
    /\ Goto(c, "handshake")
    /\ UNCHANGED <<loginVars, dbVars, queryVars, killVars, serverVars, peer,
                   checkerVars>>

\* go-mysql reads the handshake response, and calls UseDB if it names a database.
ReadHandshake(c) ==
    /\ st[c] = "handshake"
    /\ \/ Goto(c, "auth") /\ UNCHANGED pendingDB
       \/ \E name \in Names :
             IF UseDB(authenticated[c], name) = "pending"
             THEN /\ pendingDB' = [pendingDB EXCEPT ![c] = name]
                  /\ Goto(c, "auth")
             ELSE /\ Say(c, "answered", "leaving")
                  /\ UNCHANGED pendingDB
    /\ UNCHANGED <<authenticated, dbVars, queryVars, killVars, serverVars, peer,
                   checkerVars>>

\* GetCredential's password, or the decoy for an unknown user, does not match.
AuthFails(c) ==
    /\ st[c] = "auth"
    /\ Say(c, "denied", "leaving")
    /\ UNCHANGED <<loginVars, dbVars, queryVars, killVars, serverVars, peer,
                   checkerVars>>

\* OnAuthSuccess runs login: the gate, then the pending database.
Login(c) ==
    /\ st[c] = "auth"
    /\ authenticated' = [authenticated EXCEPT ![c] = "yes"]
    /\ \/ /\ gate = "closed"
          /\ Say(c, "answered", "leaving")
          /\ UNCHANGED <<pendingDB, dbVars>>
       \/ /\ gate = "open" /\ pendingDB[c] = NoName
          /\ Say(c, "answered", "opening")
          /\ UNCHANGED <<pendingDB, dbVars>>
       \/ /\ gate = "open" /\ pendingDB[c] # NoName
          /\ pendingDB' = [pendingDB EXCEPT ![c] = NoName]
          /\ \/ /\ UseDB("yes", pendingDB[c]) = "found"
                /\ SwitchDB(c, pendingDB[c])
                /\ Say(c, "answered", "opening")
             \/ /\ UseDB("yes", pendingDB[c]) # "found"
                /\ Say(c, "answered", "leaving")
                /\ UNCHANGED dbVars
    /\ UNCHANGED <<queryVars, killVars, serverVars, peer, checkerVars>>

\* The handshake deadline, a client that left or a closed socket.
HandshakeFails(c) ==
    /\ st[c] \in {"handshake", "auth"}
    /\ Goto(c, "leaving")
    /\ UNCHANGED <<loginVars, dbVars, queryVars, killVars, serverVars, peer,
                   checkerVars>>

\* conns.add, after the client has its OK.
Register(c) ==
    /\ st[c] = "opening"
    /\ conns' = conns \cup {c}
    /\ Goto(c, "ready")
    /\ UNCHANGED <<loginVars, dbVars, queryVars, killVars, ctx, shutdown, peer,
                   checkerVars>>

-----------------------------------------------------------------------------
(* Commands *)

\* Answered whatever the gate says: a blank query, a batch, a KILL that does not
\* parse, and the commands the proxy does not support.
AnswerAtOnce(c) ==
    /\ Answer(c, "answered")
    /\ UNCHANGED <<loginVars, dbVars, queryVars, killVars, serverVars, peer,
                   checkerVars>>

\* HandleQuery over a closed gate.
GateRefuses(c) ==
    /\ gate = "closed"
    /\ Answer(c, "answered")
    /\ UNCHANGED <<loginVars, dbVars, queryVars, killVars, serverVars, peer,
                   checkerVars>>

\* USE, or COM_INIT_DB.
Use(c) ==
    /\ \E name \in Names :
          /\ Answer(c, "answered")
          /\ IF UseDB(authenticated[c], name) = "found" THEN SwitchDB(c, name)
             ELSE UNCHANGED dbVars
    /\ UNCHANGED <<loginVars, queryVars, killVars, serverVars, peer, checkerVars>>

\* A statement isLocalQuery knows: getSchema is called for it whatever it asks.
BeginLocal(c) ==
    /\ st[c] = "ready" /\ gate = "open"
    /\ Goto(c, "local")
    /\ UNCHANGED <<loginVars, dbVars, queryVars, killVars, serverVars, peer,
                   checkerVars>>

\* getSchema has to ask Redash; it asks the gate again first.
NeedsFetch(c) ==
    /\ dataSourceID[c] # NoSource /\ gate = "open"
    /\ ~Ready(schemaCache[c]) /\ ~Spent(schemaCache[c])

\* Answered with the schema kept, or with an empty one.
AnswerLocally(c) ==
    /\ st[c] = "local" /\ ~NeedsFetch(c)
    /\ Say(c, "answered", "ready")
    /\ UNCHANGED <<loginVars, dbVars, queryVars, killVars, serverVars, peer,
                   checkerVars>>

\* Get counts the attempt and calls GetSchema.
FetchSchema(c) ==
    /\ st[c] = "local" /\ NeedsFetch(c)
    /\ schemaCache' = [schemaCache EXCEPT ![c] = Attempted(schemaCache[c])]
    /\ Goto(c, "schema")
    /\ UNCHANGED <<loginVars, dataSourceID, queryVars, killVars, serverVars, peer,
                   checkerVars>>

\* GetSchema returned, a schema or an error; the statement is answered with it
\* or with an empty one.
SchemaReturns(c) ==
    /\ st[c] = "schema"
    /\ \/ schemaCache' = [schemaCache EXCEPT ![c] = Fetched(schemaCache[c], dataSourceID[c])]
       \/ UNCHANGED schemaCache
    /\ Say(c, "answered", "ready")
    /\ UNCHANGED <<loginVars, dataSourceID, queryVars, killVars, serverVars, peer,
                   checkerVars>>

\* A remote statement refused: no database, or a write in read-only mode.
RefuseStatement(c) ==
    /\ gate = "open"
    /\ dataSourceID[c] = NoSource \/ ReadOnly
    /\ Answer(c, "answered")
    /\ UNCHANGED <<loginVars, dbVars, queryVars, killVars, serverVars, peer,
                   checkerVars>>

\* executeRemote: the query's context is made and its cancel function set.
Execute(c) ==
    /\ st[c] = "ready" /\ gate = "open" /\ dataSourceID[c] # NoSource
    /\ qctx' = [qctx EXCEPT ![c] = "live"]
    /\ cancelQuery' = [cancelQuery EXCEPT ![c] = "set"]
    /\ Goto(c, "query")
    /\ UNCHANGED <<loginVars, dbVars, result, struck, killVars, serverVars, peer,
                   checkerVars>>

\* Mutant: the query's context is nobody's child.
QueryCtxDoneByKill(c) == qctx[c] = "done"

\* qctx is a child of the connection's context.
QueryCtxDone(c) == qctx[c] = "done" \/ ctx[c] # "live"

\* ExecuteQuery (module QueryCall) returns Redash's answer, or gives up because
\* its context has ended.
QueryReturns(c) ==
    /\ st[c] = "query"
    /\ \E r \in {"rows", "queryError", "outage"} : result' = [result EXCEPT ![c] = r]
    /\ Goto(c, "returned")
    /\ UNCHANGED <<loginVars, dbVars, cancelQuery, qctx, struck, killVars,
                   serverVars, peer, checkerVars>>

QueryAborts(c) ==
    /\ st[c] = "query" /\ QueryCtxDone(c)
    /\ result' = [result EXCEPT ![c] = "aborted"]
    /\ Goto(c, "returned")
    /\ UNCHANGED <<loginVars, dbVars, cancelQuery, qctx, struck, killVars,
                   serverVars, peer, checkerVars>>

\* Mutant: any ended context is an interruption.
VerdictOnAnyEnd(c) ==
    IF result[c] # "rows" /\ QueryCtxDone(c) THEN "interrupted"
    ELSE "answered"

\* What executeRemote and HandleQuery make of what came back: errInterrupted
\* only if the connection's own context is still alive.
Verdict(c) ==
    IF result[c] # "rows" /\ QueryCtxDone(c) /\ ctx[c] = "live" THEN "interrupted"
    ELSE "answered"

\* executeRemote returns and HandleQuery answers; an infrastructure error that
\* was not an interruption asks for a probe.
FinishQuery(c) ==
    /\ st[c] = "returned"
    /\ cancelQuery' = [cancelQuery EXCEPT ![c] = "nil"]
    /\ qctx' = [qctx EXCEPT ![c] = "done"]
    /\ result' = [result EXCEPT ![c] = "none"]
    /\ suspect' = IF Verdict(c) # "interrupted" /\ result[c] = "outage"
                  THEN "token" ELSE suspect
    /\ Say(c, Verdict(c), "ready")
    /\ struck' = [struck EXCEPT ![c] = "no"]
    /\ UNCHANGED <<loginVars, dbVars, killVars, serverVars, peer, gate, registry>>

-----------------------------------------------------------------------------
(* KILL *)

\* handleKill finds the target, or nobody of that id.
KillLookup(c) ==
    /\ st[c] = "ready"
    /\ \/ /\ \E k \in Kills :
               k.target \in conns /\ kill' = [kill EXCEPT ![c] = k]
          /\ Goto(c, "interrupting")
       \/ /\ Say(c, "answered", "ready")
          /\ UNCHANGED kill
    /\ UNCHANGED <<loginVars, dbVars, queryVars, ordered, serverVars, peer,
                   checkerVars>>

\* interrupt, under t's lock.
Interrupt(t) ==
    qctx' = IF cancelQuery[t] = "set" THEN [qctx EXCEPT ![t] = "done"] ELSE qctx

\* Mutant: KILL QUERY is carried out as KILL CONNECTION.
DisconnectsAlways(k) == TRUE

Disconnects(k) == k.what = "connection"

KillInterrupts(c) ==
    LET t == kill[c].target IN
    /\ st[c] = "interrupting"
    /\ Interrupt(t)
    /\ struck' = IF st[t] \in InQuery THEN [struck EXCEPT ![t] = "yes"] ELSE struck
    /\ ordered' = IF kill[c].what = "connection"
                  THEN [ordered EXCEPT ![t] = "yes"] ELSE ordered
    /\ IF Disconnects(kill[c])
       THEN Goto(c, "disconnecting") /\ UNCHANGED kill
       ELSE Say(c, "answered", "ready") /\ kill' = [kill EXCEPT ![c] = NoKill]
    /\ UNCHANGED <<loginVars, dbVars, cancelQuery, result, serverVars, peer,
                   checkerVars>>

\* target.disconnect(): the target's context ends.
Cancelled(t) == IF ctx[t] = "live" THEN "done" ELSE ctx[t]

KillDisconnects(c) ==
    LET t == kill[c].target IN
    /\ st[c] = "disconnecting"
    /\ ctx' = [ctx EXCEPT ![t] = Cancelled(t)]
    /\ kill' = [kill EXCEPT ![c] = NoKill]
    /\ Say(c, "answered", "ready")
    /\ UNCHANGED <<loginVars, dbVars, queryVars, ordered, conns, shutdown, peer,
                   checkerVars>>

-----------------------------------------------------------------------------
(* The end of a connection *)

\* The closer goroutine: connCtx.Done, then conn.Close.
CloseSocket(c) ==
    /\ ctx[c] = "done"
    /\ ctx' = [ctx EXCEPT ![c] = "closed"]
    /\ UNCHANGED <<st, reply, loginVars, dbVars, queryVars, killVars, conns,
                   shutdown, peer, checkerVars>>

\* HandleCommand fails to read: the client left, or the socket is closed.
HangUp(c) ==
    /\ st[c] = "ready"
    /\ peer[c] = "left" \/ ctx[c] = "closed"
    /\ Goto(c, "leaving")
    /\ UNCHANGED <<loginVars, dbVars, queryVars, killVars, serverVars, peer,
                   checkerVars>>

\* handleConn returns: conns.remove, connCancel, conn.Close.  The handler goes
\* with it.
Leave(c) ==
    /\ st[c] = "leaving"
    /\ conns' = conns \ {c}
    /\ ctx' = [ctx EXCEPT ![c] = "closed"]
    /\ dataSourceID' = [dataSourceID EXCEPT ![c] = NoSource]
    /\ schemaCache' = [schemaCache EXCEPT ![c] = EmptyCache]
    /\ Goto(c, "gone")
    /\ UNCHANGED <<loginVars, queryVars, killVars, shutdown, peer,
                   checkerVars>>

\* The client quits or dies, whatever the session is doing.
ClientLeaves(c) ==
    /\ st[c] \notin {"new", "gone"} /\ peer[c] = "here"
    /\ peer' = [peer EXCEPT ![c] = "left"]
    /\ UNCHANGED <<st, reply, loginVars, dbVars, queryVars, killVars, serverVars,
                   checkerVars>>

\* serve() cancels the context every connection's is a child of.
Shutdown ==
    /\ shutdown = "no"
    /\ shutdown' = "yes"
    /\ ctx' = [c \in Conns |-> Cancelled(c)]
    /\ UNCHANGED <<st, reply, loginVars, dbVars, queryVars, killVars, conns, peer,
                   checkerVars>>

\* The checker (module Health) moves the gate, replaces the registry and takes
\* the token.
GateMoves ==
    /\ gate' \in {"open", "closed"} \ {gate}
    /\ UNCHANGED <<st, reply, loginVars, dbVars, queryVars, killVars, serverVars,
                   peer, registry, suspect>>

RegistryReplaced ==
    /\ registry' \in [Names -> Sources \cup {NoSource}] \ {registry}
    /\ UNCHANGED <<st, reply, loginVars, dbVars, queryVars, killVars, serverVars,
                   peer, gate, suspect>>

SuspicionTaken ==
    /\ suspect = "token"
    /\ suspect' = "none"
    /\ UNCHANGED <<st, reply, loginVars, dbVars, queryVars, killVars, serverVars,
                   peer, gate, registry>>

-----------------------------------------------------------------------------
Init ==
    /\ st = [c \in Conns |-> "new"]
    /\ authenticated = [c \in Conns |-> "no"]
    /\ pendingDB = [c \in Conns |-> NoName]
    /\ dataSourceID = [c \in Conns |-> NoSource]
    /\ schemaCache = [c \in Conns |-> EmptyCache]
    /\ cancelQuery = [c \in Conns |-> "nil"]
    /\ qctx = [c \in Conns |-> "done"]
    /\ result = [c \in Conns |-> "none"]
    /\ kill = [c \in Conns |-> NoKill]
    /\ ctx = [c \in Conns |-> "live"]
    /\ conns = {}
    /\ reply = [c \in Conns |-> "none"]
    /\ peer = [c \in Conns |-> "here"]
    /\ gate = "open"
    /\ registry \in [Names -> Sources \cup {NoSource}]
    /\ suspect = "none"
    /\ shutdown = "no"
    /\ struck = [c \in Conns |-> "no"]
    /\ ordered = [c \in Conns |-> "no"]

\* What the session's own goroutine does next without waiting for the client or
\* for Redash: a schema fetch and a handshake end by their timeouts.
Proceed(c) ==
    \/ Register(c) \/ AnswerLocally(c) \/ FetchSchema(c) \/ SchemaReturns(c)
    \/ QueryAborts(c) \/ FinishQuery(c) \/ KillInterrupts(c) \/ KillDisconnects(c)
    \/ HangUp(c) \/ Leave(c)

Handshake(c) == Connect(c) \/ ReadHandshake(c) \/ AuthFails(c) \/ Login(c)

Command(c) ==
    \/ AnswerAtOnce(c) \/ GateRefuses(c) \/ Use(c) \/ BeginLocal(c)
    \/ RefuseStatement(c) \/ Execute(c) \/ KillLookup(c)

Next ==
    \/ \E c \in Conns :
          \/ Proceed(c) \/ HandshakeFails(c) \/ CloseSocket(c)
          \/ Handshake(c) \/ Command(c) \/ QueryReturns(c) \/ ClientLeaves(c)
    \/ Shutdown \/ GateMoves \/ RegistryReplaced \/ SuspicionTaken

\* The goroutines run, and the handshake deadline fires.
Fairness ==
    \A c \in Conns :
        WF_vars(Proceed(c)) /\ WF_vars(HandshakeFails(c)) /\ WF_vars(CloseSocket(c))

Spec == Init /\ [][Next]_vars

FairSpec == Spec /\ Fairness

-----------------------------------------------------------------------------
(* Properties *)

Killing == {"interrupting", "disconnecting"}
Open == {"ready", "local", "schema"} \cup InQuery \cup Killing

SessionTypeOK ==
    /\ st \in [Conns -> Open \cup
                  {"new", "handshake", "auth", "opening", "leaving", "gone"}]
    /\ authenticated \in [Conns -> {"no", "yes"}]
    /\ pendingDB \in [Conns -> Names \cup {NoName}]
    /\ reply \in [Conns -> {"none", "denied", "answered", "interrupted"}]
    /\ peer \in [Conns -> {"here", "left"}]

DbTypeOK ==
    /\ dataSourceID \in [Conns -> Compatible \cup {NoSource}]
    /\ schemaCache \in [Conns -> Caches(Compatible)]

QueryTypeOK ==
    /\ cancelQuery \in [Conns -> {"set", "nil"}]
    /\ qctx \in [Conns -> {"live", "done"}]
    /\ result \in [Conns -> {"none", "rows", "queryError", "outage", "aborted"}]
    /\ struck \in [Conns -> {"no", "yes"}]

KillTypeOK ==
    /\ kill \in [Conns -> Kills \cup {NoKill}]
    /\ ordered \in [Conns -> {"no", "yes"}]

ServerTypeOK ==
    /\ ctx \in [Conns -> {"live", "done", "closed"}]
    /\ conns \subseteq Conns
    /\ gate \in {"open", "closed"}
    /\ registry \in [Names -> Sources \cup {NoSource}]
    /\ suspect \in {"none", "token"}
    /\ shutdown \in {"no", "yes"}

\* The values each variable can take; the schema cache stays within its limit
\* and only MySQL-compatible data sources are selected.
TypeOK == SessionTypeOK /\ DbTypeOK /\ QueryTypeOK /\ KillTypeOK /\ ServerTypeOK

\* A client that has not proved who it is hears "Access denied" and nothing
\* else: not whether Redash is down, nor which data sources there are (UseDB).
NothingBeforeAuth ==
    \A c \in Conns : authenticated[c] = "no" => reply[c] \in {"none", "denied"}

\* "Query execution was interrupted" is said of a query a KILL named while it
\* ran, and never of one that Redash, a shutdown or the client's departure
\* ended (executeRemote).
InterruptedMeansKilled ==
    [][ \A c \in Conns :
            (reply[c] # "interrupted" /\ reply'[c] = "interrupted")
                => struck[c] = "yes" ]_vars

\* KILL QUERY never costs anybody the connection: a context that ended belongs
\* to a session that is over, that a KILL CONNECTION named, or to a server that
\* is shutting down (handleKill).
KillQueryKeepsConnection ==
    \A c \in Conns :
        ctx[c] # "live" =>
            ordered[c] = "yes" \/ shutdown = "yes" \/ st[c] = "gone"

\* The catalog a session answers from is that of the database it is in, after
\* any number of switches and of changes to what a name stands for.
SchemaIsOfCurrentSource ==
    \A c \in Conns :
        Ready(schemaCache[c]) => schemaCache[c].of = dataSourceID[c]

\* A KILL finds nobody who is not there: an entry of the connection table is a
\* session that is past login, and has not released its slot (handleConn).
ListedIsOpen ==
    \A c \in conns : authenticated[c] = "yes" /\ st[c] \in Open \cup {"leaving"}

(* The inductive invariant behind them, part by part. *)

\* Where a session is tells whether its client is known and what is set.
Stage ==
    \A c \in Conns :
        /\ st[c] \in Open \cup {"opening"} => authenticated[c] = "yes"
        /\ cancelQuery[c] = "set" => st[c] \in InQuery
        /\ st[c] \in Killing => kill[c] \in Kills

\* A query's context is done only by a KILL; only a KILL CONNECTION gets as far
\* as disconnecting.
KillsAreTrue ==
    \A c \in Conns :
        /\ (st[c] \in InQuery /\ qctx[c] = "done") => struck[c] = "yes"
        /\ st[c] = "disconnecting" => ordered[kill[c].target] = "yes"

MyInv ==
    /\ TypeOK /\ Stage /\ KillsAreTrue
    /\ NothingBeforeAuth /\ KillQueryKeepsConnection
    /\ SchemaIsOfCurrentSource /\ ListedIsOpen

\* What a KILL strikes ends: a query that is killed stops, however long Redash
\* takes, and a connection that is killed, or whose server shuts down, is
\* released, whatever it is waiting for (executeRemote, handleConn).
KillEnds ==
    \A c \in Conns :
        /\ (st[c] = "query" /\ struck[c] = "yes") ~> (st[c] # "query")
        /\ (st[c] # "new" /\ (ordered[c] = "yes" \/ shutdown = "yes"))
               ~> (st[c] = "gone")
=============================================================================
