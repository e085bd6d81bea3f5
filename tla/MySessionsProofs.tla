-------------------------- MODULE MySessionsProofs --------------------------
(* Theorems about MySessions, for every set of connections, names and data   *)
(* sources and every limit on fetches.                                       *)
EXTENDS MySessions, TLAPS

\* One step of one connection, by action.
Step(c) ==
    \/ Connect(c) \/ ReadHandshake(c) \/ AuthFails(c) \/ Login(c)
    \/ HandshakeFails(c) \/ Register(c) \/ AnswerAtOnce(c) \/ GateRefuses(c)
    \/ Use(c) \/ BeginLocal(c) \/ AnswerLocally(c) \/ FetchSchema(c)
    \/ SchemaReturns(c) \/ RefuseStatement(c) \/ Execute(c) \/ QueryReturns(c)
    \/ QueryAborts(c) \/ FinishQuery(c) \/ KillLookup(c) \/ KillInterrupts(c)
    \/ KillDisconnects(c) \/ CloseSocket(c) \/ HangUp(c) \/ Leave(c)
    \/ ClientLeaves(c)

\* A step belongs to a connection, to the server or to the checker.
LEMMA Steps ==
    ASSUME [Next]_vars
    PROVE  \/ \E c \in Conns : Step(c)
           \/ Shutdown \/ GateMoves \/ RegistryReplaced \/ SuspicionTaken
           \/ UNCHANGED vars
  BY DEF Next, Step, Proceed, Handshake, Command

-----------------------------------------------------------------------------
(* Types *)

\* Sessions move between known places.
LEMMA SessionTypeStep == ASSUME TypeOK, [Next]_vars PROVE SessionTypeOK'
<1> USE DEF TypeOK, SessionTypeOK, Open, InQuery, Killing, loginVars, dbVars, queryVars, killVars, serverVars, checkerVars
<1>1. ASSUME NEW c \in Conns, Step(c) PROVE SessionTypeOK'
  <2>1. CASE \/ Connect(c) \/ HandshakeFails(c) \/ Register(c) \/ BeginLocal(c)
             \/ HangUp(c) \/ Leave(c) \/ FetchSchema(c)
    BY <2>1 DEF Connect, HandshakeFails, Register, BeginLocal, HangUp, Leave, FetchSchema,
       Goto
  <2>2. CASE ReadHandshake(c) \/ AuthFails(c)
    BY <2>2 DEF ReadHandshake, AuthFails, Say, Goto
  <2>3. CASE Login(c)
    BY <2>3 DEF Login, Say, Goto
  <2>4. CASE \/ AnswerAtOnce(c) \/ GateRefuses(c) \/ Use(c) \/ RefuseStatement(c)
    BY <2>4 DEF AnswerAtOnce, GateRefuses, Use, RefuseStatement, Say, Goto, Answer
  <2>5. CASE AnswerLocally(c) \/ SchemaReturns(c)
    BY <2>5 DEF AnswerLocally, SchemaReturns, Say, Goto
  <2>6. CASE Execute(c) \/ QueryReturns(c) \/ QueryAborts(c)
    BY <2>6 DEF Execute, QueryReturns, QueryAborts, Goto
  <2>7. CASE FinishQuery(c)
    BY <2>7 DEF FinishQuery, Say, Goto, Verdict
  <2>8. CASE KillLookup(c) \/ KillInterrupts(c) \/ KillDisconnects(c)
    BY <2>8 DEF KillLookup, KillInterrupts, KillDisconnects, Say, Goto
  <2>9. CASE CloseSocket(c) \/ ClientLeaves(c)
    BY <2>9 DEF CloseSocket, ClientLeaves
  <2>10. QED
    BY <1>1, <2>1, <2>2, <2>3, <2>4, <2>5, <2>6, <2>7, <2>8, <2>9 DEF Step
<1>2. CASE Shutdown \/ GateMoves \/ RegistryReplaced \/ SuspicionTaken
  BY <1>2 DEF Shutdown, GateMoves, RegistryReplaced, SuspicionTaken, Cancelled
<1>3. CASE UNCHANGED vars
  BY <1>3 DEF vars
<1>4. QED
  BY <1>1, <1>2, <1>3, Steps

\* Only data sources this wire can serve are selected, and Get stays within
\* its attempts.
LEMMA DbTypeStep == ASSUME TypeOK, [Next]_vars PROVE DbTypeOK'
<1> USE DEF TypeOK, DbTypeOK, Caches, loginVars, dbVars, queryVars, killVars, serverVars, checkerVars
<1>1. ASSUME NEW c \in Conns, Step(c) PROVE DbTypeOK'
  <2>1. CASE Login(c) \/ Use(c)
    BY <2>1, AttemptsAssumption DEF Login, Use, SwitchDB, UseDB, EmptyCache
  <2>2. CASE FetchSchema(c)
    BY <2>2, AttemptsAssumption DEF FetchSchema, NeedsFetch, Spent, Attempted
  <2>3. CASE SchemaReturns(c)
    BY <2>3 DEF SchemaReturns, Fetched
  <2>4. CASE Leave(c)
    BY <2>4, AttemptsAssumption DEF Leave, EmptyCache
  <2>5. CASE \/ Connect(c) \/ ReadHandshake(c) \/ AuthFails(c) \/ HandshakeFails(c)
             \/ Register(c) \/ AnswerAtOnce(c) \/ GateRefuses(c) \/ BeginLocal(c)
             \/ AnswerLocally(c) \/ RefuseStatement(c) \/ Execute(c) \/ QueryReturns(c)
             \/ QueryAborts(c) \/ FinishQuery(c) \/ KillLookup(c) \/ KillInterrupts(c)
             \/ KillDisconnects(c) \/ CloseSocket(c) \/ HangUp(c) \/ ClientLeaves(c)
    BY <2>5 DEF Connect, ReadHandshake, AuthFails, HandshakeFails, Register, AnswerAtOnce,
       GateRefuses, BeginLocal, AnswerLocally, RefuseStatement, Execute,
       QueryReturns, QueryAborts, FinishQuery, KillLookup, KillInterrupts,
       KillDisconnects, CloseSocket, HangUp, ClientLeaves
  <2>6. QED
    BY <1>1, <2>1, <2>2, <2>3, <2>4, <2>5 DEF Step
<1>2. CASE Shutdown \/ GateMoves \/ RegistryReplaced \/ SuspicionTaken
  BY <1>2 DEF Shutdown, GateMoves, RegistryReplaced, SuspicionTaken, Cancelled
<1>3. CASE UNCHANGED vars
  BY <1>3 DEF vars
<1>4. QED
  BY <1>1, <1>2, <1>3, Steps

\* The fields of a query.
LEMMA QueryTypeStep == ASSUME TypeOK, [Next]_vars PROVE QueryTypeOK'
<1> USE DEF TypeOK, QueryTypeOK, loginVars, dbVars, queryVars, killVars, serverVars, checkerVars
<1>1. ASSUME NEW c \in Conns, Step(c) PROVE QueryTypeOK'
  <2>1. CASE \/ Execute(c) \/ QueryReturns(c) \/ QueryAborts(c) \/ FinishQuery(c)
    BY <2>1 DEF Execute, QueryReturns, QueryAborts, FinishQuery
  <2>2. CASE KillInterrupts(c)
    BY <2>2 DEF KillInterrupts, Interrupt
  <2>3. CASE \/ Connect(c) \/ ReadHandshake(c) \/ AuthFails(c) \/ Login(c)
             \/ HandshakeFails(c) \/ Register(c) \/ AnswerAtOnce(c) \/ GateRefuses(c)
             \/ Use(c) \/ BeginLocal(c) \/ AnswerLocally(c) \/ FetchSchema(c)
             \/ SchemaReturns(c) \/ RefuseStatement(c) \/ KillLookup(c) \/ KillDisconnects(c)
             \/ CloseSocket(c) \/ HangUp(c) \/ Leave(c) \/ ClientLeaves(c)
    BY <2>3 DEF Connect, ReadHandshake, AuthFails, Login, HandshakeFails, Register,
       AnswerAtOnce, GateRefuses, Use, BeginLocal, AnswerLocally,
       FetchSchema, SchemaReturns, RefuseStatement, KillLookup,
       KillDisconnects, CloseSocket, HangUp, Leave, ClientLeaves
  <2>4. QED
    BY <1>1, <2>1, <2>2, <2>3 DEF Step
<1>2. CASE Shutdown \/ GateMoves \/ RegistryReplaced \/ SuspicionTaken
  BY <1>2 DEF Shutdown, GateMoves, RegistryReplaced, SuspicionTaken, Cancelled
<1>3. CASE UNCHANGED vars
  BY <1>3 DEF vars
<1>4. QED
  BY <1>1, <1>2, <1>3, Steps

\* The fields of a KILL.
LEMMA KillTypeStep == ASSUME TypeOK, [Next]_vars PROVE KillTypeOK'
<1> USE DEF TypeOK, KillTypeOK, loginVars, dbVars, queryVars, killVars, serverVars, checkerVars
<1>1. ASSUME NEW c \in Conns, Step(c) PROVE KillTypeOK'
  <2>1. CASE KillLookup(c) \/ KillInterrupts(c) \/ KillDisconnects(c)
    BY <2>1 DEF KillLookup, KillInterrupts, KillDisconnects
  <2>2. CASE \/ Connect(c) \/ ReadHandshake(c) \/ AuthFails(c) \/ Login(c)
             \/ HandshakeFails(c) \/ Register(c) \/ AnswerAtOnce(c) \/ GateRefuses(c)
             \/ Use(c) \/ BeginLocal(c) \/ AnswerLocally(c) \/ FetchSchema(c)
             \/ SchemaReturns(c) \/ RefuseStatement(c) \/ Execute(c) \/ QueryReturns(c)
             \/ QueryAborts(c) \/ FinishQuery(c) \/ CloseSocket(c) \/ HangUp(c)
             \/ Leave(c) \/ ClientLeaves(c)
    BY <2>2 DEF Connect, ReadHandshake, AuthFails, Login, HandshakeFails, Register,
       AnswerAtOnce, GateRefuses, Use, BeginLocal, AnswerLocally,
       FetchSchema, SchemaReturns, RefuseStatement, Execute, QueryReturns,
       QueryAborts, FinishQuery, CloseSocket, HangUp, Leave, ClientLeaves
  <2>3. QED
    BY <1>1, <2>1, <2>2 DEF Step
<1>2. CASE Shutdown \/ GateMoves \/ RegistryReplaced \/ SuspicionTaken
  BY <1>2 DEF Shutdown, GateMoves, RegistryReplaced, SuspicionTaken, Cancelled
<1>3. CASE UNCHANGED vars
  BY <1>3 DEF vars
<1>4. QED
  BY <1>1, <1>2, <1>3, Steps

\* The fields the server and the checker keep.
LEMMA ServerTypeStep == ASSUME TypeOK, [Next]_vars PROVE ServerTypeOK'
<1> USE DEF TypeOK, ServerTypeOK, loginVars, dbVars, queryVars, killVars, serverVars, checkerVars
<1>1. ASSUME NEW c \in Conns, Step(c) PROVE ServerTypeOK'
  <2>1. CASE \/ Register(c) \/ KillDisconnects(c) \/ CloseSocket(c) \/ Leave(c)
    BY <2>1 DEF Register, KillDisconnects, CloseSocket, Leave, Cancelled
  <2>2. CASE FinishQuery(c)
    BY <2>2 DEF FinishQuery
  <2>3. CASE \/ Connect(c) \/ ReadHandshake(c) \/ AuthFails(c) \/ Login(c)
             \/ HandshakeFails(c) \/ AnswerAtOnce(c) \/ GateRefuses(c) \/ Use(c)
             \/ BeginLocal(c) \/ AnswerLocally(c) \/ FetchSchema(c) \/ SchemaReturns(c)
             \/ RefuseStatement(c) \/ Execute(c) \/ QueryReturns(c) \/ QueryAborts(c)
             \/ KillLookup(c) \/ KillInterrupts(c) \/ HangUp(c) \/ ClientLeaves(c)
    BY <2>3 DEF Connect, ReadHandshake, AuthFails, Login, HandshakeFails, AnswerAtOnce,
       GateRefuses, Use, BeginLocal, AnswerLocally, FetchSchema,
       SchemaReturns, RefuseStatement, Execute, QueryReturns, QueryAborts,
       KillLookup, KillInterrupts, HangUp, ClientLeaves
  <2>4. QED
    BY <1>1, <2>1, <2>2, <2>3 DEF Step
<1>2. CASE Shutdown \/ GateMoves \/ RegistryReplaced \/ SuspicionTaken
  BY <1>2 DEF Shutdown, GateMoves, RegistryReplaced, SuspicionTaken, Cancelled
<1>3. CASE UNCHANGED vars
  BY <1>3 DEF vars
<1>4. QED
  BY <1>1, <1>2, <1>3, Steps

LEMMA TypeStep == ASSUME TypeOK, [Next]_vars PROVE TypeOK'
  BY SessionTypeStep, DbTypeStep, QueryTypeStep, KillTypeStep, ServerTypeStep
  DEF TypeOK

-----------------------------------------------------------------------------
(* The invariant *)

\* Where a session is tells what is set.
LEMMA StageStep == ASSUME TypeOK, Stage, [Next]_vars PROVE Stage'
<1> USE DEF TypeOK, SessionTypeOK, QueryTypeOK, KillTypeOK, Stage, Open, InQuery,
    Killing, loginVars, dbVars, queryVars, killVars, serverVars,
    checkerVars
<1>1. ASSUME NEW c \in Conns, Step(c) PROVE Stage'
  <2>1. CASE \/ Connect(c) \/ ReadHandshake(c) \/ AuthFails(c) \/ HandshakeFails(c)
    BY <2>1 DEF Connect, ReadHandshake, AuthFails, HandshakeFails, Say, Goto
  <2>2. CASE Login(c)
    BY <2>2 DEF Login, Say, Goto
  <2>3. CASE \/ Register(c) \/ BeginLocal(c) \/ FetchSchema(c) \/ HangUp(c)
             \/ Leave(c)
    BY <2>3 DEF Register, BeginLocal, FetchSchema, HangUp, Leave, Goto
  <2>4. CASE \/ AnswerAtOnce(c) \/ GateRefuses(c) \/ Use(c) \/ RefuseStatement(c)
    BY <2>4 DEF AnswerAtOnce, GateRefuses, Use, RefuseStatement, Say, Goto, Answer
  <2>5. CASE AnswerLocally(c) \/ SchemaReturns(c)
    BY <2>5 DEF AnswerLocally, SchemaReturns, Say, Goto
  <2>6. CASE Execute(c) \/ QueryReturns(c) \/ QueryAborts(c)
    BY <2>6 DEF Execute, QueryReturns, QueryAborts, Goto
  <2>7. CASE FinishQuery(c)
    BY <2>7 DEF FinishQuery, Say, Goto, Verdict
  <2>8. CASE KillLookup(c)
    BY <2>8 DEF KillLookup, Say, Goto
  <2>9. CASE KillInterrupts(c)
    BY <2>9 DEF KillInterrupts, Say, Goto, Interrupt, Disconnects
  <2>10. CASE KillDisconnects(c)
    BY <2>10 DEF KillDisconnects, Say, Goto, Cancelled
  <2>11. CASE CloseSocket(c) \/ ClientLeaves(c)
    BY <2>11 DEF CloseSocket, ClientLeaves
  <2>12. QED
    BY <1>1, <2>1, <2>2, <2>3, <2>4, <2>5, <2>6, <2>7, <2>8, <2>9, <2>10, <2>11 DEF Step
<1>2. CASE Shutdown \/ GateMoves \/ RegistryReplaced \/ SuspicionTaken
  BY <1>2 DEF Shutdown, GateMoves, RegistryReplaced, SuspicionTaken, Cancelled
<1>3. CASE UNCHANGED vars
  BY <1>3 DEF vars
<1>4. QED
  BY <1>1, <1>2, <1>3, Steps

\* Only a KILL ends a query's context, only a KILL CONNECTION a session's.
LEMMA KillsStep == ASSUME TypeOK, Stage, KillsAreTrue, [Next]_vars PROVE KillsAreTrue'
<1> USE DEF TypeOK, SessionTypeOK, QueryTypeOK, KillTypeOK, Stage, KillsAreTrue, Open,
    InQuery, Killing, Kills, loginVars, dbVars, queryVars, killVars,
    serverVars, checkerVars
<1>1. ASSUME NEW c \in Conns, Step(c) PROVE KillsAreTrue'
  <2>1. CASE \/ Connect(c) \/ ReadHandshake(c) \/ AuthFails(c) \/ HandshakeFails(c)
    BY <2>1 DEF Connect, ReadHandshake, AuthFails, HandshakeFails, Say, Goto
  <2>2. CASE Login(c)
    BY <2>2 DEF Login, Say, Goto
  <2>3. CASE \/ Register(c) \/ BeginLocal(c) \/ FetchSchema(c) \/ HangUp(c)
             \/ Leave(c)
    BY <2>3 DEF Register, BeginLocal, FetchSchema, HangUp, Leave, Goto
  <2>4. CASE \/ AnswerAtOnce(c) \/ GateRefuses(c) \/ Use(c) \/ RefuseStatement(c)
    BY <2>4 DEF AnswerAtOnce, GateRefuses, Use, RefuseStatement, Say, Goto, Answer
  <2>5. CASE AnswerLocally(c) \/ SchemaReturns(c)
    BY <2>5 DEF AnswerLocally, SchemaReturns, Say, Goto
  <2>6. CASE Execute(c) \/ QueryReturns(c) \/ QueryAborts(c)
    BY <2>6 DEF Execute, QueryReturns, QueryAborts, Goto
  <2>7. CASE FinishQuery(c)
    BY <2>7 DEF FinishQuery, Say, Goto, Verdict
  <2>8. CASE KillLookup(c)
    BY <2>8 DEF KillLookup, Say, Goto
  <2>9. CASE KillInterrupts(c)
    BY <2>9 DEF KillInterrupts, Say, Goto, Interrupt, Disconnects
  <2>10. CASE KillDisconnects(c)
    BY <2>10 DEF KillDisconnects, Say, Goto, Cancelled
  <2>11. CASE CloseSocket(c) \/ ClientLeaves(c)
    BY <2>11 DEF CloseSocket, ClientLeaves
  <2>12. QED
    BY <1>1, <2>1, <2>2, <2>3, <2>4, <2>5, <2>6, <2>7, <2>8, <2>9, <2>10, <2>11 DEF Step
<1>2. CASE Shutdown \/ GateMoves \/ RegistryReplaced \/ SuspicionTaken
  BY <1>2 DEF Shutdown, GateMoves, RegistryReplaced, SuspicionTaken, Cancelled
<1>3. CASE UNCHANGED vars
  BY <1>3 DEF vars
<1>4. QED
  BY <1>1, <1>2, <1>3, Steps

\* Nothing is said to a client that is not known.
LEMMA AuthStep == ASSUME TypeOK, Stage, NothingBeforeAuth, [Next]_vars PROVE NothingBeforeAuth'
<1> USE DEF TypeOK, SessionTypeOK, Stage, NothingBeforeAuth, Open, InQuery, Killing,
    loginVars, dbVars, queryVars, killVars, serverVars, checkerVars
<1>1. ASSUME NEW c \in Conns, Step(c) PROVE NothingBeforeAuth'
  <2>1. CASE ReadHandshake(c)
    BY <2>1 DEF ReadHandshake, Say, Goto, UseDB
  <2>2. CASE Connect(c) \/ AuthFails(c) \/ HandshakeFails(c)
    BY <2>2 DEF Connect, AuthFails, HandshakeFails, Say, Goto
  <2>3. CASE Login(c)
    BY <2>3 DEF Login, Say, Goto
  <2>4. CASE \/ Register(c) \/ BeginLocal(c) \/ FetchSchema(c) \/ HangUp(c)
             \/ Leave(c)
    BY <2>4 DEF Register, BeginLocal, FetchSchema, HangUp, Leave, Goto
  <2>5. CASE \/ AnswerAtOnce(c) \/ GateRefuses(c) \/ Use(c) \/ RefuseStatement(c)
    BY <2>5 DEF AnswerAtOnce, GateRefuses, Use, RefuseStatement, Say, Goto, Answer
  <2>6. CASE AnswerLocally(c) \/ SchemaReturns(c)
    BY <2>6 DEF AnswerLocally, SchemaReturns, Say, Goto
  <2>7. CASE Execute(c) \/ QueryReturns(c) \/ QueryAborts(c)
    BY <2>7 DEF Execute, QueryReturns, QueryAborts, Goto
  <2>8. CASE FinishQuery(c)
    BY <2>8 DEF FinishQuery, Say, Goto, Verdict
  <2>9. CASE KillLookup(c)
    BY <2>9 DEF KillLookup, Say, Goto
  <2>10. CASE KillInterrupts(c)
    BY <2>10 DEF KillInterrupts, Say, Goto, Interrupt, Disconnects
  <2>11. CASE KillDisconnects(c)
    BY <2>11 DEF KillDisconnects, Say, Goto, Cancelled
  <2>12. CASE CloseSocket(c) \/ ClientLeaves(c)
    BY <2>12 DEF CloseSocket, ClientLeaves
  <2>13. QED
    BY <1>1, <2>1, <2>2, <2>3, <2>4, <2>5, <2>6, <2>7, <2>8, <2>9, <2>10, <2>11, <2>12 DEF Step
<1>2. CASE Shutdown \/ GateMoves \/ RegistryReplaced \/ SuspicionTaken
  BY <1>2 DEF Shutdown, GateMoves, RegistryReplaced, SuspicionTaken, Cancelled
<1>3. CASE UNCHANGED vars
  BY <1>3 DEF vars
<1>4. QED
  BY <1>1, <1>2, <1>3, Steps

\* A context ends for a reason.
LEMMA ContextStep == ASSUME TypeOK, Stage, KillsAreTrue, KillQueryKeepsConnection, [Next]_vars PROVE KillQueryKeepsConnection'
<1> USE DEF TypeOK, SessionTypeOK, KillTypeOK, ServerTypeOK, Stage, KillsAreTrue,
    KillQueryKeepsConnection, Open, InQuery, Killing, Kills, loginVars,
    dbVars, queryVars, killVars, serverVars, checkerVars
<1>1. ASSUME NEW c \in Conns, Step(c) PROVE KillQueryKeepsConnection'
  <2>1. CASE \/ Connect(c) \/ ReadHandshake(c) \/ AuthFails(c) \/ HandshakeFails(c)
    BY <2>1 DEF Connect, ReadHandshake, AuthFails, HandshakeFails, Say, Goto
  <2>2. CASE Login(c)
    BY <2>2 DEF Login, Say, Goto
  <2>3. CASE \/ Register(c) \/ BeginLocal(c) \/ FetchSchema(c) \/ HangUp(c)
             \/ Leave(c)
    BY <2>3 DEF Register, BeginLocal, FetchSchema, HangUp, Leave, Goto
  <2>4. CASE \/ AnswerAtOnce(c) \/ GateRefuses(c) \/ Use(c) \/ RefuseStatement(c)
    BY <2>4 DEF AnswerAtOnce, GateRefuses, Use, RefuseStatement, Say, Goto, Answer
  <2>5. CASE AnswerLocally(c) \/ SchemaReturns(c)
    BY <2>5 DEF AnswerLocally, SchemaReturns, Say, Goto
  <2>6. CASE Execute(c) \/ QueryReturns(c) \/ QueryAborts(c)
    BY <2>6 DEF Execute, QueryReturns, QueryAborts, Goto
  <2>7. CASE FinishQuery(c)
    BY <2>7 DEF FinishQuery, Say, Goto, Verdict
  <2>8. CASE KillLookup(c)
    BY <2>8 DEF KillLookup, Say, Goto
  <2>9. CASE KillInterrupts(c)
    BY <2>9 DEF KillInterrupts, Say, Goto, Interrupt, Disconnects
  <2>10. CASE KillDisconnects(c)
    BY <2>10 DEF KillDisconnects, Say, Goto, Cancelled
  <2>11. CASE CloseSocket(c) \/ ClientLeaves(c)
    BY <2>11 DEF CloseSocket, ClientLeaves
  <2>12. QED
    BY <1>1, <2>1, <2>2, <2>3, <2>4, <2>5, <2>6, <2>7, <2>8, <2>9, <2>10, <2>11 DEF Step
<1>2. CASE Shutdown \/ GateMoves \/ RegistryReplaced \/ SuspicionTaken
  BY <1>2 DEF Shutdown, GateMoves, RegistryReplaced, SuspicionTaken, Cancelled
<1>3. CASE UNCHANGED vars
  BY <1>3 DEF vars
<1>4. QED
  BY <1>1, <1>2, <1>3, Steps

\* The schema kept is the current data source's.
LEMMA SchemaStep == ASSUME TypeOK, SchemaIsOfCurrentSource, [Next]_vars PROVE SchemaIsOfCurrentSource'
<1> USE DEF TypeOK, DbTypeOK, Caches, SchemaIsOfCurrentSource, Ready, loginVars,
    dbVars, queryVars, killVars, serverVars, checkerVars
<1>1. ASSUME NEW c \in Conns, Step(c) PROVE SchemaIsOfCurrentSource'
  <2>1. CASE Login(c) \/ Use(c)
    BY <2>1 DEF Login, Use, SwitchDB, EmptyCache
  <2>2. CASE FetchSchema(c)
    BY <2>2 DEF FetchSchema, Attempted
  <2>3. CASE SchemaReturns(c)
    BY <2>3 DEF SchemaReturns, Fetched
  <2>4. CASE Leave(c)
    BY <2>4 DEF Leave, EmptyCache
  <2>5. CASE \/ Connect(c) \/ ReadHandshake(c) \/ AuthFails(c) \/ HandshakeFails(c)
             \/ Register(c) \/ AnswerAtOnce(c) \/ GateRefuses(c) \/ BeginLocal(c)
             \/ AnswerLocally(c) \/ RefuseStatement(c) \/ Execute(c) \/ QueryReturns(c)
             \/ QueryAborts(c) \/ FinishQuery(c) \/ KillLookup(c) \/ KillInterrupts(c)
             \/ KillDisconnects(c) \/ CloseSocket(c) \/ HangUp(c) \/ ClientLeaves(c)
    BY <2>5 DEF Connect, ReadHandshake, AuthFails, HandshakeFails, Register, AnswerAtOnce,
       GateRefuses, BeginLocal, AnswerLocally, RefuseStatement, Execute,
       QueryReturns, QueryAborts, FinishQuery, KillLookup, KillInterrupts,
       KillDisconnects, CloseSocket, HangUp, ClientLeaves
  <2>6. QED
    BY <1>1, <2>1, <2>2, <2>3, <2>4, <2>5 DEF Step
<1>2. CASE Shutdown \/ GateMoves \/ RegistryReplaced \/ SuspicionTaken
  BY <1>2 DEF Shutdown, GateMoves, RegistryReplaced, SuspicionTaken, Cancelled
<1>3. CASE UNCHANGED vars
  BY <1>3 DEF vars
<1>4. QED
  BY <1>1, <1>2, <1>3, Steps

\* Who is in the table is there.
LEMMA TableStep == ASSUME TypeOK, Stage, ListedIsOpen, [Next]_vars PROVE ListedIsOpen'
<1> USE DEF TypeOK, SessionTypeOK, ServerTypeOK, Stage, ListedIsOpen, Open, InQuery,
    Killing, loginVars, dbVars, queryVars, killVars, serverVars,
    checkerVars
<1>1. ASSUME NEW c \in Conns, Step(c) PROVE ListedIsOpen'
  <2>1. CASE \/ Connect(c) \/ ReadHandshake(c) \/ AuthFails(c) \/ HandshakeFails(c)
    BY <2>1 DEF Connect, ReadHandshake, AuthFails, HandshakeFails, Say, Goto
  <2>2. CASE Login(c)
    BY <2>2 DEF Login, Say, Goto
  <2>3. CASE \/ Register(c) \/ BeginLocal(c) \/ FetchSchema(c) \/ HangUp(c)
             \/ Leave(c)
    BY <2>3 DEF Register, BeginLocal, FetchSchema, HangUp, Leave, Goto
  <2>4. CASE \/ AnswerAtOnce(c) \/ GateRefuses(c) \/ Use(c) \/ RefuseStatement(c)
    BY <2>4 DEF AnswerAtOnce, GateRefuses, Use, RefuseStatement, Say, Goto, Answer
  <2>5. CASE AnswerLocally(c) \/ SchemaReturns(c)
    BY <2>5 DEF AnswerLocally, SchemaReturns, Say, Goto
  <2>6. CASE Execute(c) \/ QueryReturns(c) \/ QueryAborts(c)
    BY <2>6 DEF Execute, QueryReturns, QueryAborts, Goto
  <2>7. CASE FinishQuery(c)
    BY <2>7 DEF FinishQuery, Say, Goto, Verdict
  <2>8. CASE KillLookup(c)
    BY <2>8 DEF KillLookup, Say, Goto
  <2>9. CASE KillInterrupts(c)
    BY <2>9 DEF KillInterrupts, Say, Goto, Interrupt, Disconnects
  <2>10. CASE KillDisconnects(c)
    BY <2>10 DEF KillDisconnects, Say, Goto, Cancelled
  <2>11. CASE CloseSocket(c) \/ ClientLeaves(c)
    BY <2>11 DEF CloseSocket, ClientLeaves
  <2>12. QED
    BY <1>1, <2>1, <2>2, <2>3, <2>4, <2>5, <2>6, <2>7, <2>8, <2>9, <2>10, <2>11 DEF Step
<1>2. CASE Shutdown \/ GateMoves \/ RegistryReplaced \/ SuspicionTaken
  BY <1>2 DEF Shutdown, GateMoves, RegistryReplaced, SuspicionTaken, Cancelled
<1>3. CASE UNCHANGED vars
  BY <1>3 DEF vars
<1>4. QED
  BY <1>1, <1>2, <1>3, Steps

\* The invariant holds at the start and is kept by every step.
LEMMA MyInvInit == ASSUME Init PROVE MyInv
<1> USE AttemptsAssumption, MySessionsAssumption DEF Init
<1>1. TypeOK
  BY DEF TypeOK, SessionTypeOK, DbTypeOK, QueryTypeOK, KillTypeOK, ServerTypeOK,
     Caches, EmptyCache, Open
<1>2. Stage /\ KillsAreTrue
  BY DEF Stage, KillsAreTrue, Open, InQuery, Killing
<1>3. NothingBeforeAuth /\ KillQueryKeepsConnection /\ ListedIsOpen
  BY DEF NothingBeforeAuth, KillQueryKeepsConnection, ListedIsOpen
<1>4. SchemaIsOfCurrentSource
  BY DEF SchemaIsOfCurrentSource, EmptyCache, Ready
<1>5. QED
  BY <1>1, <1>2, <1>3, <1>4 DEF MyInv

LEMMA MyInvStep == ASSUME MyInv, [Next]_vars PROVE MyInv'
  BY TypeStep, StageStep, KillsStep, AuthStep, ContextStep, SchemaStep, TableStep
  DEF MyInv

-----------------------------------------------------------------------------
(* Theorems *)

\* Every reachable state of every number of sessions satisfies the invariant.
THEOREM Invariance == Spec => []MyInv
  BY MyInvInit, MyInvStep, PTL DEF Spec

\* A client that has not proved who it is hears nothing but "Access denied".
THEOREM Silence == Spec => []NothingBeforeAuth
<1>1. MyInv => NothingBeforeAuth
  BY DEF MyInv
<1>2. QED
  BY <1>1, Invariance, PTL

\* KILL QUERY never costs anybody the connection.
THEOREM KillQueryIsGentle == Spec => []KillQueryKeepsConnection
<1>1. MyInv => KillQueryKeepsConnection
  BY DEF MyInv
<1>2. QED
  BY <1>1, Invariance, PTL

\* The catalog a session answers from is that of the database it is in.
THEOREM CatalogIsCurrent == Spec => []SchemaIsOfCurrentSource
<1>1. MyInv => SchemaIsOfCurrentSource
  BY DEF MyInv
<1>2. QED
  BY <1>1, Invariance, PTL

\* The connection table lists sessions that are past login and still there.
THEOREM TableIsLive == Spec => []ListedIsOpen
<1>1. MyInv => ListedIsOpen
  BY DEF MyInv
<1>2. QED
  BY <1>1, Invariance, PTL

\* A step that says "interrupted" is that of a query a KILL named.
LEMMA InterruptedStep ==
    ASSUME MyInv, [Next]_vars, NEW d \in Conns,
           reply[d] # "interrupted", reply'[d] = "interrupted"
    PROVE  struck[d] = "yes"
<1> USE DEF MyInv, TypeOK, SessionTypeOK
<1>1. ASSUME NEW c \in Conns, Step(c), ~FinishQuery(c) PROVE FALSE
  BY <1>1 DEF Step, Connect, ReadHandshake, AuthFails, Login, HandshakeFails,
     Register, AnswerAtOnce, GateRefuses, Use, BeginLocal, AnswerLocally,
     FetchSchema, SchemaReturns, RefuseStatement, Execute, QueryReturns,
     QueryAborts, KillLookup, KillInterrupts, KillDisconnects, CloseSocket, HangUp,
     Leave, ClientLeaves, Say, Goto, Answer
<1>2. ASSUME NEW c \in Conns, FinishQuery(c) PROVE struck[d] = "yes"
  <2>1. c = d /\ st[d] = "returned" /\ Verdict(d) = "interrupted"
    BY <1>2 DEF FinishQuery, Say, Goto
  <2>2. qctx[d] = "done"
    BY <2>1 DEF Verdict, QueryCtxDone
  <2>3. QED
    BY <2>1, <2>2 DEF KillsAreTrue, InQuery
<1>3. CASE Shutdown \/ GateMoves \/ RegistryReplaced \/ SuspicionTaken \/ UNCHANGED vars
  BY <1>3 DEF Shutdown, GateMoves, RegistryReplaced, SuspicionTaken, vars
<1>4. QED
  BY <1>1, <1>2, <1>3, Steps

\* "Query execution was interrupted" is only ever said of a query a KILL named.
THEOREM InterruptionIsAKill == Spec => InterruptedMeansKilled
<1>1. MyInv /\ [Next]_vars =>
        [\A c \in Conns : (reply[c] # "interrupted" /\ reply'[c] = "interrupted")
                              => struck[c] = "yes"]_vars
  BY InterruptedStep
<1>2. QED
  BY <1>1, Invariance, PTL DEF Spec, InterruptedMeansKilled
=============================================================================
