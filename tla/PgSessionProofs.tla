-------------------------- MODULE PgSessionProofs --------------------------
(***************************************************************************)
(* PgSession for any number of messages, CancelRequests and buffer sizes:  *)
(* the socket has one reader at a time, no message is lost or seen twice,  *)
(* and each has exactly the replies the protocol gives it.                 *)
(***************************************************************************)
EXTENDS PgSession, FiniteSetTheorems, TLAPS

\* A session starts with no watcher and under the handshake deadline.
LEMMA InitReaderInv == Init => ReaderInv
BY DEF Init, ReaderInv

\* Every step of every goroutine keeps the reader's invariant.
LEMMA NextReaderInv ==
    ASSUME ReaderInv, [Next]_vars
    PROVE  ReaderInv'
<1> USE DEF ReaderInv
<1>1. CASE StartupDone
  BY <1>1 DEF StartupDone, queryVars, watchVars
<1>2. CASE StartupRefused
  BY <1>2 DEF StartupRefused, queryVars, watchVars
<1>3. CASE StartupFails
  BY <1>3 DEF StartupFails, queryVars, watchVars
<1>4. CASE FillFromUnread
  BY <1>4 DEF FillFromUnread, queryVars, watchVars
<1>5. CASE FillFromSocket
  BY <1>5 DEF FillFromSocket, queryVars, watchVars
<1>6. CASE ReceiveFails
  BY <1>6 DEF ReceiveFails, queryVars, watchVars
<1>7. CASE HandleTerminate
  BY <1>7 DEF HandleTerminate, Take, queryVars, watchVars
<1>8. CASE HandleExtended
  BY <1>8 DEF HandleExtended, Take, queryVars, watchVars
<1>9. CASE HandleSync
  BY <1>9 DEF HandleSync, Take, queryVars, watchVars
<1>10. CASE HandleOther
  BY <1>10 DEF HandleOther, Take, queryVars, watchVars
<1>11. CASE AnswerAtOnce
  BY <1>11 DEF AnswerAtOnce, Take, queryVars, watchVars
<1>12. CASE FetchSchema
  BY <1>12 DEF FetchSchema, Take, watchVars
<1>13. CASE SchemaFetched
  BY <1>13 DEF SchemaFetched, watchVars
<1>14. CASE ExecuteQuery
  BY <1>14 DEF ExecuteQuery, Take
<1>15. CASE QueryAborts
  BY <1>15 DEF QueryAborts, watchVars
<1>16. CASE QueryEnds
  BY <1>16 DEF QueryEnds, WatcherGone, watchVars
<1>17. CASE QueryReturns
  BY <1>17 DEF QueryReturns, watchVars
<1>18. CASE WatchReads
  BY <1>18 DEF WatchReads, queryVars
<1>19. CASE WatchPushes
  BY <1>19 DEF WatchPushes, pushBack, queryVars
<1>20. CASE WatchSeesEnd
  BY <1>20 DEF WatchSeesEnd, queryVars
<1>21. CASE WatchTimesOut
  BY <1>21 DEF WatchTimesOut, queryVars
<1>22. CASE CancelLooksUp
  BY <1>22 DEF CancelLooksUp, queryVars, watchVars
<1>23. CASE CancelFires
  BY <1>23 DEF CancelFires, queryVars, watchVars
<1>24. CASE Shutdown
  BY <1>24 DEF Shutdown, queryVars, watchVars
<1>25. CASE CloserCloses
  BY <1>25 DEF CloserCloses, queryVars, watchVars
<1>26. CASE ClientSends
  BY <1>26 DEF ClientSends, queryVars, watchVars
<1>27. CASE ClientCloses
  BY <1>27 DEF ClientCloses, queryVars, watchVars
<1>28. CASE GateMoves
  BY <1>28 DEF GateMoves, queryVars, watchVars
<1>29. CASE UNCHANGED vars
  BY <1>29 DEF vars, queryVars, watchVars
<1> QED
  BY <1>1, <1>2, <1>3, <1>4, <1>5, <1>6, <1>7, <1>8, <1>9, <1>10, <1>11, <1>12,
     <1>13, <1>14, <1>15, <1>16, <1>17, <1>18, <1>19, <1>20, <1>21, <1>22,
     <1>23, <1>24, <1>25, <1>26, <1>27, <1>28, <1>29
     DEF Next, Main, Watcher

\* The main loop reads the socket only when the watcher has gone and its deadline
\* is cleared (executeQuery, watchDisconnect and its stop function), however the
\* query ended and however many messages arrived meanwhile.
THEOREM OneReaderAtATime == Spec => []OneReader
<1>1. ReaderInv /\ [Next]_vars => ReaderInv'
  BY NextReaderInv
<1>2. ReaderInv => OneReader
  BY DEF ReaderInv, OneReader
<1> QED BY InitReaderInv, <1>1, <1>2, PTL DEF Spec

-----------------------------------------------------------------------------
(* Types *)

\* The two parts a read splits a buffer into.
LEMMA Split ==
    ASSUME NEW S, NEW s \in Seq(S), NEW n \in 1..Len(s)
    PROVE  /\ SubSeq(s, 1, n) \in Seq(S) /\ SubSeq(s, n + 1, Len(s)) \in Seq(S)
           /\ Len(SubSeq(s, 1, n)) = n /\ Len(SubSeq(s, n + 1, Len(s))) = Len(s) - n
           /\ \A k \in 1..n : SubSeq(s, 1, n)[k] = s[k]
           /\ \A k \in 1..(Len(s) - n) : SubSeq(s, n + 1, Len(s))[k] = s[n + k]
  OBVIOUS

\* A message the main loop takes is one of the client's.
LEMMA TakeTypes ==
    ASSUME TypeOK, NEW i \in DOMAIN sent, NEW t, Take(i, t)
    PROVE  /\ i \in Msgs /\ i # 0 /\ pc = "receive"
           /\ rbuf' \in Seq(Msgs) /\ taken' \in Seq(Msgs)
           /\ ErrorTo(i) \in ReplySet /\ ReadyTo(i) \in ReplySet
<1>1. rbuf \in Seq(Msgs) /\ taken \in Seq(Msgs) /\ rbuf # <<>>
  BY DEF TypeOK, Take
<1>2. i \in Msgs
  BY <1>1 DEF Take
<1>3. rbuf' \in Seq(Msgs) /\ taken' \in Seq(Msgs)
  BY <1>1, <1>2 DEF Take
<1>4. QED
  BY <1>2, <1>3, SessionAssumption DEF Take, ErrorTo, ReadyTo, ReplySet, Msgs

LEMMA TypeInit == Init => TypeOK /\ HeldInv
<1> SUFFICES ASSUME Init PROVE TypeOK /\ HeldInv
  OBVIOUS
<1>1. /\ rbuf \in Seq(Msgs) /\ unread \in Seq(Msgs) /\ chunk \in Seq(Msgs)
      /\ sent \in Seq(ClientTypes) /\ sock \in Seq(Msgs)
      /\ taken \in Seq(Msgs) /\ out \in Seq(ReplySet)
  BY DEF Init
<1>2. cancels \in 0..MaxCancels
  BY SessionAssumption DEF Init
<1>3. QED
  BY <1>1, <1>2 DEF Init, TypeOK, HeldInv

LEMMA TypeStep ==
    ASSUME TypeOK, ReaderInv, HeldInv, [Next]_vars
    PROVE  TypeOK' /\ HeldInv'
<1> USE DEF TypeOK, HeldInv, readerVars, queryVars, watchVars, cancelVars, clientVars
<1>1. CASE StartupDone
  BY <1>1 DEF StartupDone
<1>2. CASE StartupRefused
  BY <1>2 DEF StartupRefused
<1>3. CASE StartupFails
  BY <1>3 DEF StartupFails
<1>4. CASE FillFromUnread
  BY <1>4, Split DEF FillFromUnread
<1>5. CASE FillFromSocket
  BY <1>5, Split DEF FillFromSocket
<1>6. CASE ReceiveFails
  BY <1>6 DEF ReceiveFails
<1>7. CASE HandleTerminate
  BY <1>7, TakeTypes DEF HandleTerminate
<1>8. CASE HandleExtended
  <2>1. PICK i \in DOMAIN sent : /\ Take(i, "extended")
                                 /\ out' = IF extendedErr THEN out ELSE Append(out, ErrorTo(i))
    BY <1>8 DEF HandleExtended
  <2>2. out' \in Seq(ReplySet) /\ rbuf' \in Seq(Msgs)
        /\ taken' \in Seq(Msgs)
    BY <2>1, TakeTypes
  <2>3. QED
    BY <1>8, <2>2 DEF HandleExtended
<1>9. CASE HandleSync
  <2>1. PICK i \in DOMAIN sent : Take(i, "sync") /\ out' = Append(out, ReadyTo(i))
    BY <1>9 DEF HandleSync
  <2>2. out' \in Seq(ReplySet) /\ rbuf' \in Seq(Msgs)
        /\ taken' \in Seq(Msgs)
    BY <2>1, TakeTypes
  <2>3. /\ extendedErr' \in BOOLEAN /\ pc' \in {"closed", "receive"}
        /\ UNCHANGED <<unread, ds, deadline, queryVars, watchVars, cancelled, ctx,
                        cancelVars, up, suspect, clientVars>>
    BY <1>9 DEF HandleSync
  <2>4. QED
    BY <2>2, <2>3
<1>10. CASE HandleOther
  <2>1. PICK i \in DOMAIN sent : /\ Take(i, "other")
                                 /\ out' = IF extendedErr THEN out
                                           ELSE out \o <<ErrorTo(i), ReadyTo(i)>>
    BY <1>10 DEF HandleOther
  <2>2. out' \in Seq(ReplySet) /\ rbuf' \in Seq(Msgs)
        /\ taken' \in Seq(Msgs)
    BY <2>1, TakeTypes
  <2>3. QED
    BY <1>10, <2>2 DEF HandleOther
<1>11. CASE AnswerAtOnce
  <2>1. PICK i \in DOMAIN sent, t \in Queries : Take(i, t) /\ out' = Append(out, ReadyTo(i))
    BY <1>11 DEF AnswerAtOnce
  <2>2. out' \in Seq(ReplySet) /\ rbuf' \in Seq(Msgs)
        /\ taken' \in Seq(Msgs)
    BY <2>1, TakeTypes
  <2>3. suspect' \in BOOLEAN
    BY <1>11 DEF AnswerAtOnce
  <2>4. /\ extendedErr' \in BOOLEAN
        /\ UNCHANGED <<pc, unread, ds, deadline, queryVars, watchVars, cancelled, ctx,
                        cancelVars, up, clientVars>>
    BY <1>11 DEF AnswerAtOnce
  <2>5. QED
    BY <2>2, <2>3, <2>4
<1>12. CASE FetchSchema
  <2>1. PICK i \in DOMAIN sent : Take(i, "catalog") /\ current' = i
    BY <1>12 DEF FetchSchema
  <2>2. i \in Msgs /\ i # 0 /\ rbuf' \in Seq(Msgs) /\ taken' \in Seq(Msgs)
    BY <2>1, TakeTypes
  <2>3. /\ extendedErr' \in BOOLEAN /\ pc' = "fetching"
        /\ UNCHANGED <<unread, ds, deadline, queryCancel, res, watchVars, cancelled, ctx,
                        cancelVars, up, suspect, clientVars, out>>
    BY <1>12 DEF FetchSchema
  <2>4. QED
    BY <2>1, <2>2, <2>3
<1>13. CASE SchemaFetched
  <2>1. Append(out, Reply("ready")) \in Seq(ReplySet)
    BY <1>13 DEF SchemaFetched, Reply, ReplySet
  <2>2. QED
    BY <1>13, <2>1 DEF SchemaFetched
<1>14. CASE ExecuteQuery
  <2>1. PICK i \in DOMAIN sent, t \in {"read", "write"} :
           Take(i, t) /\ current' = i /\ queryCancel' = i
    BY <1>14 DEF ExecuteQuery
  <2>2. i \in Msgs /\ i # 0 /\ rbuf' \in Seq(Msgs) /\ taken' \in Seq(Msgs) /\ pc = "receive"
    BY <2>1, TakeTypes
  <2>3. chunk = <<>>
    BY <2>2 DEF ReaderInv
  <2>4. /\ extendedErr' \in BOOLEAN /\ pc' = "querying" /\ watcher' = "reading"
        /\ UNCHANGED <<unread, ds, deadline, res, chunk, cancelled, ctx, cancelVars, up,
                        suspect, clientVars, out>>
    BY <1>14 DEF ExecuteQuery
  <2>5. QED
    BY <2>1, <2>2, <2>3, <2>4
<1>15. CASE QueryAborts
  BY <1>15 DEF QueryAborts
<1>16. CASE QueryEnds
  <2>1. Append(out, Reply("ready")) \in Seq(ReplySet)
    BY <1>16 DEF QueryEnds, Reply, ReplySet
  <2>2. suspect' \in BOOLEAN /\ cancelled' \subseteq Msgs
    BY <1>16 DEF QueryEnds
  <2>3. QED
    BY <1>16, <2>1, <2>2 DEF QueryEnds
<1>17. CASE QueryReturns
  BY <1>17 DEF QueryReturns
<1>18. CASE WatchReads
  BY <1>18, Split DEF WatchReads
<1>19. CASE WatchPushes
  BY <1>19 DEF WatchPushes, pushBack
<1>20. CASE WatchSeesEnd
  <2>1. cancelled' \subseteq Msgs
    BY <1>20 DEF WatchSeesEnd, ReaderInv
  <2>2. QED
    BY <1>20, <2>1 DEF WatchSeesEnd, ReaderInv
<1>21. CASE WatchTimesOut
  BY <1>21 DEF WatchTimesOut
<1>22. CASE CancelLooksUp
  BY <1>22, SessionAssumption DEF CancelLooksUp
<1>23. CASE CancelFires
  BY <1>23 DEF CancelFires
<1>24. CASE Shutdown
  BY <1>24 DEF Shutdown
<1>25. CASE CloserCloses
  BY <1>25 DEF CloserCloses
<1>26. CASE ClientSends
  <2>1. sent' \in Seq(ClientTypes) /\ sock' \in Seq(Msgs)
    BY <1>26, SessionAssumption DEF ClientSends, Msgs
  <2>2. QED
    BY <1>26, <2>1 DEF ClientSends
<1>27. CASE ClientCloses
  BY <1>27 DEF ClientCloses
<1>28. CASE GateMoves
  BY <1>28 DEF GateMoves
<1>29. CASE UNCHANGED vars
  BY <1>29 DEF vars
<1> QED
  BY <1>1, <1>2, <1>3, <1>4, <1>5, <1>6, <1>7, <1>8, <1>9, <1>10, <1>11, <1>12,
     <1>13, <1>14, <1>15, <1>16, <1>17, <1>18, <1>19, <1>20, <1>21, <1>22,
     <1>23, <1>24, <1>25, <1>26, <1>27, <1>28, <1>29
     DEF Next, Main, Watcher

\* Every variable keeps its type: queries, cancel functions and replies are of
\* messages the client sent.
THEOREM SessionTypeCorrect == Spec => []TypeOK
<1>1. TypeOK /\ ReaderInv /\ HeldInv /\ [Next]_vars => (TypeOK /\ ReaderInv /\ HeldInv)'
  BY TypeStep, NextReaderInv
<1> QED BY TypeInit, InitReaderInv, <1>1, PTL DEF Spec

-----------------------------------------------------------------------------
(* The client's bytes *)

Elems(s) == {s[k] : k \in DOMAIN s}

\* Reading, taking, appending and pushing back move elements and keep them.
LEMMA ElemsSplit ==
    ASSUME NEW S, NEW s \in Seq(S), NEW n \in 1..Len(s)
    PROVE  Elems(s) = Elems(SubSeq(s, 1, n)) \cup Elems(SubSeq(s, n + 1, Len(s)))
<1> DEFINE a == SubSeq(s, 1, n)
           b == SubSeq(s, n + 1, Len(s))
<1>1. /\ DOMAIN a = 1..n /\ DOMAIN b = 1..(Len(s) - n) /\ DOMAIN s = 1..Len(s)
      /\ \A k \in 1..n : a[k] = s[k]
      /\ \A k \in 1..(Len(s) - n) : b[k] = s[n + k]
  BY Split
<1> HIDE DEF a, b
<1>2. \A x \in Elems(s) : x \in Elems(a) \cup Elems(b)
  <2> TAKE x \in Elems(s)
  <2>1. PICK k \in 1..Len(s) : x = s[k]
    BY <1>1 DEF Elems
  <2>2. CASE k <= n
    BY <1>1, <2>1, <2>2 DEF Elems
  <2>3. CASE k > n
    <3>1. k - n \in 1..(Len(s) - n) /\ b[k - n] = s[n + (k - n)] /\ n + (k - n) = k
      BY <1>1, <2>3
    <3>2. QED
      BY <1>1, <2>1, <3>1 DEF Elems
  <2>4. QED
    BY <2>2, <2>3
<1>3. \A x \in Elems(a) \cup Elems(b) : x \in Elems(s)
  BY <1>1 DEF Elems
<1>4. QED
  BY <1>2, <1>3 DEF a, b

LEMMA ElemsConcat ==
    ASSUME NEW S, NEW s \in Seq(S), NEW t \in Seq(S)
    PROVE  /\ s \o t \in Seq(S) /\ Len(s \o t) = Len(s) + Len(t)
           /\ Elems(s \o t) = Elems(s) \cup Elems(t)
<1>1. /\ s \o t \in Seq(S) /\ Len(s \o t) = Len(s) + Len(t)
      /\ DOMAIN (s \o t) = 1..(Len(s) + Len(t))
      /\ \A k \in 1..Len(s) : (s \o t)[k] = s[k]
      /\ \A k \in 1..Len(t) : (s \o t)[Len(s) + k] = t[k]
  OBVIOUS
<1>2. \A x \in Elems(s \o t) : x \in Elems(s) \cup Elems(t)
  <2> TAKE x \in Elems(s \o t)
  <2>1. PICK k \in 1..(Len(s) + Len(t)) : x = (s \o t)[k]
    BY <1>1 DEF Elems
  <2>2. CASE k <= Len(s)
    BY <1>1, <2>1, <2>2 DEF Elems
  <2>3. CASE k > Len(s)
    <3>1. k - Len(s) \in 1..Len(t) /\ Len(s) + (k - Len(s)) = k
      BY <2>3
    <3>2. x = t[k - Len(s)]
      BY <1>1, <2>1, <3>1
    <3>3. QED
      BY <3>1, <3>2 DEF Elems
  <2>4. QED
    BY <2>2, <2>3
<1>3. \A x \in Elems(s) \cup Elems(t) : x \in Elems(s \o t)
  <2>1. ASSUME NEW x \in Elems(s) PROVE x \in Elems(s \o t)
    <3>1. PICK k \in 1..Len(s) : x = s[k]
      BY DEF Elems
    <3>2. k \in DOMAIN (s \o t) /\ x = (s \o t)[k]
      BY <1>1, <3>1
    <3>3. QED
      BY <3>2 DEF Elems
  <2>2. ASSUME NEW x \in Elems(t) PROVE x \in Elems(s \o t)
    <3>1. PICK k \in 1..Len(t) : x = t[k]
      BY DEF Elems
    <3>2. Len(s) + k \in DOMAIN (s \o t) /\ x = (s \o t)[Len(s) + k]
      BY <1>1, <3>1
    <3>3. QED
      BY <3>2 DEF Elems
  <2>3. QED
    BY <2>1, <2>2
<1>4. QED
  BY <1>1, <1>2, <1>3

LEMMA ElemsAppend ==
    ASSUME NEW S, NEW s \in Seq(S), NEW e \in S
    PROVE  /\ Append(s, e) \in Seq(S) /\ Len(Append(s, e)) = Len(s) + 1
           /\ Elems(Append(s, e)) = Elems(s) \cup {e}
<1>1. Append(s, e) = s \o <<e>> /\ <<e>> \in Seq(S) /\ Len(<<e>>) = 1
  OBVIOUS
<1>2. Elems(<<e>>) = {e}
  BY DEF Elems
<1>3. Elems(s \o <<e>>) = Elems(s) \cup Elems(<<e>>)
  BY <1>1, ElemsConcat
<1>4. Append(s, e) \in Seq(S) /\ Len(Append(s, e)) = Len(s) + 1
  OBVIOUS
<1>5. QED
  BY <1>1, <1>2, <1>3, <1>4

LEMMA ElemsTail ==
    ASSUME NEW S, NEW s \in Seq(S), s # <<>>
    PROVE  /\ Head(s) \in S /\ Tail(s) \in Seq(S) /\ Len(Tail(s)) = Len(s) - 1
           /\ Len(s) \in Nat \ {0}
           /\ Elems(s) = {Head(s)} \cup Elems(Tail(s))
<1>1. /\ Head(s) \in S /\ Tail(s) \in Seq(S) /\ Len(Tail(s)) = Len(s) - 1
      /\ Len(s) \in Nat \ {0} /\ s = <<Head(s)>> \o Tail(s) /\ <<Head(s)>> \in Seq(S)
  OBVIOUS
<1>2. Elems(<<Head(s)>>) = {Head(s)}
  BY DEF Elems
<1>3. PICK h \in Seq(S), t \in Seq(S) : h = <<Head(s)>> /\ t = Tail(s)
  BY <1>1
<1>4. Elems(h \o t) = Elems(h) \cup Elems(t)
  BY ElemsConcat
<1>5. QED
  BY <1>1, <1>2, <1>3, <1>4

\* NothingLost, buffer by buffer.
BytesInv ==
    /\ Len(taken) + Len(rbuf) + Len(unread) + Len(chunk) + Len(sock) = Len(sent)
    /\ Elems(taken) \cup Elems(rbuf) \cup Elems(unread) \cup Elems(chunk) \cup Elems(sock)
         = 1..Len(sent)

bytes == <<taken, rbuf, unread, chunk, sock, sent>>

\* The steps that move bytes; taken is the only one several actions share.
TakeStep ==
    /\ rbuf # <<>> /\ rbuf' = Tail(rbuf) /\ taken' = Append(taken, Head(rbuf))
    /\ UNCHANGED <<unread, chunk, sock, sent>>

\* What each step does to the bytes.
LEMMA BytesMove ==
    ASSUME [Next]_vars
    PROVE  \/ UNCHANGED bytes
           \/ TakeStep
           \/ FillFromUnread \/ FillFromSocket \/ WatchReads \/ WatchPushes \/ ClientSends
<1> USE DEF bytes, readerVars, watchVars, clientVars
<1>1. CASE \/ StartupDone \/ StartupRefused \/ StartupFails \/ ReceiveFails
           \/ SchemaFetched \/ QueryAborts \/ QueryEnds \/ QueryReturns
           \/ WatchSeesEnd \/ WatchTimesOut \/ CancelLooksUp \/ CancelFires
           \/ Shutdown \/ CloserCloses \/ ClientCloses \/ GateMoves
  BY <1>1 DEF StartupDone, StartupRefused, StartupFails, ReceiveFails, SchemaFetched,
              QueryAborts, QueryEnds, QueryReturns, WatchSeesEnd, WatchTimesOut,
              CancelLooksUp, CancelFires, Shutdown, CloserCloses, ClientCloses, GateMoves
<1>2. CASE \/ HandleTerminate \/ HandleExtended \/ HandleSync \/ HandleOther
           \/ AnswerAtOnce \/ FetchSchema \/ ExecuteQuery
  <2>1. \E i \in DOMAIN sent, t \in Types : Take(i, t)
    BY <1>2 DEF HandleTerminate, HandleExtended, HandleSync, HandleOther, AnswerAtOnce,
                FetchSchema, ExecuteQuery, Types, Queries
  <2>2. UNCHANGED <<unread, chunk, sock, sent>>
    BY <1>2 DEF HandleTerminate, HandleExtended, HandleSync, HandleOther, AnswerAtOnce,
                FetchSchema, ExecuteQuery
  <2>3. QED
    BY <2>1, <2>2 DEF Take, TakeStep
<1>3. CASE UNCHANGED vars
  BY <1>3 DEF vars
<1>4. QED
  BY <1>1, <1>2, <1>3 DEF Next, Main, Watcher

LEMMA BytesInit == Init => BytesInv
  BY DEF Init, BytesInv, Elems

LEMMA BytesStep ==
    ASSUME TypeOK, ReaderInv, HeldInv, BytesInv, [Next]_vars
    PROVE  BytesInv'
<1>1. /\ taken \in Seq(Msgs) /\ rbuf \in Seq(Msgs) /\ unread \in Seq(Msgs)
      /\ chunk \in Seq(Msgs) /\ sock \in Seq(Msgs) /\ sent \in Seq(ClientTypes)
      /\ Len(taken) \in Nat /\ Len(rbuf) \in Nat /\ Len(unread) \in Nat
      /\ Len(chunk) \in Nat /\ Len(sock) \in Nat /\ Len(sent) \in Nat
  BY DEF TypeOK
<1>2. Len(<<>>) = 0 /\ Elems(<<>>) = {}
  BY DEF Elems
<1>3. CASE UNCHANGED bytes
  BY <1>3 DEF bytes, BytesInv
<1>4. CASE TakeStep
  <2>1. /\ Len(rbuf') = Len(rbuf) - 1 /\ Elems(rbuf) = {Head(rbuf)} \cup Elems(rbuf')
        /\ Head(rbuf) \in Msgs
    BY <1>1, <1>4, ElemsTail DEF TakeStep
  <2>2. /\ Len(taken') = Len(taken) + 1 /\ Elems(taken') = Elems(taken) \cup {Head(rbuf)}
    BY <1>1, <1>4, <2>1, ElemsAppend DEF TakeStep
  <2>3. QED
    BY <1>1, <1>4, <2>1, <2>2 DEF TakeStep, BytesInv
<1>5. CASE FillFromUnread
  <2>1. PICK n \in 1..Len(unread) : /\ rbuf' = SubSeq(unread, 1, n)
                                    /\ unread' = SubSeq(unread, n + 1, Len(unread))
    BY <1>5 DEF FillFromUnread
  <2>2. /\ Len(rbuf') = n /\ Len(unread') = Len(unread) - n
        /\ Elems(unread) = Elems(rbuf') \cup Elems(unread')
    BY <1>1, <2>1, Split, ElemsSplit
  <2>3. rbuf = <<>> /\ UNCHANGED <<taken, chunk, sock, sent>>
    BY <1>5 DEF FillFromUnread, watchVars, clientVars
  <2>4. Len(rbuf) = 0 /\ Elems(rbuf) = {}
    BY <1>2, <2>3
  <2>5. Len(taken') + Len(rbuf') + Len(unread') + Len(chunk') + Len(sock') = Len(sent')
    <3>1. /\ Len(taken) + Len(rbuf) + Len(unread) + Len(chunk) + Len(sock) = Len(sent)
          /\ Len(rbuf) = 0
      BY <2>4 DEF BytesInv
    <3>2. /\ Len(taken') = Len(taken) /\ Len(chunk') = Len(chunk) /\ Len(sock') = Len(sock) /\ Len(sent') = Len(sent)
          /\ Len(rbuf') = n /\ Len(unread') = Len(unread) - n
      BY <2>2, <2>3
    <3>3. /\ Len(taken) \in Nat /\ Len(rbuf) \in Nat /\ Len(unread) \in Nat
          /\ Len(chunk) \in Nat /\ Len(sock) \in Nat /\ Len(sent) \in Nat /\ n \in Nat
      BY <1>1
    <3>4. QED
      BY <3>1, <3>2, <3>3, SMTT(60)
  <2>6. Elems(taken') \cup Elems(rbuf') \cup Elems(unread') \cup Elems(chunk') \cup Elems(sock')
          = 1..Len(sent')
    BY <2>2, <2>3, <2>4 DEF BytesInv
  <2>7. QED
    BY <2>5, <2>6 DEF BytesInv
<1>6. CASE FillFromSocket
  <2>1. PICK n \in 1..Len(sock) : /\ rbuf' = SubSeq(sock, 1, n)
                                  /\ sock' = SubSeq(sock, n + 1, Len(sock))
    BY <1>6 DEF FillFromSocket
  <2>2. /\ Len(rbuf') = n /\ Len(sock') = Len(sock) - n
        /\ Elems(sock) = Elems(rbuf') \cup Elems(sock')
    BY <1>1, <2>1, Split, ElemsSplit
  <2>3. rbuf = <<>> /\ UNCHANGED <<taken, unread, chunk, sent>>
    BY <1>6 DEF FillFromSocket, watchVars
  <2>4. Len(rbuf) = 0 /\ Elems(rbuf) = {}
    BY <1>2, <2>3
  <2>5. Len(taken') + Len(rbuf') + Len(unread') + Len(chunk') + Len(sock') = Len(sent')
    <3>1. /\ Len(taken) + Len(rbuf) + Len(unread) + Len(chunk) + Len(sock) = Len(sent)
          /\ Len(rbuf) = 0
      BY <2>4 DEF BytesInv
    <3>2. /\ Len(taken') = Len(taken) /\ Len(unread') = Len(unread) /\ Len(chunk') = Len(chunk) /\ Len(sent') = Len(sent)
          /\ Len(rbuf') = n /\ Len(sock') = Len(sock) - n
      BY <2>2, <2>3
    <3>3. /\ Len(taken) \in Nat /\ Len(rbuf) \in Nat /\ Len(unread) \in Nat
          /\ Len(chunk) \in Nat /\ Len(sock) \in Nat /\ Len(sent) \in Nat /\ n \in Nat
      BY <1>1
    <3>4. QED
      BY <3>1, <3>2, <3>3, SMTT(60)
  <2>6. Elems(taken') \cup Elems(rbuf') \cup Elems(unread') \cup Elems(chunk') \cup Elems(sock')
          = 1..Len(sent')
    BY <2>2, <2>3, <2>4 DEF BytesInv
  <2>7. QED
    BY <2>5, <2>6 DEF BytesInv
<1>7. CASE WatchReads
  <2>1. PICK n \in 1..Len(sock) : /\ chunk' = SubSeq(sock, 1, n)
                                  /\ sock' = SubSeq(sock, n + 1, Len(sock))
    BY <1>7 DEF WatchReads
  <2>2. /\ Len(chunk') = n /\ Len(sock') = Len(sock) - n
        /\ Elems(sock) = Elems(chunk') \cup Elems(sock')
    BY <1>1, <2>1, Split, ElemsSplit
  <2>3. chunk = <<>> /\ UNCHANGED <<taken, rbuf, unread, sent>>
    BY <1>7 DEF WatchReads, HeldInv, readerVars
  <2>4. Len(chunk) = 0 /\ Elems(chunk) = {}
    BY <1>2, <2>3
  <2>5. Len(taken') + Len(rbuf') + Len(unread') + Len(chunk') + Len(sock') = Len(sent')
    <3>1. /\ Len(taken) + Len(rbuf) + Len(unread) + Len(chunk) + Len(sock) = Len(sent)
          /\ Len(chunk) = 0
      BY <2>4 DEF BytesInv
    <3>2. /\ Len(taken') = Len(taken) /\ Len(rbuf') = Len(rbuf) /\ Len(unread') = Len(unread) /\ Len(sent') = Len(sent)
          /\ Len(chunk') = n /\ Len(sock') = Len(sock) - n
      BY <2>2, <2>3
    <3>3. /\ Len(taken) \in Nat /\ Len(rbuf) \in Nat /\ Len(unread) \in Nat
          /\ Len(chunk) \in Nat /\ Len(sock) \in Nat /\ Len(sent) \in Nat /\ n \in Nat
      BY <1>1
    <3>4. QED
      BY <3>1, <3>2, <3>3, SMTT(60)
  <2>6. Elems(taken') \cup Elems(rbuf') \cup Elems(unread') \cup Elems(chunk') \cup Elems(sock')
          = 1..Len(sent')
    BY <2>2, <2>3, <2>4 DEF BytesInv
  <2>7. QED
    BY <2>5, <2>6 DEF BytesInv
<1>8. CASE WatchPushes
  <2>1. /\ unread' = chunk \o unread /\ chunk' = <<>> /\ UNCHANGED <<taken, rbuf, sock, sent>>
    BY <1>8 DEF WatchPushes, pushBack, clientVars
  <2>2. Len(unread') = Len(chunk) + Len(unread) /\ Elems(unread') = Elems(chunk) \cup Elems(unread)
    BY <1>1, <2>1, ElemsConcat
  <2>3. QED
    BY <1>1, <1>2, <2>1, <2>2, SMTT(60) DEF BytesInv
<1>9. CASE ClientSends
  <2>1. /\ UNCHANGED <<taken, rbuf, unread, chunk>>
        /\ sock' = Append(sock, Len(sent) + 1) /\ Len(sent) + 1 \in Msgs
    BY <1>1, <1>9, SessionAssumption DEF ClientSends, readerVars, watchVars, Msgs
  <2>2. Len(sent') = Len(sent) + 1
    BY <1>1, <1>9 DEF ClientSends
  <2>3. Len(sock') = Len(sock) + 1 /\ Elems(sock') = Elems(sock) \cup {Len(sent) + 1}
    BY <1>1, <2>1, ElemsAppend
  <2>4. 1..(Len(sent) + 1) = (1..Len(sent)) \cup {Len(sent) + 1}
    BY <1>1
  <2>5. Len(taken') + Len(rbuf') + Len(unread') + Len(chunk') + Len(sock') = Len(sent')
    BY <1>1, <2>1, <2>2, <2>3, SMTT(60) DEF BytesInv
  <2>6. Elems(taken') \cup Elems(rbuf') \cup Elems(unread') \cup Elems(chunk') \cup Elems(sock')
          = (1..Len(sent)) \cup {Len(sent) + 1}
    BY <2>1, <2>3 DEF BytesInv
  <2>7. QED
    BY <2>2, <2>4, <2>5, <2>6 DEF BytesInv
<1>10. QED
  BY <1>3, <1>4, <1>5, <1>6, <1>7, <1>8, <1>9, BytesMove

LEMMA ConcatParts ==
    ASSUME NEW S, NEW a \in Seq(S), NEW b \in Seq(S), NEW c \in Seq(S), NEW d \in Seq(S),
           NEW e \in Seq(S)
    PROVE  /\ a \o b \o c \o d \o e \in Seq(S)
           /\ Len(a \o b \o c \o d \o e) = Len(a) + Len(b) + Len(c) + Len(d) + Len(e)
           /\ Elems(a \o b \o c \o d \o e) =
                Elems(a) \cup Elems(b) \cup Elems(c) \cup Elems(d) \cup Elems(e)
<1>1. PICK x \in Seq(S) : x = a \o b /\ Len(x) = Len(a) + Len(b) /\ Elems(x) = Elems(a) \cup Elems(b)
  <2>1. a \o b \in Seq(S) /\ Len(a \o b) = Len(a) + Len(b) /\ Elems(a \o b) = Elems(a) \cup Elems(b)
    BY ElemsConcat
  <2>2. QED
    BY <2>1
<1>2. PICK y \in Seq(S) : y = x \o c /\ Len(y) = Len(x) + Len(c) /\ Elems(y) = Elems(x) \cup Elems(c)
  <2>1. x \o c \in Seq(S) /\ Len(x \o c) = Len(x) + Len(c) /\ Elems(x \o c) = Elems(x) \cup Elems(c)
    BY ElemsConcat
  <2>2. QED
    BY <2>1
<1>3. PICK z \in Seq(S) : z = y \o d /\ Len(z) = Len(y) + Len(d) /\ Elems(z) = Elems(y) \cup Elems(d)
  <2>1. y \o d \in Seq(S) /\ Len(y \o d) = Len(y) + Len(d) /\ Elems(y \o d) = Elems(y) \cup Elems(d)
    BY ElemsConcat
  <2>2. QED
    BY <2>1
<1>4. PICK w \in Seq(S) : w = z \o e /\ Len(w) = Len(z) + Len(e) /\ Elems(w) = Elems(z) \cup Elems(e)
  <2>1. z \o e \in Seq(S) /\ Len(z \o e) = Len(z) + Len(e) /\ Elems(z \o e) = Elems(z) \cup Elems(e)
    BY ElemsConcat
  <2>2. QED
    BY <2>1
<1>5. w = a \o b \o c \o d \o e
  BY <1>1, <1>2, <1>3, <1>4
<1>6. Elems(w) = Elems(a) \cup Elems(b) \cup Elems(c) \cup Elems(d) \cup Elems(e)
  BY <1>1, <1>2, <1>3, <1>4
<1>7. Len(w) = Len(a) + Len(b) + Len(c) + Len(d) + Len(e)
  BY <1>1, <1>2, <1>3, <1>4
<1>8. QED
  BY <1>5, <1>6, <1>7

\* The stream and its five parts.
LEMMA StreamParts ==
    ASSUME TypeOK
    PROVE  /\ Stream \in Seq(Msgs)
           /\ Len(Stream) = Len(taken) + Len(rbuf) + Len(unread) + Len(chunk) + Len(sock)
           /\ Elems(Stream) = Elems(taken) \cup Elems(rbuf) \cup Elems(unread)
                                \cup Elems(chunk) \cup Elems(sock)
<1>1. /\ taken \in Seq(Msgs) /\ rbuf \in Seq(Msgs) /\ unread \in Seq(Msgs)
      /\ chunk \in Seq(Msgs) /\ sock \in Seq(Msgs)
  BY DEF TypeOK
<1>2. QED
  BY <1>1, ConcatParts DEF Stream

\* Nothing the client sends is lost or seen twice, however many messages it
\* sends, whoever reads them off the socket and however often they are pushed
\* back (watchDisconnect, peekConn).
THEOREM NoMessageIsLost == Spec => []NothingLost
<1>1. TypeOK /\ ReaderInv /\ HeldInv /\ BytesInv /\ [Next]_vars
        => (TypeOK /\ ReaderInv /\ HeldInv /\ BytesInv)'
  BY TypeStep, NextReaderInv, BytesStep
<1>2. TypeOK /\ BytesInv => NothingLost
  <2> SUFFICES ASSUME TypeOK, BytesInv PROVE NothingLost
    OBVIOUS
  <2>1. DOMAIN sent = 1..Len(sent)
    BY DEF TypeOK
  <2>2. QED
    BY <2>1, StreamParts DEF BytesInv, NothingLost, Elems
<1> QED BY TypeInit, InitReaderInv, BytesInit, <1>1, <1>2, PTL DEF Spec

-----------------------------------------------------------------------------
(* Replies *)

\* What is handled is the stream's front, and the reader's next message follows.
LEMMA StreamFront ==
    ASSUME TypeOK
    PROVE  /\ \A k \in 1..Len(taken) : Stream[k] = taken[k]
           /\ rbuf # <<>> => Stream[Len(taken) + 1] = Head(rbuf)
<1>1. PICK a \in Seq(Msgs), b \in Seq(Msgs), c \in Seq(Msgs), d \in Seq(Msgs), e \in Seq(Msgs) :
        a = taken /\ b = rbuf /\ c = unread /\ d = chunk /\ e = sock
  BY DEF TypeOK
<1>2. PICK x \in Seq(Msgs) : x = a \o b
  BY ElemsConcat
<1>3. PICK y \in Seq(Msgs) : y = x \o c
  BY ElemsConcat
<1>4. PICK z \in Seq(Msgs) : z = y \o d
  BY ElemsConcat
<1>5. \A k \in 1..Len(z) : (z \o e)[k] = z[k]
  OBVIOUS
<1>6. Len(y) <= Len(z) /\ \A k \in 1..Len(y) : z[k] = y[k]
  BY <1>4
<1>7. Len(x) <= Len(y) /\ \A k \in 1..Len(x) : y[k] = x[k]
  BY <1>3
<1>8. /\ 1..Len(a) \subseteq 1..Len(x) /\ \A k \in 1..Len(a) : x[k] = a[k]
      /\ b # <<>> => Len(a) + 1 \in 1..Len(x) /\ x[Len(a) + 1] = Head(b)
  BY <1>2
<1>9. \A k \in 1..Len(x) : (z \o e)[k] = x[k]
  BY <1>5, <1>6, <1>7
<1>10. Stream = z \o e
  BY <1>1, <1>2, <1>3, <1>4 DEF Stream
<1>11. \A k \in 1..Len(x) : Stream[k] = x[k]
  BY <1>9, <1>10, Zenon
<1>12. QED
  BY <1>1, <1>8, <1>11

\* No message number is in the stream twice: as many numbers as messages, and
\* every message among them.
LEMMA StreamDistinct ==
    ASSUME TypeOK, BytesInv
    PROVE  \A j, k \in 1..Len(sent) : Stream[j] = Stream[k] => j = k
<1>1. Len(sent) \in Nat /\ DOMAIN sent = 1..Len(sent)
  BY DEF TypeOK
<1>2. /\ Stream \in Seq(Msgs) /\ Len(Stream) = Len(sent)
      /\ Elems(Stream) = 1..Len(sent)
  BY StreamParts DEF BytesInv
<1> DEFINE n == Len(sent)
<1>3. Stream \in [1..n -> 1..n]
  BY <1>1, <1>2 DEF Elems
<1>4. \A t \in 1..n : \E s \in 1..n : Stream[s] = t
  BY <1>1, <1>2 DEF Elems
<1>5. Stream \in Surjection(1..n, 1..n)
  BY <1>3, <1>4 DEF Surjection
<1>6. IsFiniteSet(1..n)
  BY <1>1, FS_Interval
<1>7. Stream \in Injection(1..n, 1..n)
  BY <1>5, <1>6, FS_SurjSameCardinalityImpliesInj
<1>8. QED
  BY <1>3, <1>7 DEF Injection, IsInjective

\* So a message handled has not been handled before, and is one the client sent.
LEMMA TakenOnce ==
    ASSUME TypeOK, BytesInv
    PROVE  /\ \A j, k \in DOMAIN taken : taken[j] = taken[k] => j = k
           /\ \A k \in DOMAIN taken : taken[k] \in DOMAIN sent
           /\ rbuf # <<>> => \A k \in DOMAIN taken : taken[k] # Head(rbuf)
<1>1. /\ taken \in Seq(Msgs) /\ rbuf \in Seq(Msgs) /\ unread \in Seq(Msgs)
      /\ chunk \in Seq(Msgs) /\ sock \in Seq(Msgs) /\ sent \in Seq(ClientTypes)
  BY DEF TypeOK
<1>2. /\ \A k \in 1..Len(taken) : Stream[k] = taken[k]
      /\ rbuf # <<>> => Stream[Len(taken) + 1] = Head(rbuf)
  BY StreamFront
<1>3. /\ Len(taken) \in Nat /\ Len(rbuf) \in Nat /\ Len(unread) \in Nat
      /\ Len(chunk) \in Nat /\ Len(sock) \in Nat /\ Len(sent) \in Nat
      /\ DOMAIN taken = 1..Len(taken) /\ DOMAIN sent = 1..Len(sent)
  BY <1>1
<1>4. Len(taken) + Len(rbuf) <= Len(sent)
  BY <1>3 DEF BytesInv
<1>5. rbuf # <<>> => Len(rbuf) > 0
  BY <1>1
<1>6. \A k \in DOMAIN taken : taken[k] \in DOMAIN sent
  BY <1>3 DEF BytesInv, Elems
<1>7. \A j, k \in 1..Len(taken) : taken[j] = taken[k] => j = k
  BY <1>2, <1>3, <1>4, StreamDistinct
<1>8. ASSUME rbuf # <<>>, NEW k \in 1..Len(taken) PROVE taken[k] # Head(rbuf)
  <2>1. k \in 1..Len(sent) /\ Len(taken) + 1 \in 1..Len(sent) /\ k # Len(taken) + 1
    BY <1>3, <1>4, <1>5, <1>8
  <2>2. Stream[k] # Stream[Len(taken) + 1]
    BY <2>1, StreamDistinct
  <2>3. QED
    BY <1>2, <1>8, <2>2
<1>9. QED
  BY <1>3, <1>6, <1>7, <1>8

TakenDistinct == \A j, k \in DOMAIN taken : taken[j] = taken[k] => j = k

LEMMA TakenOnceEach == TypeOK /\ BytesInv => TakenDistinct
  BY TakenOnce DEF TakenDistinct

\* The history handled so far is not rewritten: neither the types nor what is
\* due changes when messages are sent or taken.
LEMMA Kept ==
    ASSUME TypeOK, BytesInv, TypeOK', NEW L, L = Len(taken), Len(taken') >= L,
           \A k \in 1..L : taken'[k] = taken[k],
           \A i \in DOMAIN sent : sent'[i] = sent[i]
    PROVE  /\ \A k \in 1..L : typeAt(k)' = typeAt(k)
           /\ \A k \in 1..(L + 1) : Latched(k)' <=> Latched(k)
           /\ \A k \in 1..L, kind \in {"ready", "error"} : Given(k, kind)' <=> Given(k, kind)
<1>1. L \in Nat /\ DOMAIN taken = 1..L
  BY DEF TypeOK
<1>2. \A k \in 1..L : typeAt(k)' = typeAt(k)
  BY <1>1, TakenOnce DEF typeAt
<1>3. \A k \in 1..(L + 1) : Latched(k)' <=> Latched(k)
  <2> SUFFICES ASSUME NEW k \in 1..(L + 1) PROVE Latched(k)' <=> Latched(k)
    OBVIOUS
  <2>1. \A j \in 1..(k - 1) :
           /\ j \in 1..L
           /\ (j + 1)..(k - 1) \subseteq 1..L
    BY <1>1
  <2>2. QED
    BY <1>2, <2>1 DEF Latched
<1>4. \A k \in 1..L : k \in 1..(L + 1)
  BY <1>1
<1>5. QED
  BY <1>2, <1>3, <1>4 DEF Given

\* What taking a message makes of the pipeline.
LEMMA TakeMeaning ==
    ASSUME TypeOK, BytesInv, LatchInv, TypeOK', NEW i \in DOMAIN sent, NEW t, Take(i, t),
           UNCHANGED sent, NEW L, L = Len(taken)
    PROVE  /\ L \in Nat /\ Len(taken') = L + 1 /\ taken'[L + 1] = i
           /\ \A k \in 1..L : taken'[k] = taken[k]
           /\ typeAt(L + 1)' = t
           /\ Latched(L + 1)' <=> extendedErr
           /\ Latched(L + 2)' <=> (t = "extended" \/ (extendedErr /\ t \notin Queries \cup {"sync"}))
<1>1. /\ L \in Nat /\ Len(taken') = L + 1 /\ taken'[L + 1] = i
      /\ \A k \in 1..L : taken'[k] = taken[k]
  BY DEF TypeOK, Take
<1>2. typeAt(L + 1)' = t
  BY <1>1 DEF typeAt, Take
<1>3. /\ \A k \in 1..L : typeAt(k)' = typeAt(k)
      /\ Latched(L + 1)' <=> Latched(L + 1)
  BY <1>1, Kept
<1>4. Latched(L + 1)' <=> extendedErr
  BY <1>3 DEF LatchInv
<1>5. Latched(L + 2)' <=>
        (t = "extended" \/ (Latched(L + 1)' /\ t \notin Queries \cup {"sync"}))
  <2>1. (L + 2) - 1 = L + 1 /\ (L + 1) - 1 = L
    BY <1>1
  <2>2. ASSUME t = "extended" PROVE Latched(L + 2)'
    <3>1. L + 1 \in 1..(L + 1) /\ (L + 1 + 1)..(L + 1) = {}
      BY <1>1
    <3>2. QED
      BY <1>2, <2>1, <2>2, <3>1 DEF Latched
  <2>3. ASSUME Latched(L + 1)', t \notin Queries \cup {"sync"} PROVE Latched(L + 2)'
    <3>1. PICK j \in 1..L : /\ typeAt(j)' = "extended"
                            /\ \A m \in (j + 1)..L : typeAt(m)' \notin Queries \cup {"sync"}
      BY <2>1, <2>3 DEF Latched
    <3>2. j \in 1..(L + 1)
      BY <1>1
    <3>3. \A m \in (j + 1)..(L + 1) : m \in (j + 1)..L \/ m = L + 1
      BY <1>1
    <3>4. \A m \in (j + 1)..(L + 1) : typeAt(m)' \notin Queries \cup {"sync"}
      BY <1>2, <2>3, <3>1, <3>3
    <3>5. QED
      BY <2>1, <3>1, <3>2, <3>4 DEF Latched
  <2>4. ASSUME Latched(L + 2)', t # "extended"
        PROVE  Latched(L + 1)' /\ t \notin Queries \cup {"sync"}
    <3>1. PICK j \in 1..(L + 1) :
             /\ typeAt(j)' = "extended"
             /\ \A m \in (j + 1)..(L + 1) : typeAt(m)' \notin Queries \cup {"sync"}
      BY <2>1, <2>4 DEF Latched
    <3>2. j # L + 1
      BY <1>2, <2>4, <3>1
    <3>3. j \in 1..L /\ L + 1 \in (j + 1)..(L + 1) /\ (j + 1)..L \subseteq (j + 1)..(L + 1)
      BY <1>1, <3>2
    <3>4. t \notin Queries \cup {"sync"}
      BY <1>2, <3>1, <3>3
    <3>5. \A m \in (j + 1)..L : typeAt(m)' \notin Queries \cup {"sync"}
      BY <3>1, <3>3
    <3>6. QED
      BY <2>1, <3>1, <3>3, <3>4, <3>5 DEF Latched
  <2>5. QED
    BY <2>2, <2>3, <2>4
<1>6. QED
  BY <1>1, <1>2, <1>4, <1>5

\* The part of the invariant that speaks of the replies.
RepliesInv == NoReplyTwice /\ NoReplyUndue /\ NoneOwed /\ RepliesInOrder

\* The message after the first A is answered, with all its replies and no
\* others, after N replies and L messages.
ReplyAdded(L, A, N) ==
    /\ L = Len(taken) /\ Len(taken') >= L
    /\ \A k \in 1..L : taken'[k] = taken[k]
    /\ \A i \in DOMAIN sent : sent'[i] = sent[i]
    /\ A = Answered /\ A \in Nat /\ A <= L /\ Answered' = A + 1 /\ A + 1 <= Len(taken')
    /\ N = Len(out) /\ Len(out') >= N
    /\ \A n \in 1..N : out'[n] = out[n]
    /\ \A n \in (N + 1)..Len(out') :
         out'[n].to = taken'[A + 1] /\ Given(A + 1, out[n].kind)'
    /\ \A m, n \in (N + 1)..Len(out') : out'[m] = out'[n] => m = n
    /\ \A kind \in {"ready", "error"} : Given(A + 1, kind)' =>
         \E n \in (N + 1)..Len(out') : out'[n] = [to |-> taken'[A + 1], kind |-> kind]

\* What was so of A messages is so of A + 1.
LEMMA ReplyStep ==
    ASSUME TypeOK, BytesInv, RepliesInv, TypeOK', BytesInv',
           NEW L, NEW A, NEW N, ReplyAdded(L, A, N)
    PROVE  RepliesInv'
<1> USE DEF ReplyAdded
<1> DEFINE New == (N + 1)..Len(out')
<1>1. /\ N \in Nat /\ L \in Nat /\ Len(out') \in Nat /\ Len(taken') \in Nat
      /\ DOMAIN out = 1..N /\ DOMAIN taken = 1..L
      /\ DOMAIN out' = 1..Len(out') /\ DOMAIN taken' = 1..Len(taken')
  <2>1. out \in Seq(ReplySet) /\ taken \in Seq(Msgs) /\ out' \in Seq(ReplySet) /\ taken' \in Seq(Msgs)
    BY DEF TypeOK
  <2>2. QED
    BY <2>1
<1>0. \A n \in 1..N : out[n].kind \in {"ready", "error"}
  <2>1. \A n \in 1..N : out[n] \in ReplySet
    BY <1>1 DEF TypeOK
  <2>2. QED
    BY <2>1 DEF ReplySet
<1>2. \A n \in DOMAIN out' : n \in 1..N \/ n \in New
  BY <1>1
<1>3. 1..N \subseteq DOMAIN out' /\ New \subseteq DOMAIN out' /\ \A m \in 1..N, n \in New : m < n
  BY <1>1
<1>4. /\ 1..A \subseteq 1..L /\ 1..L \subseteq DOMAIN taken' /\ A + 1 \in DOMAIN taken'
      /\ 1..A \subseteq 1..(A + 1) /\ A + 1 \in 1..(A + 1) /\ A + 1 \notin 1..A
      /\ \A k \in 1..(A + 1) : k \in 1..A \/ k = A + 1
      /\ \A k \in 1..A : k <= A + 1
  BY <1>1
<1>5. \A k \in 1..A, kind \in {"ready", "error"} : Given(k, kind)' <=> Given(k, kind)
  BY <1>4, Kept
<1>6. \A n \in 1..N : \E k \in 1..A : out'[n].to = taken'[k] /\ Given(k, out[n].kind)'
  <2> SUFFICES ASSUME NEW n \in 1..N
               PROVE  \E k \in 1..A : out'[n].to = taken'[k] /\ Given(k, out[n].kind)'
    OBVIOUS
  <2>1. PICK k \in 1..A : out[n].to = taken[k] /\ Given(k, out[n].kind)
    BY <1>1 DEF RepliesInv, NoReplyUndue
  <2>2. taken'[k] = taken[k] /\ out'[n] = out[n] /\ out[n].kind \in {"ready", "error"}
    BY <1>0, <1>4
  <2>3. Given(k, out[n].kind)' <=> Given(k, out[n].kind)
    <3>1. PICK kd \in {"ready", "error"} : kd = out[n].kind /\ kd = out'[n].kind
      BY <2>2
    <3>2. Given(k, kd)' <=> Given(k, kd)
      BY <1>5
    <3>3. QED
      BY <3>1, <3>2 DEF Given
  <2>4. QED
    BY <2>1, <2>2, <2>3
<1> HIDE DEF New
<1>7. NoReplyTwice'
  <2>1. ASSUME NEW m \in 1..N, NEW n \in New PROVE out'[m] # out'[n]
    <3>1. PICK k \in 1..A : out'[m].to = taken'[k]
      BY <1>6
    <3>2. taken'[k] # taken'[A + 1]
      <4>1. TypeOK' /\ BytesInv' => TakenDistinct'
        BY TakenOnceEach, PTL
      <4>2. QED
        BY <1>4, <4>1 DEF TakenDistinct
    <3>3. out'[n].to = taken'[A + 1]
      BY DEF New
    <3>4. QED
      BY <3>1, <3>2, <3>3, SMTT(60)
  <2>2. \A m, n \in 1..N : out'[m] = out'[n] => m = n
    BY <1>1 DEF RepliesInv, NoReplyTwice
  <2>3. \A m, n \in New : out'[m] = out'[n] => m = n
    BY DEF New
  <2>4. QED
    BY <1>2, <2>1, <2>2, <2>3 DEF NoReplyTwice
<1>8. NoReplyUndue'
  <2>1. \A n \in DOMAIN out' : \E k \in 1..(A + 1) : out'[n].to = taken'[k] /\ Given(k, out[n].kind)'
    <3>1. \A n \in New : out'[n].to = taken'[A + 1] /\ Given(A + 1, out[n].kind)'
      BY DEF New
    <3>2. QED
      BY <1>2, <1>4, <1>6, <3>1
  <2>2. QED
    BY <2>1 DEF NoReplyUndue
<1>9. NoneOwed'
  <2>1. ASSUME NEW k \in 1..A, NEW kind \in {"ready", "error"}, Given(k, kind)'
        PROVE  \E n \in DOMAIN out' : out'[n] = [to |-> taken'[k], kind |-> kind]
    <3>1. PICK n \in DOMAIN out : out[n] = [to |-> taken[k], kind |-> kind]
      BY <1>5, <2>1 DEF RepliesInv, NoneOwed
    <3>2. taken'[k] = taken[k] /\ out'[n] = out[n] /\ n \in DOMAIN out'
      BY <1>1, <1>3, <1>4
    <3>3. QED
      BY <3>1, <3>2
  <2>2. ASSUME NEW kind \in {"ready", "error"}, Given(A + 1, kind)'
        PROVE  \E n \in DOMAIN out' : out'[n] = [to |-> taken'[A + 1], kind |-> kind]
    BY <1>3, <2>2 DEF New
  <2>3. \A k \in 1..(A + 1), kind \in {"ready", "error"} :
          Given(k, kind)' => \E n \in DOMAIN out' : out'[n] = [to |-> taken'[k], kind |-> kind]
    BY <1>4, <2>1, <2>2
  <2>4. QED
    BY <2>3 DEF NoneOwed
<1>10. RepliesInOrder'
  <2> SUFFICES ASSUME NEW m \in DOMAIN out', NEW n \in DOMAIN out', m < n
               PROVE  \E j, k \in DOMAIN taken' :
                         j <= k /\ taken'[j] = out'[m].to /\ taken'[k] = out'[n].to
    BY DEF RepliesInOrder
  <2>1. CASE m \in 1..N /\ n \in 1..N
    <3>1. PICK j \in 1..L, k \in 1..L : j <= k /\ taken[j] = out[m].to /\ taken[k] = out[n].to
      BY <1>1, <2>1 DEF RepliesInv, RepliesInOrder
    <3>2. /\ out'[m] = out[m] /\ out'[n] = out[n] /\ taken'[j] = taken[j] /\ taken'[k] = taken[k]
          /\ j \in DOMAIN taken' /\ k \in DOMAIN taken'
      BY <1>4, <2>1
    <3>3. taken'[j] = out'[m].to /\ taken'[k] = out'[n].to
      BY <3>1, <3>2
    <3>4. QED
      BY <3>1, <3>2, <3>3, SMTT(60)
  <2>2. CASE m \in 1..N /\ n \in New
    <3>1. PICK j \in 1..A : out'[m].to = taken'[j]
      BY <1>6, <2>2
    <3>2. out'[n].to = taken'[A + 1]
      BY <2>2 DEF New
    <3>3. QED
      BY <1>4, <3>1, <3>2
  <2>3. CASE m \in New /\ n \in New
    <3>1. out'[n].to = taken'[A + 1] /\ out'[m].to = taken'[A + 1] /\ A + 1 <= A + 1
      BY <2>3 DEF New
    <3>2. QED
      BY <1>4, <3>1
  <2>4. ~(m \in New /\ n \in 1..N)
    BY <1>1 DEF New
  <2>5. QED
    BY <1>2, <2>1, <2>2, <2>3, <2>4
<1>11. QED
  BY <1>7, <1>8, <1>9, <1>10 DEF RepliesInv

\* Nothing is answered: what was so of the replies is so after messages are
\* sent or taken.
LEMMA SameReplies ==
    ASSUME TypeOK, BytesInv, RepliesInv, TypeOK', UNCHANGED out,
           NEW L, L = Len(taken), Len(taken') >= L,
           \A k \in 1..L : taken'[k] = taken[k],
           \A i \in DOMAIN sent : sent'[i] = sent[i],
           Answered' = Answered, Answered <= L, Answered \in Int
    PROVE  RepliesInv'
<1>1. /\ L \in Nat /\ Len(taken') \in Nat
      /\ DOMAIN taken = 1..L /\ DOMAIN taken' = 1..Len(taken')
  BY DEF TypeOK
<1>2. \A k \in 1..L, kind \in {"ready", "error"} : Given(k, kind)' <=> Given(k, kind)
  BY Kept
<1>3. 1..Answered \subseteq 1..L /\ 1..L \subseteq 1..Len(taken')
  BY <1>1
<1>4. \A n \in DOMAIN out : out[n].kind \in {"ready", "error"}
  <2>1. \A n \in DOMAIN out : out[n] \in ReplySet
    BY DEF TypeOK
  <2>2. QED
    BY <2>1 DEF ReplySet
<1>5. NoReplyTwice'
  BY DEF RepliesInv, NoReplyTwice
<1>6. RepliesInOrder'
  <2> SUFFICES ASSUME NEW m \in DOMAIN out, NEW n \in DOMAIN out, m < n
               PROVE  \E j, k \in DOMAIN taken' :
                         j <= k /\ taken'[j] = out[m].to /\ taken'[k] = out[n].to
    BY DEF RepliesInOrder
  <2>1. PICK j \in 1..L, k \in 1..L : j <= k /\ taken[j] = out[m].to /\ taken[k] = out[n].to
    BY <1>1 DEF RepliesInv, RepliesInOrder
  <2>2. QED
    BY <1>1, <1>3, <2>1
<1>7. NoReplyUndue'
  <2>1. \A n \in DOMAIN out : \E k \in 1..Answered : out[n].to = taken'[k] /\ Given(k, out[n].kind)'
    <3> SUFFICES ASSUME NEW n \in DOMAIN out
                 PROVE  \E k \in 1..Answered : out[n].to = taken'[k] /\ Given(k, out[n].kind)'
      OBVIOUS
    <3>1. PICK k \in 1..Answered : out[n].to = taken[k] /\ Given(k, out[n].kind)
      BY DEF RepliesInv, NoReplyUndue
    <3>2. PICK kd \in {"ready", "error"} : kd = out[n].kind /\ kd = out'[n].kind
      BY <1>4
    <3>3. Given(k, kd)
      BY <3>1, <3>2 DEF Given
    <3>4. Given(k, kd)' /\ taken'[k] = taken[k]
      BY <1>2, <1>3, <3>3
    <3>5. Given(k, out[n].kind)'
      BY <3>2, <3>4 DEF Given
    <3>6. QED
      BY <3>1, <3>4, <3>5
  <2>2. QED
    BY <2>1 DEF NoReplyUndue
<1>8. NoneOwed'
  <2>1. ASSUME NEW k \in 1..Answered, NEW kind \in {"ready", "error"}, Given(k, kind)'
        PROVE  \E n \in DOMAIN out : out[n] = [to |-> taken'[k], kind |-> kind]
    BY <1>2, <1>3, <2>1 DEF RepliesInv, NoneOwed
  <2>2. QED
    BY <2>1 DEF NoneOwed
<1>9. QED
  BY <1>5, <1>6, <1>7, <1>8 DEF RepliesInv

\* Steps that neither take a message nor reply.
LEMMA QuietAnswers ==
    ASSUME TypeOK, BytesInv, AnswersInv, TypeOK',
           UNCHANGED <<taken, out, extendedErr, current>>, InFlight' <=> InFlight,
           \A i \in DOMAIN sent : sent'[i] = sent[i]
    PROVE  AnswersInv'
<1>1. PICK L \in Nat : L = Len(taken) /\ DOMAIN taken = 1..L /\ (taken # <<>> => L \in 1..L)
  BY DEF TypeOK
<1>2. /\ \A k \in 1..L : typeAt(k)' = typeAt(k)
      /\ \A k \in 1..(L + 1) : Latched(k)' <=> Latched(k)
  BY <1>1, Kept
<1>3. Answered' = Answered /\ Answered <= L /\ Answered \in Int
  BY <1>1 DEF Answered
<1>4. L + 1 \in 1..(L + 1)
  BY <1>1
<1>5. RepliesInv'
  <2>1. RepliesInv
    BY DEF AnswersInv, RepliesInv
  <2>2. QED
    BY <1>1, <1>3, <2>1, SameReplies
<1>6. LatchInv'
  <2>1. (extendedErr <=> Latched(L + 1)) /\ (Latched(L + 1)' <=> Latched(L + 1))
    BY <1>1, <1>2, <1>4 DEF AnswersInv, LatchInv
  <2>2. (Latched(Len(taken) + 1))' <=> Latched(L + 1)'
    BY <1>1 DEF Latched
  <2>3. QED
    BY <2>1, <2>2 DEF LatchInv
<1>7. InFlightInv'
  <2>1. taken # <<>> => typeAt(L)' = typeAt(L)
    BY <1>1, <1>2
  <2>2. typeAt(Len(taken))' = typeAt(L)' /\ typeAt(Len(taken)) = typeAt(L)
    BY <1>1 DEF typeAt
  <2>3. QED
    BY <2>1, <2>2 DEF AnswersInv, InFlightInv
<1>8. QED
  BY <1>5, <1>6, <1>7 DEF AnswersInv, RepliesInv

\* A message handled at once, with the replies its type and the latch call for.
LEMMA HandledAnswers ==
    ASSUME TypeOK, BytesInv, AnswersInv, TypeOK', BytesInv',
           NEW i \in DOMAIN sent, NEW t, Take(i, t), UNCHANGED sent, ~InFlight',
           extendedErr' <=> (t = "extended" \/ (extendedErr /\ t \notin Queries \cup {"sync"})),
           \/ /\ UNCHANGED out
              /\ t \notin Queries \cup {"sync"} /\ (extendedErr \/ t \notin {"extended", "other"})
           \/ out' = Append(out, ReadyTo(i)) /\ t \in Queries \cup {"sync"}
           \/ out' = Append(out, ErrorTo(i)) /\ t = "extended" /\ ~extendedErr
           \/ out' = out \o <<ErrorTo(i), ReadyTo(i)>> /\ t = "other" /\ ~extendedErr
    PROVE  AnswersInv'
<1>1. PICK L \in Nat, N \in Nat : L = Len(taken) /\ N = Len(out)
  BY DEF TypeOK
<1>2. /\ Len(taken') = L + 1 /\ taken'[L + 1] = i
      /\ \A k \in 1..L : taken'[k] = taken[k]
      /\ typeAt(L + 1)' = t
      /\ Latched(L + 1)' <=> extendedErr
      /\ Latched(L + 2)' <=> (t = "extended" \/ (extendedErr /\ t \notin Queries \cup {"sync"}))
  BY <1>1, TakeMeaning DEF AnswersInv
<1>3. Answered = L /\ Answered' = L + 1
  BY <1>1, <1>2 DEF Take, Answered, InFlight
<1>4. \A kind \in {"ready", "error"} : Given(L + 1, kind)' <=>
         \/ kind = "ready" /\ t \in Queries \cup {"sync"}
         \/ kind = "ready" /\ t = "other" /\ ~extendedErr
         \/ kind = "error" /\ t \in {"extended", "other"} /\ ~extendedErr
  BY <1>2 DEF Given
<1>5. "extended" \notin Queries \cup {"sync"} /\ "other" \notin Queries \cup {"sync"}
  BY DEF Queries
<1> DEFINE New == (N + 1)..Len(out')
<1>6. /\ Len(out') >= N /\ \A n \in 1..N : out'[n] = out[n]
      /\ \A n \in New : out'[n].to = i /\ Given(L + 1, out[n].kind)'
      /\ \A m, n \in New : out'[m] = out'[n] => m = n
      /\ \A kind \in {"ready", "error"} : Given(L + 1, kind)' =>
           \E n \in New : out'[n] = [to |-> i, kind |-> kind]
  <2>1. CASE /\ UNCHANGED out
             /\ t \notin Queries \cup {"sync"} /\ (extendedErr \/ t \notin {"extended", "other"})
    <3>1. New = {} /\ Len(out') >= N
      BY <1>1, <2>1
    <3>2. \A kind \in {"ready", "error"} : ~Given(L + 1, kind)'
      BY <1>4, <2>1
    <3>3. QED
      BY <2>1, <3>1, <3>2
  <2>2. ASSUME NEW kd \in {"ready", "error"}, out' = Append(out, [to |-> i, kind |-> kd]),
               \A kind \in {"ready", "error"} : Given(L + 1, kind)' <=> kind = kd
        PROVE  <1>6!:
    <3>1. /\ Len(out') = N + 1 /\ out'[N + 1] = [to |-> i, kind |-> kd]
          /\ \A n \in 1..N : out'[n] = out[n]
      BY <1>1, <2>2 DEF TypeOK
    <3>2. New = {N + 1}
      BY <1>1, <3>1
    <3>3. Given(L + 1, kd)'
      BY <2>2
    <3>4. \A n \in New : out'[n].to = i /\ out'[n].kind = kd
      BY <3>1, <3>2
    <3>5. \A n \in New : Given(L + 1, out[n].kind)'
      BY <3>3, <3>4 DEF Given
    <3>6. QED
      BY <2>2, <3>1, <3>2, <3>4, <3>5
  <2>3. CASE out' = Append(out, ReadyTo(i)) /\ t \in Queries \cup {"sync"}
    BY <1>4, <1>5, <2>2, <2>3 DEF ReadyTo
  <2>4. CASE out' = Append(out, ErrorTo(i)) /\ t = "extended" /\ ~extendedErr
    BY <1>4, <1>5, <2>2, <2>4 DEF ErrorTo
  <2>5. CASE out' = out \o <<ErrorTo(i), ReadyTo(i)>> /\ t = "other" /\ ~extendedErr
    <3>1. /\ Len(out') = N + 2 /\ \A n \in 1..N : out'[n] = out[n]
          /\ out'[N + 1] = [to |-> i, kind |-> "error"]
          /\ out'[N + 2] = [to |-> i, kind |-> "ready"]
      BY <1>1, <2>5, SMTT(60) DEF TypeOK, ErrorTo, ReadyTo
    <3>2. New = {N + 1, N + 2}
      BY <1>1, <3>1
    <3>3. \A kind \in {"ready", "error"} : Given(L + 1, kind)'
      BY <1>4, <2>5
    <3>4. \A n \in New : out'[n].to = i /\ out'[n].kind \in {"ready", "error"}
      BY <3>1, <3>2
    <3>5. \A n \in New : Given(L + 1, out[n].kind)'
      <4> SUFFICES ASSUME NEW n \in New PROVE Given(L + 1, out[n].kind)'
        OBVIOUS
      <4>1. PICK kd \in {"ready", "error"} : kd = out'[n].kind
        BY <3>4
      <4>2. QED
        BY <3>3, <4>1 DEF Given
    <3>6. out'[N + 1] # out'[N + 2]
      BY <3>1
    <3>7. QED
      BY <3>1, <3>2, <3>4, <3>5, <3>6
  <2>6. QED
    BY <2>1, <2>3, <2>4, <2>5
<1>7. RepliesInv'
  <2>1. RepliesInv
    BY DEF AnswersInv, RepliesInv
  <2>2. L <= L /\ Len(taken') >= L /\ L + 1 <= Len(taken')
    BY <1>2
  <2>3. ReplyAdded(L, L, N)
    BY <1>1, <1>2, <1>3, <1>6, <2>2 DEF ReplyAdded
  <2>4. QED
    BY <2>1, <2>3, ReplyStep
<1>8. LatchInv'
  <2>1. (Latched(Len(taken) + 1))' <=> Latched(L + 2)'
    BY <1>1, <1>2 DEF Latched
  <2>2. QED
    BY <1>2, <2>1 DEF LatchInv
<1>9. InFlightInv'
  BY DEF InFlightInv
<1>10. QED
  BY <1>7, <1>8, <1>9 DEF AnswersInv, RepliesInv

\* A query that goes to Redash: taken now, answered later.
LEMMA BegunAnswers ==
    ASSUME TypeOK, BytesInv, AnswersInv, TypeOK',
           NEW i \in DOMAIN sent, NEW t \in Queries, Take(i, t), UNCHANGED <<sent, out>>,
           InFlight', current' = i, ~extendedErr'
    PROVE  AnswersInv'
<1>1. PICK L \in Nat : L = Len(taken)
  BY DEF TypeOK
<1>2. /\ Len(taken') = L + 1 /\ taken'[L + 1] = i
      /\ \A k \in 1..L : taken'[k] = taken[k]
      /\ typeAt(L + 1)' = t
      /\ Latched(L + 2)' <=> (t = "extended" \/ (extendedErr /\ t \notin Queries \cup {"sync"}))
  BY <1>1, TakeMeaning DEF AnswersInv
<1>3. Answered' = Answered /\ Answered = L
  BY <1>1, <1>2 DEF Take, Answered, InFlight
<1>4. RepliesInv'
  <2>1. RepliesInv
    BY DEF AnswersInv, RepliesInv
  <2>2. Len(taken') >= L /\ Answered <= L /\ Answered \in Int
    BY <1>2, <1>3
  <2>3. QED
    BY <1>1, <1>2, <1>3, <2>1, <2>2, SameReplies
<1>5. LatchInv'
  <2>1. (Latched(Len(taken) + 1))' <=> Latched(L + 2)'
    BY <1>1, <1>2 DEF Latched
  <2>2. t # "extended"
    BY DEF Queries
  <2>3. QED
    BY <1>2, <2>1, <2>2 DEF LatchInv
<1>6. InFlightInv'
  <2>1. typeAt(Len(taken))' = typeAt(L + 1)'
    BY <1>2 DEF typeAt
  <2>2. taken' # <<>>
    BY <1>2
  <2>3. QED
    BY <1>2, <2>1, <2>2 DEF InFlightInv
<1>7. QED
  BY <1>4, <1>5, <1>6 DEF AnswersInv, RepliesInv

\* The query in flight is answered.
LEMMA EndedAnswers ==
    ASSUME TypeOK, BytesInv, AnswersInv, TypeOK', BytesInv', InFlight, ~InFlight',
           out' = Append(out, Reply("ready")), UNCHANGED <<sent, taken, extendedErr>>
    PROVE  AnswersInv'
<1>1. PICK L \in Nat, N \in Nat : /\ L = Len(taken) /\ N = Len(out) /\ (taken # <<>> => L \in 1..L)
  BY DEF TypeOK
<1>2. taken # <<>> /\ current = taken[L] /\ typeAt(L) \in Queries
  BY <1>1 DEF AnswersInv, InFlightInv
<1>3. L \in 1..L /\ L - 1 \in Nat /\ (L - 1) + 1 = L
  BY <1>1, <1>2
<1>4. Answered = L - 1 /\ Answered' = L
  BY <1>1 DEF Answered
<1>5. typeAt(L)' = typeAt(L) /\ (\A k \in 1..L : taken'[k] = taken[k])
  BY DEF typeAt
<1>6. \A kind \in {"ready", "error"} : Given(L, kind)' <=> kind = "ready"
  <2>1. typeAt(L)' \in Queries /\ typeAt(L)' \notin {"extended", "other", "sync"}
    BY <1>2, <1>5 DEF Queries
  <2>2. QED
    BY <2>1 DEF Given
<1>7. /\ Len(out') = N + 1 /\ out'[N + 1] = [to |-> taken'[L], kind |-> "ready"]
      /\ \A n \in 1..N : out'[n] = out[n]
  BY <1>1, <1>2 DEF TypeOK, Reply
<1>8. (N + 1)..Len(out') = {N + 1} /\ Len(out') >= N
  BY <1>7
<1>9. Given(L, out[N + 1].kind)'
  <2>1. Given(L, "ready")' /\ out'[N + 1].kind = "ready"
    BY <1>6, <1>7
  <2>2. QED
    BY <2>1 DEF Given
<1>10. ReplyAdded(L, L - 1, N)
  <2>1. /\ L = Len(taken) /\ Len(taken') >= L
        /\ L - 1 = Answered /\ L - 1 \in Nat /\ L - 1 <= L
        /\ Answered' = (L - 1) + 1 /\ (L - 1) + 1 <= Len(taken')
    BY <1>1, <1>3, <1>4
  <2>2. \A n \in (N + 1)..Len(out') :
           out'[n].to = taken'[(L - 1) + 1] /\ Given((L - 1) + 1, out[n].kind)'
    BY <1>3, <1>7, <1>8, <1>9
  <2>3. \A kind \in {"ready", "error"} : Given((L - 1) + 1, kind)' =>
           \E n \in (N + 1)..Len(out') : out'[n] = [to |-> taken'[(L - 1) + 1], kind |-> kind]
    BY <1>3, <1>6, <1>7, <1>8
  <2>4. QED
    BY <1>1, <1>5, <1>7, <1>8, <2>1, <2>2, <2>3 DEF ReplyAdded
<1>11. RepliesInv'
  <2>1. RepliesInv
    BY DEF AnswersInv, RepliesInv
  <2>2. QED
    BY <1>10, <2>1, ReplyStep
<1>12. LatchInv'
  <2>1. Latched(L + 1)' <=> Latched(L + 1)
    BY DEF Latched, typeAt
  <2>2. (Latched(Len(taken) + 1))' <=> Latched(L + 1)'
    BY <1>1 DEF Latched
  <2>3. QED
    BY <1>1, <2>1, <2>2 DEF AnswersInv, LatchInv
<1>13. InFlightInv'
  BY DEF InFlightInv
<1>14. QED
  BY <1>11, <1>12, <1>13 DEF AnswersInv, RepliesInv

LEMMA AnswersInit == Init => AnswersInv
<1> SUFFICES ASSUME Init PROVE AnswersInv
  OBVIOUS
<1>1. taken = <<>> /\ out = <<>> /\ ~extendedErr /\ ~InFlight
  BY DEF Init, InFlight
<1>2. DOMAIN out = {} /\ Len(taken) = 0 /\ Answered = 0
  BY <1>1 DEF Answered
<1>3. 1..Answered = {} /\ 1..((Len(taken) + 1) - 1) = {}
  BY <1>2
<1>4. NoReplyTwice /\ NoReplyUndue /\ RepliesInOrder
  BY <1>2 DEF NoReplyTwice, NoReplyUndue, RepliesInOrder
<1>5. NoneOwed /\ LatchInv /\ InFlightInv
  BY <1>1, <1>3 DEF NoneOwed, LatchInv, Latched, InFlightInv
<1>6. QED
  BY <1>4, <1>5 DEF AnswersInv

LEMMA AnswersStep ==
    ASSUME TypeOK, BytesInv, AnswersInv, TypeOK', BytesInv', [Next]_vars
    PROVE  AnswersInv'
<1>1. CASE \/ StartupDone \/ StartupRefused \/ StartupFails \/ ReceiveFails
           \/ FillFromUnread \/ FillFromSocket
           \/ QueryAborts \/ QueryReturns
           \/ WatchReads \/ WatchPushes \/ WatchSeesEnd \/ WatchTimesOut
           \/ CancelLooksUp \/ CancelFires \/ Shutdown \/ CloserCloses
           \/ ClientCloses \/ GateMoves \/ UNCHANGED vars
  <2>1. UNCHANGED <<taken, out, extendedErr, current, sent>> /\ (InFlight' <=> InFlight)
    BY <1>1
    DEF InFlight, readerVars, queryVars, clientVars, vars, StartupDone, StartupRefused,
        StartupFails, ReceiveFails, FillFromUnread, FillFromSocket, QueryAborts, QueryReturns,
        WatchReads, WatchPushes, WatchSeesEnd, WatchTimesOut, CancelLooksUp, CancelFires,
        Shutdown, CloserCloses, ClientCloses, GateMoves
  <2>2. QED
    BY <2>1, QuietAnswers
<1>2. CASE ClientSends
  <2>1. UNCHANGED <<taken, out, extendedErr, current, pc>>
    BY <1>2 DEF ClientSends, readerVars, queryVars
  <2>2. \A i \in DOMAIN sent : sent'[i] = sent[i]
    BY <1>2 DEF ClientSends, TypeOK
  <2>3. QED
    BY <2>1, <2>2, QuietAnswers DEF InFlight
<1>3. CASE HandleTerminate
  <2>1. PICK i \in DOMAIN sent : Take(i, "terminate")
    BY <1>3 DEF HandleTerminate
  <2>2. UNCHANGED <<sent, out, extendedErr>> /\ ~InFlight'
    BY <1>3 DEF HandleTerminate, clientVars, InFlight
  <2>3. "terminate" \notin Queries \cup {"sync"}
    BY DEF Queries
  <2>4. QED
    BY <2>1, <2>2, <2>3, HandledAnswers
<1>4. CASE HandleExtended
  <2>1. PICK i \in DOMAIN sent : /\ Take(i, "extended")
                                 /\ out' = IF extendedErr THEN out ELSE Append(out, ErrorTo(i))
    BY <1>4 DEF HandleExtended
  <2>2. UNCHANGED sent /\ ~InFlight' /\ extendedErr'
    BY <1>4 DEF HandleExtended, clientVars, InFlight
  <2>3. "extended" \notin Queries \cup {"sync"}
    BY DEF Queries
  <2>4. QED
    BY <2>1, <2>2, <2>3, HandledAnswers
<1>5. CASE HandleSync
  <2>1. PICK i \in DOMAIN sent : Take(i, "sync") /\ out' = Append(out, ReadyTo(i))
    BY <1>5 DEF HandleSync
  <2>2. UNCHANGED sent /\ ~InFlight' /\ ~extendedErr'
    BY <1>5 DEF HandleSync, clientVars, InFlight
  <2>3. QED
    BY <2>1, <2>2, HandledAnswers
<1>6. CASE HandleOther
  <2>1. PICK i \in DOMAIN sent : /\ Take(i, "other")
                                 /\ out' = IF extendedErr THEN out
                                           ELSE out \o <<ErrorTo(i), ReadyTo(i)>>
    BY <1>6 DEF HandleOther
  <2>2. UNCHANGED <<sent, extendedErr>> /\ ~InFlight'
    BY <1>6 DEF HandleOther, clientVars, InFlight
  <2>3. "other" \notin Queries \cup {"sync"}
    BY DEF Queries
  <2>4. QED
    BY <2>1, <2>2, <2>3, HandledAnswers
<1>7. CASE AnswerAtOnce
  <2>1. PICK i \in DOMAIN sent, t \in Queries : Take(i, t) /\ out' = Append(out, ReadyTo(i))
    BY <1>7 DEF AnswerAtOnce
  <2>2. UNCHANGED sent /\ ~InFlight' /\ ~extendedErr'
    BY <1>7, <2>1 DEF AnswerAtOnce, Take, clientVars, InFlight
  <2>3. t # "extended"
    BY DEF Queries
  <2>4. QED
    BY <2>1, <2>2, <2>3, HandledAnswers
<1>8. CASE FetchSchema
  <2>1. PICK i \in DOMAIN sent : Take(i, "catalog") /\ current' = i
    BY <1>8 DEF FetchSchema
  <2>2. UNCHANGED <<sent, out>> /\ InFlight' /\ ~extendedErr' /\ "catalog" \in Queries
    BY <1>8 DEF FetchSchema, clientVars, InFlight, Queries
  <2>3. QED
    BY <2>1, <2>2, BegunAnswers
<1>9. CASE ExecuteQuery
  <2>1. PICK i \in DOMAIN sent, t \in {"read", "write"} : Take(i, t) /\ current' = i
    BY <1>9 DEF ExecuteQuery
  <2>2. UNCHANGED <<sent, out>> /\ InFlight' /\ ~extendedErr' /\ t \in Queries
    BY <1>9 DEF ExecuteQuery, clientVars, InFlight, Queries
  <2>3. QED
    BY <2>1, <2>2, BegunAnswers
<1>10. CASE SchemaFetched \/ QueryEnds
  <2>1. /\ InFlight /\ ~InFlight' /\ out' = Append(out, Reply("ready"))
        /\ UNCHANGED <<sent, taken, extendedErr>>
    BY <1>10 DEF SchemaFetched, QueryEnds, InFlight, readerVars, clientVars
  <2>2. QED
    BY <2>1, EndedAnswers
<1>11. QED
  BY <1>1, <1>2, <1>3, <1>4, <1>5, <1>6, <1>7, <1>8, <1>9, <1>10 DEF Next, Main, Watcher

\* From the invariant to the count of replies.
LEMMA AnswersCount ==
    ASSUME TypeOK, BytesInv, AnswersInv, pc = "receive"
    PROVE  \A k \in DOMAIN taken, kind \in {"ready", "error"} :
               Replies(k, kind) = IF Given(k, kind) THEN 1 ELSE 0
<1> SUFFICES ASSUME NEW k \in DOMAIN taken, NEW kind \in {"ready", "error"}
             PROVE  Replies(k, kind) = IF Given(k, kind) THEN 1 ELSE 0
  OBVIOUS
<1> DEFINE R == {n \in DOMAIN out : out[n] = [to |-> taken[k], kind |-> kind]}
<1>1. DOMAIN taken = 1..Answered
  BY DEF TypeOK, Answered, InFlight
<1>2. CASE Given(k, kind)
  <2>1. PICK n \in DOMAIN out : out[n] = [to |-> taken[k], kind |-> kind]
    BY <1>1, <1>2 DEF AnswersInv, NoneOwed
  <2>2. R = {n}
    BY <2>1 DEF AnswersInv, NoReplyTwice
  <2>3. Cardinality({n}) = 1
    BY FS_Singleton
  <2>4. QED
    BY <1>2, <2>2, <2>3 DEF Replies
<1>3. CASE ~Given(k, kind)
  <2>1. ASSUME NEW n \in R PROVE FALSE
    <3>1. PICK j \in 1..Answered : out[n].to = taken[j] /\ Given(j, out[n].kind)
      BY DEF AnswersInv, NoReplyUndue
    <3>2. taken[j] = taken[k] /\ out[n].kind = kind
      BY <2>1, <3>1
    <3>3. j = k
      BY <1>1, <3>2, TakenOnce
    <3>4. QED
      BY <1>3, <3>1, <3>2, <3>3
  <2>2. R = {}
    BY <2>1
  <2>3. QED
    BY <1>3, <2>2, FS_EmptySet DEF Replies
<1>4. QED
  BY <1>2, <1>3

\* Outside the part of a failed pipeline from a Query to the Sync, what the loop
\* gives a message is what the message has coming.
LEMMA GivenIsDue ==
    ASSUME NEW k \in Nat, ~AfterStrayQuery(k), NEW kind
    PROVE  Given(k, kind) <=> Due(k, kind)
<1>1. Latched(k) => Discarded(k)
  BY DEF Latched, Discarded
<1>2. ASSUME Discarded(k), ~Latched(k) PROVE FALSE
  <2>1. PICK j \in 1..(k - 1) : /\ typeAt(j) = "extended"
                                /\ \A m \in (j + 1)..(k - 1) : typeAt(m) # "sync"
    BY <1>2 DEF Discarded
  <2>2. PICK m \in (j + 1)..(k - 1) : typeAt(m) \in Queries \cup {"sync"}
    BY <1>2, <2>1 DEF Latched
  <2>3. typeAt(m) \in Queries
    BY <2>1, <2>2
  <2>4. j \in 1..(m - 1) /\ m \in 1..k /\ \A n \in (j + 1)..(m - 1) : n \in (j + 1)..(k - 1)
    BY <2>1, <2>2
  <2>5. Discarded(m)
    BY <2>1, <2>4 DEF Discarded
  <2>6. \A n \in (m + 1)..(k - 1) : typeAt(n) # "sync"
    BY <2>1, <2>2
  <2>7. QED
    BY <2>3, <2>4, <2>5, <2>6 DEF AfterStrayQuery
<1>3. typeAt(k) \in Queries => ~Discarded(k)
  <2>1. ASSUME typeAt(k) \in Queries, Discarded(k) PROVE FALSE
    <3>1. k \in 1..k /\ (k + 1)..(k - 1) = {}
      BY <2>1 DEF Discarded
    <3>2. QED
      BY <2>1, <3>1 DEF AfterStrayQuery
  <2>2. QED
    BY <2>1
<1>4. Latched(k) <=> Discarded(k)
  BY <1>1, <1>2
<1>5. QED
  BY <1>3, <1>4 DEF Given, Due, Queries

\* Every message handled gets exactly the replies it has coming, none twice, none
\* late and in the order of the messages, for any number of messages in any mix;
\* only from a Query inside a failed pipeline to the Sync that ends it is nothing
\* claimed (serve, handleQuery, executeQuery and the extendedErr latch).
THEOREM EveryMessageIsAnswered == Spec => []RepliesMatch
<1> DEFINE I == TypeOK /\ ReaderInv /\ HeldInv /\ BytesInv /\ AnswersInv
<1>1. Init => I
  BY TypeInit, InitReaderInv, BytesInit, AnswersInit
<1>2. I /\ [Next]_vars => I'
  <2> SUFFICES ASSUME I, [Next]_vars PROVE I'
    OBVIOUS
  <2>1. TypeOK' /\ HeldInv' /\ ReaderInv' /\ BytesInv'
    BY TypeStep, NextReaderInv, BytesStep
  <2>2. AnswersInv'
    BY <2>1, AnswersStep
  <2>3. QED
    BY <2>1, <2>2
<1>3. I => RepliesMatch
  <2> SUFFICES ASSUME I, pc = "receive" PROVE RepliesMatch
    BY DEF RepliesMatch
  <2>1. ASSUME NEW k \in DOMAIN taken, NEW kind \in {"ready", "error"}, ~AfterStrayQuery(k)
        PROVE  Replies(k, kind) = IF Due(k, kind) THEN 1 ELSE 0
    <3>1. k \in Nat
      BY DEF TypeOK
    <3>2. Given(k, kind) <=> Due(k, kind)
      BY <2>1, <3>1, GivenIsDue
    <3>3. Replies(k, kind) = IF Given(k, kind) THEN 1 ELSE 0
      BY AnswersCount
    <3>4. QED
      BY <3>2, <3>3
  <2>2. QED
    BY <2>1 DEF AnswersInv, RepliesMatch
<1> QED BY <1>1, <1>2, <1>3, PTL DEF Spec
=============================================================================
