------------------------------- MODULE PgLocal -------------------------------
(***************************************************************************)
(* The statements the PostgreSQL wire answers without a catalog: which     *)
(* they are (IsLocalQuery, IsCatalogQuery), what they are answered, and    *)
(* the rewriting of timestamp comparisons in the ones that go to Redash.   *)
(* sess is [database, user, host, port, pid, readOnly, sources].           *)
(***************************************************************************)
EXTENDS PgCatalog

\* Mutant: literals and comments are left in the text that is classified.
NormalizeOnlyTrims(sql) == TrimSpace(sql)

\* normalize
Normalize(sql) == TrimSpace(Redact("Postgres", sql))

\* hasKeyword
HasKeyword(lower, kw) == At(lower, 1) = kw /\ At(lower, 2) \in Spaces

\* strings.Contains of a phrase, and ContainsToken of one ending in punctuation.
Mentions(s, phrase) == \E i \in 1..Len(s) : IsPrefix(phrase, After(s, i))
ContainsOpening(s, phrase) ==
  \E i \in 1..Len(s) : IsPrefix(phrase, After(s, i)) /\ ~IsIdent(At(s, i - 1))

\* isSimpleSelect
IsSimpleSelect(lower) == HasKeyword(lower, "select") /\ ~ContainsToken(lower, "from")

Acknowledgements == {"begin", "commit", "rollback", "deallocate", "close", "discard"}

CalledFunctions == {"version", "current_database", "current_schema", "inet_server_addr",
                    "inet_server_port", "pg_is_in_recovery", "pg_backend_pid",
                    "pg_postmaster_start_time"}

IsLocalQuery(sql) ==
  LET Of(lower) ==
        \/ HasKeyword(lower, "set") \/ HasKeyword(lower, "show")
        \/ At(lower, 1) \in Acknowledgements
        \/ /\ IsSimpleSelect(lower)
           /\ \/ \E f \in CalledFunctions : ContainsOpening(lower, <<f, "(", ")">>)
              \/ ContainsOpening(lower, <<"current_schemas", "(">>)
              \/ ContainsToken(lower, "current_user") \/ ContainsToken(lower, "session_user")
        \/ ContainsToken(lower, "pg_database")
  IN Of(Normalize(sql))

pgTables == {"pg_type", "pg_class", "pg_namespace", "pg_proc", "pg_attribute",
             "pg_attrdef", "pg_constraint", "pg_index", "pg_trigger", "pg_description",
             "pg_depend", "pg_extension", "pg_enum", "pg_inherits", "pg_sequence",
             "pg_collation", "pg_am", "pg_roles", "pg_user", "pg_views", "pg_tables",
             "pg_indexes", "pg_settings", "pg_database", "pg_available_extensions"}
statViews == {"pg_statio_user_tables", "pg_stat_activity"}

\* containsPgCatalogRef; the statistics views are matched by their prefix.
IsCatalogQuery(sql) ==
  LET Of(lower) ==
        \/ \E n \in {"pg_catalog", "information_schema"} : ContainsOpening(lower, <<n, ".">>)
        \/ \E t \in pgTables : ContainsToken(lower, t)
        \/ \E v \in statViews : v \in Range(lower)
  IN Of(Normalize(sql))

-----------------------------------------------------------------------------
\* SendCommandComplete, SendErrorCode, SendSingleRowResult and SendEmptyResult.
Tag(t) == [tag |-> t]
Refusal == [error |-> "25006"]
Scalar(name, value) == [names |-> <<<<name>>>>, rows |-> <<<<value>>>>]
NoRows(name) == [names |-> <<<<name>>>>, rows |-> <<>>]

\* Mutant: only the session setting is recognised.
ReadOnlyValueOfSession(raw) ==
  LET sets == {i \in 1..Len(raw) : raw[i] = "transaction_read_only" /\ At(raw, i + 1) = "="}
  IN IF sets = {} THEN "" ELSE At(raw, Min(sets) + 2)

\* readOnlySetting on the raw text: the value given to the setting.
ReadOnlyValue(raw) ==
  LET Op(i) == SkipBlanks(raw, i + 1)
      Value(i) == LET v == SkipBlanks(raw, Op(i) + 1)
                  IN At(raw, IF At(raw, v) = SQ THEN v + 1 ELSE v)
      sets == {i \in 1..Len(raw) :
                 /\ raw[i] \in {"transaction_read_only", "default_transaction_read_only"}
                 /\ ~IsIdent(At(raw, i - 1)) /\ ~IsIdent(At(raw, i + 1))
                 /\ At(raw, Op(i)) \in {"=", "to"} /\ IsIdent(Value(i))}
  IN IF sets = {} THEN "" ELSE Value(Min(sets))

\* hasReadWrite: READ and WRITE as neighbouring fields.
HasReadWrite(lower) ==
  LET separators == Spaces \cup {"=", ";"}
  IN \E i \in 1..Len(lower) :
       /\ lower[i] = "read" /\ At(lower, i - 1) \in separators
       /\ At(lower, i + 1) \in separators
       /\ LET j == Min({k \in (i + 1)..Len(lower) : lower[k] \notin separators}
                       \cup {Len(lower) + 1})
          IN At(lower, j) = "write" /\ At(lower, j + 1) \in separators \cup {""}

\* asksForReadWrite, of a statement that starts with the whole field.
AsksForReadWrite(lower, raw) ==
  LET lead == IF At(lower, 2) \in Spaces \cup {"=", ";", ""} THEN At(lower, 1) ELSE ""
  IN \/ lead = "set" /\ ReadOnlyValue(raw) \in {"off", "false", "0", "no"}
     \/ lead \in {"set", "begin", "start"} /\ HasReadWrite(lower)

\* handleShowCommand; the constant parameters are represented by one.
HandleShowCommand(param, readOnly) ==
  CASE param \in {<<"transaction_read_only">>, <<"default_transaction_read_only">>} ->
         [names |-> <<param>>, rows |-> <<<<IF readOnly THEN <<"on">> ELSE <<"off">>>>>>]
    [] param = <<"server_version">> -> [names |-> <<param>>, rows |-> <<<<<<"14.0">>>>>>]
    [] OTHER -> [names |-> <<param>>, rows |-> <<<<<<>>>>>>]

OrElse(v, default) == IF v = <<>> THEN default ELSE v

\* HandleLocalQuery: the order of the tests is the order of the answers.
HandleLocalQuery(sql, sess) ==
  LET Of(lower) ==
        LET Calls(f) == Mentions(lower, <<f, "(", ")">>)
            Names(w) == w \in Range(lower)
            user == OrElse(sess.user, <<"redash">>)
        IN IF sess.readOnly /\ AsksForReadWrite(lower, sql) THEN Refusal
           ELSE IF HasKeyword(lower, "set") THEN Tag("set")
           ELSE IF At(lower, 1) \in Acknowledgements THEN Tag(lower[1])
           ELSE IF HasKeyword(lower, "show")
           THEN HandleShowCommand(TrimSpace(TrimRight(Tail(lower), Spaces \cup {";"})), sess.readOnly)
           ELSE IF ContainsToken(lower, "pg_database") THEN HandlePgDatabaseQuery(sess.sources)
           ELSE IF ~IsSimpleSelect(lower) THEN NoRows("result")
           ELSE IF Calls("version") THEN Scalar("version", <<"postgresql">>)
           ELSE IF Calls("current_database")
           THEN Scalar("current_database", OrElse(sess.database, <<"redash">>))
           ELSE IF Calls("current_schema") THEN Scalar("current_schema", <<"public">>)
           ELSE IF Mentions(lower, <<"current_schemas", "(">>)
           THEN Scalar("current_schemas", <<"{public}">>)
           ELSE IF Names("current_user") THEN Scalar("current_user", user)
           ELSE IF Names("session_user") THEN Scalar("session_user", user)
           ELSE IF Names("inet_server_addr")
           THEN Scalar("inet_server_addr", IF sess.host \in {<<>>, <<"0.0.0.0">>}
                                           THEN <<"127.0.0.1">> ELSE sess.host)
           ELSE IF Names("inet_server_port")
           THEN Scalar("inet_server_port", OrElse(sess.port, <<"15432">>))
           ELSE IF Names("pg_is_in_recovery") THEN Scalar("pg_is_in_recovery", <<"f">>)
           ELSE IF Names("pg_backend_pid") THEN Scalar("pg_backend_pid", <<sess.pid>>)
           ELSE IF Names("pg_postmaster_start_time")
           THEN Scalar("pg_postmaster_start_time", <<"now">>)
           ELSE NoRows("result")
  IN Of(Normalize(sql))

-----------------------------------------------------------------------------
\* Timestamp texts: with milliseconds, the only ones timestampInWhereRe
\* matches, and with whole seconds.
Milliseconds == {"2024-01-15 10:30:00.123", "2024-01-15 10:30:00.5+00"}
WholeSeconds == {"2024-01-15 10:30:00"}

\* Mutant: timestamps of whole seconds are compared by milliseconds as well.
ComparisonAtAnyTime(w, i) ==
  LET close == Min({k \in (i + 1)..Len(w) : w[k] = DQ} \cup {Len(w) + 1})
      eq == SkipBlanks(w, close + 1)
      lit == SkipBlanks(w, eq + 1)
  IN [ok |-> /\ At(w, i) = DQ /\ close > i + 1 /\ At(w, eq) = "="
             /\ At(w, lit) = SQ /\ At(w, lit + 1) \in Milliseconds \cup WholeSeconds
             /\ At(w, lit + 2) = SQ,
      close |-> close, literal |-> lit]

\* timestampInWhereRe at i of the WHERE clause: the positions of the column's
\* closing quote and of the literal's.
ComparisonAt(w, i) ==
  LET close == Min({k \in (i + 1)..Len(w) : w[k] = DQ} \cup {Len(w) + 1})
      eq == SkipBlanks(w, close + 1)
      lit == SkipBlanks(w, eq + 1)
  IN [ok |-> /\ At(w, i) = DQ /\ close > i + 1 /\ At(w, eq) = "="
             /\ At(w, lit) = SQ /\ At(w, lit + 1) \in Milliseconds /\ At(w, lit + 2) = SQ,
      close |-> close, literal |-> lit]

RewriteTimestampComparisons(sql) ==
  LET Rewritten(w) ==
        LET Truncated(i, m) ==
              <<"date_trunc", "(", SQ, "milliseconds", SQ, ",", " ">>
              \o SubSeq(w, i, m.close) \o <<")", " ", "=", " ">>
              \o SubSeq(w, m.literal, m.literal + 2)
            Piece(i, m) == IF m.ok THEN [text |-> Truncated(i, m), next |-> m.literal + 3]
                           ELSE [text |-> <<w[i]>>, next |-> i + 1]
            out[i \in Nat] == IF i > Len(w) THEN <<>>
                              ELSE LET p == Piece(i, ComparisonAt(w, i))
                                   IN p.text \o out[p.next]
        IN out[1]
      Where(red) == {i \in 2..(Len(red) - 1) :
                       red[i - 1] = " " /\ red[i] = "where" /\ red[i + 1] = " "}
      From(k) == SubSeq(sql, 1, k - 1) \o Rewritten(After(sql, k))
      Of(wheres) == IF wheres = {} THEN sql ELSE From(Min(wheres) + 2)
  IN IF At(TrimSpace(sql), 1) \notin {"update", "delete"} THEN sql
     ELSE Of(Where(Redact("Postgres", sql)))

=============================================================================
