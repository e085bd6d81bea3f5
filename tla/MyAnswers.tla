------------------------------ MODULE MyAnswers ------------------------------
(***************************************************************************)
(* The statements the MySQL wire answers itself (isLocalQuery and the      *)
(* handlers behind handleLocalQuery).  sess is what a local answer sees:   *)
(* [db, connID, sources, schema, readOnly]; schema is a sequence of        *)
(* [name, columns], a column is [name, type, comment].  Names, types and   *)
(* values are sequences of atoms; Null is SQL NULL.  An answer is          *)
(* [names, rows], Done for a statement with no result set, or an error.    *)
(***************************************************************************)
EXTENDS MySqlText

Null == <<"NULL">>
Done == [names |-> <<>>, rows |-> <<>>]
Refused(why) == [error |-> why]
OneRow(names, row) == [names |-> names, rows |-> <<row>>]

\* normalize
Normalize(sql) == TrimSpace(Redact("MySQL", sql))

\* strings.HasPrefix and strings.Contains of a phrase.
StartsWith(s, phrase) == IsPrefix(phrase, s)
Mentions(s, phrase) == \E i \in 1..Len(s) : IsPrefix(phrase, SubSeq(s, i, Len(s)))

\* hasKeyword
HasKeyword(lower, kw) == At(lower, 1) = kw /\ ~IsIdentMy(At(lower, 2))

localFunctions == {"version", "database", "schema", "current_user", "user",
                   "session_user", "system_user", "connection_id"}

Acknowledged(lower) ==
  \/ StartsWith(lower, <<"set", " ">>) \/ StartsWith(lower, <<"start", " ", "transaction">>)
  \/ At(lower, 1) \in {"begin", "commit", "rollback"}

ShowOf(lower, forms) == \E f \in forms : StartsWith(lower, <<"show", " ">> \o f)
ShowDatabases == {<<"databases">>, <<"schemas">>}
ShowTables == {<<"tables">>, <<"full", " ", "tables">>}
ShowVariables == {<<"variables">>, <<"session", " ", "variables">>,
                  <<"global", " ", "variables">>}
ShowStatus == {<<"session", " ", "status">>, <<"status">>}

\* ContainsToken of a phrase that ends in punctuation: only its left side
\* must be a word boundary.
ContainsOpening(s, phrase) ==
  \E i \in 1..Len(s) : /\ IsPrefix(phrase, SubSeq(s, i, Len(s)))
                       /\ ~IsIdent(At(s, i - 1))

isLocalQuery(sql) ==
  LET Of(lower) ==
        \/ Acknowledged(lower)
        \/ ShowOf(lower, ShowDatabases \cup ShowTables \cup ShowVariables \cup ShowStatus)
        \/ ContainsOpening(lower, <<"information_schema", ".">>)
        \/ /\ HasKeyword(lower, "select") /\ ~ContainsToken(lower, "from")
           /\ \/ Mentions(lower, <<"@@">>)
              \/ \E fn \in localFunctions : ContainsOpening(lower, <<fn, "(">>)
  IN Of(Normalize(sql))

-----------------------------------------------------------------------------
(* Session variables and scalar expressions.  The table keeps one variable *)
(* of each kind: a number, a text, an empty text and two read-only ones.   *)

sessionVariables ==
  <<[name |-> "autocommit", value |-> <<"1">>],
    [name |-> "init_connect", value |-> <<>>],
    [name |-> "read_only", value |-> <<"0">>],
    [name |-> "tx_read_only", value |-> <<"0">>],
    [name |-> "version", value |-> <<"8.0.0">>]>>
readOnlyVariables == {"read_only", "super_read_only", "transaction_read_only",
                      "tx_read_only"}

\* variableValue
VariableValue(v, readOnly) ==
  IF readOnly /\ v.name \in readOnlyVariables THEN <<"1">> ELSE v.value

\* lookupVariable: @@name with any of the scopes in front of it.
LookupVariable(ref, readOnly) ==
  LET Trim(s, scope) == IF IsPrefix(<<scope, ".">>, s) THEN SubSeq(s, 3, Len(s)) ELSE s
      name == Trim(Trim(Trim(Tail(ref), "session"), "local"), "global")
      known == {k \in DOMAIN sessionVariables : name = <<sessionVariables[k].name>>}
  IN IF known = {} THEN Null
     ELSE VariableValue(sessionVariables[CHOOSE k \in known : TRUE], readOnly)

\* callLocalFunction
CallLocalFunction(name, sess) ==
  CASE name = "version" -> <<"8.0.0">>
    [] name \in {"database", "schema"} -> IF sess.db = <<>> THEN Null ELSE sess.db
    [] name \in {"user", "current_user", "session_user", "system_user"} -> <<"user">>
    [] name = "connection_id" -> <<sess.connID>>
    [] OTHER -> Null

\* evalLocalExpr
EvalLocalExpr(expr, sess) ==
  LET Word(text) == CASE text = <<"true">> -> <<"1">>
                      [] text = <<"false">> -> <<"0">>
                      [] text = <<"current_user">> -> <<"user">>
                      [] OTHER -> Null
      One(t) == CASE t.kind = "var" -> LookupVariable(t.text, sess.readOnly)
                  [] t.kind \in {"number", "string"} -> t.text
                  [] t.kind = "word" -> Word(t.text)
                  [] OTHER -> Null
      IsCall(toks) == /\ Len(toks) = 3 /\ toks[1].kind = "word" /\ Len(toks[1].text) = 1
                      /\ Is(toks[2], "op", "(") /\ Is(toks[3], "op", ")")
      Of(toks) == IF Len(toks) = 1 THEN One(toks[1])
                  ELSE IF IsCall(toks) THEN CallLocalFunction(toks[1].text[1], sess)
                  ELSE Null
  IN Of(LexTokens(expr))

\* handleLocalSelect
HandleLocalSelect(sql, sess) ==
  LET Of(items) == IF items = <<>> THEN OneRow(<<<<"result">>>>, <<<<>>>>)
                   ELSE OneRow([k \in DOMAIN items |-> items[k].name],
                               [k \in DOMAIN items |-> EvalLocalExpr(items[k].expr, sess)])
  IN Of(SelectItems(sql, <<>>))

-----------------------------------------------------------------------------
(* SHOW.                                                                   *)

\* showTablesCondition: <column> <op> 'value', or NOT LIKE.
ConditionOf(cond, db) ==
  LET negated == Len(cond) = 4 /\ Is(cond[2], "word", "not")
                 /\ Is(cond[3], "word", "like")
      ops == {"=", "<>", "like"}
  IN IF /\ Len(cond) = 3 \/ negated
        /\ IsName(cond[1])
        /\ cond[1].text \in {<<"tables_in_">> \o db, <<"table_type">>}
        /\ Last(cond).kind = "string"
        /\ negated \/ \E o \in ops : cond[2].text = <<o>>
     THEN [field |-> IF cond[1].text = <<"table_type">> THEN "type" ELSE "name",
           op |-> IF negated THEN "not like" ELSE cond[2].text[1],
           value |-> Last(cond).text]
     ELSE [field |-> "unsupported"]

Satisfies(c, name, type) ==
  LET v == IF c.field = "name" THEN name ELSE type
  IN CASE c.op = "=" -> v = c.value
       [] c.op = "<>" -> v # c.value
       [] c.op = "like" -> LikeMatches(c.value, v)
       [] c.op = "not like" -> ~LikeMatches(c.value, v)

BaseTable == <<"base", " ", "table">>

\* showTablesWhere: the conditions between the ANDs.
ConditionsOf(toks, db) ==
  LET ands == {k \in DOMAIN toks : Is(toks[k], "word", "and")}
      parts == Pieces(toks, ands)
  IN [k \in DOMAIN parts |-> ConditionOf(SubSeq(toks, parts[k].from, parts[k].to), db)]

\* handleShowTables
HandleShowTables(sql, sess) ==
  LET \* what follows FROM db, and what was asked for with it
      Filter(rest) ==
        IF rest = <<>> THEN [ok |-> TRUE, like |-> FALSE, conds |-> <<>>]
        ELSE IF Len(rest) = 2 /\ Is(rest[1], "word", "like") /\ rest[2].kind = "string"
        THEN [ok |-> TRUE, like |-> TRUE, pattern |-> rest[2].text, conds |-> <<>>]
        ELSE IF Len(rest) > 1 /\ Is(rest[1], "word", "where")
        THEN [ok |-> TRUE, like |-> FALSE, conds |-> ConditionsOf(Tail(rest), sess.db)]
        ELSE [ok |-> FALSE]
      Admits(f, t) ==
        IF f.like THEN LikeMatches(f.pattern, t.name)
        ELSE \A k \in DOMAIN f.conds : Satisfies(f.conds[k], t.name, BaseTable)
      Column(f) == (IF sess.db = <<>> THEN <<"tables">> ELSE <<"tables_in_">> \o sess.db)
                   \o (IF f.like THEN <<" ", "(">> \o f.pattern \o <<")">> ELSE <<>>)
      Listing(full, names, tables) ==
        [names |-> IF full THEN Append(names, <<"table_type">>) ELSE names,
         rows |-> [k \in DOMAIN tables |->
                     IF full THEN <<tables[k].name, BaseTable>> ELSE <<tables[k].name>>]]
      Filtered(full, f) ==
        IF ~f.ok THEN Refused("syntax")
        ELSE IF \E k \in DOMAIN f.conds : f.conds[k].field = "unsupported"
        THEN Refused("unsupported")
        ELSE Listing(full, <<Column(f)>>, SelectSeq(sess.schema, LAMBDA t : Admits(f, t)))
      \* i is where FROM may stand
      Show(toks, full, i) ==
        LET from == Len(toks) >= i /\ (Is(toks[i], "word", "from") \/ Is(toks[i], "word", "in"))
            next == IF from THEN i + 2 ELSE i
        IN IF from /\ (i + 1 > Len(toks) \/ ~IsName(toks[i + 1])) THEN Refused("syntax")
           ELSE IF from /\ toks[i + 1].text # sess.db
           THEN Refused(IF \E k \in DOMAIN sess.sources : sess.sources[k] = toks[i + 1].text
                        THEN "unsupported" ELSE "bad_db")
           ELSE Filtered(full, Filter(SubSeq(toks, next, Len(toks))))
      Of(toks) == IF Len(toks) >= 2 /\ Is(toks[2], "word", "full")
                  THEN Show(toks, TRUE, 4) ELSE Show(toks, FALSE, 3)
  IN Of(LexTokens(TrimRight(TrimSpace(sql), {";"})))

\* The strings up to the closing parenthesis, from token k on.
ListedStrings(toks, k) ==
  LET close == Min({i \in k..Len(toks) : Is(toks[i], "op", ")")} \cup {Len(toks) + 1})
  IN [values |-> {toks[i].text : i \in {n \in k..(close - 1) : toks[n].kind = "string"}},
      close |-> close]

\* variableNamesIn
VariableNamesIn(toks) ==
  UNION {IF Is(toks[j + 1], "op", "=") /\ toks[j + 2].kind = "string"
         THEN {toks[j + 2].text}
         ELSE IF Is(toks[j + 1], "word", "in") /\ Is(toks[j + 2], "op", "(")
         THEN ListedStrings(toks, j + 3).values
         ELSE {} :
         j \in {k \in 1..(Len(toks) - 2) :
                  IsName(toks[k]) /\ toks[k].text = <<"variable_name">>}}

\* handleShowVariables: the last LIKE or WHERE that applies decides.
HandleShowVariables(sql, readOnly) ==
  LET NamesAfter(toks, i) == VariableNamesIn(SubSeq(toks, i + 1, Len(toks)))
      Likes(toks) == {i \in 1..(Len(toks) - 1) :
                        Is(toks[i], "word", "like") /\ toks[i + 1].kind = "string"}
      Wheres(toks) == {i \in 1..Len(toks) :
                         Is(toks[i], "word", "where") /\ NamesAfter(toks, i) # {}}
      Admits(toks, last, v) ==
        \/ last = 0
        \/ last > 0 /\ Is(toks[last], "word", "like") /\ LikeMatches(toks[last + 1].text, <<v.name>>)
        \/ last > 0 /\ Is(toks[last], "word", "where") /\ <<v.name>> \in NamesAfter(toks, last)
      Shown(toks, last) == SelectSeq(sessionVariables, LAMBDA v : Admits(toks, last, v))
      Listing(shown) ==
        [names |-> <<<<"variable_name">>, <<"value">>>>,
         rows |-> [k \in DOMAIN shown |->
                     <<<<shown[k].name>>, VariableValue(shown[k], readOnly)>>]]
      Of(toks) == Listing(Shown(toks, Max(Likes(toks) \cup Wheres(toks) \cup {0})))
  IN Of(LexTokens(TrimRight(TrimSpace(sql), {";"})))

\* handleShowStatus
HandleShowStatus(lower) ==
  [names |-> <<<<"variable_name">>, <<"value">>>>,
   rows |-> IF Mentions(lower, <<"ssl_version">>)
            THEN <<<<<<"ssl_version">>, <<>>>>>> ELSE <<>>]

-----------------------------------------------------------------------------
(* information_schema.                                                     *)

\* The columns of information_schema.columns the answer tells apart.
infoSchemaColumnsStar ==
  <<<<"table_schema">>, <<"table_name">>, <<"column_name">>,
    <<"ordinal_position">>, <<"is_nullable">>, <<"data_type">>, <<"column_comment">>>>
infoSchemaStatisticsStar == <<<<"table_name">>, <<"index_name">>>>

\* infoSchemaColumnValue
InfoSchemaColumnValue(field, db, table, ordinal, col) ==
  CASE field = <<"table_catalog">> -> <<"def">>
    [] field = <<"table_schema">> -> db
    [] field = <<"table_name">> -> table
    [] field = <<"column_name">> -> col.name
    [] field = <<"ordinal_position">> -> <<ordinal>>
    [] field \in {<<"data_type">>, <<"column_type">>} ->
         IF col.type = <<>> THEN Null ELSE col.type
    [] field = <<"column_comment">> -> col.comment
    [] OTHER -> Null

\* selectItem.eval
EvalItem(expr, Get(_)) ==
  LET Of(toks) ==
        CASE Len(toks) = 1 /\ IsName(toks[1]) -> Get(toks[1].text)
          [] /\ Len(toks) = 3 /\ IsName(toks[1]) /\ IsName(toks[3])
             /\ Is(toks[2], "op", ".") -> Get(toks[3].text)
          [] Len(toks) = 1 /\ toks[1].kind \in {"string", "number"} -> toks[1].text
          [] OTHER -> Null
  IN Of(LexTokens(expr))

\* infoSchemaFilter: the conditions of the top-level WHERE; an OR outside a
\* consumed comparison makes the whole clause admit everything.
InfoSchemaConditions(sql, columns) ==
  LET Cond(op, field, values) == <<[op |-> op, field |-> field, values |-> values]>>
      \* the condition on field whose operator is token j, and where it ends
      CondAt(toks, i, field, j) ==
        LET Follows(kind) == j + 1 <= Len(toks) /\ toks[j + 1].kind = kind
            Listed(list) == [conds |-> Cond("in", field, list.values), next |-> list.close + 1]
            One(op) == [conds |-> Cond(op, field, {toks[j + 1].text}), next |-> j + 2]
            none == [conds |-> <<>>, next |-> i + 1]
        IN IF j > Len(toks) THEN [conds |-> <<>>, next |-> j]
           ELSE IF \A k \in DOMAIN columns : columns[k] # field THEN none
           ELSE IF Is(toks[j], "op", "=") /\ Follows("string") THEN One("in")
           ELSE IF Is(toks[j], "word", "like") /\ Follows("string") THEN One("like")
           ELSE IF Is(toks[j], "word", "in") /\ Follows("op") /\ Is(toks[j + 1], "op", "(")
           THEN Listed(ListedStrings(toks, j + 2))
           ELSE none
      Named(toks, i) ==
        IF i + 2 <= Len(toks) /\ Is(toks[i + 1], "op", ".") /\ IsName(toks[i + 2])
        THEN CondAt(toks, i, toks[i + 2].text, i + 3)
        ELSE CondAt(toks, i, toks[i].text, i + 1)
      Read(toks) ==
        LET conds[i \in Nat] ==
              IF i > Len(toks) THEN <<>>
              ELSE IF Is(toks[i], "word", "or") THEN <<[op |-> "any"]>>
              ELSE IF ~IsName(toks[i]) THEN conds[i + 1]
              ELSE LET c == Named(toks, i) IN c.conds \o conds[c.next]
        IN conds[1]
      Where(red) == {i \in 1..Len(red) : TokenAt(red, i, "where") /\ DepthAt(red, 1, i) = 0}
      Of(wheres) == IF wheres = {} THEN <<>>
                    ELSE Read(LexTokens(SubSeq(sql, Min(wheres) + 1, Len(sql))))
  IN Of(Where(Redact("MySQL", sql)))

Admitted(conds, Get(_)) ==
  \/ \E k \in DOMAIN conds : conds[k].op = "any"
  \/ \A k \in DOMAIN conds :
       LET v == Get(conds[k].field)
       IN /\ v # Null
          /\ IF conds[k].op = "like" THEN \A p \in conds[k].values : LikeMatches(p, v)
             ELSE v \in conds[k].values

\* handleInfoSchemaColumns
HandleInfoSchemaColumns(sql, sess) ==
  LET Get(t, o, f) ==
        InfoSchemaColumnValue(f, sess.db, t.name, o, t.columns[o])
      Row(items, t, o) == [k \in DOMAIN items |->
                             EvalItem(items[k].expr, LAMBDA f : Get(t, o, f))]
      AdmittedOf(conds, t) == SelectSeq([o \in DOMAIN t.columns |-> o],
                                LAMBDA o : Admitted(conds, LAMBDA f : Get(t, o, f)))
      Rows(items, t, os) == [k \in DOMAIN os |-> Row(items, t, os[k])]
      Of(items, conds) ==
        [names |-> [k \in DOMAIN items |-> items[k].name],
         rows |-> FlattenSeq([k \in DOMAIN sess.schema |->
                    Rows(items, sess.schema[k], AdmittedOf(conds, sess.schema[k]))])]
  IN Of(SelectItems(sql, infoSchemaColumnsStar),
        InfoSchemaConditions(sql, infoSchemaColumnsStar))

\* handleInformationSchema, with the fixed listings of tables and collations.
HandleInformationSchema(sql, lower, sess) ==
  LET Listing(names, Row(_)) ==
        [names |-> names, rows |-> [k \in DOMAIN sess.schema |-> Row(sess.schema[k].name)]]
      NoRows(items) == [names |-> [k \in DOMAIN items |-> items[k].name], rows |-> <<>>]
      Of(t) == Mentions(lower, <<"information_schema", ".", t>>)
  IN IF Of("routines") THEN [names |-> <<<<"function_name">>>>, rows |-> <<>>]
     ELSE IF Of("tables") /\ (Mentions(lower, <<"data_length">>)
                              \/ Mentions(lower, <<"total_size">>))
     THEN Listing(<<<<"name">>, <<"total_size">>>>, LAMBDA t : <<t, Null>>)
     ELSE IF Of("tables")
     THEN Listing(<<<<"table_name">>, <<"table_type">>>>, LAMBDA t : <<t, BaseTable>>)
     ELSE IF Of("collation_character_set_applicability")
     THEN Listing(<<<<"engine">>, <<"name">>>>, LAMBDA t : <<<<"innodb">>, t>>)
     ELSE IF Of("columns") THEN HandleInfoSchemaColumns(sql, sess)
     ELSE NoRows(SelectItems(sql, IF Of("statistics") THEN infoSchemaStatisticsStar
                                  ELSE <<<<"name">>>>))

-----------------------------------------------------------------------------
\* handleLocalQuery
HandleNormalized(sql, lower, sess) ==
  IF Acknowledged(lower) THEN Done
  ELSE IF ShowOf(lower, ShowDatabases)
  THEN [names |-> <<<<"database">>>>,
        rows |-> [k \in DOMAIN sess.sources |-> <<sess.sources[k]>>]]
  ELSE IF ShowOf(lower, ShowTables) THEN HandleShowTables(sql, sess)
  ELSE IF ShowOf(lower, ShowVariables) THEN HandleShowVariables(sql, sess.readOnly)
  ELSE IF ShowOf(lower, ShowStatus) THEN HandleShowStatus(lower)
  ELSE IF Mentions(lower, <<"information_schema", ".">>)
  THEN HandleInformationSchema(sql, lower, sess)
  ELSE HandleLocalSelect(sql, sess)

HandleLocalQuery(sql, sess) == HandleNormalized(sql, Normalize(sql), sess)

=============================================================================
