------------------------------ MODULE MCAnswers ------------------------------
(***************************************************************************)
(* The texts of SqlTexts, the lists of Listings and queries for the local  *)
(* answers of both wires.  A query is built from parts (select items and   *)
(* predicates), each given with its text, the name of its column and what  *)
(* SQL makes of it on a row; the answers are compared with that.           *)
(***************************************************************************)
EXTENDS SqlTexts, Listings

CONSTANTS MaxParts,      \* items and predicates of a query
          MaxPlain,      \* the same, for one item and single blanks
          PgItems,       \* the select items of catalog queries; none of them
                         \* compares with a literal in a searched WHEN
          LaterItems,    \* those of them that are not put first
          TestStatements \* whether the statements without parts are included

ASSUME MCAnswersAssumption == MaxParts \in Nat /\ MaxPlain \in Nat

Pg == INSTANCE PgLocal
My == INSTANCE MyAnswers

\* form is also the kind of a query and items its select items.
VARIABLES gap,    \* what separates words
          preds   \* the predicates

answerVars == <<form, gap, items, preds>>
vars == <<answerVars, textVars>>

Null == <<"NULL">>
Lit(s) == <<SQ>> \o s \o <<SQ>>
Words(ws, g) == FlattenSeq([k \in DOMAIN ws |-> IF k = 1 THEN ws[k] ELSE g \o ws[k]])

Comment == <<" ", "/", "*", "from", " ", "pg_database", SQ, "*", "/", " ">>
Gaps == {<<" ">>, <<NL>>, Comment}

\* Comments stand between clauses, not inside items and comparisons.
Blank == IF gap = Comment THEN <<" ">> ELSE gap

\* Two tables; the name of one is a prefix of the name of the other.
PgSchema == <<[name |-> <<"order">>, columns |-> <<<<"c">>, <<"d">>>>],
              [name |-> <<"order", "s">>, columns |-> <<<<"e">>>>]>>
PgSources == <<[name |-> <<"db">>, id |-> "1"], [name |-> <<"other">>, id |-> "2"]>>

Item(of, body, name, Value(_, _)) ==
  [of |-> of, text |-> body, name |-> name,
   value |-> [i \in DOMAIN PgSchema |-> [o \in 0..2 |->
                IF o > Len(PgSchema[i].columns) THEN Null ELSE Value(i, o)]]]

Class == {"class", "attribute"}
Info == {"tables", "columns"}

\* The select items of catalog queries.  o is 0 in a row for a table.
PgItem(id, g) ==
  LET As(e, a) == Words(<<e, <<"as">>, a>>, g)
      Case(ws) == Words(ws, g)
      Name(i, o) == PgSchema[i].name
      Column(i, o) == IF o = 0 THEN Null ELSE PgSchema[i].columns[o]
      Oid(i, o) == <<<<"16384", "16385">>[i]>>
  IN CASE id = "relname" -> Item(Class, <<"c", ".", "relname">>, <<"relname">>, Name)
       [] id = "alias" ->
            Item(Class, As(<<"c", ".", "oid">>, <<DQ, "id", DQ>>), <<"id">>, Oid)
       [] id = "bare" -> Item(Class, Words(<<<<"relname">>, <<"n">>>>, g), <<"n">>, Name)
       [] id = "regclass" ->
            Item(Class, <<"c", ".", "oid", "::", "regclass">>, <<"oid">>, Name)
       [] id = "owner" ->
            Item(Class, <<"pg_catalog", ".", "pg_get_userbyid", "(", "relowner", ")">>,
                 <<"pg_get_userbyid">>, LAMBDA i, o : <<"redash">>)
       [] id = "literal" ->
            Item(Class \cup Info, As(Lit(<<",", "from">>), <<"l">>), <<"l">>,
                 LAMBDA i, o : <<",", "from">>)
       [] id = "quoted" -> Item(Class, <<DQ, "relname", DQ>>, <<"relname">>, Name)
       [] id = "unknown" ->
            Item(Class \cup Info, <<"c", ".", "mystery">>, <<"mystery">>, LAMBDA i, o : Null)
       [] id = "subquery" ->
            Item(Class, <<"(", "select", " ", "x", " ", "from", " ", "y", ")">>, <<"x">>,
                 LAMBDA i, o : Null)
       [] id = "simple_case" ->
            Item(Class, As(Case(<<<<"case">>, <<"c", ".", "relkind">>, <<"when">>, Lit(<<"r">>),
                                  <<"then">>, Lit(<<"when">>), <<"else">>, Lit(<<"end">>),
                                  <<"end">>>>), <<"kind">>), <<"kind">>,
                 LAMBDA i, o : <<"when">>)
       [] id = "in_case" ->
            Item(Class, As(Case(<<<<"case">>, <<"when">>, <<"relpersistence">>, <<"in">>,
                                  <<"(">> \o Lit(<<"t">>) \o <<",">> \o Lit(<<"p">>) \o <<")">>,
                                  <<"then">>, Lit(<<"kept">>), <<"end">>>>), <<"k">>), <<"k">>,
                 LAMBDA i, o : <<"kept">>)
       [] id = "number_case" ->
            Item(Class, Case(<<<<"case">>, <<"when">>, <<"relchecks", "=", "0">>, <<"then">>,
                               <<"relname">>, <<"else">>, <<"null">>, <<"end">>>>),
                 <<"case">>, Name)
       [] id = "attname" -> Item({"attribute"}, <<"a", ".", "attname">>, <<"attname">>, Column)
       [] id = "table_name" -> Item(Info, <<"table_name">>, <<"table_name">>, Name)
       [] id = "schema" ->
            Item(Info, As(<<"t", ".", "table_schema">>, <<"s">>), <<"s">>,
                 LAMBDA i, o : <<"public">>)
       [] id = "column_name" -> Item({"columns"}, <<"column_name">>, <<"column_name">>, Column)

Pred(of, on, body, tables) == [of |-> of, on |-> on, text |-> body, tables |-> tables]

\* The predicates of catalog queries: the column they are on and the tables
\* they hold for.
PgPreds(g) ==
  LET Op(c, op, v) == Words(<<c, <<op>>, v>>, g)
      Quoted(vs) == <<"(">> \o FlattenSeq([k \in DOMAIN vs |->
                      (IF k = 1 THEN <<>> ELSE <<",">>) \o Lit(<<vs[k]>>)]) \o <<")">>
      relname == <<"c", ".", "relname">>
      relkind == <<"relkind">>
      oid == <<"c", ".", "oid">>
  IN {Pred(Class, "name", Op(relname, "=", Lit(<<"order">>)), {1}),
      Pred(Class, "name", Op(relname, "~", Lit(<<"^", "(", "order", ")", "$">>)), {1}),
      Pred(Class, "name", Op(relname, "~", Lit(<<"order">>)), {1, 2}),
      Pred(Class, "oid", Op(oid, "=", <<"16385">>), {2}),
      Pred(Class, "oid", Op(oid, "=", Lit(<<"16384">>)), {1}),
      Pred(Class, "name", Op(oid, "=", Lit(<<"public", ".", "order", "s">>)) \o
                          <<"::", "regclass">>, {2}),
      Pred(Class, "schema", Op(<<"n", ".", "nspname">>, "=", Lit(<<"public">>)), {1, 2}),
      Pred(Class, "schema", Op(<<"n", ".", "nspname">>, "=", Lit(<<"other">>)), {}),
      Pred(Class, "kind", Op(relkind, "=", Lit(<<"r">>)), {1, 2}),
      Pred(Class, "kind", Op(relkind, "in", Quoted(<<"v", "r">>)), {1, 2}),
      Pred(Class, "kind", Op(relkind, "in", Quoted(<<"v", "m">>)), {}),
      Pred(Class, "kind", Words(<<relkind, <<"not">>, <<"in">>, Quoted(<<"r">>)>>, <<" ">>), {}),
      Pred(Class, "kind", Op(relkind, "=", <<"any", "(">> \o Lit(<<"{", "r", ",", "p", "}">>)
                                           \o <<")">>), {1, 2}),
      Pred(Class, "kind", Op(relkind, "<>", Lit(<<"r">>)), {}),
      Pred(Class, "none", <<"pg_table_is_visible", "(", "oid", ")">>, {1, 2}),
      Pred(Info, "name", Op(<<"t", ".", "table_name">>, "=", Lit(<<"order">>)), {1}),
      Pred(Info, "schema", Op(<<"table_schema">>, "=", Lit(<<"public">>)), {1, 2}),
      Pred(Info, "schema", Op(<<"table_schema">>, "=", Lit(<<"other">>)), {}),
      Pred({"tables"}, "kind", Op(<<"table_type">>, "=", Lit(Pg!BaseTable)), {1, 2}),
      Pred({"tables"}, "kind", Op(<<"table_type">>, "in", Quoted(<<"view">>)), {})}

PgForms == {"class", "attribute", "tables", "columns", "no_inherits", "outer_index"}

\* The relation a form reads, and whether it is joined with an empty catalog.
Relation(f) == IF f \in {"no_inherits", "outer_index"} THEN "class" ELSE f

FromText(f) ==
  CASE f = "class" -> <<<<"pg_catalog", ".", "pg_class">>, <<"c">>>>
    [] f = "no_inherits" -> <<<<"pg_class">>, <<"c", ",">>, <<"pg_catalog", ".", "pg_inherits">>>>
    [] f = "outer_index" -> <<<<"pg_class">>, <<"c">>, <<"left">>, <<"join">>, <<"pg_index">>, <<"i">>>>
    [] f = "attribute" -> <<<<"pg_attribute">>, <<"a">>, <<"join">>, <<"pg_class">>, <<"c">>,
                            <<"on">>, <<"a", ".", "attrelid", "=", "c", ".", "oid">>>>
    [] f = "tables" -> <<<<"information_schema", ".", "tables">>, <<"t">>>>
    [] f = "columns" -> <<<<"information_schema", ".", "columns">>, <<"t">>>>

Listed(parts) ==
  FlattenSeq([k \in DOMAIN parts |-> (IF k = 1 THEN <<>> ELSE <<",">>) \o parts[k]])

Selecting(list, next) == Words(<<<<"select">>, Listed(list), <<next>>>>, Blank)

Anded(ps) ==
  IF ps = <<>> THEN <<>>
  ELSE <<<<"where">>>> \o FlattenSeq([k \in DOMAIN ps |->
         IF k = 1 THEN <<ps[k].text>> ELSE <<<<"and">>, ps[k].text>>])

PgText ==
  Selecting([k \in DOMAIN items |-> PgItem(items[k], Blank).text], "from")
  \o gap \o Words(FromText(form) \o Anded(preds), gap)

\* What SQL answers on the catalog the proxy presents.
PgExpected ==
  LET is == SelectSeq([i \in DOMAIN PgSchema |-> i], LAMBDA i :
              form # "no_inherits" /\ \A k \in DOMAIN preds : i \in preds[k].tables)
      Row(i, o) == [k \in DOMAIN items |-> PgItem(items[k], Blank).value[i][o]]
      Rows(i) == IF Relation(form) \in {"attribute", "columns"}
                 THEN [o \in DOMAIN PgSchema[i].columns |-> Row(i, o)]
                 ELSE <<Row(i, 0)>>
  IN [names |-> [k \in DOMAIN items |-> PgItem(items[k], Blank).name],
      rows |-> FlattenSeq([k \in DOMAIN is |-> Rows(is[k])])]

-----------------------------------------------------------------------------
(* The MySQL wire.  Names are sequences of characters here, for LIKE.      *)

NamedColumn(n, t) == [name |-> n, type |-> t, comment |-> <<>>]
MySchema == <<[name |-> <<"a", "b">>, columns |-> <<NamedColumn(<<"c">>, <<"int">>),
                                                    NamedColumn(<<"d">>, <<>>)>>],
              [name |-> <<"a", "_">>, columns |-> <<NamedColumn(<<"c">>, <<"text">>)>>]>>
MySession == [db |-> <<"db">>, connID |-> "7", sources |-> <<<<"db">>, <<"other">>>>,
              schema |-> MySchema, readOnly |-> TRUE]

\* Items of a SELECT without FROM: text, column name, value.
Scalar(body, name, value) == [text |-> body, name |-> name, value |-> value]
MyScalars(g) ==
  {Scalar(<<"version", "(", ")">>, <<"version", "(", ")">>, <<"8.0.0">>),
   Scalar(Words(<<<<"database", "(", ")">>, <<"as">>, <<BQ, "from", BQ>>>>, g),
          <<"from">>, <<"db">>),
   Scalar(Words(<<<<"@@", "session", ".", "autocommit">>, <<"ac">>>>, g), <<"ac">>, <<"1">>),
   Scalar(<<"@@", "tx_read_only">>, <<"@@", "tx_read_only">>, <<"1">>),
   Scalar(<<"connection_id", "(", ")">>, <<"connection_id", "(", ")">>, <<"7">>),
   Scalar(Words(<<Lit(<<",", BS, SQ, "from">>), <<"as">>, <<"l">>>>, g), <<"l">>,
          <<",", SQ, "from">>),
   Scalar(Words(<<<<"1">>, <<"one">>>>, g), <<"one">>, <<"1">>)}

\* Items and predicates over information_schema.columns: a predicate has the
\* columns [table, ordinal] it holds for.
MyCells == {<<t, o>> \in (1..2) \X (1..2) : o <= Len(MySchema[t].columns)}
MyFields(g) ==
  {Scalar(<<"table_name">>, <<"table_name">>, [c \in MyCells |-> MySchema[c[1]].name]),
   Scalar(Words(<<<<"c", ".", BQ, "column_name", BQ>>, <<"as">>, <<"n">>>>, g), <<"n">>,
          [c \in MyCells |-> MySchema[c[1]].columns[c[2]].name]),
   Scalar(Words(<<<<"data_type">>, <<"t">>>>, g), <<"t">>,
          [c \in MyCells |-> LET t == MySchema[c[1]].columns[c[2]].type
                             IN IF t = <<>> THEN Null ELSE t])}
MyPreds(g) ==
  {Pred({"and", "or"}, "schema", <<"table_schema", "=">> \o Lit(<<"db">>), MyCells),
   Pred({"and", "or"}, "schema", Words(<<<<"table_schema">>, <<"in">>,
                               <<"(">> \o Lit(<<"x">>) \o <<")">>>>, g), {}),
   Pred({"and", "or"}, "name", <<"c", ".", "table_name">> \o g \o <<"=">> \o g \o Lit(<<"a", "b">>),
        {<<1, 1>>, <<1, 2>>}),
   Pred({"and", "or"}, "name", Words(<<<<BQ, "table_name", BQ>>, <<"like">>, Lit(<<"a", BS, "_">>)>>, g),
        {<<2, 1>>}),
   Pred({"and", "or"}, "column", <<"column_name", "=">> \o Lit(<<"c">>), {<<1, 1>>, <<2, 1>>})}

Ored(ps) ==
  FlattenSeq([k \in DOMAIN ps |->
    IF k = 1 THEN <<<<"where">>, ps[k].text>> ELSE <<<<"or">>, ps[k].text>>])

MyColumnsText ==
  Selecting([k \in DOMAIN items |-> items[k].text], "from") \o gap \o
  Words(<<<<"information_schema", ".", "columns">>, <<"c">>>>
        \o (IF form = "and" THEN Anded(preds) ELSE Ored(preds)), gap)

MyColumnsExpected ==
  LET all == <<<<1, 1>>, <<1, 2>>, <<2, 1>>>>
      cells == SelectSeq(all, LAMBDA c : \A k \in DOMAIN preds : c \in preds[k].tables)
  IN [k \in DOMAIN cells |-> [n \in DOMAIN items |-> items[n].value[cells[k]]]]

MyScalarText == Selecting([k \in DOMAIN items |-> items[k].text], "limit") \o gap \o <<"1">>

\* LIKE: a pattern is a sequence of characters, "any", "one" and "\\_".
PatternText(p) ==
  FlattenSeq([k \in DOMAIN p |->
    CASE p[k] = "any" -> <<"%">> [] p[k] = "one" -> <<"_">>
      [] p[k] = "esc" -> <<BS, "_">> [] OTHER -> <<p[k]>>])

Patterns == {<<>>, <<"any">>, <<"a", "any">>, <<"one", "one">>, <<"a", "esc">>,
             <<"any", "b">>, <<"a", "one">>, <<"any", "a", "any">>, <<"one">>}

\* p matches s when s can be cut into one segment per item.
LikeHolds(p, s) ==
  \E cut \in [0..Len(p) -> 0..Len(s)] :
    /\ cut[0] = 0 /\ cut[Len(p)] = Len(s)
    /\ \A k \in 1..Len(p) :
         /\ cut[k - 1] <= cut[k]
         /\ CASE p[k] = "any" -> TRUE
              [] p[k] = "one" -> cut[k] = cut[k - 1] + 1
              [] p[k] = "esc" -> cut[k] = cut[k - 1] + 1 /\ s[cut[k]] = "_"
              [] OTHER -> cut[k] = cut[k - 1] + 1 /\ s[cut[k]] = p[k]

ShowForms == {"like", "where_like", "where_not_like", "where_eq"}

ShowText(f, p, full, g) ==
  LET lit == Lit(PatternText(p))
      column == <<BQ, "tables_in_", "db", BQ>>
  IN Words((IF full THEN <<<<"show", " ", "full", " ", "tables">>>>
            ELSE <<<<"show", " ", "tables">>>>)
           \o <<<<"from">>, <<BQ, "db", BQ>>>>
           \o (CASE f = "like" -> <<<<"like">>, lit>>
                 [] f = "where_like" -> <<<<"where">>, column, <<"like">>, lit>>
                 [] f = "where_not_like" -> <<<<"where">>, column, <<"not">>, <<"like">>, lit>>
                 [] f = "where_eq" -> <<<<"where">>, column, <<"=">>, lit, <<"and">>,
                                        <<"table_type">>, <<"=">>, Lit(My!BaseTable)>>), g)

VariableFilters == {"like", "eq", "in"}
VariablesText(f, name, g) ==
  Words(<<<<"show", " ", "session", " ", "variables">>>>
        \o (CASE f = "like" -> <<<<"like">>, Lit(name)>>
              [] f = "eq" -> <<<<"where">>, <<BQ, "variable_name", BQ>>, <<"=">>, Lit(name)>>
              [] f = "in" -> <<<<"where">>, <<"variable_name">>, <<"in">>,
                               <<"(">> \o Lit(name) \o <<",">> \o Lit(<<"x">>) \o <<")">>>>), g)
        \o <<";">>

ShowExpected(f, p, full) ==
  LET ts == SelectSeq(MySchema, LAMBDA t :
              CASE f \in {"like", "where_like"} -> LikeHolds(p, t.name)
                [] f = "where_not_like" -> ~LikeHolds(p, t.name)
                [] f = "where_eq" -> t.name = PatternText(p))
  IN [k \in DOMAIN ts |-> IF full THEN <<ts[k].name, My!BaseTable>> ELSE <<ts[k].name>>]

-----------------------------------------------------------------------------
(* The texts of result values: numbers that fit 64 bits, with more than 15 *)
(* digits, too large, fractional and zero; strings true, empty and other;  *)
(* timestamps without and with a zone.                                     *)

MCTexts == {"7", "0", "9007199254740993", "99999999999999999999", "0.5", "1e999",
            "t", "", "x", "naive", "aware"}
MCDigits == [t \in MCTexts |->
  CASE t = "9007199254740993" -> 16 [] t = "99999999999999999999" -> 20
    [] t = "0.5" -> 2 [] OTHER -> 1]

ResultValues ==
  {[is |-> "number", text |-> t] :
     t \in {"7", "0", "9007199254740993", "99999999999999999999", "0.5", "1e999"}}
  \cup {[is |-> "string", text |-> t] : t \in {"7", "t", "", "x", "naive", "aware"}}
  \cup {[is |-> k, text |-> "x"] : k \in {"null", "true", "false", "nested"}}

-----------------------------------------------------------------------------
(* Data sources: three names that differ only in case, and another.        *)

MCLower == [n \in {"prod", "Prod", "PROD", "test"} |-> IF n = "test" THEN "test" ELSE "prod"]
MCRank == [n \in {"prod", "test"} |-> IF n = "prod" THEN 1 ELSE 2]
MCSources == [id : 1..4, name : DOMAIN MCLower \ {"PROD"}, type : {"pg", "mysql", "other"}]

-----------------------------------------------------------------------------
(* Statements without parts: the settings that ask for a read-write        *)
(* transaction, the scalar functions, and the texts of a write.            *)

PgSession(readOnly) ==
  [database |-> <<"db">>, user |-> <<>>, host |-> <<"0.0.0.0">>, port |-> <<"15432">>,
   pid |-> "7", readOnly |-> readOnly, sources |-> PgSources]

Settings(g) ==
  {[text |-> Words(<<<<"set">>>> \o scope \o <<name>>, g) \o op \o v \o end,
    readWrite |-> v \in {<<"off">>, Lit(<<"false">>), <<"0">>}] :
     scope \in {<<>>, <<<<"session">>>>},
     name \in {<<"transaction_read_only">>, <<"default_transaction_read_only">>},
     op \in {<<"=">>, <<" ", "=", " ">>, g \o <<"to">> \o g},
     v \in {<<"off">>, Lit(<<"false">>), <<"0">>, <<"on">>, Lit(<<"true">>)},
     end \in {<<>>, <<";">>}}
  \cup {[text |-> Words(lead \o <<<<"read">>, mode>>, g) \o end, readWrite |-> mode = <<"write">>] :
     lead \in {<<<<"begin">>>>, <<<<"begin">>, <<"transaction">>>>,
               <<<<"set">>, <<"session">>, <<"characteristics">>, <<"as">>, <<"transaction">>>>},
     mode \in {<<"write">>, <<"only">>}, end \in {<<>>, <<";">>}}

Calls ==
  {<<f, "(", ")">> : f \in Pg!CalledFunctions}
  \cup {<<"current_user">>, <<"session_user">>, <<"current_schemas", "(", "true", ")">>}

Slots == {<<>>, <<"from">>, <<"pg_database">>, <<"version", "(", ")">>, <<";">>,
          <<SQ, SQ>>, <<"information_schema", ".", "tables">>, <<"delete">>, <<"set", " ">>}

Compared(col, ts) == <<DQ, col, DQ, "=", SQ, ts, SQ>>
Timestamps == Pg!Milliseconds \cup Pg!WholeSeconds
Truncated(col, ts) == <<"date_trunc", "(", SQ, "milliseconds", SQ, ",", " ", DQ, col, DQ, ")",
                        " ", "=", " ", SQ, ts, SQ>>
Write(set, cmp, ts1, ts2) ==
  <<"update", " ", "t", " ", "set", " ">> \o set \o <<" ", "where", " ">>
  \o cmp[1] \o <<" ", "and", " ">> \o cmp[2]

-----------------------------------------------------------------------------
AnswerInit ==
  /\ gap \in Gaps
  /\ \/ form \in PgForms \cup {"scalar", "and", "or"} \cup
               (IF TestStatements THEN {"statements"} ELSE {})
     \/ form \in ColumnTypes \cup {"registry"} /\ gap = <<" ">>
  /\ family = "none" /\ dialect = "Postgres" /\ text = <<>> /\ code = {} /\ size = 0

Init ==
  /\ items = <<>> /\ preds = <<>>
  /\ AnswerInit \/ (TextInit /\ form = "none" /\ gap = <<" ">>)

CatalogItems ==
  {id \in PgItems : /\ Relation(form) \in PgItem(id, Blank).of
                    /\ items = <<>> => id \notin LaterItems}

Offered == CASE form \in PgForms -> CatalogItems
             [] form = "scalar" -> MyScalars(Blank)
             [] form \in {"and", "or"} -> MyFields(Blank)
             [] OTHER -> {}

AddItem ==
  /\ Len(items) + Len(preds) < MaxParts
  /\ preds = <<>>
  /\ \E x \in Offered : items' = Append(items, x)
  /\ UNCHANGED <<form, gap, preds>>

AddPredicate ==
  /\ items # <<>> /\ form \in PgForms \cup {"and", "or"}
  /\ Len(items) + Len(preds) < IF gap = <<" ">> /\ Len(items) = 1 THEN MaxPlain ELSE MaxParts
  /\ \E p \in IF form \in PgForms THEN PgPreds(Blank) ELSE MyPreds(Blank) :
       /\ (IF form \in PgForms THEN Relation(form) ELSE form) \in p.of
       /\ \A k \in DOMAIN preds : preds[k].on # p.on
       /\ preds' = Append(preds, p)
  /\ UNCHANGED <<form, gap, items>>

AddToList == (AddRow \/ ListSource) /\ UNCHANGED <<gap, preds>>

Next ==
  \/ (AddItem \/ AddPredicate \/ AddToList) /\ UNCHANGED textVars
  \/ TextNext /\ UNCHANGED answerVars

Spec == Init /\ [][Next]_vars

-----------------------------------------------------------------------------
PgAnswer == Pg!HandleCatalogQuery(PgText, PgSchema, PgSources)

(* A catalog query is answered as SQL would answer it on the catalog the   *)
(* proxy presents: one column per item, under the name a server would give *)
(* it, whatever literals, casts, subqueries and aliases the list has; each *)
(* table its predicates hold for, once, and none for a query about other   *)
(* kinds, schemas or inheritance (requestedColumns, parseRelationFilter,   *)
(* columnPredicates); and each value as SQL evaluates it (evalExpr), of    *)
(* these forms: columns, casts, functions, literals, a simple CASE, and a  *)
(* searched CASE by IN or by a number.  Three forms are left out where the *)
(* code does otherwise: WHEN a = 'literal' and WHEN a <> 'literal', which  *)
(* are never satisfied because condRe matches the redacted text, against   *)
(* the comments on evalCase and evalCond; a literal or a quoted identifier *)
(* that opens the list, which QuotedNamesSurvive is about; and NOT IN over *)
(* a list with a NULL.                                                     *)
CatalogAnswersAsSQL ==
  (form \in PgForms /\ items # <<>>) => PgAnswer = PgExpected

(* Quoted identifiers survive the slicing of the select list (selectList). *)
QuotedNamesSurvive ==
  (form = "class" /\ items # <<>>) => PgAnswer.names = PgExpected.names

(* The MySQL wire answers as asked.  SELECT of functions, variables and    *)
(* literals: one row, one column per item, named by its alias or its text. *)
(* information_schema.columns: AND-ed conditions select exactly their      *)
(* rows, and with an OR the answer is never short of one.  SHOW TABLES     *)
(* lists exactly the tables its LIKE or WHERE admits, and SHOW VARIABLES   *)
(* gives each variable the value SELECT @@ gives it.                       *)
MyAnswersAsAsked ==
  /\ (form = "scalar" /\ items # <<>>) =>
       My!HandleLocalSelect(MyScalarText, MySession)
         = [names |-> [k \in DOMAIN items |-> items[k].name],
            rows |-> <<[k \in DOMAIN items |-> items[k].value]>>]
  /\ (form \in {"and", "or"} /\ items # <<>>) =>
       LET Row(c) == [n \in DOMAIN items |-> items[n].value[c]]
           Right(a) ==
             /\ a.names = [k \in DOMAIN items |-> items[k].name]
             /\ form = "and" => a.rows = MyColumnsExpected
             /\ form = "or" =>
                  \A c \in MyCells :
                    (preds = <<>> \/ \E n \in DOMAIN preds : c \in preds[n].tables)
                    => \E r \in DOMAIN a.rows : a.rows[r] = Row(c)
       IN /\ My!isLocalQuery(MyColumnsText)
          /\ Right(My!HandleLocalQuery(MyColumnsText, MySession))
  /\ form = "statements" =>
       /\ \A f \in ShowForms, p \in Patterns, full \in BOOLEAN :
            My!HandleLocalQuery(ShowText(f, p, full, gap), MySession).rows
              = ShowExpected(f, p, full)
       /\ \A k \in DOMAIN My!sessionVariables, f \in VariableFilters :
            LET name == <<My!sessionVariables[k].name>>
            IN My!HandleLocalQuery(VariablesText(f, name, gap), MySession).rows
                 = <<<<name, My!EvalLocalExpr(<<"@@", "global", ".">> \o name, MySession)>>>>

(* What the PostgreSQL wire answers from the session.  In read-only mode   *)
(* the statements that would ask for a read-write transaction are refused, *)
(* in every form the clients send, and no other setting is.  A bare call   *)
(* of a function the proxy answers is routed to it and gets its one row,   *)
(* never the empty fallback; the same call over a relation does not.       *)
SessionAnswersAsAsked ==
  form = "statements" =>
    /\ \A s \in Settings(Blank) :
         /\ Pg!IsLocalQuery(s.text)
         /\ \A readOnly \in BOOLEAN :
              (Pg!HandleLocalQuery(s.text, PgSession(readOnly)) = Pg!Refusal)
                = (readOnly /\ s.readWrite)
    /\ \A c \in Calls :
         LET bare == Words(<<<<"select">>, c>>, gap)
             over == bare \o gap \o <<"from">> \o gap \o <<"t">>
             Right(a) == Len(a.rows) = 1 /\ a.names = <<<<c[1]>>>>
         IN /\ Pg!IsLocalQuery(bare) /\ Right(Pg!HandleLocalQuery(bare, PgSession(FALSE)))
            /\ ~Pg!IsLocalQuery(over)

(* What a literal, a quoted identifier or a comment contains decides       *)
(* neither how a statement is routed nor whether it writes.                *)
LiteralsDecideNothing ==
  form = "statements" =>
    \A x \in Slots :
      LET Route(t) == <<Pg!IsLocalQuery(t), Pg!IsCatalogQuery(t), Pg!IsMultiStatement("Postgres", t),
                        Pg!WriteVerb("Postgres", t), My!isLocalQuery(t),
                        My!IsMultiStatement("MySQL", t), My!WriteVerb("MySQL", t)>>
          With(y, q) == Words(<<<<"select">>, <<q>> \o y \o <<q>>, <<"c">>>>, gap)
                        \o <<"/", "*">> \o y \o <<"*", "/">>
      IN \A q \in {SQ, DQ} : Cardinality({Route(With(y, q)) : y \in {x, <<>>}}) = 1

(* Only UPDATE and DELETE are rewritten, only comparisons with millisecond *)
(* timestamps in the WHERE clause change, and rewriting twice is rewriting *)
(* once.                                                                   *)
RewritesOnlyComparisons ==
  form = "statements" =>
    \A t1 \in Timestamps, t2 \in Timestamps, t3 \in Timestamps :
      LET Cmp(col, ts) == IF ts \in Pg!Milliseconds THEN Truncated(col, ts) ELSE Compared(col, ts)
          set == Compared("x", t3) \o <<",", DQ, "y", DQ, "=", SQ, " ", "where", " ", SQ>>
          before == Write(set, <<Compared("a", t1), Compared("b", t2)>>, t1, t2)
          after == Write(set, <<Cmp("a", t1), Cmp("b", t2)>>, t1, t2)
          read == <<"select", " ", "c", " ", "from", " ", "t", " ", "where", " ">> \o Compared("a", t1)
      IN /\ Pg!RewriteTimestampComparisons(before) = after
         /\ Pg!RewriteTimestampComparisons(after) = after
         /\ Pg!RewriteTimestampComparisons(read) = read

=============================================================================
