------------------------------ MODULE PgCatalog ------------------------------
(***************************************************************************)
(* The catalog queries the PostgreSQL wire answers from the cached schema: *)
(* the select list, the expressions and CASEs in it, and the predicates on *)
(* tables.  Where the code matches a regular expression on the redacted    *)
(* text, the operator here gives the matches on atoms.  schema is a        *)
(* sequence of [name, columns]; names and values are sequences of atoms.   *)
(***************************************************************************)
EXTENDS SqlText

Null == <<"NULL">>
BaseTable == <<"base", " ", "table">>
IsIdentPg(c) == IsIdent(c) \/ c = "$"
Numbers == {"0", "1", "2", "16384", "16385", "16386"}

\* tokenAt
TokenAt(s, i, tok) ==
  At(s, i) = tok /\ ~IsIdentPg(At(s, i - 1)) /\ ~IsIdentPg(At(s, i + 1))

SkipBlanks(s, i) == Min({j \in i..Len(s) : s[j] \notin Spaces} \cup {Len(s) + 1})
After(s, i) == SubSeq(s, i, Len(s))

DepthAt(red, a, i) ==
  Cardinality({k \in a..i : red[k] = "("}) - Cardinality({k \in a..i : red[k] = ")"})

-----------------------------------------------------------------------------
(* Names and expressions.                                                  *)

\* bareIdentRe, and identRe: names, quoted or not, joined by dots.
IsBareIdent(e) == e # <<>> /\ e[1] \notin Numbers \cup {"$"} /\ \A k \in DOMAIN e : IsIdentPg(e[k])
IsIdentPath(e) ==
  LET dots == {k \in DOMAIN e : e[k] = "."}
      parts == Pieces(e, dots)
      IsPart(p) == LET x == SubSeq(e, p.from, p.to)
                   IN \/ IsBareIdent(x)
                      \/ /\ Len(x) > 2 /\ x[1] = DQ /\ x[Len(x)] = DQ
                         /\ \A k \in 2..(Len(x) - 1) : x[k] # DQ
  IN \A k \in DOMAIN parts : IsPart(parts[k])

\* unqualify
Unqualify(s) ==
  LET t == TrimLeft(TrimRight(TrimSpace(s), {DQ}), {DQ})
      dot == Max({k \in DOMAIN t : t[k] = "."} \cup {0})
  IN TrimLeft(TrimRight(After(t, dot + 1), {DQ}), {DQ})

\* funcCallRe: the name of the called function, or <<>>.
FuncName(e) ==
  LET open == Min({k \in DOMAIN e : e[k] = "("} \cup {Len(e) + 1})
      head == TrimRight(SubSeq(e, 1, open - 1), Spaces)
  IN IF open <= Len(e) /\ e[Len(e)] = ")" /\ IsIdentPath(head) /\ DQ \notin Range(head)
     THEN Unqualify(head) ELSE <<>>

\* numberRe
IsNumber(e) == Len(e) \in {1, 2} /\ Last(e) \in Numbers /\ (Len(e) = 2 => e[1] = "-")

\* exprCol: the expression without its trailing chain of casts.
ExprCol(item) ==
  LET \* castSuffixRe: types without modifiers, each after its ::
      IsChain(c) ==
        LET types == Pieces(c, {m \in DOMAIN c : c[m] = "::"})
        IN \A n \in 2..Len(types) :
             IsIdentPath(TrimSpace(SubSeq(c, types[n].from, types[n].to)))
      Cast(e) == Min({k \in DOMAIN e : e[k] = "::" /\ IsChain(After(e, k))} \cup {Len(e) + 1})
      Cut(e, k) == [expr |-> TrimSpace(SubSeq(e, 1, k - 1)), cast |-> After(e, k)]
      Col(e) == Cut(e, Cast(e))
  IN Col(TrimSpace(item))

\* splitAlias: the last top-level AS between blanks, else two bare words.
SplitAlias(item) ==
  LET Alone(expr, alias) == [expr |-> expr, alias |-> alias]
      AsAt(red) == Max({i \in 1..(Len(red) - 2) :
                         /\ red[i] \in Spaces /\ red[i + 1] = "as" /\ red[i + 2] \in Spaces
                         /\ DepthAt(red, 1, i) = 0} \cup {0})
      FirstBlank(red, i) == Min({k \in i..Len(red) : red[k] \in Spaces} \cup {Len(red) + 1})
      Second(red) == SkipBlanks(red, FirstBlank(red, SkipBlanks(red, 1)))
      IsAlias(red, k) == /\ k <= Len(red) /\ \A n \in k..Len(red) : red[n] \notin Spaces
                         /\ IsBareIdent(After(item, k))
      Split(red, as, second) ==
        IF as > 0
        THEN Alone(TrimSpace(SubSeq(item, 1, as - 1)),
                   TrimLeft(TrimRight(TrimSpace(After(item, as + 2)), {DQ}), {DQ}))
        ELSE IF IsAlias(red, second)
        THEN Alone(TrimSpace(SubSeq(item, 1, second - 1)), After(item, second))
        ELSE Alone(item, <<>>)
      Of(red) == Split(red, AsAt(red), Second(red))
  IN Of(Redact("Postgres", item))

\* selectList: from SELECT [DISTINCT | ALL] to the top-level FROM.
SelectList(sql) ==
  LET SkipWord(red, a) ==
        IF At(red, a) \in {"distinct", "all"} /\ At(red, a + 1) \in Spaces
        THEN SkipBlanks(red, a + 1) ELSE a
      End(red, b) == Min({i \in b..Len(red) : DepthAt(red, b, i) = 0 /\ TokenAt(red, i, "from")}
                         \cup {Len(red) + 1})
      List(red, b) == SubSeq(sql, b, End(red, b) - 1)
      From(red, s) == [ok |-> At(red, s) = "select" /\ At(red, s + 1) \in Spaces,
                       list |-> List(red, SkipWord(red, SkipBlanks(red, s + 1)))]
      Of(red) == From(red, SkipBlanks(red, 1))
  IN Of(Redact("Postgres", sql))

\* One opening and one closing parenthesis removed, where there are.
Unparen(e) ==
  LET t == IF At(e, 1) = "(" THEN Tail(e) ELSE e
  IN IF At(t, Len(t)) = ")" THEN Front(t) ELSE t

RECURSIVE RequestedColumns(_, _)

\* exprName: the header of an unaliased item.
ExprName(e) ==
  LET Or(name) == IF name = <<>> THEN <<"?column?">> ELSE name
      First(cols) == IF cols = <<>> THEN <<>> ELSE cols[1].output
  IN IF IsIdentPath(e) THEN Unqualify(e)
     ELSE IF At(e, 1) = "(" THEN Or(First(RequestedColumns(Unparen(e), <<>>)))
     ELSE IF TokenAt(e, 1, "case") THEN <<"case">>
     ELSE Or(FuncName(e))

\* parseSelCol and requestedColumns: what the client asked for, or defaults.
RequestedColumns(sql, defaults) ==
  LET Items(parts) == SelectSeq([k \in DOMAIN parts |-> TrimSpace(parts[k])],
                                LAMBDA p : p # <<>>)
      Named(alias, c) == [output |-> IF alias # <<>> THEN alias ELSE ExprName(c.expr),
                          expr |-> c.expr, cast |-> c.cast]
      Col(x) == Named(x.alias, ExprCol(x.expr))
      Cols(items) == SelectSeq([k \in DOMAIN items |-> Col(SplitAlias(items[k]))],
                               LAMBDA c : c.output # <<>>)
      Asked(list) == IF list = <<>> \/ "*" \in Range(list) THEN <<>>
                     ELSE Cols(Items(SplitTopLevelCommas("Postgres", list)))
      OrDefaults(cols) == IF cols = <<>> THEN defaults ELSE cols
      From(sel) == IF sel.ok THEN OrDefaults(Asked(TrimSpace(sel.list))) ELSE defaults
  IN From(SelectList(sql))

OutputNames(cols) == [k \in DOMAIN cols |-> cols[k].output]
Default(names) ==
  [k \in DOMAIN names |-> [output |-> <<names[k]>>, expr |-> <<names[k]>>, cast |-> <<>>]]

-----------------------------------------------------------------------------
(* The value of an expression for one catalog row.  get is a sequence of   *)
(* [keys, value]: the columns and, as fn:name, the functions the row can   *)
(* answer; anything else is NULL.                                          *)

Look(get, key) ==
  LET known == {k \in DOMAIN get : key \in get[k].keys}
  IN IF known = {} THEN Null ELSE get[Min(known)].value

\* '' inside a literal is one quote.
Undouble(s) ==
  LET read[i \in Nat] ==
        IF i > Len(s) THEN <<>>
        ELSE <<s[i]>> \o read[IF s[i] = SQ /\ At(s, i + 1) = SQ THEN i + 2 ELSE i + 1]
  IN read[1]

\* A whole word by the \b of a regular expression, for which $ is no word byte.
WordAt(s, i, w) == At(s, i) = w /\ ~IsIdent(At(s, i - 1)) /\ ~IsIdent(At(s, i + 1))

\* evalCond's regular expression on the redacted condition.  A literal is
\* blank there, and the blanks around the operands are matched first, so an
\* operand that is only a literal keeps the last of its characters.
CondMatch(red) ==
  LET IsOp(k) == \/ red[k] \in {"=", "<>"}
                 \/ WordAt(red, k, "in")
                 \/ WordAt(red, k, "not") /\ WordAt(red, SkipBlanks(red, k + 1), "in")
      Ink(i, j) == Max({m \in i..j : red[m] \notin Spaces} \cup {i})
      OpEnd(k) == IF red[k] = "not" THEN SkipBlanks(red, k + 1) ELSE k
      Later(a) == {k \in (a + 1)..(Len(red) - 1) : IsOp(k) /\ OpEnd(k) < Len(red)}
      Match(left, k, r) ==
        [ok |-> TRUE, left |-> left, op |-> red[k],
         right |-> IF r > Len(red) THEN <<Len(red), Len(red)>> ELSE <<r, Ink(r, Len(red))>>]
      OpAt(left, k) == Match(left, k, SkipBlanks(red, OpEnd(k) + 1))
      OpAfter(a, k) == OpAt(<<a, Ink(a, k - 1)>>, k)
      From(a, later) ==
        IF later # {} THEN OpAfter(a, Min(later))
        ELSE IF a > 1 /\ a < Len(red) /\ IsOp(a) THEN OpAt(<<a - 1, a - 1>>, a)
        ELSE [ok |-> FALSE]
      Of(a) == From(a, Later(a))
  IN Of(SkipBlanks(red, 1))

SameValue(a, b) == a # Null /\ b # Null /\ a = b

RECURSIVE EvalExpr(_, _), EvalCase(_, _), EvalCond(_, _)

EvalExpr(c, get) ==
  LET e == c.expr
      quoted == e # <<>> /\ e[1] = SQ
  IN CASE e = <<>> \/ e = <<"null">> -> Null
       [] e = <<"true">> -> <<"t">>
       [] e = <<"false">> -> <<"f">>
       [] /\ IsIdentPath(e) /\ e \notin {<<"true">>, <<"false">>, <<"null">>} ->
            Look(get, IF "regclass" \in Range(c.cast) THEN <<"regclass">> ELSE Unqualify(e))
       [] IsNumber(e) -> e
       [] quoted -> IF Len(e) > 1 /\ Last(e) = SQ
                    THEN Undouble(SubSeq(e, 2, Len(e) - 1)) ELSE Null
       [] Len(e) > 1 /\ TokenAt(e, 1, "case") -> EvalCase(e, get)
       [] OTHER -> IF FuncName(e) # <<>> THEN Look(get, <<"fn:">> \o FuncName(e)) ELSE Null

EvalCond(cond, get) ==
  LET Operand(span) == SubSeq(cond, span[1], span[2])
      Value(t) == EvalExpr(ExprCol(t), get)
      Listed(v, items) == \E k \in DOMAIN items : SameValue(v, Value(items[k]))
      In(v, right) == Listed(v, SplitTopLevelCommas("Postgres", Unparen(right)))
      Compare(v, op, w) == IF op = "=" THEN SameValue(v, w) ELSE w # Null /\ ~SameValue(v, w)
      Holds(v, op, right) ==
        /\ v # Null
        /\ IF op \in {"=", "<>"} THEN Compare(v, op, Value(right))
           ELSE In(v, right) = (op = "in")
      Of(m) == m.ok /\ Holds(Value(Operand(m.left)), m.op, TrimSpace(Operand(m.right)))
  IN Of(CondMatch(Redact("Postgres", cond)))

\* A CASE as its keywords at depth zero of the redacted text, each with the
\* text up to the next.
KeywordSpans(red) ==
  SetToSortSeq({i \in 1..Len(red) :
    /\ DepthAt(red, 1, i) = 0
    /\ \E kw \in {"case", "when", "then", "else", "end"} : TokenAt(red, i, kw)}, <)
ClausesAt(e, red, spans) ==
  [k \in DOMAIN spans |->
     [word |-> red[spans[k]],
      text |-> IF k = Len(spans) THEN <<>> ELSE SubSeq(e, spans[k] + 1, spans[k + 1] - 1)]]
CaseClauses(e, red) == ClausesAt(e, red, KeywordSpans(red))

ValueOf(t, get) == EvalExpr(ExprCol(t), get)
WhenHolds(operand, test, get) ==
  IF operand = <<>> THEN EvalCond(test, get)
  ELSE SameValue(ValueOf(operand, get), ValueOf(test, get))

\* The clause that decides: the first WHEN that holds, else the ELSE, else 0.
CaseBranch(cs, operand, get) ==
  LET branch[k \in Nat] ==
        IF k + 1 > Len(cs) THEN 0
        ELSE IF cs[k].word = "else" THEN k
        ELSE IF cs[k].word # "when" THEN branch[k + 1]
        ELSE IF cs[k + 1].word # "then" \/ k + 2 > Len(cs) THEN 0
        ELSE IF WhenHolds(operand, cs[k].text, get) THEN k + 1
        ELSE branch[k + 2]
  IN branch[2]

BranchValue(cs, k, get) == IF k = 0 THEN Null ELSE ValueOf(cs[k].text, get)
RunCase(cs, get) ==
  IF Len(cs) < 4 \/ cs[1].word # "case" \/ Last(cs).word # "end" THEN Null
  ELSE BranchValue(cs, CaseBranch(cs, TrimSpace(cs[1].text), get), get)

EvalCase(e, get) == RunCase(CaseClauses(e, Redact("Postgres", e)), get)

\* rowFor
RowFor(cols, get) == [k \in DOMAIN cols |-> EvalExpr(cols[k], get)]

\* tableOID, counted from firstTableOID; the model has at most three tables.
TableOID(i) == <<"16384", "16385", "16386">>[i]
Count(n) == <<"0", "1", "2", "3">>[n + 1]

Field(keys, value) == [keys |-> {<<k>> : k \in keys}, value |-> value]
Function(name, value) == [keys |-> {<<"fn:", name>>}, value |-> value]

\* pgClassLookup
PgClassLookup(i, t) ==
  <<Field({"oid", "relfilenode"}, <<TableOID(i)>>),
    Field({"relname", "regclass", "table_name", "tablename"}, t.name),
    Field({"nspname", "table_schema", "schemaname"}, <<"public">>),
    Field({"table_catalog", "tableowner"}, <<"redash">>),
    Function("pg_get_userbyid", <<"redash">>),
    Field({"table_type"}, BaseTable),
    Field({"relkind"}, <<"r">>),
    Field({"relnamespace"}, <<"2200">>),
    Field({"relowner"}, <<"10">>),
    Field({"relam"}, <<"2">>),
    Field({"amname"}, <<"heap">>),
    Field({"relnatts"}, <<Count(Len(t.columns))>>),
    Field({"reltuples"}, <<"-", "1">>),
    Field({"relpages", "relchecks", "reltablespace", "reltoastrelid", "reloftype"}, <<"0">>),
    Field({"relpersistence"}, <<"p">>),
    Field({"relreplident"}, <<"d">>),
    Field({"relispopulated"}, <<"t">>),
    Function("pg_table_is_visible", <<"t">>),
    Field({"relhasindex", "relhasrules", "relhastriggers", "relrowsecurity",
           "relforcerowsecurity", "relhasoids", "relispartition", "relisshared",
           "relhassubclass"}, <<"f">>)>>

\* pgAttributeLookup: the column's own fields before those of its table.
PgAttributeLookup(i, t, ordinal) ==
  <<Field({"attname", "column_name"}, t.columns[ordinal]),
    Field({"attnum", "ordinal_position"}, <<Count(ordinal)>>),
    Field({"attrelid"}, <<TableOID(i)>>),
    Field({"atttypid"}, <<"25">>),
    Function("format_type", <<"text">>),
    Field({"typname", "data_type", "udt_name", "type_name", "column_type"}, <<"text">>),
    Field({"atttypmod", "attlen"}, <<"-", "1">>),
    Field({"attndims", "attinhcount"}, <<"0">>),
    Field({"attcollation"}, <<"100">>),
    Field({"attstorage"}, <<"x">>),
    Field({"attalign"}, <<"i">>),
    Field({"attidentity", "attgenerated", "attcompression"}, <<>>),
    Field({"attnotnull", "atthasdef", "attisdropped", "attbyval"}, <<"f">>),
    Field({"attislocal"}, <<"t">>),
    Field({"is_nullable"}, <<"yes">>)>> \o PgClassLookup(i, t)

-----------------------------------------------------------------------------
(* The predicates on tables.                                               *)

\* quotedAt: the literal that opens at i, blanks skipped.
QuotedAt(sql, i) ==
  LET a == SkipBlanks(sql, i)
      closes == {k \in (a + 1)..Len(sql) : sql[k] = SQ}
  IN IF At(sql, a) = SQ /\ closes # {}
     THEN [ok |-> TRUE, text |-> SubSeq(sql, a + 1, Min(closes) - 1)]
     ELSE [ok |-> FALSE, text |-> <<>>]

\* The positions after `column op` for one of the columns and operators.
Compared(red, columns, ops) ==
  {SkipBlanks(red, i + 1) + 1 :
     i \in {k \in 1..Len(red) : /\ red[k] \in columns /\ ~IsIdent(At(red, k - 1))
                                /\ At(red, SkipBlanks(red, k + 1)) \in ops}}

\* A regular expression as the clients write it: ^(name)$, or a substring.
PatternMatches(p, name) ==
  IF Len(p) > 4 /\ p[1] = "^" THEN SubSeq(p, 3, Len(p) - 2) = name
  ELSE \E i \in 1..(Len(name) + 1) : IsPrefix(p, After(name, i))

EmptyCatalogs == {"pg_inherits", "pg_index", "pg_constraint", "pg_trigger",
                  "pg_rewrite", "pg_policy", "pg_depend", "pg_partitioned_table"}

\* Mutant: an outer join counts as a join.
JoinsEmptyCatalogAnyhow(red) ==
  \E i \in 1..Len(red) :
    /\ red[i] \in {",", "join", "from"} /\ At(red, i + 1) \in Spaces
    /\ At(red, SkipBlanks(red, i + 1)) \in EmptyCatalogs

\* emptyJoinRe with isOuterJoin: a catalog without rows is joined, not outer.
JoinsEmptyCatalog(red) ==
  \E i \in 1..Len(red) :
    /\ red[i] \in {",", "join", "from"} /\ (red[i] # "," => ~IsIdent(At(red, i - 1)))
    /\ At(red, i + 1) \in Spaces
    /\ LET a == SkipBlanks(red, i + 1)
           t == IF At(red, a) = "pg_catalog" /\ At(red, a + 1) = "." THEN a + 2 ELSE a
       IN At(red, t) \in EmptyCatalogs /\ ~IsIdent(At(red, t + 1))
    /\ LET before == TrimRight(SubSeq(red, 1, i - 1), Spaces)
       IN red[i] = "join" => At(before, Len(before)) \notin {"left", "full", "outer"}

ParseRelationFilter(sql) ==
  LET Literals(ats) == {q.text : q \in {x \in {QuotedAt(sql, i) : i \in ats} : x.ok}}
      IntAt(k) == At(sql, SkipBlanks(sql, k))
      Is(red, columns, op) == Literals(Compared(red, columns, {op}))
      NotPublic(red) ==
        LET schema == {"nspname", "table_schema", "schemaname"}
        IN \/ \E v \in Is(red, schema, "=") : v # <<"public">>
           \/ \E v \in Is(red, schema, "~") : ~PatternMatches(v, <<"public">>)
      \* texts are what an oid is compared with, but for the bare numbers ints
      Filter(red, ints, texts) ==
        [names |-> Is(red, {"relname", "table_name", "tablename"}, "=")
                   \cup {Unqualify(v) : v \in {x \in texts : ~IsNumber(x)}},
         oids |-> ints \cup {v[1] : v \in {x \in texts : IsNumber(x)}},
         patterns |-> Is(red, {"relname"}, "~"),
         none |-> NotPublic(red) \/ JoinsEmptyCatalog(red)]
      Oids(red, ats) == Filter(red, {IntAt(k) : k \in ats} \cap Numbers,
                               Literals({k \in ats : IntAt(k) \notin Numbers}))
      Of(red) == Oids(red, Compared(red, {"oid", "attrelid"}, {"="}))
  IN Of(Redact("Postgres", sql))

\* relationFilter.admits
Admits(f, i, t) ==
  /\ ~f.none
  /\ f.names # {} => t.name \in f.names
  /\ \A p \in f.patterns : PatternMatches(p, t.name)
  /\ f.oids # {} => TableOID(i) \in f.oids

\* columnPredicates: every comparison of the column with literals.
ColumnPredicates(sql, column) ==
  LET List(negated, end) == [kind |-> "list", negated |-> negated, end |-> end]
      One(negated, end) == [kind |-> "one", negated |-> negated, end |-> end]
      \* the operator at a, and what stands after it
      Op(red, a, b, c) ==
        LET list == At(red, c) = "("
        IN CASE At(red, a) = "=" -> IF At(red, b) = "any" /\ list THEN List(FALSE, c)
                                    ELSE One(FALSE, a)
             [] At(red, a) = "not" /\ b > a + 1 /\ At(red, b) = "in" /\ list -> List(TRUE, c)
             [] At(red, a) = "in" /\ At(red, b) = "(" -> List(FALSE, b)
             [] At(red, a) = "<>" -> One(TRUE, a)
             [] OTHER -> [kind |-> "none"]
      OpBefore(red, a, b) == Op(red, a, b, SkipBlanks(red, b + 1))
      OpFrom(red, a) == OpBefore(red, a, SkipBlanks(red, a + 1))
      \* expandArrayLiteral: '{r,p}' stands for its elements.
      Elements(v) == {TrimLeft(TrimRight(TrimSpace(SubSeq(v, p.from, p.to)), {DQ}), {DQ}) :
                        p \in Range(Pieces(v, {k \in DOMAIN v : v[k] \in {"{", ","}}))}
      Expand(v) == IF Len(v) >= 2 /\ v[1] = "{" /\ v[Len(v)] = "}" THEN Elements(Front(v))
                   ELSE {v}
      ListEnd(red, i) == Min({k \in i..Len(red) : red[k] = ")"} \cup {Len(red) + 1})
      \* quotedRe over the list: literals opened by the odd quotes.
      Literals(quotes) == {SubSeq(sql, quotes[2 * k - 1] + 1, quotes[2 * k] - 1) :
                             k \in 1..(Len(quotes) \div 2)}
      Listed(red, i) == Literals(SetToSortSeq({k \in i..(ListEnd(red, i) - 1) : sql[k] = SQ}, <))
      Quoted(q) == IF q.ok THEN {q.text} ELSE {}
      Pred(o, values) == [negated |-> o.negated, values |-> UNION {Expand(v) : v \in values}]
      \* the comparison that o opens, if it is one with literals
      Preds(red, o) ==
        IF o.kind = "list" THEN {Pred(o, Listed(red, o.end + 1))}
        ELSE IF o.kind = "one" /\ QuotedAt(sql, o.end + 1).ok
        THEN {Pred(o, Quoted(QuotedAt(sql, o.end + 1)))}
        ELSE {}
      Of(red) == UNION {Preds(red, OpFrom(red, SkipBlanks(red, i + 1))) :
                          i \in {k \in 1..Len(red) : WordAt(red, k, column)}}
  IN Of(Redact("Postgres", sql))

\* predicatesAdmit
PredicatesAdmit(preds, want) ==
  /\ \A p \in preds : p.negated => want \notin p.values
  /\ (\E p \in preds : ~p.negated) => \E p \in preds : ~p.negated /\ want \in p.values

RelkindAdmitsTables(sql) == PredicatesAdmit(ColumnPredicates(sql, "relkind"), <<"r">>)
TableTypeAdmitsBaseTables(sql) ==
  PredicatesAdmit(ColumnPredicates(sql, "table_type"), BaseTable)

AdmittedTables(sql, schema, kindOK) ==
  LET Of(f) == SelectSeq([i \in DOMAIN schema |-> i], LAMBDA i : Admits(f, i, schema[i]))
  IN IF kindOK THEN Of(ParseRelationFilter(sql)) ELSE <<>>

-----------------------------------------------------------------------------
(* The handlers.                                                           *)

\* A whole phrase bounded by non-identifiers (ContainsToken).
ContainsPhrase(s, phrase) ==
  \E i \in 1..Len(s) : /\ IsPrefix(phrase, After(s, i)) /\ ~IsIdent(At(s, i - 1))
                       /\ ~IsIdent(At(s, i + Len(phrase)))

TableRows(schema, cols, is) ==
  [k \in DOMAIN is |-> RowFor(cols, PgClassLookup(is[k], schema[is[k]]))]

\* columnRows
ColumnRows(schema, cols, is) ==
  FlattenSeq([k \in DOMAIN is |-> [o \in DOMAIN schema[is[k]].columns |->
                RowFor(cols, PgAttributeLookup(is[k], schema[is[k]], o))]])

Answer(cols, rows) == [names |-> OutputNames(cols), rows |-> rows]

\* handlePgDatabaseQuery, whatever columns were asked for; a source is [name, id].
HandlePgDatabaseQuery(sources) ==
  Answer(Default(<<"datname", "oid", "datistemplate", "datallowconn">>),
         [k \in DOMAIN sources |->
            <<sources[k].name, <<sources[k].id>>, <<"f">>, <<"t">>>>])

HandlePgStatioQuery(schema) ==
  Answer(Default(<<"name", "comment", "total_size", "data_size", "index_size">>),
         [k \in DOMAIN schema |-> <<schema[k].name, Null, Null, Null, Null>>])

CatalogOf(lower) ==
  LET Has(w) == ContainsToken(lower, w)
      Of(t) == ContainsPhrase(lower, <<"information_schema", ".", t>>)
  IN IF Has("pg_database") THEN "pg_database"
     ELSE IF "pg_statio_user_tables" \in Range(lower) THEN "pg_statio_user_tables"
     ELSE IF Of("columns") THEN "columns"
     ELSE IF Of("tables") THEN "tables"
     ELSE IF Has("pg_attribute") THEN "pg_attribute"
     ELSE IF Has("pg_class") THEN "pg_class"
     ELSE IF Has("pg_type") \/ Has("pg_enum") THEN "pg_type"
     ELSE IF Has("pg_proc") THEN "pg_proc"
     ELSE IF Has("pg_namespace") THEN "pg_namespace"
     ELSE IF Has("from") THEN "other"
     ELSE "none"

\* The columns a handler answers with when it cannot read the select list.
DefaultColumns ==
  [columns |-> <<"table_name", "column_name", "ordinal_position", "data_type", "is_nullable">>,
   tables |-> <<"table_schema", "table_name", "table_type">>,
   pg_attribute |-> <<"attname", "attnum", "atttypid">>,
   pg_class |-> <<"oid", "table_name", "table_schema">>,
   pg_type |-> <<"oid", "typname">>,
   pg_proc |-> <<"oid", "proname">>,
   none |-> <<"result">>]

KindAdmitsTables(of, sql) ==
  CASE of = "columns" -> TRUE
    [] of = "tables" -> TableTypeAdmitsBaseTables(sql)
    [] OTHER -> RelkindAdmitsTables(sql)

RowsOf(of, schema, cols, is) ==
  CASE of \in {"tables", "pg_class"} -> TableRows(schema, cols, is)
    [] of \in {"columns", "pg_attribute"} -> ColumnRows(schema, cols, is)

AnswerOf(of, sql, schema, cols) ==
  Answer(cols, CASE of \in {"pg_type", "pg_proc"} -> <<>>
                 [] of = "none" -> <<[k \in DOMAIN cols |-> Null]>>
                 [] OTHER -> RowsOf(of, schema, cols,
                               AdmittedTables(sql, schema, KindAdmitsTables(of, sql))))

HandleCatalog(of, sql, schema, sources) ==
  CASE of = "pg_database" -> HandlePgDatabaseQuery(sources)
    [] of = "pg_statio_user_tables" -> HandlePgStatioQuery(schema)
    [] of = "pg_namespace" -> Answer(Default(<<"nspname">>), <<<<<<"public">>>>>>)
    [] of = "other" -> Answer(Default(<<"name">>), <<>>)
    [] OTHER -> AnswerOf(of, sql, schema, RequestedColumns(sql, Default(DefaultColumns[of])))

HandleCatalogQuery(sql, schema, sources) ==
  HandleCatalog(CatalogOf(TrimSpace(Redact("Postgres", sql))), sql, schema, sources)

=============================================================================
