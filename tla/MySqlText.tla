------------------------------ MODULE MySqlText ------------------------------
(***************************************************************************)
(* The text handling of the MySQL wire: its own lexer (lexTokens), the     *)
(* parts of a select list, LIKE patterns, and the removal of the database  *)
(* qualifier before a query goes to Redash.  A token is [kind, text, from, *)
(* to]: text is the sequence of atoms it stands for, unquoted.             *)
(***************************************************************************)
EXTENDS SqlText

\* isIdentByte of this package: $ belongs to identifiers.
IsIdentMy(c) == IsIdent(c) \/ c = "$"

Numbers == {"1", "2", "7"}

\* tokenAt
TokenAt(s, i, kw) ==
  At(s, i) = kw /\ ~IsIdentMy(At(s, i - 1)) /\ ~IsIdentMy(At(s, i + 1))

-----------------------------------------------------------------------------
\* lexQuoted: the unquoted contents.  \% and \_ stay escaped for LIKE; of the
\* control escapes only \n is told apart.
Escaped(c) == IF c \in {"%", "_"} THEN <<BS, c>>
              ELSE IF c = "n" THEN <<NL>> ELSE <<c>>

LexQuoted(s, i, escapes) ==
  LET read[j \in Nat] ==
        IF j > Len(s) THEN <<>>
        ELSE IF escapes /\ s[j] = BS /\ j < Len(s)
             THEN Escaped(s[j + 1]) \o read[j + 2]
        ELSE IF s[j] # s[i] THEN <<s[j]>> \o read[j + 1]
        ELSE IF At(s, j + 1) = s[i] THEN <<s[i]>> \o read[j + 2]
        ELSE <<>>
  IN read[i + 1]

LexQuotedEnd(s, i, escapes) ==
  LET end[j \in Nat] ==
        IF j > Len(s) THEN j
        ELSE IF escapes /\ s[j] = BS /\ j < Len(s) THEN end[j + 2]
        ELSE IF s[j] # s[i] THEN end[j + 1]
        ELSE IF At(s, j + 1) = s[i] THEN end[j + 2]
        ELSE j + 1
  IN end[i + 1]

\* The first position from i on that belongs to no identifier (nor, for a
\* variable or a number, is a dot).
RunEnd(s, i, dots) ==
  Min({j \in i..(Len(s) + 1) : ~IsIdentMy(At(s, j)) /\ ~(dots /\ At(s, j) = ".")})

LexKind(s, i) ==
  CASE s[i] \in Spaces -> "none"
    [] s[i] = "#" \/ (s[i] = "-" /\ At(s, i + 1) = "-") -> "none"
    [] s[i] = "/" /\ At(s, i + 1) = "*" -> "none"
    [] s[i] \in {SQ, DQ} -> "string"
    [] s[i] = BQ -> "quoted"
    [] s[i] = "@@" -> "var"
    [] s[i] \in Numbers -> "number"
    [] IsIdentMy(s[i]) /\ s[i] \notin Numbers -> "word"
    [] OTHER -> "op"

\* The end of the token, or of the blank or comment, that opens at i.
LexEnd(s, i) ==
  LET kind == LexKind(s, i)
  IN CASE kind \in {"string", "quoted"} -> LexQuotedEnd(s, i, kind = "string")
       [] kind = "var" -> RunEnd(s, i + 1, TRUE)
       [] kind = "number" -> RunEnd(s, i, TRUE)
       [] kind = "word" -> RunEnd(s, i, FALSE)
       [] kind = "none" /\ s[i] \in {"#", "-"} -> LineEnd(s, i)
       [] kind = "none" /\ s[i] = "/" ->
            Min({k + 2 : k \in {j \in (i + 2)..(Len(s) - 1) :
                                  s[j] = "*" /\ s[j + 1] = "/"}}
                \cup {Len(s) + 1})
       [] OTHER -> i + 1

LexTokens(s) ==
  LET lex[i \in Nat] ==
        IF i > Len(s) THEN <<>>
        ELSE LET e == LexEnd(s, i)
                 kind == LexKind(s, i)
                 text == IF kind \in {"string", "quoted"}
                         THEN LexQuoted(s, i, kind = "string")
                         ELSE SubSeq(s, i, e - 1)
             IN IF kind = "none" THEN lex[e]
                ELSE <<[kind |-> kind, text |-> text, from |-> i, to |-> e - 1]>>
                     \o lex[e]
  IN lex[1]

Is(t, kind, word) == t.kind = kind /\ t.text = <<word>>
IsName(t) == t.kind \in {"word", "quoted"}

-----------------------------------------------------------------------------
\* Mutant: a backslash in a pattern is a character like any other.
LikeItemsUnescaped(pattern) ==
  [i \in DOMAIN pattern |->
     [is |-> CASE pattern[i] = "%" -> "run" [] pattern[i] = "_" -> "one" [] OTHER -> "char",
      c |-> pattern[i]]]

\* likeMatcher: the pattern compiled to a sequence of items, then matched.
LikeItems(pattern) ==
  LET items[i \in Nat] ==
        IF i > Len(pattern) THEN <<>>
        ELSE IF pattern[i] = BS
             THEN <<[is |-> "char", c |-> IF i < Len(pattern)
                                          THEN pattern[i + 1] ELSE BS]>>
                  \o items[i + 2]
        ELSE <<[is |-> CASE pattern[i] = "%" -> "run"
                         [] pattern[i] = "_" -> "one"
                         [] OTHER -> "char",
                c |-> pattern[i]]>> \o items[i + 1]
  IN items[1]

LikeMatches(pattern, s) ==
  LET items == LikeItems(pattern)
      match[k \in Nat, i \in Nat] ==
        IF k > Len(items) THEN i > Len(s)
        ELSE IF items[k].is = "run"
             THEN \E j \in i..(Len(s) + 1) : match[k + 1, j]
        ELSE /\ i <= Len(s)
             /\ items[k].is = "one" \/ items[k].c = s[i]
             /\ match[k + 1, i + 1]
  IN match[1, 1]

-----------------------------------------------------------------------------
(* The select list.                                                        *)

\* The parenthesis depth at position i of red, counted from position a.
DepthAt(red, a, i) ==
  Cardinality({k \in a..i : red[k] = "("}) - Cardinality({k \in a..i : red[k] = ")"})

selectModifiers == {"all", "distinct", "distinctrow",
                    "sql_no_cache", "sql_cache", "sql_calc_found_rows"}

DropModifiers(list) ==
  LET drop[t \in Seq(Range(list))] ==
        LET r == TrimLeft(t, Spaces)
            w == Min({i \in 1..Len(r) : r[i] \in Spaces} \cup {Len(r) + 1})
        IN IF w = 2 /\ r[1] \in selectModifiers
           THEN drop[SubSeq(r, w, Len(r))] ELSE t
  IN drop[list]

\* selectList: up to the first top-level FROM, LIMIT or semicolon.
SelectList(sql) ==
  LET End(red, a) == Min({i \in a..Len(red) :
                            /\ DepthAt(red, a, i) = 0
                            /\ \/ red[i] = ";"
                               \/ TokenAt(red, i, "limit")
                               \/ TokenAt(red, i, "from")} \cup {Len(red) + 1})
      List(red, a) == DropModifiers(SubSeq(sql, a, End(red, a) - 1))
      Of(red) == IF "select" \in Range(red)
                 THEN List(red, Min({i \in 1..Len(red) : red[i] = "select"}) + 1)
                 ELSE <<>>
  IN Of(Redact("MySQL", sql))

notAnAlias == {"and", "as", "false", "in", "is", "like", "not", "null",
               "or", "true"}

\* splitAlias: AS followed by a name, or a bare name after a complete operand.
SplitAlias(item) ==
  LET Of(toks, n) ==
        LET Cut(k) == [expr |-> TrimSpace(SubSeq(item, 1, toks[k].from - 1)),
                       alias |-> toks[n].text]
        IN IF /\ n >= 3 /\ Is(toks[n - 1], "word", "as")
              /\ toks[n].kind \notin {"op", "var"}
           THEN Cut(n - 1)
           ELSE IF /\ n >= 2 /\ IsName(toks[n])
                   /\ \A w \in notAnAlias : toks[n].text # <<w>>
                   /\ toks[n - 1].kind # "op" \/ toks[n - 1].text = <<")">>
           THEN Cut(n)
           ELSE [expr |-> TrimSpace(item), alias |-> <<>>]
      In(toks) == Of(toks, Len(toks))
  IN In(LexTokens(item))

\* The items of the select list, each with the name its column gets; star is
\* what * stands for (handleLocalSelect has none: an empty list yields no item).
SelectItems(sql, star) ==
  LET stars == [k \in DOMAIN star |-> [name |-> star[k], expr |-> star[k]]]
      Named(x) == [name |-> IF x.alias = <<>> THEN x.expr ELSE x.alias, expr |-> x.expr]
      IsStar(p) == star # <<>> /\ Last(p) = "*" /\
                   (Len(p) = 1 \/ p[Len(p) - 1] = ".")
      Trimmed(parts) == SelectSeq([k \in DOMAIN parts |-> TrimSpace(parts[k])],
                                  LAMBDA p : p # <<>>)
      Items(ps) == FlattenSeq([k \in DOMAIN ps |->
                     IF IsStar(ps[k]) THEN stars ELSE <<Named(SplitAlias(ps[k]))>>])
      OrStars(all) == IF all = <<>> THEN stars ELSE all
  IN OrStars(Items(Trimmed(SplitTopLevelCommas("MySQL", SelectList(sql)))))

-----------------------------------------------------------------------------
(* stripDBQualifier.                                                       *)

\* identifierAt
IdentifierAt(s, i) ==
  LET closes == {k \in (i + 1)..Len(s) : s[k] = s[i]}
      e == RunEnd(s, i, FALSE)
  IN IF At(s, i) \in {BQ, DQ}
     THEN IF closes = {} THEN [name |-> <<>>, end |-> i]
          ELSE [name |-> SubSeq(s, i + 1, Min(closes) - 1),
                end |-> Min(closes) + 1]
     ELSE [name |-> SubSeq(s, i, e - 1), end |-> e]

\* tableRefKeywordAt
TableRefKeywordAt(red, i, first, isShow) ==
  \E kw \in {"from", "join", "into", "table", "update", "describe", "desc",
             "explain", "in"} :
    /\ TokenAt(red, i, kw)
    /\ kw \in {"update", "describe", "desc", "explain"} => i = first
    /\ kw = "in" => isShow

\* Mutant: FULL and EXTENDED are not skipped.
ShowNamesTableNext(red, i) ==
  LET k == Min({j \in i..Len(red) : red[j] \notin Spaces} \cup {Len(red) + 1})
  IN At(red, k) \in {"columns", "fields", "index", "indexes", "keys"}

\* showNamesTableFirst: the first word after SHOW [FULL | EXTENDED].
ShowNamesTableFirst(red, i) ==
  LET k == Min({j \in i..Len(red) : red[j] \notin Spaces \cup {"full", "extended"}}
               \cup {Len(red) + 1})
  IN /\ At(red, k) \in {"columns", "fields", "index", "indexes", "keys"}
     /\ At(red, k + 1) \in Spaces \cup {""}

StripDBQualifier(db, query) ==
  LET red == Redact("MySQL", query)
      first == Min({i \in 1..Len(red) : red[i] \notin Spaces} \cup {Len(red) + 1})
      isShow == TokenAt(red, first, "show")
      tableFirst == isShow /\ ShowNamesTableFirst(red, first + 1)
      SkipBlanks(i) == Min({j \in i..Len(query) : query[j] \notin Spaces}
                           \cup {Len(query) + 1})
      \* what is still to be written at position i, with the text from copied on
      \* not written yet and the number of FROM and IN keywords met so far
      out[i \in Nat, copied \in Nat, seen \in Nat] ==
        IF i > Len(red) THEN SubSeq(query, copied, Len(query))
        ELSE IF ~TableRefKeywordAt(red, i, first, isShow)
             THEN out[i + 1, copied, seen]
        ELSE LET froms == IF red[i] \in {"from", "in"} THEN seen + 1 ELSE seen
                 namesDatabase == /\ red[i] \in {"from", "in"} /\ isShow
                                  /\ ~tableFirst \/ froms # 1
                 start == SkipBlanks(i + 1)
                 id == IdentifierAt(query, start)
                 cut == Max({j \in copied..(i - 1) : query[j] \notin Spaces}
                            \cup {copied - 1})
             IN IF id.name # db THEN out[i + 1, copied, froms]
                ELSE IF At(query, id.end) = "."
                THEN SubSeq(query, copied, start - 1)
                     \o out[id.end + 1, id.end + 1, froms]
                ELSE IF namesDatabase
                THEN SubSeq(query, copied, cut) \o out[id.end, id.end, froms]
                ELSE out[i + 1, copied, froms]
  IN IF db = <<>> THEN query ELSE out[1, 1, 0]

=============================================================================
