------------------------------ MODULE SqlTexts -------------------------------
(***************************************************************************)
(* Texts for the lexical algorithms.  A text grows by lexemes, each with   *)
(* the positions that are code by the dialect's own rules (the comment on  *)
(* type Dialect), so the scanner has a reference to be compared with; a    *)
(* statement grows by words; and a set of whole queries exercises the      *)
(* removal of the database qualifier.  MCAnswers composes it with the      *)
(* queries of the local answers.                                           *)
(***************************************************************************)
EXTENDS MySqlText

CONSTANTS MaxLexemes,   \* lexemes in a text
          MaxWords      \* words in a statement

ASSUME SqlTextsAssumption == MaxLexemes \in Nat /\ MaxWords \in Nat

VARIABLES family,   \* "lexemes", "words" or "queries"; "none" in other specifications
          dialect,  \* the dialect the text is read in
          text,     \* the atoms so far
          code,     \* the positions that are code, by construction
          size      \* lexemes or words so far; the last one may be open-ended

textVars == <<family, dialect, text, code, size>>

Code(t) == [text |-> t, code |-> 1..Len(t)]
Opaque(t) == [text |-> t, code |-> {}]

Common ==
  {Code(<<"a">>), Code(<<";">>), Code(<<SP>>), Code(<<",">>), Code(<<"(">>),
   Code(<<")">>), [text |-> <<"-", "-", SQ, NL>>, code |-> {4}],
   Opaque(<<SQ, ";", SQ, SQ, DQ, SQ>>)}

Lexemes ==
  [d \in Dialects |-> Common \cup
    IF d = "Postgres"
    THEN {Code(<<"a", "e">>), Code(<<"#">>), Code(<<"$", "1", SP>>),
          Opaque(<<SQ, ";", BS, SQ>>), Opaque(<<DQ, SQ, BS, DQ>>),
          [text |-> <<SP, "e", SQ, BS, SQ, ";", SQ>>, code |-> {1, 2}],
          Opaque(<<"$", "a", "$", "$", "$", ";", "$", "a", "$">>),
          Opaque(<<"/", "*", "/", "*", SQ, "*", "/", ";", "*", "/">>)}
    ELSE {Code(<<"$">>), Opaque(<<SQ, BS, SQ, ";", SQ>>),
          Opaque(<<DQ, BS, DQ, SQ, DQ>>), Opaque(<<BQ, SQ, BS, BQ>>),
          Opaque(<<"/", "*", "/", "*", SQ, "*", "/">>),
          [text |-> <<"#", "/", "*", NL>>, code |-> {4}]}]

\* Regions nothing closes; they end the text.
OpenEnded ==
  {Opaque(<<SQ, ";">>), Opaque(<<"/", "*", ";">>), Opaque(<<"-", "-", ";">>)}

\* A string right after one of the same quote would be one longer string.
Separate(t) == ~(text # <<>> /\ Last(text) = Head(t) /\ Head(t) \in {SQ, DQ, BQ})

Shift(S, n) == {i + n : i \in S}

AddLexeme ==
  /\ family = "lexemes" /\ size < MaxLexemes
  /\ \E x \in Lexemes[dialect] \cup OpenEnded :
       /\ Separate(x.text)
       /\ text' = text \o x.text
       /\ code' = code \cup Shift(x.code, Len(text))
       /\ size' = IF x \in OpenEnded THEN MaxLexemes ELSE size + 1
  /\ UNCHANGED <<family, dialect>>

StatementWords ==
  {<<"select">>, <<"explain">>, <<"analyze">>, <<"delete">>, <<"into">>,
   <<"drop">>, <<"t">>, <<"(">>, <<")">>, <<";">>, <<"=">>,
   <<SQ, "delete", SQ>>}

AddWord ==
  /\ family = "words" /\ size < MaxWords
  /\ \E w \in StatementWords : text' = text \o w \o <<SP>>
  /\ size' = size + 1
  /\ UNCHANGED <<family, dialect, code>>

-----------------------------------------------------------------------------
(* Queries over the database db, with and without its qualifier.           *)

QueryGaps == {<<" ">>, <<NL, " ">>}
Names == {<<"t">>, <<BQ, "t", BQ>>}
Qualifiers == {<<"db", ".">>, <<BQ, "db", BQ, ".">>, <<"other", ".">>, <<>>}
Ours(q) == q \in {<<"db", ".">>, <<BQ, "db", BQ, ".">>}
Columns == {<<"db", ".", "c">>, <<SQ, "from", " ", "db", ".", SQ>>,
            <<"/", "*", "from", " ", "db", ".", "*", "/", "c">>}

Select(c, g, q, n, j) ==
  <<"select">> \o g \o c \o g \o <<"from">> \o g \o q \o n \o
  (IF j = <<>> THEN <<>>
   ELSE g \o <<"join">> \o g \o j \o <<"u">> \o g \o <<"on">> \o g \o c)

SelectQueries ==
  {[as |-> Select(c, g, q, n, j),
    to |-> Select(c, g, IF Ours(q) THEN <<>> ELSE q, n,
                  IF Ours(j) THEN <<>> ELSE j)] :
     c \in Columns, g \in QueryGaps, q \in Qualifiers, n \in Names,
     j \in {<<"other", ".">>}}
  \cup
  {[as |-> Select(c, g, q, n, <<"db", ".">>),
    to |-> <<"select">> \o g \o c \o g \o <<"from">> \o g
           \o (IF Ours(q) THEN <<>> ELSE q) \o n \o g \o <<"join">> \o g
           \o <<"u">> \o g \o <<"on">> \o g \o c] :
     c \in Columns, g \in QueryGaps, q \in Qualifiers, n \in Names}

\* SHOW: FROM db on its own goes, except where the first FROM names a table.
ShowQueries ==
  {[as |-> <<"show", " ", "table", " ", "status">> \o g \o <<w>> \o g \o x,
    to |-> <<"show", " ", "table", " ", "status">>] :
     w \in {"from", "in"}, g \in QueryGaps, x \in {<<"db">>, <<BQ, "db", BQ>>}}
  \cup
  {[as |-> <<"show">> \o f \o <<" ", k, " ", "from">> \o g \o q \o <<"db">> \o s,
    to |-> <<"show">> \o f \o <<" ", k, " ", "from">> \o g
           \o (IF Ours(q) THEN <<>> ELSE q) \o <<"db">>] :
     f \in {<<>>, <<" ", "full">>}, k \in {"columns", "index"}, g \in QueryGaps,
     q \in Qualifiers, s \in {<<>>, <<" ", "in", " ", "db">>}}

Queries == SelectQueries \cup ShowQueries

TextInit ==
  /\ size = 0 /\ code = {}
  /\ \/ family \in {"lexemes", "words"} /\ dialect \in Dialects /\ text = <<>>
     \/ /\ family = "queries" /\ dialect = "MySQL"
        /\ \E q \in Queries : text = q.as

TextNext == AddLexeme \/ AddWord

Typing == TextInit /\ [][TextNext]_textVars

-----------------------------------------------------------------------------
(* The scanner finds exactly the code: literals, quoted identifiers and    *)
(* comments end where the dialect says (scanMask), and the second lexer of *)
(* the MySQL wire (lexTokens) puts exactly the same text in its strings,   *)
(* quoted identifiers and comments.                                        *)
ScanFindsTheCode ==
  family = "lexemes" =>
    /\ CodeMask(dialect, text) = code
    /\ dialect = "MySQL" =>
         LET toks == LexTokens(text)
             shown == UNION {toks[k].from..toks[k].to :
                        k \in {i \in DOMAIN toks : toks[i].kind \notin {"string", "quoted"}}}
         IN shown = {i \in code : text[i] \notin Spaces}

(* Any slice between code positions, cut at a word boundary, scans on its  *)
(* own as it does in place, and a redacted text is all code: statements,   *)
(* select items, WHERE clauses and CASE branches are sliced out and        *)
(* scanned again, and classifiers rescan what was redacted.                *)
SlicesScanAlike ==
  family = "lexemes" =>
    LET mask == CodeMask(dialect, text)
    IN /\ \A p \in mask, q \in mask \cup {Len(text) + 1} :
            p < q /\ ~(p > 1 /\ IsIdent(text[p]) /\ IsIdent(text[p - 1]))
            => CodeMask(dialect, SubSeq(text, p, q - 1))
                 = {i - p + 1 : i \in {k \in mask : p <= k /\ k < q}}
       /\ CodeMask(dialect, Redact(dialect, text)) = 1..Len(text)

(* The splits lose nothing but separators and blanks: every statement is   *)
(* one statement, all the code is in one, and the comma pieces joined by   *)
(* commas are the text.                                                    *)
SplitsLoseNothing ==
  LET parts == SplitTopLevelCommas(dialect, text)
      statements == Statements(dialect, text)
      CodeOf(s) == {i \in CodeMask(dialect, s) : s[i] \notin Spaces \cup {";"}}
  IN /\ FlattenSeq([k \in DOMAIN parts |->
          IF k = 1 THEN parts[k] ELSE <<",">> \o parts[k]]) = text
     /\ \A k \in DOMAIN statements :
          Statements(dialect, statements[k]) = <<statements[k]>>
     /\ FoldSeq(LAMBDA s, n : n + Cardinality(CodeOf(s)), 0, statements)
          = Cardinality(CodeOf(text))

\* The text opens with an empty statement.
OpensEmpty == At(TrimSpace(Redact(dialect, text)), 1) = ";"

(* A text is judged as its statements: its splits lose nothing, it writes  *)
(* under EXPLAIN exactly when it writes on its own, and separators, blanks *)
(* and comments around the only statement make no difference, but for an   *)
(* empty statement in front of it, where NoWritePasses fails.              *)
JudgedAsItsStatement ==
  /\ family = "lexemes" => SplitsLoseNothing
  /\ family = "words" =>
    /\ (LeadWord(text).lead \in statementKeywords \ explainOptions /\ text[1] # "(") =>
         \A opts \in {<<>>, <<"analyze", " ">>, <<"(", "costs", " ", "off", ")">>,
                      <<"format", "=", "json", " ">>} :
           (WriteVerb(dialect, <<"explain", " ">> \o opts \o text) = "")
             = (WriteVerb(dialect, text) = "")
    /\ (Len(Statements(dialect, text)) = 1 /\ ~OpensEmpty) =>
         WriteVerb(dialect, text) = WriteVerb(dialect, Statements(dialect, text)[1])

(* What the comment on WriteVerb says, "an allowlist: the statement must   *)
(* open with SELECT, WITH, VALUES, TABLE, SHOW, DESCRIBE or EXPLAIN", and  *)
(* the one in handleQuery, "nothing that would write ever leaves the       *)
(* proxy": one statement that opens with a write is called a write.        *)
NoWritePasses ==
  (family = "words" /\ Len(Statements(dialect, text)) = 1) =>
    (LeadWord(Statements(dialect, text)[1]).lead \in {"delete", "drop"}
     => WriteVerb(dialect, text) # "")

(* stripDBQualifier removes the current database's name where it qualifies *)
(* a table or is the database of a SHOW, and nothing else.                 *)
OnlyTheQualifierGoes ==
  family = "queries" =>
    \A q \in Queries : q.as = text => StripDBQualifier(<<"db">>, text) = q.to

=============================================================================
