------------------------------- MODULE SqlText -------------------------------
(***************************************************************************)
(* The lexical analysis both wires share (src/internal/sqltext).  A text   *)
(* is a sequence of atoms: one punctuation character or operator, or a run *)
(* of identifier bytes such as "select" or "e", in lower case.  Adjacent   *)
(* words form one longer identifier, so whole-word tests look at the       *)
(* neighbours exactly as the code does.                                    *)
(***************************************************************************)
EXTENDS Integers, Sequences, FiniteSets, SequencesExt, FiniteSetsExt

Dialects == {"Postgres", "MySQL"}

\* The blank, the quote characters, the backslash and the line feed.
SP == " "
SQ == "sq"
DQ == "dq"
BQ == "bq"
BS == "bs"
NL == "nl"

Spaces == {SP, NL}
Punctuation == Spaces \cup {SQ, DQ, BQ, "-", "/", "*", "$", BS, "#",
                            ";", ",", "(", ")", "=", "<>", ".", "%", "@@",
                            "::", "~", "^", "{", "}"}

\* isIdentByte: every atom that is not punctuation is a run of such bytes.
IsIdent(c) == c # "" /\ c \notin Punctuation

\* s[i] under the code's `i < n` test; "" stands for the end of the text.
At(s, i) == IF i \in 1..Len(s) THEN s[i] ELSE ""

-----------------------------------------------------------------------------
(* scanMask: the first position after the region that opens at i, and i    *)
(* itself when position i is code.                                         *)

LineEnd(s, i) == Min({j \in i..Len(s) : s[j] = NL} \cup {Len(s) + 1})

\* Mutant: the first */ ends the comment in both dialects.
BlockEndFlat(d, s, i) ==
  Min({k + 2 : k \in {j \in (i + 2)..(Len(s) - 1) : s[j] = "*" /\ s[j + 1] = "/"}}
      \cup {Len(s) + 1})

\* Postgres nests block comments, MySQL ends at the first */: the end of a
\* comment that is depth deep at j.
BlockEnds(d, s) ==
  LET end[j \in Nat] ==
        [depth \in Nat |->
          IF j > Len(s) \/ depth = 0 THEN j
          ELSE IF s[j] = "*" /\ At(s, j + 1) = "/" THEN end[j + 2][depth - 1]
          ELSE IF d = "Postgres" /\ s[j] = "/" /\ At(s, j + 1) = "*"
               THEN end[j + 2][depth + 1]
          ELSE end[j + 1][depth]]
  IN end

BlockEnd(d, s, i) == BlockEnds(d, s)[i + 2][1]

\* backslashEscapes
BackslashEscapes(d, s, i) ==
  IF d = "MySQL" THEN s[i] # BQ
  ELSE s[i] = SQ /\ At(s, i - 1) = "e" /\ ~IsIdent(At(s, i - 2))

\* The end of a literal in the quotes q that is open at j.
QuoteEnds(s, q, escapes) ==
  LET end[j \in Nat] ==
        IF j > Len(s) THEN j
        ELSE IF escapes /\ s[j] = BS /\ j < Len(s) THEN end[j + 2]
        ELSE IF s[j] # q THEN end[j + 1]
        ELSE IF At(s, j + 1) = q THEN end[j + 2]
        ELSE j + 1
  IN end

QuoteEnd(s, i, escapes) == QuoteEnds(s, s[i], escapes)[i + 1]

\* $tag$ ... $tag$; a $ that opens no tag (a $1 placeholder) is code.
TagEnd(s, i) == Min({k \in (i + 1)..(Len(s) + 1) : ~IsIdent(At(s, k))})

DollarEnd(s, i) ==
  LET j == TagEnd(s, i)
      closes == {k \in (j + 1)..(Len(s) - (j - i)) :
                   \A x \in 0..(j - i) : s[k + x] = s[i + x]}
  IN IF At(s, j) # "$" THEN i
     ELSE Min({k + (j - i) + 1 : k \in closes} \cup {Len(s) + 1})

OpensLineComment(d, s, i) ==
  \/ s[i] = "-" /\ At(s, i + 1) = "-"
  \/ d = "MySQL" /\ s[i] = "#"

OpensBlockComment(s, i) == s[i] = "/" /\ At(s, i + 1) = "*"

OpensQuote(d, s, i) == s[i] \in {SQ, DQ} \/ (d = "MySQL" /\ s[i] = BQ)

RegionEnd(d, s, i) ==
  IF OpensLineComment(d, s, i) THEN LineEnd(s, i)
  ELSE IF OpensBlockComment(s, i) THEN BlockEnd(d, s, i)
  ELSE IF OpensQuote(d, s, i) THEN QuoteEnd(s, i, BackslashEscapes(d, s, i))
  ELSE IF d = "Postgres" /\ s[i] = "$" THEN DollarEnd(s, i)
  ELSE i

\* codeMask, as the set of the positions that are code; Codes[i] has those
\* the scan finds from i on.
Codes(d, s) ==
  LET code[i \in 1..(Len(s) + 1)] ==
        IF i > Len(s) THEN {}
        ELSE IF RegionEnd(d, s, i) = i THEN {i} \cup code[i + 1]
        ELSE code[RegionEnd(d, s, i)]
  IN code

CodeMask(d, s) == Codes(d, s)[1]

-----------------------------------------------------------------------------
(* What is built on the mask.                                              *)

\* What is neither code nor one of kept becomes a blank.
Blanked(s, code, kept) ==
  [i \in 1..Len(s) |-> IF i \in code \/ s[i] \in kept THEN s[i] ELSE SP]

\* Mutant: the quotes around a literal stay.
RedactInside(d, s) == Blanked(s, CodeMask(d, s), {NL, SQ, DQ})

Redact(d, s) == Blanked(s, CodeMask(d, s), {NL})

\* strings.TrimLeft, TrimRight and TrimSpace.
TrimLeft(s, cut) ==
  SubSeq(s, Min({i \in 1..Len(s) : s[i] \notin cut} \cup {Len(s) + 1}), Len(s))
TrimRight(s, cut) ==
  SubSeq(s, 1, Max({i \in 1..Len(s) : s[i] \notin cut} \cup {0}))
TrimSpace(s) == TrimRight(TrimLeft(s, Spaces), Spaces)

\* The pieces between the cut positions, as intervals.
Pieces(s, cuts) ==
  LET ends == SetToSortSeq(cuts \cup {Len(s) + 1}, <)
  IN [k \in 1..Len(ends) |->
        [from |-> IF k = 1 THEN 1 ELSE ends[k - 1] + 1, to |-> ends[k] - 1]]

\* Statements, with segmentHasCode as the test of the segments to keep.
Statements(d, s) ==
  LET Kept(code) ==
        LET HasCode(p) == \E i \in p.from..p.to : i \in code /\ s[i] \notin Spaces
        IN SelectSeq(Pieces(s, {i \in code : s[i] = ";"}), HasCode)
      Slices(ps) == [k \in DOMAIN ps |-> TrimSpace(SubSeq(s, ps[k].from, ps[k].to))]
  IN Slices(Kept(CodeMask(d, s)))

IsMultiStatement(d, s) == Len(Statements(d, s)) > 1

\* SplitTopLevelCommas: depth[i] is the parenthesis depth after position i.
SplitTopLevelCommas(d, s) ==
  LET Commas(code) ==
        LET depth[i \in 0..Len(s)] ==
              IF i = 0 THEN 0
              ELSE IF i \in code /\ s[i] = "(" THEN depth[i - 1] + 1
              ELSE IF i \in code /\ s[i] = ")" /\ depth[i - 1] > 0
                   THEN depth[i - 1] - 1
              ELSE depth[i - 1]
        IN {i \in code : s[i] = "," /\ depth[i] = 0}
      Slices(ps) == [k \in DOMAIN ps |-> SubSeq(s, ps[k].from, ps[k].to)]
  IN Slices(Pieces(s, Commas(CodeMask(d, s))))

-----------------------------------------------------------------------------
(* WriteVerb.                                                              *)

readLeads == {"select", "with", "values", "table", "show", "describe", "desc"}
writeTokens == {"insert", "update", "delete", "merge", "into"}
explainOptions ==
  {"analyze", "analyse", "verbose", "costs", "settings", "buffers", "wal",
   "timing", "summary", "generic_plan", "format", "extended", "partitions",
   "json", "xml", "yaml", "text", "tree", "traditional",
   "on", "off", "true", "false"}

\* isStatementKeyword
statementKeywords ==
  {"select", "with", "values", "table", "show", "describe", "desc", "explain",
   "insert", "update", "delete", "merge", "replace", "create", "drop", "alter",
   "truncate", "grant", "revoke", "call", "do", "copy", "lock", "unlock",
   "vacuum", "analyze", "analyse", "refresh", "reindex", "load", "rename",
   "set", "begin", "start", "commit", "rollback", "savepoint", "release",
   "prepare", "execute", "deallocate", "declare", "fetch", "close", "handler",
   "import", "install", "flush", "reset", "purge", "kill", "use", "checksum",
   "check", "optimize", "repair", "cluster", "comment", "security", "listen",
   "notify", "unlisten", "discard", "move", "checkpoint", "abort", "end"}

\* leadWord: the run of identifier atoms after blanks and parentheses, and
\* the index after it.  A run of two atoms is a longer word than either.
LeadWord(s) ==
  LET a == Min({i \in 1..Len(s) : s[i] \notin Spaces \cup {"("}}
               \cup {Len(s) + 1})
      b == Min({i \in a..(Len(s) + 1) : ~IsIdent(At(s, i))})
  IN [lead |-> IF b = a THEN "" ELSE IF b = a + 1 THEN s[a] ELSE "longword",
      rest |-> SubSeq(s, b, Len(s))]

\* Mutant: an option list in parentheses is not skipped.
StripExplainWords(rest) ==
  LET strip[t \in Seq(Range(rest))] ==
        LET r == TrimLeft(t, Spaces)
            word == LeadWord(r)
        IN IF At(r, 1) = "=" THEN strip[Tail(r)]
           ELSE IF At(r, 1) # "(" /\ word.lead \in explainOptions
                THEN strip[word.rest]
           ELSE r
  IN strip[rest]

StripExplainOptions(rest) ==
  LET strip[t \in Seq(Range(rest))] ==
        LET r == TrimLeft(t, Spaces)
            closing == {i \in 1..Len(r) : r[i] = ")"}
            word == LeadWord(r)
        IN IF At(r, 1) = "(" /\ closing # {}
           THEN strip[SubSeq(r, Min(closing) + 1, Len(r))]
           ELSE IF At(r, 1) = "=" THEN strip[Tail(r)]
           ELSE IF At(r, 1) # "(" /\ word.lead \in explainOptions
                THEN strip[word.rest]
           ELSE r
  IN strip[rest]

\* hasStatementToken: a whole word that is not the name of a called function.
HasStatementToken(s, tok) ==
  \E i \in 1..Len(s) :
    /\ s[i] = tok
    /\ ~IsIdent(At(s, i - 1)) /\ ~IsIdent(At(s, i + 1))
    /\ At(TrimLeft(SubSeq(s, i + 1, Len(s)), Spaces), 1) # "("

\* ContainsToken, for a token that is one word.
ContainsToken(s, tok) ==
  \E i \in 1..Len(s) :
    s[i] = tok /\ ~IsIdent(At(s, i - 1)) /\ ~IsIdent(At(s, i + 1))

WriteVerb(d, s) ==
  LET body0 == TrimRight(TrimSpace(Redact(d, s)), Spaces \cup {";"})
      peel[b \in Seq(Range(body0))] ==
        LET w == LeadWord(b)
        IN IF w.lead = "explain" THEN peel[StripExplainOptions(w.rest)] ELSE b
      body == peel[body0]
      explained == LeadWord(body0).lead = "explain"
      lead == LeadWord(body).lead
      verbs == {tok \in writeTokens : HasStatementToken(body, tok)}
  IN IF lead = "" THEN ""
     ELSE IF lead \in readLeads
          THEN IF verbs = {} THEN "" ELSE CHOOSE tok \in verbs : TRUE
     ELSE IF explained /\ d = "MySQL" /\ lead \notin statementKeywords THEN ""
     ELSE lead

=============================================================================
