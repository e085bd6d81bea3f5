------------------------------- MODULE Results -------------------------------
(***************************************************************************)
(* How a Redash result column is presented on each wire.  A value is       *)
(* [is, text]: the kind json.Decoder (with UseNumber) gives it and its     *)
(* text.  What the parsers of the Go library make of a text is given by    *)
(* the constants; rows is the sequence of the values of one column.        *)
(***************************************************************************)
EXTENDS Integers, Sequences, FiniteSets

CONSTANTS Texts,         \* texts of numbers, strings and JSON values
          Empty,         \* the empty text
          Int64Texts,    \* those strconv.ParseInt accepts in 64 bits
          FloatTexts,    \* those strconv.ParseFloat accepts
          ZeroTexts,     \* the numbers equal to zero
          Digits,        \* significantDigits of each text
          TrueTexts,     \* true, 1 and t
          NaiveTexts,    \* timestamps of the naiveLayouts
          AwareTexts     \* timestamps of the awareLayouts

ASSUME ResultsAssumption ==
  /\ Empty \in Texts
  /\ Int64Texts \subseteq Texts /\ FloatTexts \subseteq Texts /\ ZeroTexts \subseteq Texts
  /\ TrueTexts \subseteq Texts /\ NaiveTexts \subseteq Texts /\ AwareTexts \subseteq Texts
  /\ Digits \in [Texts -> Nat]
  /\ NaiveTexts \cap AwareTexts = {}

Kinds == {"null", "number", "string", "true", "false", "nested"}
Values == [is : Kinds, text : Texts]
ColumnTypes == {"string", "integer", "float", "boolean", "date", "datetime", "json"}

NonNull(rows) == {rows[k] : k \in {i \in DOMAIN rows : rows[i].is # "null"}}

-----------------------------------------------------------------------------
(* MySQL: one Go representation per column.                                *)

\* asInt64, asExactFloat64
AsInt64(v) == v.is = "number" /\ v.text \in Int64Texts
AsExactFloat64(v) == v.is = "number" /\ Digits[v.text] <= 15 /\ v.text \in FloatTexts

\* Mutant: the first value decides for the column.
ColumnKindOfFirst(type, rows) ==
  IF type = "boolean" THEN "bool"
  ELSE IF type = "integer"
  THEN IF rows # <<>> /\ AsInt64(rows[1]) THEN "int" ELSE "string"
  ELSE IF type = "float"
  THEN IF rows # <<>> /\ AsExactFloat64(rows[1]) THEN "float" ELSE "string"
  ELSE "string"

ColumnKind(type, rows) ==
  IF type = "boolean"
  THEN IF \E v \in NonNull(rows) : v.is = "nested" THEN "string" ELSE "bool"
  ELSE IF type = "integer"
  THEN IF \A v \in NonNull(rows) : AsInt64(v) THEN "int" ELSE "string"
  ELSE IF type = "float"
  THEN IF \A v \in NonNull(rows) : AsExactFloat64(v) THEN "float" ELSE "string"
  ELSE "string"

\* boolTo01
BoolTo01(v) ==
  IF \/ v.is = "true"
     \/ v.is = "string" /\ v.text \in TrueTexts
     \/ /\ v.is = "number" /\ v.text \notin ZeroTexts
        /\ v.text \in Int64Texts \cup FloatTexts
  THEN "1" ELSE "0"

\* convertValue and buildResultset; nil where the row has no value.  The text
\* of a string is v.text, but a datetime loses its T and its Z (stringifyValue).
ConvertValue(v, type, kind) ==
  IF v.is = "null" THEN [go |-> "nil"]
  ELSE IF v.is = "nested" THEN [go |-> "string", text |-> <<"json", v.text>>]
  ELSE IF kind = "bool" THEN [go |-> "int64", text |-> BoolTo01(v)]
  ELSE IF kind = "int" /\ AsInt64(v) THEN [go |-> "int64", text |-> v.text]
  ELSE IF kind = "float" /\ AsExactFloat64(v) THEN [go |-> "float64", text |-> v.text]
  ELSE IF v.is # "number" /\ type = "datetime" /\ v.text # Empty
  THEN [go |-> "string", text |-> <<"sql", v.text>>]
  ELSE IF v.is = "string" /\ v.text = Empty THEN [go |-> "bytes", text |-> Empty]
  ELSE [go |-> "string", text |-> v.text]

\* The column as buildResult hands it to go-mysql.
MyColumn(type, rows) ==
  [k \in DOMAIN rows |-> ConvertValue(rows[k], type, ColumnKind(type, rows))]

\* mysql.BuildSimpleResultset: the type of the column is that of its first
\* value, and a later one of another type fails the result.
FieldType(go) == IF go \in {"string", "bytes"} THEN "text" ELSE go
BuildSimpleResultset(column) ==
  \A i \in DOMAIN column, k \in DOMAIN column :
    (column[i].go # "nil" /\ column[k].go # "nil")
      => FieldType(column[i].go) = FieldType(column[k].go)

-----------------------------------------------------------------------------
(* PostgreSQL: the advertised type and the text of each value.             *)

\* parseDatetime
ParseDatetime(v) ==
  IF v.is = "string" /\ v.text \in NaiveTexts THEN "naive"
  ELSE IF v.is = "string" /\ v.text \in AwareTexts THEN "aware"
  ELSE "text"

\* datetimeColumnKind
DatetimeColumnKind(rows) ==
  LET kinds == {ParseDatetime(v) : v \in NonNull(rows)}
  IN IF kinds = {} THEN "naive"
     ELSE IF kinds = {"naive"} THEN "naive"
     ELSE IF kinds = {"aware"} THEN "aware"
     ELSE "text"

\* columnIsJSON
ColumnIsJSON(rows) == NonNull(rows) # {} /\ \A v \in NonNull(rows) : v.is = "nested"

\* RedashTypeToPgOID
RedashTypeToPgOID(type) ==
  CASE type = "integer" -> "int8"
    [] type = "float" -> "float8"
    [] type = "boolean" -> "bool"
    [] type = "datetime" -> "timestamp"
    [] type = "date" -> "date"
    [] type = "json" -> "jsonb"
    [] OTHER -> "text"

\* BuildRowDescription
AdvertisedOID(type, rows) ==
  IF ColumnIsJSON(rows) THEN "jsonb"
  ELSE IF type = "datetime" /\ DatetimeColumnKind(rows) = "aware" THEN "timestamptz"
  ELSE IF type = "datetime" /\ DatetimeColumnKind(rows) = "text" THEN "text"
  ELSE RedashTypeToPgOID(type)

\* formatValue and formatDatetime: the form of the text that is sent.
FormatValue(v, type) ==
  IF v.is = "nested" THEN "json"
  ELSE IF type = "boolean" /\ v.is \in {"true", "false", "string"} THEN "tf"
  ELSE IF v.is \in {"true", "false"} THEN "truefalse"
  ELSE IF v.is = "number" THEN IF v.text \in Int64Texts THEN "integer" ELSE "number"
  ELSE IF type = "date" /\ v.text \in NaiveTexts \cup AwareTexts THEN "date"
  ELSE "verbatim"

FormatDatetime(v, kind) ==
  IF kind = "text" \/ ParseDatetime(v) = "text" THEN FormatValue(v, "")
  ELSE IF kind = "aware" THEN "utc" ELSE "local"

\* BuildDataRows
DataForm(v, type, rows) ==
  IF v.is = "null" THEN "null"
  ELSE IF type = "datetime" THEN FormatDatetime(v, DatetimeColumnKind(rows))
  ELSE FormatValue(v, type)

\* The forms a client may get under a type.
Promised(oid) ==
  CASE oid = "int8" -> {"integer"}
    [] oid = "float8" -> {"integer", "number"}
    [] oid = "bool" -> {"tf"}
    [] oid = "date" -> {"date"}
    [] oid = "timestamp" -> {"local"}
    [] oid = "timestamptz" -> {"utc"}
    [] oid = "jsonb" -> {"json"}
    [] OTHER -> {"json", "tf", "truefalse", "integer", "number", "date", "verbatim"}

\* A value Redash's own type inference gives a column of the type.
OfType(v, type) ==
  CASE type = "integer" -> v.is = "number" /\ v.text \in Int64Texts
    [] type = "float" -> v.is = "number"
    [] type = "boolean" -> v.is \in {"true", "false", "string"}
    [] type = "date" -> v.is = "string" /\ v.text \in NaiveTexts \cup AwareTexts
    [] type = "json" -> v.is = "nested"
    [] OTHER -> TRUE

\* What go-mysql is handed: a result it accepts, with the same NULLs, no
\* number changed and no empty text but as bytes.
MyColumnKeeps(type, rows) ==
  LET column == MyColumn(type, rows)
  IN /\ BuildSimpleResultset(column)
     /\ \A k \in DOMAIN rows :
          /\ (column[k].go = "nil") = (rows[k].is = "null")
          /\ (rows[k].is = "number" /\ type # "boolean") => column[k].text = rows[k].text
          /\ column[k].go = "float64" => Digits[rows[k].text] <= 15
          /\ (rows[k].is = "string" /\ rows[k].text = Empty) => column[k].go # "string"

\* What a PostgreSQL client reads: every value in the form of its type.
PgColumnKeeps(type, rows) ==
  type = "datetime" \/ (\A v \in NonNull(rows) : OfType(v, type)) =>
    \A v \in NonNull(rows) : DataForm(v, type, rows) \in Promised(AdvertisedOID(type, rows))
=============================================================================
