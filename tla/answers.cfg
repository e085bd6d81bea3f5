SPECIFICATION Spec
CONSTANTS
  MaxLexemes = 3
  MaxWords = 3
  MaxParts = 2
  MaxPlain = 3
  MaxRows = 3
  MaxSources = 3
  PgItems = {"relname", "alias", "bare", "regclass", "owner", "literal", "unknown",
             "subquery", "simple_case", "in_case", "number_case", "attname",
             "table_name", "schema", "column_name", "quoted"}
  LaterItems = {"literal", "quoted"}
  TestStatements = TRUE
  Texts <- MCTexts
  RowValues <- ResultValues
  ListedSources <- MCSources
  Empty = ""
  Int64Texts = {"7", "0", "9007199254740993"}
  FloatTexts = {"7", "0", "9007199254740993", "99999999999999999999", "0.5"}
  ZeroTexts = {"0"}
  Digits <- MCDigits
  TrueTexts = {"t"}
  NaiveTexts = {"naive"}
  AwareTexts = {"aware"}
  Lower <- MCLower
  Rank <- MCRank
  PostgresTypes = {"pg"}
  MySQLTypes = {"mysql"}
CHECK_DEADLOCK FALSE
INVARIANTS
  CatalogAnswersAsSQL
  MyAnswersAsAsked
  SessionAnswersAsAsked
  LiteralsDecideNothing
  RewritesOnlyComparisons
  ColumnsKeepTheirType
  OrderDecidesNothing
  ScanFindsTheCode
  SlicesScanAlike
  JudgedAsItsStatement
  OnlyTheQualifierGoes
