SPECIFICATION Spec
CONSTANTS
  MaxLexemes = 0
  MaxWords = 3
  MaxParts = 0
  MaxPlain = 0
  MaxRows = 0
  MaxSources = 0
  PgItems = {"relname", "quoted"}
  LaterItems = {}
  TestStatements = FALSE
  Texts <- MCTexts
  RowValues <- ResultValues
  ListedSources <- MCSources
  Empty = ""
  Int64Texts = {"7", "0", "9007199254740993"}
  FloatTexts = {"7", "0", "9007199254740993", "99999999999999999999", "0.5"}
  ZeroTexts = {"0"}
  Digits <- MCDigits
  TrueTexts = {"t"}
  NaiveTexts = {"naive"}
  AwareTexts = {"aware"}
  Lower <- MCLower
  Rank <- MCRank
  PostgresTypes = {"pg"}
  MySQLTypes = {"mysql"}
CHECK_DEADLOCK FALSE
INVARIANT NoWritePasses
