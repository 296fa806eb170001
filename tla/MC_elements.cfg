SPECIFICATION ElementSpec
CONSTANTS
  MaxAge = 2
  MaxNow = 2
  MaxDocs = 2
  TableRows = 2
  AuthorHeaders = {h1, h2}
  NumRows = 3
  NumCols = 2
  MaxSpan = 2
  MaxOdd = 4
  MaxTokens = 6
INVARIANTS
  FigureIsTold
  DecisionHolds
  TreeAgrees
  WordsAreRead
  GridCovered
  HeadersHold
CHECK_DEADLOCK FALSE
