CONSTANTS
  Texts <- MCTexts
  Lex <- MCLex
  Blank = ""
  BoolText <- MCBoolText
  NumberText <- MCNumberText
  NoValue = NoValue
  ForbiddenKeywords = {"INSERT", "UPDATE", "DELETE", "INTO"}
  ForbiddenNames = {"pragma"}
  LockingWords = {"SHARE"}
  PostgresFunctions = {"pg_f"}
  OtherFunctions = {"lite_f"}
  AllowedTypes = {"SELECT"}
  MaxLength = 9
  Meants <- MCMeants
  NoLimit = NoLimit
  Requested = {NoLimit, 0, 1, 2, 3}
  MaxRowLimit = 2
  DefaultRowLimit = 2
  PreviewRowLimit = 1
  Results <- MCResults
  Width <- MCWidth
  Budget = 5
  RuleSets <- MCRuleSets
  ItemLists <- MCItemLists
SPECIFICATION ExecutionSpec
INVARIANTS VerdictMatchesStatement TruncatedTellsTheRest OutcomeAddsUp ListsReadLikeIn
