SPECIFICATION FairSpec
CONSTANTS
  Topics = {"number", "date", "string", "nested", "header", "broken", "offsets", "layout"}
  Width = 8
  MaxErrors = 6
  MaxDepth = 12
  Key <- Bytes
INVARIANTS
  ChoiceLosesNothing
  GuessLosesNothing
  IntegersAsWritten
  DatesAsWritten
  StringsAreUTF8
  NestingAsWritten
  RejectedForCause
  OffsetsAsPrinted
  ReportsShowTheText
  OneValuePerName
  ValuesHoldNothing
PROPERTIES
  InsertsAsSpecified
  NothingRedefined
  ReadingEnds
