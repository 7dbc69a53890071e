CONSTANTS
  Calls <- All
  Sources <- TokenSources
SPECIFICATION DocumentSpec
CHECK_DEADLOCK FALSE
INVARIANTS TypeOK AcceptsGrammar NestsWithin SameBytesJustForSame ScansTheGrammar
  ValuesKeptApart
