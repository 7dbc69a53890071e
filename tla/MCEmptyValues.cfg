CONSTANTS
  Calls <- NestedLists
  Sources <- TokenSources
SPECIFICATION DocumentSpec
CHECK_DEADLOCK FALSE
INVARIANTS NothingElseLeftOut
