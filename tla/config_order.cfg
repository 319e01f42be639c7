\* An index that stands before the type of its handler.
SPECIFICATION Spec
CONSTANTS
  Symbols <- MCSymbols
  Plans <- MCPlans
  MAX_TOKEN_LENGTH = 6
  Hosts <- MCHosts
  Raws <- MCRaws
  NULL = NULL
INVARIANTS OrderIsFree
CHECK_DEADLOCK FALSE
