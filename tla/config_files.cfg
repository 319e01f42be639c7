\* Config files, cut anywhere or with a token left out, and requests to what they configure.
SPECIFICATION Spec
CONSTANTS
  Symbols <- MCSymbols
  Plans <- MCPlans
  MAX_TOKEN_LENGTH = 6
  Hosts <- MCHosts
  Raws <- MCRaws
  NULL = NULL
INVARIANTS TypeOK ReadsTheConfig LogsAsConfigured HandlerIsChosen
CHECK_DEADLOCK FALSE
