\* Requests of up to four lines, one after the other, cut into pieces anywhere.
SPECIFICATION Spec
CONSTANTS
  BUFFER_LENGTH = 2
  MaxLines = 4
  Lines <- MCLines
  NULL = NULL
INVARIANTS TypeOK ReadsWhatWasSent
PROPERTIES StartsAtEmptyLine DroppedForAReason
CHECK_DEADLOCK FALSE
