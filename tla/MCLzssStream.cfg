SPECIFICATION Spec
CONSTANTS
  Bytes = {b1, b2}
  NumDescBits = 3
  Disciplines = {FALSE, TRUE}
  MaxItems = 8
INVARIANTS TypeOK StopsAtEnd
PROPERTIES ImplementsChannel
CHECK_DEADLOCK FALSE
