SPECIFICATION Spec
CHECK_DEADLOCK FALSE
CONSTANTS
  MaxLength = 6
  Keys = {0, 1, 2}
  KeyOf <- Key
INVARIANT SearchNRight
