SPECIFICATION Spec
CHECK_DEADLOCK FALSE
CONSTANTS
  MaxLength = 8
  Keys = {0, 1, 2}
  KeyOf <- Key
INVARIANTS SortsRight HeapsRight AlgorithmsRight BitsRight
