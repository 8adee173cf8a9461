SPECIFICATION Spec
CONSTANTS
  NULL = NULL
  Threads = {t1, t2}
  Shared = {g1, g2}
  Weak = {w1}
  Blocks = {b1, b2}
  SelfWeak = {b1, b2}
PROPERTIES NoLeak ImplementsOwnership
