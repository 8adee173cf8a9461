SPECIFICATION SafeSpec
CONSTANTS
  NULL = NULL
  Threads = {t1, t2, t3}
  Shared = {g1, g2, g3}
  Weak = {w1, w2}
  Blocks = {b1, b2}
  SelfWeak = {b1, b2}
SYMMETRY Symmetry
INVARIANTS TypeOK RefCountExact WeakCountExact NoUseAfterFree FreedByOne SharedFromThisSucceeds
PROPERTY ExpiredForGood
