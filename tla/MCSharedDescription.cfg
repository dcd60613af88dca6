CONSTANTS
  Threads = {t1, t2, t3}
  Nobody = Nobody
  Blocks = {b1, b2, b3, b4, b5}
  NoBlock = NoBlock
  MaxCommits = 2
SPECIFICATION Spec
SYMMETRY Symmetry
INVARIANTS NoUseAfterFree RefcountExact NoLeak
PROPERTY AtomicSpec
