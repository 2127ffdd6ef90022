SPECIFICATION Spec
CONSTANTS
  t1 = t1
  t2 = t2
  t3 = t3
  Threads = {t1, t2, t3}
  Calls <- AllCalls
  Modulus = 16
  WeakCas = TRUE
SYMMETRY ThreadSymmetry
INVARIANTS
  MutualExclusion
  BitsMatchHolders
PROPERTY
  ImplementsSharedLock
