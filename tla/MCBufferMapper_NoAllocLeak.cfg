CONSTANTS
  PS <- MCPS
  VPages <- MCVPages
  Lens <- MCLens
  MaxCalls <- MCMaxCalls
  Phys = {g1, g2}
  Unmapped = Unmapped
  Procs = {t1, t2}

SYMMETRY MCSymmetry
SPECIFICATION Spec
INVARIANT NoAllocLeak

\* Each thread makes MaxCalls calls and then stops.
CHECK_DEADLOCK FALSE
