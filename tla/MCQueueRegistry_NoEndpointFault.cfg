CONSTANTS
  QMax <- MCQMax
  Handles <- MCHandles
  INVALID <- MCInvalid
  MinorCnt <- MCMinorCnt
  Cdevs = {c1, c2, c3}
  NULL = NULL
  WILD = WILD

SYMMETRY CdevSymmetry
SPECIFICATION Spec
INVARIANT NoEndpointFault

\* After remove_one the device is gone and no command can reach it.
CHECK_DEADLOCK FALSE
