CONSTANTS
  PDevs <- MCPDevs
  IdxUnset <- MCIdxUnset
  ReqIdx <- MCReqIdx
  MaxEps <- MCMaxEps
  Addrs = {a1, a2, a3}
  NlProcs = {n1, n2}
  NULL = NULL

SYMMETRY MCSymmetry
SPECIFICATION Spec
INVARIANT TypeOK
INVARIANT ListTracksDevices
INVARIANT EngineOpenTracked
PROPERTY RefinesXpdevSet
PROPERTY FreeAfterClose

\* With every address used, no device is left and no command finds one.
CHECK_DEADLOCK FALSE
