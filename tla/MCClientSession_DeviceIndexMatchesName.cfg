CONSTANTS
    Argvs <- MCArgvs
    Vals <- MCVals
    MsgLens <- MCMsgLens
    NewerAttrs = TRUE
SPECIFICATION Spec
INVARIANT DeviceIndexMatchesName
\* The process returns from main and exits; no step follows "exit".
CHECK_DEADLOCK FALSE
