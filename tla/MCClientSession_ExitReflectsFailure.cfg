CONSTANTS
    Argvs <- MCArgvs
    Vals <- MCVals
    MsgLens <- MCMsgLens
    NewerAttrs = TRUE
SPECIFICATION Spec
INVARIANT ExitReflectsFailure
\* The process returns from main and exits; no step follows "exit".
CHECK_DEADLOCK FALSE
