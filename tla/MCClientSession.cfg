CONSTANTS
    Argvs <- MCArgvs
    Vals <- MCVals
    MsgLens <- MCMsgLens
    NewerAttrs = TRUE
SPECIFICATION Spec
INVARIANTS
    TypeOK
    DecodeMatchesReply
    NoMisroutedCommand
    NoMissingAttribute
    QueueFlagsWellFormed
PROPERTIES
    Terminates
\* The process returns from main and exits; no step follows "exit".
CHECK_DEADLOCK FALSE
