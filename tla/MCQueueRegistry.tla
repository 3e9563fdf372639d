-------------------------- MODULE MCQueueRegistry --------------------------
(* Model-checking instance of QueueRegistry: one queue set (two slots),    *)
(* three engine handles of which 2 is beyond the minor range, and three    *)
(* endpoint addresses, so that every slot can hold an endpoint while a     *)
(* third one leaks.                                                        *)
EXTENDS QueueRegistry, TLC

MCQMax == 1
MCHandles == {0, 1, 2}
MCInvalid == 65535
MCMinorCnt == 2

CdevSymmetry == Permutations(Cdevs)
=============================================================================
