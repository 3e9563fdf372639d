------------------------- MODULE MCDeviceLifecycle -------------------------
(* Two PCI functions, three object addresses (so that a device can be     *)
(* removed and probed again), two concurrent command handlers naming      *)
(* device 0, device 1 or qdma255, and one endpoint per device.             *)
EXTENDS DeviceLifecycle, TLC

MCPDevs == {0, 1}
MCIdxUnset == 255
MCReqIdx == {0, 1, 255}
MCMaxEps == 1
MCSymmetry == Permutations(Addrs) \cup Permutations(NlProcs)
=============================================================================
