--------------------------- MODULE MCBufferMapper ---------------------------
(* Model-checking instance of BufferMapper: pages of 2 bytes, an address  *)
(* space of two virtual pages over two physical pages (so that aliases,   *)
(* holes and read-only pages occur), buffers of 0 to 3 bytes, which span  *)
(* up to two pages and may run past the address space, two threads with   *)
(* one call each, so that one call can release pages while the other      *)
(* holds the same ones.                                                    *)
EXTENDS BufferMapper, TLC

MCPS == 2
MCVPages == 0 .. 1
MCLens == 0 .. 3
MCMaxCalls == 1

MCSymmetry == Permutations(Procs) \cup Permutations(Phys)

====
