------------------------ MODULE BufferMapperProofs ------------------------
(***************************************************************************)
(* Proofs about the read/write path of the character device, for every    *)
(* page size, address space, thread set and buffer length: every page     *)
(* reference get_user_pages takes is held by a call, in the engine or in  *)
(* the unmap loop, until the loop puts it (PinBalance).  The typing, the  *)
(* scatter-gather list, the allocation counts and DeviceDataKept are      *)
(* proved in BufferMapperSgProofs, which extends this module.              *)
(***************************************************************************)
EXTENDS BufferMapper, FiniteSetTheorems, WellFoundedInduction, TLAPS

(* The entries of a pages array that name page g; those that call p still *)
(* holds; and the pin references p holds on g: one per such entry.        *)
Idx(s, g) == {i \in 1 .. Len(s) : s[i] = g}
HIdx(p, g) == {j \in HeldIdx(p) : io[p].pages[j] = g}
Slice(p, g) == {<<p, j>> : j \in HIdx(p, g)}
PinSet(g) == UNION {Slice(p, g) : p \in Procs}

(* PinBalance with what it needs to be inductive: the pages arrays are    *)
(* sequences of pages, the loop index of a call about to put a page names *)
(* an entry, the page counts are naturals, and each pin set is finite.    *)
PInv ==
  /\ vmap \in [VPages -> Phys \cup {Unmapped}]
  /\ pc \in [Procs -> {"idle", "inflight", "unmap", "put"}]
  /\ ui \in [Procs -> Nat \ {0}]
  /\ DOMAIN io = Procs
  /\ \A p \in Procs : io[p].pages \in Seq(Phys \cup {Unmapped})
  /\ \A p \in Procs : pc[p] = "put" => ui[p] <= Len(io[p].pages)
  /\ pinned \in [Phys -> Nat]
  /\ \A g \in Phys : IsFiniteSet(PinSet(g)) /\ pinned[g] = Cardinality(PinSet(g))

-----------------------------------------------------------------------------
(* PinCount has a witness.                                                 *)
LEMMA MinOfNats ==
  ASSUME NEW I \in SUBSET Nat, I # {}
  PROVE  \E x \in I : \A y \in I : x <= y
<1>1. \E x \in I : \A y \in I : ~(<<y, x>> \in OpToRel(<, Nat))
  BY NatLessThanWellFounded, WFMin
<1>2. PICK x \in I : \A y \in I : ~(<<y, x>> \in OpToRel(<, Nat))
  BY <1>1
<1>3. OpToRel(<, Nat) = {ss \in Nat \X Nat : ss[1] < ss[2]}
  BY DEF OpToRel
<1>4. \A y \in I : x <= y
  <2> TAKE y \in I
  <2>1. ~(<<y, x>> \in {ss \in Nat \X Nat : ss[1] < ss[2]})
    BY <1>2, <1>3
  <2>2. QED
    BY <2>1
<1>5. QED
  BY <1>4

(* get_user_pages_fast pins a prefix of the n pages asked for: its length *)
(* is a number between 0 and n, and every page of the prefix is pinnable.  *)
LEMMA PinCountType ==
  ASSUME NEW vpage, NEW n \in Nat
  PROVE  /\ PinCount(vpage, n) \in 0 .. n
         /\ \A j \in 0 .. (PinCount(vpage, n) - 1) : Pinnable(vpage + j)
<1> DEFINE B == {j \in 0 .. (n - 1) : ~Pinnable(vpage + j)}
           Ok(k) == /\ \A j \in 0 .. (k - 1) : Pinnable(vpage + j)
                    /\ k < n => ~Pinnable(vpage + k)
<1>1. \E k \in 0 .. n : Ok(k)
  <2>1. CASE B = {}
    BY <2>1
  <2>2. CASE B # {}
    <3>0. B \in SUBSET Nat
      OBVIOUS
    <3>1. PICK m \in B : \A y \in B : m <= y
      BY <2>2, <3>0, MinOfNats
    <3>2. Ok(m)
      BY <3>1
    <3>3. QED
      BY <3>1, <3>2
  <2>3. QED
    BY <2>1, <2>2
<1>2. QED
  BY <1>1 DEF PinCount

(* The entries of a pages array that name one page are finitely many.     *)
LEMMA IdxFinite ==
  ASSUME NEW S, NEW s \in Seq(S), NEW g
  PROVE  IsFiniteSet(Idx(s, g)) /\ Cardinality(Idx(s, g)) = Refs(s, g)
<1>1. IsFiniteSet(1 .. Len(s))
  BY FS_Interval
<1>2. QED
  BY <1>1, FS_Subset DEF Idx, Refs

(* The references of one call on one page are as many as its entries     *)
(* naming the page.                                                        *)
LEMMA PairsCard ==
  ASSUME NEW p, NEW J, IsFiniteSet(J)
  PROVE  IsFiniteSet({<<p, j>> : j \in J})
         /\ Cardinality({<<p, j>> : j \in J}) = Cardinality(J)
<1>1. {<<p, j>> : j \in J} = {p} \X J
  OBVIOUS
<1>2. IsFiniteSet({p}) /\ Cardinality({p}) = 1
  BY FS_Singleton
<1>3. Cardinality(J) \in Nat
  BY FS_CardinalityType
<1>4. QED
  BY <1>1, <1>2, <1>3, FS_Product

(* The pages array built from k pinned pages is a sequence of pages.       *)
LEMMA PagesOfType ==
  ASSUME vmap \in [VPages -> Phys \cup {Unmapped}], NEW vpage, NEW k \in Nat
  PROVE  PagesOf(vpage, k) \in Seq(Phys \cup {Unmapped})
<1>1. \A v : PageOf(v) \in Phys \cup {Unmapped}
  BY DEF PageOf
<1>2. PagesOf(vpage, k) \in [1 .. k -> Phys \cup {Unmapped}]
  BY <1>1 DEF PagesOf
<1>3. QED
  BY <1>2

(* A call whose pc, loop index and iocb a step leaves alone keeps its    *)
(* references, and when every call does, the pin sets stay.               *)
LEMMA SliceUnchanged ==
  ASSUME NEW q, NEW g, pc'[q] = pc[q], ui'[q] = ui[q], io'[q] = io[q]
  PROVE  Slice(q, g)' = Slice(q, g)
BY DEF Slice, HIdx, HeldIdx

LEMMA PinSetUnchanged ==
  ASSUME NEW g, \A q \in Procs : Slice(q, g)' = Slice(q, g)
  PROVE  PinSet(g)' = PinSet(g)
BY DEF PinSet

(* An idle call holds no reference.                                        *)
LEMMA SliceIdle ==
  ASSUME NEW p, NEW g, pc[p] = "idle"
  PROVE  Slice(p, g) = {}
BY DEF Slice, HIdx, HeldIdx

(* A reference in the pin set of g belongs to the call it names.          *)
LEMMA PinSetOwner ==
  ASSUME NEW g, NEW x \in PinSet(g)
  PROVE  x \in Slice(x[1], g) /\ x[1] \in Procs
BY DEF PinSet, Slice

(* A step that changes only the iocb of call p, idle before and after,   *)
(* leaves the pin sets alone.                                              *)
LEMMA PinSetIdleStep ==
  ASSUME PInv, NEW p \in Procs, pc[p] = "idle", pc' = pc, ui' = ui,
         NEW r, io' = [io EXCEPT ![p] = r], NEW g
  PROVE  PinSet(g)' = PinSet(g)
<1>1. Slice(p, g)' = Slice(p, g)
  BY SliceIdle DEF Slice, HIdx, HeldIdx
<1>2. \A q \in Procs \ {p} : Slice(q, g)' = Slice(q, g)
  BY SliceUnchanged DEF PInv
<1>3. QED
  BY <1>1, <1>2, PinSetUnchanged

(* A step of call p that leaves its references and every other call's     *)
(* state alone leaves the pin sets alone.                                  *)
LEMMA PinSetOwnStep ==
  ASSUME NEW p \in Procs, NEW g, HeldIdx(p)' = HeldIdx(p), io' = io,
         \A q \in Procs \ {p} : pc'[q] = pc[q] /\ ui'[q] = ui[q]
  PROVE  PinSet(g)' = PinSet(g)
<1>1. Slice(p, g)' = Slice(p, g)
  BY DEF Slice, HIdx
<1>2. \A q \in Procs \ {p} : Slice(q, g)' = Slice(q, g)
  BY SliceUnchanged
<1>3. QED
  BY <1>1, <1>2, PinSetUnchanged

(* fp_rw entered: the caller's references join those of the other calls, *)
(* from which they are apart.                                              *)
LEMMA PinSetSubmit ==
  ASSUME PInv, NEW p \in Procs, pc[p] = "idle",
         pc' = [pc EXCEPT ![p] = "inflight"], ui' = ui,
         NEW r, io' = [io EXCEPT ![p] = r], NEW g
  PROVE  /\ PinSet(g)' = PinSet(g) \cup {<<p, j>> : j \in Idx(r.pages, g)}
         /\ PinSet(g) \cap {<<p, j>> : j \in Idx(r.pages, g)} = {}
<1>1. Slice(p, g)' = {<<p, j>> : j \in Idx(r.pages, g)}
  BY DEF Slice, HIdx, HeldIdx, Idx, PInv
<1>2. Slice(p, g) = {}
  BY SliceIdle
<1>3. \A q \in Procs \ {p} : Slice(q, g)' = Slice(q, g)
  BY SliceUnchanged DEF PInv
<1>4. PinSet(g)' = PinSet(g) \cup Slice(p, g)'
  BY <1>2, <1>3 DEF PinSet
<1>5. \A x \in PinSet(g) : x[1] # p
  BY <1>2, PinSetOwner
<1>6. QED
  BY <1>1, <1>4, <1>5

(* put_page(pages[i]): the reference of entry i leaves the pin set.        *)
LEMMA PinSetPut ==
  ASSUME PInv, NEW p \in Procs, pc[p] = "put",
         pc' = [pc EXCEPT ![p] = "unmap"], ui' = [ui EXCEPT ![p] = @ + 1],
         io' = io, NEW g
  PROVE  PinSet(g)' = PinSet(g) \ {<<p, ui[p]>>}
<1>1. ui[p] \in Nat \ {0} /\ ui[p] <= Len(io[p].pages)
  BY DEF PInv
<1>2. HeldIdx(p)' = HeldIdx(p) \ {ui[p]}
  BY <1>1 DEF HeldIdx, PInv
<1>3. Slice(p, g)' = Slice(p, g) \ {<<p, ui[p]>>}
  BY <1>2 DEF Slice, HIdx
<1>4. \A q \in Procs \ {p} : Slice(q, g)' = Slice(q, g)
  BY SliceUnchanged DEF PInv
<1>5. \A x \in PinSet(g) : x[1] = p => x \in Slice(p, g)
  BY PinSetOwner
<1>6. QED
  BY <1>3, <1>4, <1>5 DEF PinSet, Slice

-----------------------------------------------------------------------------
(* No call holds a reference and no page is pinned at start.              *)
LEMMA InitPInv == Init => PInv
<1> SUFFICES ASSUME Init PROVE PInv
  OBVIOUS
<1>1. \A g \in Phys : PinSet(g) = {}
  BY SliceIdle DEF Init, PinSet
<1>2. /\ vmap \in [VPages -> Phys \cup {Unmapped}]
      /\ pc \in [Procs -> {"idle", "inflight", "unmap", "put"}]
      /\ ui \in [Procs -> Nat \ {0}]
      /\ DOMAIN io = Procs
      /\ \A p \in Procs : io[p].pages \in Seq(Phys \cup {Unmapped})
      /\ \A p \in Procs : pc[p] = "put" => ui[p] <= Len(io[p].pages)
      /\ pinned \in [Phys -> Nat]
  <2>1. \A p \in Procs : io[p].pages = << >>
    BY DEF Init
  <2>2. << >> \in Seq(Phys \cup {Unmapped})
    OBVIOUS
  <2>3. pc \in [Procs -> {"idle", "inflight", "unmap", "put"}]
        /\ \A p \in Procs : pc[p] # "put"
    BY DEF Init
  <2>4. ui \in [Procs -> Nat \ {0}]
    BY DEF Init
  <2>5. QED
    BY <2>1, <2>2, <2>3, <2>4 DEF Init
<1>3. \A g \in Phys : IsFiniteSet(PinSet(g)) /\ pinned[g] = Cardinality(PinSet(g))
  BY <1>1, FS_EmptySet DEF Init
<1>4. QED
  BY <1>2, <1>3 DEF PInv

(* A call that fails before get_user_pages leaves every count alone.       *)
LEMMA EarlyErrorPInv ==
  ASSUME PInv, NEW p \in Procs, NEW write, NEW vpage, NEW off, NEW len,
         RwZeroPages(p, write, vpage, off, len)
         \/ RwAllocFails(p, write, vpage, off, len)
  PROVE  PInv'
<1>1. /\ pc[p] = "idle" /\ pc' = pc /\ ui' = ui /\ pinned' = pinned /\ vmap' = vmap
      /\ io' = [io EXCEPT ![p] = NewIocb(write, vpage, off, len)]
  BY DEF RwZeroPages, RwAllocFails, Call
<1>2. \A g \in Phys : PinSet(g)' = PinSet(g)
  BY <1>1, PinSetIdleStep
<1>3. \A q \in Procs : io'[q].pages \in Seq(Phys \cup {Unmapped})
  BY <1>1 DEF PInv, NewIocb
<1>4. QED
  BY <1>1, <1>2, <1>3 DEF PInv

(* The short pin and the duplicate scan: err_out puts every page it got,   *)
(* so each count is back where it was.                                     *)
LEMMA PinErrorPInv ==
  ASSUME PInv, NEW p \in Procs, NEW write, NEW vpage, NEW off \in 0 .. (PS - 1),
         NEW len \in Lens, RwPinError(p, write, vpage, off, len)
  PROVE  PInv'
<1> DEFINE n == PagesNr(off, len)
           k == PinCount(vpage, n)
           pages == PagesOf(vpage, k)
<1>1. n \in Nat
  BY PSAssumption, LensAssumption DEF PagesNr
<1>2. k \in Nat
  BY <1>1, PinCountType
<1>3. pages \in Seq(Phys \cup {Unmapped})
  BY <1>2, PagesOfType DEF PInv
<1> HIDE DEF n, k, pages
<1>4. /\ pc[p] = "idle" /\ pc' = pc /\ ui' = ui /\ vmap' = vmap
      /\ io' = [io EXCEPT ![p] = [NewIocb(write, vpage, off, len) EXCEPT !.pages = pages]]
      /\ pinned' = [g \in Phys |-> Pinned(pages)[g] - Refs(pages, g)]
  BY DEF RwPinError, Call, Unpin, n, k, pages
<1>5. \A g \in Phys : Refs(pages, g) \in Nat
  BY <1>3, IdxFinite, FS_CardinalityType
<1>6. pinned' = pinned
  BY <1>4, <1>5 DEF Pinned, PInv
<1>7. \A g \in Phys : PinSet(g)' = PinSet(g)
  BY <1>4, PinSetIdleStep
<1>8. \A q \in Procs : io'[q].pages \in Seq(Phys \cup {Unmapped})
  BY <1>3, <1>4 DEF PInv, NewIocb
<1>9. QED
  BY <1>4, <1>6, <1>7, <1>8 DEF PInv

(* fp_rw entered: each page gains as many references as the new pages    *)
(* array names it, and so does the set of references of the calls.        *)
LEMMA SubmitPInv ==
  ASSUME PInv, NEW p \in Procs, NEW write, NEW vpage, NEW off \in 0 .. (PS - 1),
         NEW len \in Lens, RwSubmit(p, write, vpage, off, len)
  PROVE  PInv'
<1> DEFINE n == PagesNr(off, len)
           pages == PagesOf(vpage, n)
           r == [NewIocb(write, vpage, off, len) EXCEPT
                   !.pages = pages, !.sg = SgList(off, len, n)]
<1>1. n \in Nat
  BY PSAssumption, LensAssumption DEF PagesNr
<1>2. pages \in Seq(Phys \cup {Unmapped})
  BY <1>1, PagesOfType DEF PInv
<1>3. r.pages = pages
  BY DEF NewIocb
<1> HIDE DEF n, pages, r
<1>4. /\ pc[p] = "idle" /\ pc' = [pc EXCEPT ![p] = "inflight"] /\ ui' = ui
      /\ vmap' = vmap /\ io' = [io EXCEPT ![p] = r]
      /\ pinned' = [g \in Phys |-> pinned[g] + Refs(pages, g)]
  BY DEF RwSubmit, Call, Pinned, n, pages, r
<1>5. ASSUME NEW g \in Phys
      PROVE  IsFiniteSet(PinSet(g)') /\ pinned'[g] = Cardinality(PinSet(g)')
  <2> DEFINE S == {<<p, j>> : j \in Idx(pages, g)}
  <2>1. PinSet(g)' = PinSet(g) \cup S /\ PinSet(g) \cap S = {}
    BY <1>3, <1>4, PinSetSubmit
  <2>2. IsFiniteSet(Idx(pages, g)) /\ Cardinality(Idx(pages, g)) = Refs(pages, g)
    BY <1>2, IdxFinite
  <2>3. IsFiniteSet(S) /\ Cardinality(S) = Refs(pages, g)
    BY <2>2, PairsCard
  <2>4. IsFiniteSet(PinSet(g)) /\ pinned[g] = Cardinality(PinSet(g))
    BY DEF PInv
  <2>5. Cardinality(PinSet(g)) \in Nat /\ Cardinality(S) \in Nat
    BY <2>3, <2>4, FS_CardinalityType
  <2>6. IsFiniteSet(PinSet(g) \cup S)
        /\ Cardinality(PinSet(g) \cup S)
             = Cardinality(PinSet(g)) + Cardinality(S) - Cardinality(PinSet(g) \cap S)
    BY <2>3, <2>4, FS_Union
  <2>7. Cardinality(PinSet(g) \cap S) = 0
    BY <2>1, FS_EmptySet
  <2>8. QED
    BY <1>4, <2>1, <2>3, <2>4, <2>5, <2>6, <2>7
<1>6. pinned' \in [Phys -> Nat]
  BY <1>2, <1>4, IdxFinite, FS_CardinalityType DEF PInv
<1>7. \A q \in Procs : io'[q].pages \in Seq(Phys \cup {Unmapped})
  BY <1>2, <1>3, <1>4 DEF PInv
<1>8. /\ pc' \in [Procs -> {"idle", "inflight", "unmap", "put"}]
      /\ DOMAIN io' = Procs
      /\ \A q \in Procs : pc'[q] = "put" => ui'[q] <= Len(io'[q].pages)
  BY <1>4 DEF PInv
<1>9. QED
  BY <1>4, <1>5, <1>6, <1>7, <1>8 DEF PInv

(* The steps that leave every reference where it was: fp_rw returning,   *)
(* the dirty test of the loop, its end with iocb_release, and the         *)
(* device's write.                                                         *)
LEMMA HoldPInv ==
  ASSUME PInv, NEW p \in Procs,
         \/ RwComplete(p) \/ UnmapDirty(p) \/ UnmapDone(p)
         \/ \E j \in 1 .. Len(io[p].pages) : DeviceWrite(p, j)
  PROVE  PInv'
<1>1. /\ pinned' = pinned /\ io' = io /\ vmap' = vmap
      /\ \A q \in Procs \ {p} : pc'[q] = pc[q] /\ ui'[q] = ui[q]
  BY DEF RwComplete, UnmapDirty, UnmapDone, DeviceWrite, PInv
<1>2. HeldIdx(p)' = HeldIdx(p)
  <2>1. CASE RwComplete(p)
    BY <2>1 DEF RwComplete, HeldIdx, PInv
  <2>2. CASE UnmapDirty(p)
    BY <2>2 DEF UnmapDirty, HeldIdx, PInv
  <2>3. CASE UnmapDone(p)
    <3>1. ui[p] \in Nat /\ ui[p] > Len(io[p].pages)
      BY <2>3 DEF UnmapDone, PInv
    <3>2. ui[p] .. Len(io[p].pages) = {}
      BY <3>1
    <3>3. QED
      BY <2>3, <3>2 DEF UnmapDone, HeldIdx, PInv
  <2>4. CASE \E j \in 1 .. Len(io[p].pages) : DeviceWrite(p, j)
    BY <2>4 DEF DeviceWrite, HeldIdx
  <2>5. QED
    BY <2>1, <2>2, <2>3, <2>4
<1>3. \A g \in Phys : PinSet(g)' = PinSet(g)
  BY <1>1, <1>2, PinSetOwnStep
<1>4. /\ pc' \in [Procs -> {"idle", "inflight", "unmap", "put"}]
      /\ ui' \in [Procs -> Nat \ {0}]
      /\ \A q \in Procs : pc'[q] = "put" => ui'[q] <= Len(io'[q].pages)
  <2>1. CASE RwComplete(p)
    BY <2>1 DEF RwComplete, PInv
  <2>2. CASE UnmapDirty(p)
    BY <2>2 DEF UnmapDirty, PInv
  <2>3. CASE UnmapDone(p)
    BY <2>3 DEF UnmapDone, PInv
  <2>4. CASE \E j \in 1 .. Len(io[p].pages) : DeviceWrite(p, j)
    BY <2>4 DEF DeviceWrite, PInv
  <2>5. QED
    BY <2>1, <2>2, <2>3, <2>4
<1>5. QED
  BY <1>1, <1>3, <1>4 DEF PInv

(* put_page: the count of the page of entry i drops by one, and so does   *)
(* its pin set, which held that entry's reference.                         *)
LEMMA PutPInv ==
  ASSUME PInv, NEW p \in Procs, UnmapPut(p)
  PROVE  PInv'
<1> DEFINE x == io[p].pages[ui[p]]
<1>1. /\ pc[p] = "put" /\ pc' = [pc EXCEPT ![p] = "unmap"]
      /\ ui' = [ui EXCEPT ![p] = @ + 1] /\ io' = io /\ vmap' = vmap
      /\ pinned' = [pinned EXCEPT ![x] = @ - 1]
  BY DEF UnmapPut
<1>2. ui[p] \in 1 .. Len(io[p].pages)
  BY <1>1 DEF PInv
<1>3. \A g \in Phys : PinSet(g)' = PinSet(g) \ {<<p, ui[p]>>}
  BY <1>1, PinSetPut
<1>4. ASSUME NEW g \in Phys
      PROVE  /\ IsFiniteSet(PinSet(g)')
             /\ pinned'[g] = Cardinality(PinSet(g)')
             /\ pinned'[g] \in Nat
  <2>1. IsFiniteSet(PinSet(g)) /\ pinned[g] = Cardinality(PinSet(g))
        /\ pinned[g] \in Nat
    BY DEF PInv
  <2>2. CASE g = x
    <3>1. <<p, ui[p]>> \in PinSet(g)
      BY <1>1, <1>2, <2>2 DEF PinSet, Slice, HIdx, HeldIdx
    <3>2. IsFiniteSet(PinSet(g)')
          /\ Cardinality(PinSet(g)') = Cardinality(PinSet(g)) - 1
      BY <1>3, <2>1, <3>1, FS_RemoveElement
    <3>3. Cardinality(PinSet(g)) > 0
      BY <2>1, <3>1, FS_EmptySet
    <3>4. pinned'[g] = pinned[g] - 1
      BY <1>1, <2>2 DEF PInv
    <3>5. QED
      BY <2>1, <3>2, <3>3, <3>4
  <2>3. CASE g # x
    <3>1. <<p, ui[p]>> \notin PinSet(g)
      BY <2>3 DEF PinSet, Slice, HIdx
    <3>2. PinSet(g)' = PinSet(g)
      BY <1>3, <3>1
    <3>3. pinned'[g] = pinned[g]
      BY <1>1, <2>3 DEF PInv
    <3>4. QED
      BY <2>1, <3>2, <3>3
  <2>4. QED
    BY <2>2, <2>3
<1>5. DOMAIN pinned' = Phys
  BY <1>1 DEF PInv
<1>6. /\ pc' \in [Procs -> {"idle", "inflight", "unmap", "put"}]
      /\ ui' \in [Procs -> Nat \ {0}]
      /\ \A q \in Procs : pc'[q] = "put" => ui'[q] <= Len(io'[q].pages)
  BY <1>1 DEF PInv
<1>7. QED
  BY <1>1, <1>4, <1>5, <1>6 DEF PInv

(* Every step of the read/write path keeps PInv.                           *)
LEMMA NextPInv == PInv /\ [Next]_vars => PInv'
<1> SUFFICES ASSUME PInv, [Next]_vars PROVE PInv'
  OBVIOUS
<1>1. ASSUME NEW p \in Procs, NEW write \in BOOLEAN, NEW vpage \in VPages,
             NEW off \in 0 .. (PS - 1), NEW len \in Lens,
             \/ RwZeroPages(p, write, vpage, off, len)
             \/ RwAllocFails(p, write, vpage, off, len)
             \/ RwPinError(p, write, vpage, off, len)
             \/ RwSubmit(p, write, vpage, off, len)
      PROVE  PInv'
  BY <1>1, EarlyErrorPInv, PinErrorPInv, SubmitPInv
<1>2. ASSUME NEW p \in Procs,
             \/ RwComplete(p) \/ UnmapDirty(p) \/ UnmapDone(p)
             \/ \E j \in 1 .. Len(io[p].pages) : DeviceWrite(p, j)
      PROVE  PInv'
  BY <1>2, HoldPInv
<1>3. ASSUME NEW p \in Procs, UnmapPut(p) PROVE PInv'
  BY <1>3, PutPInv
<1>4. ASSUME \/ \E g \in Phys : Writeback(g)
             \/ UNCHANGED vars
      PROVE  PInv'
  <2>1. pc' = pc /\ ui' = ui /\ io' = io /\ pinned' = pinned /\ vmap' = vmap
    BY <1>4 DEF Writeback, vars
  <2>2. \A h \in Phys : PinSet(h)' = PinSet(h)
    BY <2>1, SliceUnchanged, PinSetUnchanged
  <2>3. QED
    BY <2>1, <2>2 DEF PInv
<1>5. QED
  BY <1>1, <1>2, <1>3, <1>4 DEF Next

(* PinBalance holds in every reachable state, for every page size,        *)
(* address space, set of threads and set of buffer lengths: no error path  *)
(* of cdev_gen_read_write leaks or over-releases a page reference, and     *)
(* the loop of unmap_user_buf after fp_rw puts each reference the call    *)
(* took once, while other threads pin and put the same pages.              *)
THEOREM PinBalanceThm == Spec => []PinBalance
<1>1. PInv => PinBalance
  BY DEF PInv, PinBalance, PinSet, Slice, HIdx
<1>2. QED
  BY InitPInv, NextPInv, <1>1, PTL DEF Spec

=============================================================================
