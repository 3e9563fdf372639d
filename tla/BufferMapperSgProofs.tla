------------------------ MODULE BufferMapperSgProofs ------------------------
(***************************************************************************)
(* Proofs about the scatter-gather list and the allocations of the        *)
(* read/write path, for every page size, address space, thread set and    *)
(* set of byte counts: the page count of map_user_buf_to_sgl is the       *)
(* spec's, the loop's entries are the parts of the buffer in its pages    *)
(* (SgCoversBuffer), the model is well typed (TypeOK), the sg table is     *)
(* freed exactly once per call that entered the engine, and what the      *)
(* device wrote into a read's pages is never in a clean, unpinned page     *)
(* (DeviceDataKept).                                                       *)
(***************************************************************************)
EXTENDS BufferMapperProofs

-----------------------------------------------------------------------------
(* Integer division by the page size, as the provers need it.             *)
LEMMA DivBounds ==
  ASSUME NEW x \in Nat
  PROVE  /\ x \div PS \in Nat
         /\ PS * (x \div PS) <= x
         /\ x < PS * (x \div PS) + PS
  BY PSAssumption

LEMMA DivShift ==
  ASSUME NEW a \in Nat, NEW b \in Nat
  PROVE  (a * PS + b) \div PS = a + b \div PS
  BY PSAssumption

(* pages_nr, computed from the offset in the first page, is the spec's    *)
(* count of the pages the buffer touches, wherever the buffer starts.      *)
LEMMA PagesNrIsRef ==
  ASSUME NEW vpage \in Nat, NEW off \in 0 .. (PS - 1), NEW len \in Nat
  PROVE  PagesNr(off, len) = RefPagesNr(vpage, off, len)
<1>1. (vpage * PS + off + len + PS - 1) \div PS = vpage + (off + len + PS - 1) \div PS
  <2>1. vpage * PS + off + len + PS - 1 = vpage * PS + (off + len + PS - 1)
    BY PSAssumption
  <2>2. off + len + PS - 1 \in Nat
    BY PSAssumption
  <2>3. QED
    BY <2>1, <2>2, DivShift
<1>2. (vpage * PS + off) \div PS = vpage
  <2>1. off \div PS = 0
    BY PSAssumption
  <2>2. QED
    BY <2>1, DivShift
<1>3. RefPagesNr(vpage, off, len)
        = (vpage * PS + off + len + PS - 1) \div PS - (vpage * PS + off) \div PS
  BY DEF RefPagesNr
<1>4. (off + len + PS - 1) \div PS \in Nat
  BY PSAssumption, DivBounds
<1>5. QED
  BY <1>1, <1>2, <1>3, <1>4 DEF PagesNr

(* Every entry the loop writes has an offset inside the page and at most  *)
(* a page of bytes, for any byte count and any number of iterations.       *)
SgEntries == [offset : 0 .. (PS - 1), nbytes : 0 .. PS]

LEMMA SgLeftType ==
  ASSUME NEW off \in 0 .. (PS - 1), NEW len \in Nat, NEW j \in Nat
  PROVE  SgLeft(off, len, j) \in Nat
  BY PSAssumption DEF SgLeft

LEMMA SgListType ==
  ASSUME NEW off \in 0 .. (PS - 1), NEW len \in Nat, NEW n \in Nat
  PROVE  SgList(off, len, n) \in Seq(SgEntries)
<1>1. ASSUME NEW j \in 1 .. n
      PROVE  SgList(off, len, n)[j] \in SgEntries
  <2>0. j - 1 \in Nat
    OBVIOUS
  <2>1. SgLeft(off, len, j - 1) \in Nat
    BY <2>0, SgLeftType
  <2>2. QED
    BY <2>1, PSAssumption DEF SgList, SgEntries
<1>2. SgList(off, len, n) \in [1 .. n -> SgEntries]
  BY <1>1 DEF SgList
<1>3. QED
  BY <1>2

(* Entry j of the list built for pages_nr pages is the part of the buffer *)
(* [off, off + len) that lies in page j - 1 of the buffer's pages, given   *)
(* by where that part starts (lo) and ends (hi).                           *)
LEMMA SgEntry ==
  ASSUME NEW off \in 0 .. (PS - 1), NEW len \in Nat,
         NEW j \in 1 .. PagesNr(off, len)
  PROVE  LET e == SgList(off, len, PagesNr(off, len))[j]
             lo == IF off < (j - 1) * PS THEN (j - 1) * PS ELSE off
             hi == IF off + len < j * PS THEN off + len ELSE j * PS
         IN  /\ e.offset = lo - (j - 1) * PS
             /\ e.nbytes = hi - lo
<1> DEFINE n == PagesNr(off, len)
<1>1. n \in Nat /\ PS * n <= off + len + PS - 1
  BY PSAssumption, DivBounds DEF PagesNr
<1>2. /\ SgList(off, len, n)[j].offset = IF j = 1 THEN off ELSE 0
      /\ SgList(off, len, n)[j].nbytes
           = IF PS - (IF j = 1 THEN off ELSE 0) < SgLeft(off, len, j - 1)
             THEN PS - (IF j = 1 THEN off ELSE 0) ELSE SgLeft(off, len, j - 1)
  BY Zenon DEF SgList
<1>3. CASE j = 1
  BY <1>2, <1>3, PSAssumption DEF SgLeft
<1>4. CASE j # 1
  <2> DEFINE m == j - 1
  <2>1. m \in Nat /\ m >= 1 /\ m <= n - 1
    BY <1>1, <1>4
  <2>2. PS <= m * PS /\ m * PS <= (n - 1) * PS
    BY <2>1, <1>1, PSAssumption
  <2>3. (n - 1) * PS = PS * n - PS /\ j * PS = m * PS + PS
    BY <1>1, PSAssumption
  <2>4. m * PS - off < len
    BY <1>1, <2>2, <2>3, PSAssumption
  <2>5. SgLeft(off, len, m) = len - (m * PS - off)
    BY <2>1, <2>4 DEF SgLeft
  <2>6. m * PS \in Nat
    BY <2>1, PSAssumption
  <2>7. (IF off < m * PS THEN m * PS ELSE off) = m * PS
    BY <2>2, PSAssumption
  <2>8. /\ SgList(off, len, n)[j].offset = 0
        /\ SgList(off, len, n)[j].nbytes
             = IF PS < len - (m * PS - off) THEN PS ELSE len - (m * PS - off)
    <3>1. SgLeft(off, len, j - 1) = len - (m * PS - off)
      BY <2>5
    <3>2. QED
      BY <1>2, <1>4, <3>1, PSAssumption
  <2>9. (IF off + len < j * PS THEN off + len ELSE j * PS) - m * PS
          = IF PS < len - (m * PS - off) THEN PS ELSE len - (m * PS - off)
    BY <2>3, <2>6, PSAssumption
  <2>10. SgList(off, len, PagesNr(off, len))[j].offset = 0
    BY <2>8
  <2>11. SgList(off, len, PagesNr(off, len))[j].nbytes
           = IF PS < len - (m * PS - off) THEN PS ELSE len - (m * PS - off)
    BY <2>8
  <2> HIDE DEF m
  <2>12. QED
    BY <2>7, <2>9, <2>10, <2>11, <2>6 DEF m
<1>5. QED
  BY <1>3, <1>4

-----------------------------------------------------------------------------
(* The inductive invariant.  Only calls blocked in the engine own an sg   *)
(* table; they and the calls in the unmap loop (Busy) each own a pages     *)
(* array, and the pin error paths leave theirs allocated: sgTables counts  *)
(* the blocked calls and pageArrays is at least the busy ones (so neither  *)
(* goes below zero when it is freed).  A busy call's pages are real pages, *)
(* and a blocked call's sg list is the one the loop built for its buffer.  *)
Busy == {p \in Procs : pc[p] # "idle"}

AllocInv ==
  /\ IsFiniteSet(Inflight) /\ IsFiniteSet(Busy)
  /\ sgTables = Cardinality(Inflight)
  /\ pageArrays >= Cardinality(Busy)

SgInv ==
  /\ \A p \in Busy : io[p].pages \in Seq(Phys)
  /\ \A p \in Inflight :
       io[p].sg = SgList(io[p].off, io[p].len, PagesNr(io[p].off, io[p].len))

TInv == PInv /\ TypeOK /\ AllocInv /\ SgInv

(* The iocb of a new call, with a pages array and an sg list of the right *)
(* types, is an iocb.                                                      *)
LEMMA IocbType ==
  ASSUME NEW write \in BOOLEAN, NEW vpage \in VPages, NEW off \in 0 .. (PS - 1),
         NEW len \in Lens, NEW pages \in Seq(Phys \cup {Unmapped}),
         NEW sg \in Seq(SgEntries)
  PROVE  [NewIocb(write, vpage, off, len) EXCEPT !.pages = pages, !.sg = sg] \in Iocbs
  BY DEF NewIocb, Iocbs, SgEntries

(* The pages get_user_pages_fast pinned are real pages: each is mapped.   *)
LEMMA PagesReal ==
  ASSUME vmap \in [VPages -> Phys \cup {Unmapped}], NEW vpage, NEW k \in Nat,
         \A j \in 0 .. (k - 1) : Pinnable(vpage + j)
  PROVE  PagesOf(vpage, k) \in Seq(Phys)
<1>1. ASSUME NEW j \in 1 .. k PROVE PageOf(vpage + j - 1) \in Phys
  <2>1. Pinnable(vpage + (j - 1))
    OBVIOUS
  <2>2. vpage + (j - 1) = vpage + j - 1
    OBVIOUS
  <2>3. QED
    BY <2>1, <2>2 DEF Pinnable, PageOf
<1>2. PagesOf(vpage, k) \in [1 .. k -> Phys]
  BY <1>1 DEF PagesOf
<1>3. QED
  BY <1>2

(* The blocked calls are busy.                                             *)
LEMMA InflightBusy == Inflight \subseteq Busy
BY DEF Inflight, Busy

(* A call that fails before get_user_pages keeps TInv: only its own iocb, *)
(* its result and its call count change.                                   *)
LEMMA EarlyErrorTInv ==
  ASSUME TInv, NEW p \in Procs, NEW write \in BOOLEAN, NEW vpage \in VPages,
         NEW off \in 0 .. (PS - 1), NEW len \in Lens,
         RwZeroPages(p, write, vpage, off, len)
         \/ RwAllocFails(p, write, vpage, off, len)
  PROVE  TInv'
<1>1. PInv'
  BY EarlyErrorPInv DEF TInv
<1>2. /\ pc[p] = "idle" /\ calls[p] < MaxCalls
      /\ calls' = [calls EXCEPT ![p] = @ + 1]
      /\ io' = [io EXCEPT ![p] = NewIocb(write, vpage, off, len)]
      /\ \E o \in Outcomes : ret' = [ret EXCEPT ![p] = o]
      /\ UNCHANGED <<vmap, writable, pc, ui, pinned, dirty, devWritten,
                     pageArrays, sgTables>>
  BY DEF RwZeroPages, RwAllocFails, Call, Outcomes
<1>3. NewIocb(write, vpage, off, len) \in Iocbs
  <2>1. << >> \in Seq(Phys \cup {Unmapped}) /\ << >> \in Seq(SgEntries)
    OBVIOUS
  <2>2. QED
    BY <2>1 DEF NewIocb, Iocbs, SgEntries
<1>4. TypeOK'
  BY <1>2, <1>3, MaxCallsAssumption DEF TInv, TypeOK
<1>5. Inflight' = Inflight /\ Busy' = Busy /\ p \notin Busy
  BY <1>2 DEF Inflight, Busy
<1>6. AllocInv'
  BY <1>2, <1>5 DEF AllocInv, TInv
<1>7. SgInv'
  BY <1>2, <1>5, InflightBusy DEF SgInv, TInv
<1>8. QED
  BY <1>1, <1>4, <1>6, <1>7 DEF TInv

(* The short pin and the duplicate scan keep TInv: the pages array they   *)
(* leave in the iocb holds the pages pinned, which are real pages, so     *)
(* unmap_user_buf dirties only pages; the array is counted, not freed.     *)
LEMMA PinErrorTInv ==
  ASSUME TInv, NEW p \in Procs, NEW write \in BOOLEAN, NEW vpage \in VPages,
         NEW off \in 0 .. (PS - 1), NEW len \in Lens,
         RwPinError(p, write, vpage, off, len)
  PROVE  TInv'
<1> DEFINE n == PagesNr(off, len)
           k == PinCount(vpage, n)
           pages == PagesOf(vpage, k)
<1>1. PInv'
  BY PinErrorPInv DEF TInv
<1>2. n \in Nat
  BY PSAssumption, LensAssumption DEF PagesNr
<1>3. k \in Nat /\ \A j \in 0 .. (k - 1) : Pinnable(vpage + j)
  BY <1>2, PinCountType
<1>4. pages \in Seq(Phys)
  BY <1>3, PagesReal DEF TInv, TypeOK
<1> HIDE DEF n, k, pages
<1>5. /\ pc[p] = "idle" /\ calls[p] < MaxCalls
      /\ calls' = [calls EXCEPT ![p] = @ + 1]
      /\ io' = [io EXCEPT ![p] = [NewIocb(write, vpage, off, len) EXCEPT !.pages = pages]]
      /\ \E o \in Outcomes : ret' = [ret EXCEPT ![p] = o]
      /\ dirty' = IF write THEN dirty ELSE dirty \cup {pages[j] : j \in 1 .. Len(pages)}
      /\ pageArrays' = pageArrays + 1
      /\ UNCHANGED <<vmap, writable, pc, ui, devWritten, sgTables>>
  BY DEF RwPinError, Call, Unpin, Outcomes, n, k, pages
<1>6. [NewIocb(write, vpage, off, len) EXCEPT !.pages = pages] \in Iocbs
  <2>1. << >> \in Seq(SgEntries)
    OBVIOUS
  <2>2. pages \in Seq(Phys \cup {Unmapped})
    BY <1>3, PagesOfType DEF TInv, TypeOK, pages
  <2>3. QED
    BY <2>1, <2>2 DEF NewIocb, Iocbs, SgEntries
<1>7. dirty' \subseteq Phys
  BY <1>4, <1>5 DEF TInv, TypeOK
<1>8. TypeOK'
  BY <1>1, <1>5, <1>6, <1>7, MaxCallsAssumption DEF TInv, TypeOK, PInv
<1>9. Inflight' = Inflight /\ Busy' = Busy /\ p \notin Busy
  BY <1>5 DEF Inflight, Busy
<1>10. AllocInv'
  BY <1>5, <1>9, FS_CardinalityType DEF AllocInv, TInv, TypeOK
<1>11. SgInv'
  BY <1>5, <1>9, InflightBusy DEF SgInv, TInv
<1>12. QED
  BY <1>1, <1>8, <1>10, <1>11 DEF TInv

(* A call entering fp_rw keeps TInv: it joins the blocked calls with its  *)
(* sg table and pages array counted, its pages are all mapped (the pin     *)
(* got every one), and its sg list is the loop's for its buffer.          *)
LEMMA SubmitTInv ==
  ASSUME TInv, NEW p \in Procs, NEW write \in BOOLEAN, NEW vpage \in VPages,
         NEW off \in 0 .. (PS - 1), NEW len \in Lens,
         RwSubmit(p, write, vpage, off, len)
  PROVE  TInv'
<1> DEFINE n == PagesNr(off, len)
           pages == PagesOf(vpage, n)
           sg == SgList(off, len, n)
           r == [NewIocb(write, vpage, off, len) EXCEPT !.pages = pages, !.sg = sg]
<1>1. PInv'
  BY SubmitPInv DEF TInv
<1>2. n \in Nat
  BY PSAssumption, LensAssumption DEF PagesNr
<1>3. PinCount(vpage, n) = n
  BY DEF RwSubmit
<1>4. pages \in Seq(Phys) /\ pages \in Seq(Phys \cup {Unmapped})
  <2>1. \A j \in 0 .. (n - 1) : Pinnable(vpage + j)
    BY <1>2, <1>3, PinCountType
  <2>2. QED
    BY <1>2, <2>1, PagesReal, PagesOfType DEF TInv, TypeOK
<1>5. sg \in Seq(SgEntries)
  BY <1>2, LensAssumption, SgListType
<1>6. r \in Iocbs
  BY <1>4, <1>5, IocbType
<1>7. r.pages = pages /\ r.off = off /\ r.len = len /\ r.sg = sg
  BY DEF NewIocb
<1> HIDE DEF n, pages, sg, r
<1>8. /\ pc[p] = "idle" /\ calls[p] < MaxCalls
      /\ calls' = [calls EXCEPT ![p] = @ + 1]
      /\ io' = [io EXCEPT ![p] = r]
      /\ pc' = [pc EXCEPT ![p] = "inflight"]
      /\ pageArrays' = pageArrays + 1
      /\ sgTables' = sgTables + 1
      /\ UNCHANGED <<vmap, writable, ui, ret, dirty, devWritten>>
  BY DEF RwSubmit, Call, n, pages, sg, r
<1>9. TypeOK'
  BY <1>1, <1>6, <1>8, MaxCallsAssumption DEF TInv, TypeOK, PInv
<1>10. /\ Inflight' = Inflight \cup {p} /\ p \notin Inflight
       /\ Busy' = Busy \cup {p} /\ p \notin Busy
  BY <1>8 DEF Inflight, Busy, TInv, TypeOK
<1>11. AllocInv'
  <2>1. IsFiniteSet(Inflight') /\ Cardinality(Inflight') = Cardinality(Inflight) + 1
    BY <1>10, FS_AddElement DEF TInv, AllocInv
  <2>2. IsFiniteSet(Busy') /\ Cardinality(Busy') = Cardinality(Busy) + 1
    BY <1>10, FS_AddElement DEF TInv, AllocInv
  <2>3. QED
    BY <1>8, <2>1, <2>2, FS_CardinalityType DEF TInv, AllocInv, TypeOK
<1>12. SgInv'
  <2>1. ASSUME NEW q \in Busy'
        PROVE  io'[q].pages \in Seq(Phys)
    <3>1. CASE q = p
      BY <1>4, <1>7, <1>8, <3>1 DEF TInv, TypeOK
    <3>2. CASE q # p
      BY <1>8, <1>10, <3>2 DEF TInv, SgInv
    <3>3. QED
      BY <3>1, <3>2
  <2>2. ASSUME NEW q \in Inflight'
        PROVE  io'[q].sg = SgList(io'[q].off, io'[q].len,
                                  PagesNr(io'[q].off, io'[q].len))
    <3>1. CASE q = p
      BY <1>7, <1>8, <3>1 DEF n, sg, TInv, TypeOK
    <3>2. CASE q # p
      BY <1>8, <1>10, <3>2 DEF TInv, SgInv
    <3>3. QED
      BY <3>1, <3>2
  <2>3. QED
    BY <2>1, <2>2 DEF SgInv
<1>13. QED
  BY <1>1, <1>9, <1>11, <1>12 DEF TInv

(* fp_rw returning keeps TInv: the call leaves the blocked set as         *)
(* unmap_user_buf frees its sg table, and stays busy with its pages array. *)
LEMMA CompleteTInv ==
  ASSUME TInv, NEW p \in Procs, RwComplete(p)
  PROVE  TInv'
<1>1. PInv'
  BY HoldPInv DEF TInv
<1>2. /\ pc[p] = "inflight"
      /\ \E o \in Outcomes : ret' = [ret EXCEPT ![p] = o]
      /\ pc' = [pc EXCEPT ![p] = "unmap"]
      /\ sgTables' = sgTables - 1
      /\ UNCHANGED <<vmap, writable, io, calls, pinned, dirty, devWritten, pageArrays>>
  BY DEF RwComplete, Outcomes
<1>3. /\ p \in Inflight /\ Inflight' = Inflight \ {p}
      /\ Busy' = Busy
  BY <1>2 DEF Inflight, Busy, TInv, TypeOK
<1>4. /\ IsFiniteSet(Inflight')
      /\ Cardinality(Inflight') = Cardinality(Inflight) - 1
      /\ Cardinality(Inflight') \in Nat
  BY <1>3, FS_RemoveElement, FS_CardinalityType DEF TInv, AllocInv
<1>5. TypeOK'
  BY <1>1, <1>2, <1>4 DEF TInv, TypeOK, PInv, AllocInv
<1>6. AllocInv'
  <2>1. Cardinality(Inflight) \in Nat
    BY FS_CardinalityType DEF TInv, AllocInv
  <2>2. sgTables \in Nat
    BY DEF TInv, TypeOK
  <2>3. QED
    BY <1>2, <1>3, <1>4, <2>1, <2>2 DEF TInv, AllocInv
<1>7. SgInv'
  BY <1>2, <1>3 DEF TInv, SgInv
<1>8. QED
  BY <1>1, <1>5, <1>6, <1>7 DEF TInv

(* The dirty test and put_page of the loop keep TInv: the page of entry i *)
(* is a real page, and the call stays busy and out of the engine.          *)
LEMMA LoopTInv ==
  ASSUME TInv, NEW p \in Procs, UnmapDirty(p) \/ UnmapPut(p)
  PROVE  TInv'
<1>1. PInv'
  BY HoldPInv, PutPInv DEF TInv
<1>2. /\ pc[p] \in {"unmap", "put"} /\ pc'[p] \in {"unmap", "put"}
      /\ \A q \in Procs \ {p} : pc'[q] = pc[q]
      /\ UNCHANGED <<vmap, writable, io, ret, calls, devWritten, pageArrays, sgTables>>
  BY DEF UnmapDirty, UnmapPut, TInv, TypeOK
<1>3. Inflight' = Inflight /\ Busy' = Busy /\ p \in Busy
  BY <1>2 DEF Inflight, Busy, TInv, TypeOK
<1>4. dirty' \subseteq Phys
  <2>1. CASE UnmapDirty(p)
    <3>1. ui[p] \in 1 .. Len(io[p].pages) /\ io[p].pages \in Seq(Phys)
      BY <1>3, <2>1 DEF UnmapDirty, TInv, SgInv, PInv
    <3>2. io[p].pages[ui[p]] \in Phys
      BY <3>1
    <3>3. QED
      BY <2>1, <3>2 DEF UnmapDirty, TInv, TypeOK
  <2>2. CASE UnmapPut(p)
    BY <2>2 DEF UnmapPut, TInv, TypeOK
  <2>3. QED
    BY <2>1, <2>2
<1>5. TypeOK'
  <2>1. pc' \in [Procs -> {"idle", "inflight", "unmap", "put"}]
        /\ ui' \in [Procs -> Nat \ {0}] /\ pinned' \in [Phys -> Nat]
    BY <1>1 DEF PInv
  <2>2. QED
    BY <1>2, <1>4, <2>1 DEF TInv, TypeOK
<1>6. AllocInv'
  BY <1>2, <1>3 DEF TInv, AllocInv
<1>7. SgInv'
  BY <1>2, <1>3 DEF TInv, SgInv
<1>8. QED
  BY <1>1, <1>5, <1>6, <1>7 DEF TInv

(* The end of the loop keeps TInv: iocb_release frees the pages array of  *)
(* a call that was busy and is idle after.                                 *)
LEMMA DoneTInv ==
  ASSUME TInv, NEW p \in Procs, UnmapDone(p)
  PROVE  TInv'
<1>1. PInv'
  BY HoldPInv DEF TInv
<1>2. /\ pc[p] = "unmap" /\ pc' = [pc EXCEPT ![p] = "idle"]
      /\ pageArrays' = pageArrays - 1
      /\ UNCHANGED <<vmap, writable, ui, io, ret, calls, pinned, dirty, devWritten, sgTables>>
  BY DEF UnmapDone
<1>3. /\ Inflight' = Inflight /\ p \in Busy /\ Busy' = Busy \ {p}
  BY <1>2 DEF Inflight, Busy, TInv, TypeOK
<1>4. /\ IsFiniteSet(Busy')
      /\ Cardinality(Busy') = Cardinality(Busy) - 1
      /\ Cardinality(Busy') \in Nat
  BY <1>3, FS_RemoveElement, FS_CardinalityType DEF TInv, AllocInv
<1>5. pageArrays' \in Nat /\ pageArrays' >= Cardinality(Busy')
  <2>1. Cardinality(Busy) \in Nat /\ pageArrays \in Nat
    BY FS_CardinalityType DEF TInv, AllocInv, TypeOK
  <2>2. QED
    BY <1>2, <1>4, <2>1 DEF TInv, AllocInv
<1>6. TypeOK'
  BY <1>1, <1>2, <1>5 DEF TInv, TypeOK, PInv
<1>7. AllocInv'
  BY <1>2, <1>3, <1>4, <1>5 DEF TInv, AllocInv
<1>8. SgInv'
  BY <1>2, <1>3 DEF TInv, SgInv
<1>9. QED
  BY <1>1, <1>6, <1>7, <1>8 DEF TInv

(* The device writes a page of a blocked read, which is a real page;      *)
(* writeback cleans a page.  Neither touches the calls.                    *)
LEMMA EnvTInv ==
  ASSUME TInv,
         \/ \E p \in Procs : \E j \in 1 .. Len(io[p].pages) : DeviceWrite(p, j)
         \/ \E g \in Phys : Writeback(g)
  PROVE  TInv'
<1>1. UNCHANGED <<vmap, writable, pc, ui, io, ret, calls, pinned, pageArrays, sgTables>>
  BY DEF DeviceWrite, Writeback
<1>2. PInv'
  <2>1. \A h \in Phys : PinSet(h)' = PinSet(h)
    BY <1>1, SliceUnchanged, PinSetUnchanged
  <2>2. QED
    BY <1>1, <2>1 DEF TInv, PInv
<1>3. devWritten' \subseteq Phys /\ dirty' \subseteq Phys
  <2>1. CASE \E p \in Procs : \E j \in 1 .. Len(io[p].pages) : DeviceWrite(p, j)
    <3>0. PICK p \in Procs : \E j \in 1 .. Len(io[p].pages) : DeviceWrite(p, j)
      BY <2>1
    <3>1. PICK j \in 1 .. Len(io[p].pages) : DeviceWrite(p, j)
      BY <3>0
    <3>2. p \in Busy
      BY <3>1 DEF DeviceWrite, Busy
    <3>3. io[p].pages[j] \in Phys
      BY <3>1, <3>2 DEF TInv, SgInv
    <3>4. QED
      BY <3>1, <3>3 DEF DeviceWrite, TInv, TypeOK
  <2>2. CASE \E g \in Phys : Writeback(g)
    BY <2>2 DEF Writeback, TInv, TypeOK
  <2>3. QED
    BY <2>1, <2>2
<1>4. QED
  BY <1>1, <1>2, <1>3 DEF TInv, TypeOK, AllocInv, SgInv, Inflight, Busy

LEMMA InitTInv == Init => TInv
<1> SUFFICES ASSUME Init PROVE TInv
  OBVIOUS
<1>1. PInv
  BY InitPInv
<1>2. [write |-> FALSE, vpage |-> 0, off |-> 0, len |-> 0,
       pages |-> << >>, sg |-> << >>] \in Iocbs
  <2>1. << >> \in Seq(Phys \cup {Unmapped}) /\ << >> \in Seq(SgEntries)
    OBVIOUS
  <2>2. QED
    BY <2>1, PSAssumption DEF Iocbs, SgEntries
<1>3. TypeOK
  BY <1>1, <1>2, MaxCallsAssumption DEF Init, TypeOK, Outcomes, PInv
<1>4. Inflight = {} /\ Busy = {}
  BY DEF Init, Inflight, Busy
<1>5. AllocInv
  BY <1>4, FS_EmptySet DEF Init, AllocInv
<1>6. SgInv
  BY <1>4 DEF SgInv
<1>7. QED
  BY <1>1, <1>3, <1>5, <1>6 DEF TInv

LEMMA NextTInv == TInv /\ [Next]_vars => TInv'
<1> SUFFICES ASSUME TInv, [Next]_vars PROVE TInv'
  OBVIOUS
<1>1. ASSUME NEW p \in Procs, NEW write \in BOOLEAN, NEW vpage \in VPages,
             NEW off \in 0 .. (PS - 1), NEW len \in Lens,
             \/ RwZeroPages(p, write, vpage, off, len)
             \/ RwAllocFails(p, write, vpage, off, len)
             \/ RwPinError(p, write, vpage, off, len)
             \/ RwSubmit(p, write, vpage, off, len)
      PROVE  TInv'
  BY <1>1, EarlyErrorTInv, PinErrorTInv, SubmitTInv
<1>2. ASSUME NEW p \in Procs,
             RwComplete(p) \/ UnmapDirty(p) \/ UnmapPut(p) \/ UnmapDone(p)
      PROVE  TInv'
  BY <1>2, CompleteTInv, LoopTInv, DoneTInv
<1>3. ASSUME \/ \E p \in Procs : \E j \in 1 .. Len(io[p].pages) : DeviceWrite(p, j)
             \/ \E g \in Phys : Writeback(g)
      PROVE  TInv'
  BY <1>3, EnvTInv
<1>4. CASE UNCHANGED vars
  <2>1. PInv'
    BY <1>4, NextPInv DEF TInv
  <2>2. QED
    BY <1>4, <2>1 DEF vars, TInv, TypeOK, AllocInv, SgInv, Inflight, Busy
<1>5. QED
  BY <1>1, <1>2, <1>3, <1>4 DEF Next

-----------------------------------------------------------------------------
(* TypeOK holds in every reachable state, for every value of the          *)
(* constants: in particular no page reference count, sg table count or     *)
(* pages array count of cdev_gen_read_write ever goes below zero, and the  *)
(* pages unmap_user_buf dirties are real pages.                            *)
THEOREM TypeCorrect == Spec => []TypeOK
<1>1. TInv => TypeOK
  BY DEF TInv
<1>2. QED
  BY InitTInv, NextTInv, <1>1, PTL DEF Spec

(* The sg table is freed exactly once per call that entered fp_rw: at     *)
(* every moment the tables allocated and not freed are those of the calls *)
(* blocked in the engine.  The pages arrays are at least the calls in the *)
(* engine or in the unmap loop, so                                         *)
(* iocb_release never frees one that was not allocated; the surplus is     *)
(* the arrays the pin error paths leak (the NoAllocLeak finding).          *)
THEOREM AllocBoundsThm == Spec => []AllocInv
<1>1. TInv => AllocInv
  BY DEF TInv
<1>2. QED
  BY InitTInv, NextTInv, <1>1, PTL DEF Spec

(* SgCoversBuffer holds in every reachable state: the list                *)
(* map_user_buf_to_sgl hands the engine has the spec's page count of       *)
(* entries for every page size, offset and length, and entry j is exactly  *)
(* the part of the buffer in its j-th page, so the transfer neither        *)
(* overruns a page nor drops or repeats a byte.                            *)
THEOREM SgCoversBufferThm == Spec => []SgCoversBuffer
<1>1. TInv => SgCoversBuffer
  <2> SUFFICES ASSUME TInv, NEW p \in Inflight
               PROVE  LET r == io[p] IN
                      /\ Len(r.sg) = RefPagesNr(r.vpage, r.off, r.len)
                      /\ \A j \in 1 .. Len(r.sg) :
                           LET lo == IF r.off < (j - 1) * PS THEN (j - 1) * PS ELSE r.off
                               hi == IF r.off + r.len < j * PS THEN r.off + r.len ELSE j * PS
                           IN /\ r.sg[j].offset = lo - (j - 1) * PS
                              /\ r.sg[j].nbytes = hi - lo
    BY DEF SgCoversBuffer
  <2> DEFINE r == io[p]
             n == PagesNr(r.off, r.len)
  <2>1. r \in Iocbs
    BY DEF TInv, TypeOK, Inflight
  <2>2. PICK o \in 0 .. (PS - 1) : o = r.off
    BY <2>1 DEF Iocbs
  <2>3. PICK l \in Nat : l = r.len
    <3>1. r.len \in Lens \cup {0}
      BY <2>1 DEF Iocbs
    <3>2. QED
      BY <3>1, LensAssumption
  <2>4. PICK v \in Nat : v = r.vpage
    <3>1. r.vpage \in VPages \cup {0}
      BY <2>1 DEF Iocbs
    <3>2. QED
      BY <3>1, VPagesAssumption
  <2>5. r.sg = SgList(o, l, PagesNr(o, l))
    BY <2>2, <2>3 DEF TInv, SgInv
  <2>6. PagesNr(o, l) \in Nat
    BY PSAssumption DEF PagesNr
  <2>7. Len(r.sg) = PagesNr(o, l)
    BY <2>5, <2>6 DEF SgList
  <2>8. Len(r.sg) = RefPagesNr(r.vpage, r.off, r.len)
    BY <2>2, <2>3, <2>4, <2>7, PagesNrIsRef
  <2>9. ASSUME NEW j \in 1 .. Len(r.sg)
        PROVE  LET lo == IF r.off < (j - 1) * PS THEN (j - 1) * PS ELSE r.off
                   hi == IF r.off + r.len < j * PS THEN r.off + r.len ELSE j * PS
               IN /\ r.sg[j].offset = lo - (j - 1) * PS
                  /\ r.sg[j].nbytes = hi - lo
    <3>1. j \in 1 .. PagesNr(o, l)
      BY <2>7
    <3>2. LET e == SgList(o, l, PagesNr(o, l))[j]
              lo == IF o < (j - 1) * PS THEN (j - 1) * PS ELSE o
              hi == IF o + l < j * PS THEN o + l ELSE j * PS
          IN  /\ e.offset = lo - (j - 1) * PS
              /\ e.nbytes = hi - lo
      BY <3>1, SgEntry
    <3>3. r.sg[j] = SgList(o, l, PagesNr(o, l))[j]
      BY <2>5
    <3>4. QED
      BY <2>2, <2>3, <3>2, <3>3
  <2>10. QED
    BY <2>8, <2>9
<1>2. QED
  BY InitTInv, NextTInv, <1>1, PTL DEF Spec
-----------------------------------------------------------------------------
(* Device data.  The entries of a call that the unmap loop has not        *)
(* dirtied yet: all of them while it is blocked, those from i on at the    *)
(* head of an iteration, those after i once pages[i] is dirtied.  Every   *)
(* page the device wrote that is clean is such an entry of a read; an     *)
(* entry not dirtied yet is one whose reference the call still holds.      *)
Pending(p) ==
  {j \in 1 .. Len(io[p].pages) :
     \/ pc[p] = "inflight"
     \/ pc[p] = "unmap" /\ ui[p] <= j
     \/ pc[p] = "put" /\ ui[p] < j}

DataInv ==
  \A g \in devWritten \ dirty :
    \E p \in Procs : ~io[p].write /\ \E j \in Pending(p) : io[p].pages[j] = g

LEMMA InitDataInv == Init => DataInv
BY DEF Init, DataInv

(* A step that cleans no page the device wrote and leaves every pending   *)
(* entry of a read pending, with its page, keeps DataInv.                  *)
LEMMA DataStep ==
  ASSUME DataInv, devWritten' \ dirty' \subseteq devWritten \ dirty,
         \A q \in Procs : ~io[q].write =>
           \A j \in Pending(q) : /\ ~io'[q].write /\ j \in Pending(q)'
                                 /\ io'[q].pages[j] = io[q].pages[j]
  PROVE  DataInv'
BY DEF DataInv

(* An idle call has no pending entry.                                      *)
LEMMA PendingIdle ==
  ASSUME NEW p, pc[p] = "idle"
  PROVE  Pending(p) = {}
BY DEF Pending

(* A new call: only the idle caller's iocb changes, and err_out may only  *)
(* dirty pages.                                                            *)
LEMMA CallDataInv ==
  ASSUME TInv, DataInv, NEW p \in Procs, NEW write, NEW vpage, NEW off, NEW len,
         \/ RwZeroPages(p, write, vpage, off, len)
         \/ RwAllocFails(p, write, vpage, off, len)
         \/ RwPinError(p, write, vpage, off, len)
         \/ RwSubmit(p, write, vpage, off, len)
  PROVE  DataInv'
<1>1. /\ pc[p] = "idle" /\ ui' = ui /\ devWritten' = devWritten
      /\ dirty \subseteq dirty'
      /\ \A q \in Procs \ {p} : io'[q] = io[q] /\ pc'[q] = pc[q]
  BY DEF RwZeroPages, RwAllocFails, RwPinError, RwSubmit, Call, Unpin, TInv, TypeOK
<1>2. Pending(p) = {}
  BY <1>1, PendingIdle
<1>3. ASSUME NEW q \in Procs, ~io[q].write, NEW j \in Pending(q)
      PROVE  /\ ~io'[q].write /\ j \in Pending(q)'
             /\ io'[q].pages[j] = io[q].pages[j]
  BY <1>1, <1>2, <1>3 DEF Pending
<1>4. QED
  BY <1>1, <1>3, DataStep

(* fp_rw returning moves a call from the engine to the loop at i = 1,     *)
(* and put_page moves the loop from pages[i] dirtied to the head of        *)
(* i + 1: the same entries stay pending.                                    *)
LEMMA MoveDataInv ==
  ASSUME TInv, DataInv, NEW p \in Procs, RwComplete(p) \/ UnmapPut(p)
  PROVE  DataInv'
<1>1. /\ io' = io /\ dirty' = dirty /\ devWritten' = devWritten
      /\ \A q \in Procs \ {p} : pc'[q] = pc[q] /\ ui'[q] = ui[q]
  BY DEF RwComplete, UnmapPut, TInv, TypeOK
<1>2. Pending(p)' = Pending(p)
  <2>1. CASE RwComplete(p)
    BY <2>1 DEF RwComplete, Pending, TInv, TypeOK
  <2>2. CASE UnmapPut(p)
    <3>1. ui[p] \in Nat
      BY DEF TInv, TypeOK
    <3>2. QED
      BY <2>2, <3>1 DEF UnmapPut, Pending, TInv, TypeOK
  <2>3. QED
    BY <2>1, <2>2
<1>3. ASSUME NEW q \in Procs, ~io[q].write, NEW j \in Pending(q)
      PROVE  /\ ~io'[q].write /\ j \in Pending(q)'
             /\ io'[q].pages[j] = io[q].pages[j]
  <2>1. Pending(q)' = Pending(q)
    <3>1. CASE q = p
      BY <1>2, <3>1
    <3>2. CASE q # p
      <4>1. pc'[q] = pc[q] /\ ui'[q] = ui[q] /\ io'[q] = io[q]
        BY <1>1, <3>2
      <4>2. QED
        BY <4>1 DEF Pending
    <3>3. QED
      BY <3>1, <3>2
  <2>2. QED
    BY <1>1, <1>3, <2>1
<1>4. QED
  BY <1>1, <1>3, DataStep

(* The end of the loop: a call past its last entry has none pending.      *)
LEMMA DoneDataInv ==
  ASSUME TInv, DataInv, NEW p \in Procs, UnmapDone(p)
  PROVE  DataInv'
<1>1. /\ io' = io /\ dirty' = dirty /\ devWritten' = devWritten /\ ui' = ui
      /\ \A q \in Procs \ {p} : pc'[q] = pc[q]
  BY DEF UnmapDone, TInv, TypeOK
<1>2. Pending(p) = {}
  <2>1. ui[p] \in Nat /\ pc[p] = "unmap" /\ ui[p] > Len(io[p].pages)
    BY DEF UnmapDone, TInv, TypeOK
  <2>2. QED
    BY <2>1 DEF Pending
<1>3. ASSUME NEW q \in Procs, ~io[q].write, NEW j \in Pending(q)
      PROVE  /\ ~io'[q].write /\ j \in Pending(q)'
             /\ io'[q].pages[j] = io[q].pages[j]
  BY <1>1, <1>2, <1>3 DEF Pending
<1>4. QED
  BY <1>1, <1>3, DataStep

(* The dirty test: of a read, it dirties the one entry it stops counting  *)
(* as pending; of a write no entry is a witness.                           *)
LEMMA DirtyDataInv ==
  ASSUME TInv, DataInv, NEW p \in Procs, UnmapDirty(p)
  PROVE  DataInv'
<1>1. /\ pc[p] = "unmap" /\ pc' = [pc EXCEPT ![p] = "put"]
      /\ ui' = ui /\ io' = io /\ devWritten' = devWritten
      /\ dirty' = IF io[p].write THEN dirty ELSE dirty \cup {io[p].pages[ui[p]]}
  BY DEF UnmapDirty
<1>2. SUFFICES ASSUME NEW g \in devWritten' \ dirty'
               PROVE  \E q \in Procs : ~io'[q].write /\
                        \E j \in Pending(q)' : io'[q].pages[j] = g
  BY DEF DataInv
<1>3. g \in devWritten \ dirty
  BY <1>1
<1>4. PICK q \in Procs : ~io[q].write /\ \E j \in Pending(q) : io[q].pages[j] = g
  BY <1>3 DEF DataInv
<1>5. PICK j \in Pending(q) : io[q].pages[j] = g
  BY <1>4
<1>6. CASE q # p
  <2>1. j \in Pending(q)'
    BY <1>1, <1>6 DEF Pending, TInv, TypeOK
  <2>2. QED
    BY <1>1, <1>4, <1>5, <2>1
<1>7. CASE q = p
  <2>1. ui[p] \in Nat /\ j \in Nat
    BY DEF Pending, TInv, TypeOK
  <2>2. j # ui[p]
    BY <1>1, <1>4, <1>5, <1>7
  <2>3. ui[p] <= j
    BY <1>1, <1>7 DEF Pending
  <2>4. j \in Pending(p)'
    <3>1. pc'[p] = "put"
      BY <1>1 DEF TInv, TypeOK
    <3>2. QED
      BY <1>1, <1>7, <2>1, <2>2, <2>3, <3>1 DEF Pending
  <2>5. QED
    BY <1>1, <1>4, <1>5, <1>7, <2>4
<1>8. QED
  BY <1>6, <1>7

(* The device writes a page of a blocked read: that read is its witness. *)
LEMMA DeviceDataInv ==
  ASSUME TInv, DataInv, NEW p \in Procs, NEW j \in 1 .. Len(io[p].pages),
         DeviceWrite(p, j)
  PROVE  DataInv'
<1>1. /\ pc[p] = "inflight" /\ ~io[p].write
      /\ devWritten' = devWritten \cup {io[p].pages[j]}
      /\ UNCHANGED <<pc, ui, io, dirty>>
  BY DEF DeviceWrite
<1>2. SUFFICES ASSUME NEW g \in devWritten' \ dirty'
               PROVE  \E q \in Procs : ~io'[q].write /\
                        \E i \in Pending(q)' : io'[q].pages[i] = g
  BY DEF DataInv
<1>3. CASE g = io[p].pages[j]
  <2>1. j \in Pending(p)'
    BY <1>1 DEF Pending
  <2>2. QED
    BY <1>1, <1>3, <2>1
<1>4. CASE g # io[p].pages[j]
  <2>1. g \in devWritten \ dirty
    BY <1>1, <1>4
  <2>2. QED
    BY <1>1, <2>1 DEF DataInv, Pending
<1>5. QED
  BY <1>3, <1>4

(* Writeback removes a page from both sets; nothing else moves.            *)
LEMMA WritebackDataInv ==
  ASSUME DataInv, NEW g \in Phys, Writeback(g)
  PROVE  DataInv'
<1>1. /\ devWritten' \ dirty' \subseteq devWritten \ dirty
      /\ UNCHANGED <<pc, ui, io>>
  BY DEF Writeback
<1>2. QED
  BY <1>1, DataStep DEF Pending

LEMMA NextDataInv == TInv /\ DataInv /\ [Next]_vars => DataInv'
<1> SUFFICES ASSUME TInv, DataInv, [Next]_vars PROVE DataInv'
  OBVIOUS
<1>1. ASSUME NEW p \in Procs, NEW write \in BOOLEAN, NEW vpage \in VPages,
             NEW off \in 0 .. (PS - 1), NEW len \in Lens,
             \/ RwZeroPages(p, write, vpage, off, len)
             \/ RwAllocFails(p, write, vpage, off, len)
             \/ RwPinError(p, write, vpage, off, len)
             \/ RwSubmit(p, write, vpage, off, len)
      PROVE  DataInv'
  BY <1>1, CallDataInv
<1>2. ASSUME NEW p \in Procs,
             \/ RwComplete(p) \/ UnmapDirty(p) \/ UnmapPut(p) \/ UnmapDone(p)
             \/ \E j \in 1 .. Len(io[p].pages) : DeviceWrite(p, j)
      PROVE  DataInv'
  BY <1>2, MoveDataInv, DirtyDataInv, DoneDataInv, DeviceDataInv
<1>3. ASSUME NEW g \in Phys, Writeback(g) PROVE DataInv'
  BY <1>3, WritebackDataInv
<1>4. CASE UNCHANGED vars
  BY <1>4, DataStep DEF vars, Pending
<1>5. QED
  BY <1>1, <1>2, <1>3, <1>4 DEF Next

(* DeviceDataKept holds in every reachable state, for any threads, pages  *)
(* and buffers: unmap_user_buf dirties each page of a read before its     *)
(* put_page, so whatever the device wrote into a page and writeback has   *)
(* not saved sits in a page that is dirty or still pinned by a call, the  *)
(* call that will dirty it; no interleaving of threads releasing the same *)
(* page and of writeback leaves it clean and unpinned.                     *)
THEOREM DeviceDataKeptThm == Spec => []DeviceDataKept
<1>1. Init => TInv /\ DataInv
  BY InitTInv, InitDataInv
<1>2. TInv /\ DataInv /\ [Next]_vars => (TInv /\ DataInv)'
  BY NextTInv, NextDataInv
<1>3. TInv /\ DataInv => DeviceDataKept
  <2> SUFFICES ASSUME TInv, DataInv, NEW g \in devWritten, pinned[g] = 0,
                      g \notin dirty
               PROVE  FALSE
    BY DEF DeviceDataKept
  <2>1. PICK p \in Procs : ~io[p].write /\ \E j \in Pending(p) : io[p].pages[j] = g
    BY DEF DataInv
  <2>2. PICK j \in Pending(p) : io[p].pages[j] = g
    BY <2>1
  <2>3. g \in Phys /\ ui[p] \in Nat
    BY DEF TInv, TypeOK
  <2>4. j \in HIdx(p, g)
    BY <2>2, <2>3 DEF Pending, HIdx, HeldIdx
  <2>5. <<p, j>> \in PinSet(g)
    BY <2>4 DEF PinSet, Slice
  <2>6. IsFiniteSet(PinSet(g)) /\ Cardinality(PinSet(g)) = 0
    BY <2>3 DEF TInv, PInv
  <2>7. QED
    BY <2>5, <2>6, FS_EmptySet
<1>4. QED
  BY <1>1, <1>2, <1>3, PTL DEF Spec
=============================================================================
