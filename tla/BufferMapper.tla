--------------------------- MODULE BufferMapper ---------------------------
(***************************************************************************)
(* The read/write path of a queue's character device (src/drv/cdev.c):    *)
(* cdev_gen_read_write pins the user buffer with map_user_buf_to_sgl,      *)
(* builds a scatter-gather list of it, blocks in the engine's submit call  *)
(* (fp_rw) and then releases everything with unmap_user_buf and           *)
(* iocb_release.  Several threads (Procs) may call read or write at the    *)
(* same time on buffers of one address space.                              *)
(*                                                                         *)
(* A call is one step up to the engine submit, then the engine's return, *)
(* then two steps per iteration of the unmap_user_buf loop (the dirty     *)
(* test, then put_page), which other threads, the device and the kernel's *)
(* writeback interleave with.  Addresses are in bytes of an abstract page *)
(* size PS; the buffer starts at byte off of virtual page vpage.           *)
(* The address space maps each virtual page to a physical page or to       *)
(* Unmapped, and says which pages are writable.                            *)
(***************************************************************************)
EXTENDS Naturals, Sequences, FiniteSets

CONSTANTS
  PS,          \* PAGE_SIZE
  VPages,      \* virtual pages of the caller's address space
  Phys,        \* physical pages
  Unmapped,    \* no physical page behind a virtual page
  Procs,       \* threads calling read / write
  Lens,        \* the byte counts a call may pass
  MaxCalls     \* bound on the calls of one thread

ASSUME PSAssumption == PS \in Nat \ {0}
ASSUME VPagesAssumption == VPages \subseteq Nat
ASSUME UnmappedAssumption == Unmapped \notin Phys
ASSUME LensAssumption == Lens \subseteq Nat
ASSUME MaxCallsAssumption == MaxCalls \in Nat

VARIABLES
  vmap,        \* vmap[v]: the physical page behind virtual page v
  writable,    \* writable[v]: v is mapped writable
  pc,          \* pc[p]: "idle", "inflight" (blocked in fp_rw), or in the
               \* unmap_user_buf loop: "unmap" (at its dirty test) or "put"
  ui,          \* ui[p]: the index i of that loop, from 1
  io,          \* io[p]: the iocb of p's current or last call
  ret,         \* ret[p]: what p's last call returned
  calls,       \* calls[p]: calls made by p
  pinned,      \* pinned[g]: page references taken by get_user_pages
  dirty,       \* pages marked dirty by set_page_dirty_lock
  devWritten,  \* ghost: pages holding data the device wrote through a read
               \* that writeback has not saved yet
  pageArrays,  \* page-pointer arrays kcalloc-ed and not yet kfree-d
  sgTables     \* sg tables allocated and not yet freed

vars == <<vmap, writable, pc, ui, io, ret, calls, pinned, dirty, devWritten,
          pageArrays, sgTables>>

(* The outcome of a call, named by the path that produced it.  The code   *)
(* returns -EINVAL, -ENOMEM, the negative count of get_user_pages_fast,   *)
(* -EFAULT for a short pin and for duplicate pages, or fp_rw's result.    *)
Outcomes == {"none", "einval", "enomem", "epin", "epartial", "edup",
             "ok", "eengine"}

PageOf(v) == IF v \in VPages THEN vmap[v] ELSE Unmapped

-----------------------------------------------------------------------------
(* pages_nr of map_user_buf_to_sgl: ((buf + len + PAGE_SIZE - 1) -        *)
(* (buf & PAGE_MASK)) >> PAGE_SHIFT, for buf = vpage * PS + off.           *)
PagesNr(off, len) == (off + len + PS - 1) \div PS

(* The spec's page count: ceil_div(addr + len) - floor_div(addr).         *)
RefPagesNr(vpage, off, len) ==
  LET addr == vpage * PS + off IN
  ((addr + len + PS - 1) \div PS) - (addr \div PS)

(* get_user_pages_fast(buf, pages_nr, 1, pages) pins the leading pages    *)
(* it can reach for writing; the count of them.                            *)
Pinnable(v) == PageOf(v) # Unmapped /\ writable[v]
PinCount(vpage, n) ==
  CHOOSE k \in 0 .. n :
    /\ \A j \in 0 .. (k - 1) : Pinnable(vpage + j)
    /\ k < n => ~Pinnable(vpage + k)

(* The pages array after pinning k pages.                                  *)
PagesOf(vpage, k) == [j \in 1 .. k |-> PageOf(vpage + j - 1)]

(* The duplicate scan: two consecutive entries are the same page.         *)
HasDupPair(pages) == \E j \in 2 .. Len(pages) : pages[j - 1] = pages[j]

(* Mutant: nbytes = min(PAGE_SIZE, len), the page offset forgotten, so    *)
(* len is cut by PAGE_SIZE at every page.                                  *)
SgListNoOffset(off, len, n) ==
  LET left(j) == IF j * PS < len THEN len - j * PS ELSE 0 IN
  [j \in 1 .. n |->
     [offset |-> IF j = 1 THEN off ELSE 0,
      nbytes |-> IF PS < left(j - 1) THEN PS ELSE left(j - 1)]]

(* len at the head of iteration j + 1 of the scatter-gather loop: the     *)
(* first iteration takes PAGE_SIZE - off bytes, each later one PAGE_SIZE,  *)
(* down to 0: the closed form of the loop's len -= nbytes.                *)
SgLeft(off, len, j) ==
  IF j = 0 THEN len
  ELSE IF j * PS - off < len THEN len - (j * PS - off) ELSE 0

(* The scatter-gather loop: entry j covers nbytes = min(PAGE_SIZE -       *)
(* offset_in_page(buf), len) of what is left, buf and len advancing, so   *)
(* every entry after the first starts on a page boundary.                  *)
SgList(off, len, n) ==
  [j \in 1 .. n |->
     LET offset == IF j = 1 THEN off ELSE 0
         left == SgLeft(off, len, j - 1)
     IN [offset |-> offset,
         nbytes |-> IF PS - offset < left THEN PS - offset ELSE left]]

(* Count of entries of the pages array that are page g.                    *)
Refs(pages, g) == Cardinality({j \in 1 .. Len(pages) : pages[j] = g})

(* The page references after get_user_pages took one per entry of pages.   *)
Pinned(pages) == [g \in Phys |-> pinned[g] + Refs(pages, g)]

(* unmap_user_buf on the err_out path, starting from the page references *)
(* held, over the entries of pages: set_page_dirty_lock when the call is   *)
(* a read (write = 0), then put_page.  Its loop is one step here: the      *)
(* device never saw these pages, and another thread sees only the counts  *)
(* before and after.                                                       *)
Unpin(held, pages, write) ==
  /\ pinned' = [g \in Phys |-> held[g] - Refs(pages, g)]
  /\ dirty' = IF write THEN dirty
              ELSE dirty \cup {pages[j] : j \in 1 .. Len(pages)}

-----------------------------------------------------------------------------
Init ==
  /\ vmap \in [VPages -> Phys \cup {Unmapped}]
  /\ writable \in [VPages -> BOOLEAN]
  /\ pc = [p \in Procs |-> "idle"]
  /\ ui = [p \in Procs |-> 1]
  /\ io = [p \in Procs |-> [write |-> FALSE, vpage |-> 0, off |-> 0, len |-> 0,
                            pages |-> << >>, sg |-> << >>]]
  /\ ret = [p \in Procs |-> "none"]
  /\ calls = [p \in Procs |-> 0]
  /\ pinned = [g \in Phys |-> 0]
  /\ dirty = {}
  /\ devWritten = {}
  /\ pageArrays = 0
  /\ sgTables = 0

(* A new call of cdev_gen_read (write = FALSE) or cdev_gen_write: the     *)
(* iocb is zeroed and filled with the buffer.                              *)
Call(p, write, vpage, off, len) ==
  /\ pc[p] = "idle"
  /\ calls[p] < MaxCalls
  /\ calls' = [calls EXCEPT ![p] = @ + 1]
  /\ UNCHANGED <<vmap, writable>>

NewIocb(write, vpage, off, len) ==
  [write |-> write, vpage |-> vpage, off |-> off, len |-> len,
   pages |-> << >>, sg |-> << >>]

(* pages_nr is 0: -EINVAL before anything is allocated.                    *)
RwZeroPages(p, write, vpage, off, len) ==
  /\ Call(p, write, vpage, off, len)
  /\ PagesNr(off, len) = 0
  /\ io' = [io EXCEPT ![p] = NewIocb(write, vpage, off, len)]
  /\ ret' = [ret EXCEPT ![p] = "einval"]
  /\ UNCHANGED <<pc, ui, pinned, dirty, devWritten, pageArrays, sgTables>>

(* sg_alloc_table fails, or kcalloc of the pages array fails and err_out  *)
(* frees the table: -ENOMEM with nothing left allocated.                   *)
RwAllocFails(p, write, vpage, off, len) ==
  /\ Call(p, write, vpage, off, len)
  /\ PagesNr(off, len) > 0
  /\ io' = [io EXCEPT ![p] = NewIocb(write, vpage, off, len)]
  /\ ret' = [ret EXCEPT ![p] = "enomem"]
  /\ UNCHANGED <<pc, ui, pinned, dirty, devWritten, pageArrays, sgTables>>

(* The pin fails or stops short, or two consecutive pages are the same:   *)
(* err_out runs unmap_user_buf (the table is freed, the k pinned pages     *)
(* released up to the first NULL entry) and the error is returned; the    *)
(* kcalloc-ed pages array is never freed.                                  *)
(* Mutant: err_out returns without unmap_user_buf, the pins kept.          *)
RwPinErrorNoUnmap(p, write, vpage, off, len) ==
  LET n == PagesNr(off, len)
      k == PinCount(vpage, n)
      pages == PagesOf(vpage, k)
  IN
  /\ Call(p, write, vpage, off, len)
  /\ n > 0
  /\ \/ k = 0 /\ ret' = [ret EXCEPT ![p] = "epin"]
     \/ 0 < k /\ k < n /\ ret' = [ret EXCEPT ![p] = "epartial"]
     \/ k = n /\ HasDupPair(pages) /\ ret' = [ret EXCEPT ![p] = "edup"]
  /\ io' = [io EXCEPT ![p] = [NewIocb(write, vpage, off, len) EXCEPT
                                 !.pages = pages]]
  /\ pinned' = Pinned(pages)
  /\ pageArrays' = pageArrays + 1
  /\ UNCHANGED <<pc, ui, dirty, devWritten, sgTables>>

RwPinError(p, write, vpage, off, len) ==
  LET n == PagesNr(off, len)
      k == PinCount(vpage, n)
      pages == PagesOf(vpage, k)
  IN
  /\ Call(p, write, vpage, off, len)
  /\ n > 0
  /\ \/ k = 0 /\ ret' = [ret EXCEPT ![p] = "epin"]
     \/ 0 < k /\ k < n /\ ret' = [ret EXCEPT ![p] = "epartial"]
     \/ k = n /\ HasDupPair(pages) /\ ret' = [ret EXCEPT ![p] = "edup"]
  /\ io' = [io EXCEPT ![p] = [NewIocb(write, vpage, off, len) EXCEPT
                                 !.pages = pages]]
  /\ Unpin(Pinned(pages), pages, write)
  /\ pageArrays' = pageArrays + 1
  /\ UNCHANGED <<pc, ui, devWritten, sgTables>>

(* All pages pinned and distinct neighbours: the scatter-gather list is   *)
(* built and the request handed to the engine's fp_rw, which blocks.       *)
RwSubmit(p, write, vpage, off, len) ==
  LET n == PagesNr(off, len)
      pages == PagesOf(vpage, n)
  IN
  /\ Call(p, write, vpage, off, len)
  /\ n > 0
  /\ PinCount(vpage, n) = n
  /\ ~HasDupPair(pages)
  /\ io' = [io EXCEPT ![p] = [NewIocb(write, vpage, off, len) EXCEPT
                                 !.pages = pages, !.sg = SgList(off, len, n)]]
  /\ pinned' = Pinned(pages)
  /\ pc' = [pc EXCEPT ![p] = "inflight"]
  /\ pageArrays' = pageArrays + 1
  /\ sgTables' = sgTables + 1
  /\ UNCHANGED <<ui, ret, dirty, devWritten>>

(* fp_rw returns, with the transfer done or an engine error (a timeout  *)
(* included, after which the device may have written part of a read's     *)
(* buffer), which is what the call will return; unmap_user_buf starts,    *)
(* frees the sg table and enters its loop at i = 0.                        *)
RwComplete(p) ==
  /\ pc[p] = "inflight"
  /\ \E r \in {"ok", "eengine"} : ret' = [ret EXCEPT ![p] = r]
  /\ sgTables' = sgTables - 1
  /\ ui' = [ui EXCEPT ![p] = 1]
  /\ pc' = [pc EXCEPT ![p] = "unmap"]
  /\ UNCHANGED <<vmap, writable, io, calls, pinned, dirty, devWritten, pageArrays>>

(* Mutant: the test inverted, set_page_dirty_lock when write.              *)
UnmapDirtyOnWrite(p) ==
  /\ pc[p] = "unmap"
  /\ ui[p] <= Len(io[p].pages)
  /\ dirty' = IF ~io[p].write THEN dirty ELSE dirty \cup {io[p].pages[ui[p]]}
  /\ pc' = [pc EXCEPT ![p] = "put"]
  /\ UNCHANGED <<vmap, writable, ui, io, ret, calls, pinned, devWritten,
                 pageArrays, sgTables>>

(* An iteration of the loop begins: if (!write) set_page_dirty_lock.       *)
UnmapDirty(p) ==
  /\ pc[p] = "unmap"
  /\ ui[p] <= Len(io[p].pages)
  /\ dirty' = IF io[p].write THEN dirty ELSE dirty \cup {io[p].pages[ui[p]]}
  /\ pc' = [pc EXCEPT ![p] = "put"]
  /\ UNCHANGED <<vmap, writable, ui, io, ret, calls, pinned, devWritten,
                 pageArrays, sgTables>>

(* Mutant: the page is put twice (put_page again on the release path).     *)
UnmapPutTwice(p) ==
  /\ pc[p] = "put"
  /\ pinned' = [pinned EXCEPT ![io[p].pages[ui[p]]] = @ - 2]
  /\ ui' = [ui EXCEPT ![p] = @ + 1]
  /\ pc' = [pc EXCEPT ![p] = "unmap"]
  /\ UNCHANGED <<vmap, writable, io, ret, calls, dirty, devWritten,
                 pageArrays, sgTables>>

(* The iteration ends: put_page(pages[i]), then i++.                       *)
UnmapPut(p) ==
  /\ pc[p] = "put"
  /\ pinned' = [pinned EXCEPT ![io[p].pages[ui[p]]] = @ - 1]
  /\ ui' = [ui EXCEPT ![p] = @ + 1]
  /\ pc' = [pc EXCEPT ![p] = "unmap"]
  /\ UNCHANGED <<vmap, writable, io, ret, calls, dirty, devWritten,
                 pageArrays, sgTables>>

(* i = pages_nr: the loop ends, iocb_release frees the pages array and    *)
(* the call returns.                                                       *)
UnmapDone(p) ==
  /\ pc[p] = "unmap"
  /\ ui[p] > Len(io[p].pages)
  /\ pageArrays' = pageArrays - 1
  /\ pc' = [pc EXCEPT ![p] = "idle"]
  /\ UNCHANGED <<vmap, writable, ui, io, ret, calls, pinned, dirty, devWritten,
                 sgTables>>

-----------------------------------------------------------------------------
(* The environment.  While a read is blocked in fp_rw the device writes   *)
(* any page of its buffer (C2H, the direction req->write gives the        *)
(* engine); the kernel page cache is not told.                             *)
DeviceWrite(p, j) ==
  /\ pc[p] = "inflight"
  /\ ~io[p].write
  /\ j \in 1 .. Len(io[p].pages)
  /\ devWritten' = devWritten \cup {io[p].pages[j]}
  /\ UNCHANGED <<vmap, writable, pc, ui, io, ret, calls, pinned, dirty,
                 pageArrays, sgTables>>

(* Writeback saves a dirty page, with what the device wrote into it so    *)
(* far, and cleans it; pinned or not.                                      *)
Writeback(g) ==
  /\ g \in dirty
  /\ dirty' = dirty \ {g}
  /\ devWritten' = devWritten \ {g}
  /\ UNCHANGED <<vmap, writable, pc, ui, io, ret, calls, pinned,
                 pageArrays, sgTables>>

Next ==
  \/ \E p \in Procs, write \in BOOLEAN, vpage \in VPages,
        off \in 0 .. (PS - 1), len \in Lens :
       \/ RwZeroPages(p, write, vpage, off, len)
       \/ RwAllocFails(p, write, vpage, off, len)
       \/ RwPinError(p, write, vpage, off, len)
       \/ RwSubmit(p, write, vpage, off, len)
  \/ \E p \in Procs :
       \/ RwComplete(p) \/ UnmapDirty(p) \/ UnmapPut(p) \/ UnmapDone(p)
       \/ \E j \in 1 .. Len(io[p].pages) : DeviceWrite(p, j)
  \/ \E g \in Phys : Writeback(g)

Spec == Init /\ [][Next]_vars

-----------------------------------------------------------------------------
Iocbs == [write : BOOLEAN, vpage : VPages \cup {0}, off : 0 .. (PS - 1),
          len : Lens \cup {0},
          pages : Seq(Phys \cup {Unmapped}),
          sg : Seq([offset : 0 .. (PS - 1), nbytes : 0 .. PS])]

TypeOK ==
  /\ vmap \in [VPages -> Phys \cup {Unmapped}]
  /\ writable \in [VPages -> BOOLEAN]
  /\ pc \in [Procs -> {"idle", "inflight", "unmap", "put"}]
  /\ ui \in [Procs -> Nat \ {0}]
  /\ io \in [Procs -> Iocbs]
  /\ ret \in [Procs -> Outcomes]
  /\ calls \in [Procs -> 0 .. MaxCalls]
  /\ pinned \in [Phys -> Nat]
  /\ dirty \subseteq Phys
  /\ devWritten \subseteq Phys
  /\ pageArrays \in Nat
  /\ sgTables \in Nat

Inflight == {p \in Procs : pc[p] = "inflight"}

(* The entries of p's pages array whose reference p still holds: all of   *)
(* them while it is blocked in the engine, those from i on in the loop.    *)
HeldIdx(p) ==
  {j \in 1 .. Len(io[p].pages) :
     \/ pc[p] = "inflight"
     \/ pc[p] \in {"unmap", "put"} /\ ui[p] <= j}

(* Every page reference get_user_pages took is held by a call: a pinned   *)
(* page count equals the entries naming it that the calls in the engine or *)
(* in the unmap loop still hold.  Every error path, the short pin and the *)
(* duplicate scan included, releases what it pinned, and the loop puts    *)
(* each entry once.                                                        *)
PinBalance ==
  \A g \in Phys :
    pinned[g] = Cardinality(UNION {{<<p, j>> : j \in {i \in HeldIdx(p) :
                                                      io[p].pages[i] = g}} :
                                   p \in Procs})

(* The loop of unmap_user_buf dirties a page of a read before it puts the *)
(* page's reference, so a page holding data the device wrote and          *)
(* writeback has not saved is never unpinned and clean at once, when      *)
(* reclaim would drop it with the data.  Threads release the same page in *)
(* any order, and writeback runs between any two steps.                    *)
DeviceDataKept == \A g \in devWritten : pinned[g] = 0 => g \in dirty

(* The scatter-gather list handed to the engine covers the buffer: it    *)
(* has as many entries as the spec's page count, and entry j is exactly    *)
(* the part of the buffer lying in the j-th page from vpage, its offset    *)
(* where that part starts in the page and nbytes its length.  So the       *)
(* entries are disjoint, in order, each inside its page, and their lengths *)
(* add up to len.                                                          *)
SgCoversBuffer ==
  \A p \in Inflight :
    LET r == io[p] IN
    /\ Len(r.sg) = RefPagesNr(r.vpage, r.off, r.len)
    /\ \A j \in 1 .. Len(r.sg) :
         LET lo == IF r.off < (j - 1) * PS THEN (j - 1) * PS ELSE r.off
             hi == IF r.off + r.len < j * PS THEN r.off + r.len ELSE j * PS
         IN /\ r.sg[j].offset = lo - (j - 1) * PS
            /\ r.sg[j].nbytes = hi - lo

(* The spec (section 8): pin followed by unpin leaves zero allocated      *)
(* tables.  Only the calls blocked in the engine own an sg table, and     *)
(* only they and the calls in the unmap loop own a pages array.           *)
NoAllocLeak ==
  /\ pageArrays = Cardinality({p \in Procs : pc[p] # "idle"})
  /\ sgTables = Cardinality(Inflight)



=============================================================================
