-------------------------- MODULE DeviceLifecycle --------------------------
(***************************************************************************)
(* The life of the driver's per-device object (struct xlnx_pci_dev,       *)
(* src/drv/qdma_mod.c) and the administrative commands that reach it.     *)
(*                                                                         *)
(* The PCI core runs probe_one and remove_one of one device one at a time  *)
(* (under the device lock), different devices concurrently.  Each is cut   *)
(* into the steps between which another thread can observe it.  The        *)
(* process-wide xpdev_list is guarded by xpdev_mutex.                      *)
(*                                                                         *)
(* Netlink command handlers (NlProcs) run concurrently with them: a        *)
(* handler looks the device up with xpdev_find_by_idx, which drops the     *)
(* mutex before returning the pointer, and then adds or deletes a queue    *)
(* of it.  The queue table itself is QueueRegistry; here it is abstracted *)
(* to the number of endpoints (character devices) the device holds.       *)
(*                                                                         *)
(* Addresses of xpdev objects come from the pool Addrs and are not reused, *)
(* so that a freed object stays recognisable (ghost variable freed).       *)
(***************************************************************************)
EXTENDS Naturals, Sequences, SequencesExt

CONSTANTS
  PDevs,      \* PCI functions bound to the driver; also their engine index
  Addrs,      \* addresses kzalloc / vmalloc may return for an xlnx_pci_dev
  NlProcs,    \* concurrent netlink command handlers
  NULL,       \* the null pointer
  IdxUnset,   \* 0xFF, the idx xpdev_alloc gives before conf.idx is known
  ReqIdx,     \* device indices an administrative command may name
  MaxEps      \* bound on the endpoints of one device

ASSUME PDevsAssumption == PDevs \subseteq Nat /\ PDevs # {} /\ IdxUnset \in Nat \ PDevs
ASSUME AddrsAssumption == NULL \notin Addrs
ASSUME ReqIdxAssumption == ReqIdx \subseteq Nat
ASSUME MaxEpsAssumption == MaxEps \in Nat

VARIABLES
  pc,         \* pc[d]: where probe_one / remove_one of d stands
  xp,         \* xp[d]: the xpdev local of probe_one / remove_one of d
  drvdata,    \* drvdata[d]: dev_get_drvdata(&pdev->dev)
  engOpen,    \* devices qdma_device_open-ed and not yet qdma_device_close-d
  xlist,      \* xpdev_list, in list order
  alloc,      \* addresses handed out for an xpdev
  freed,      \* ghost: addresses given back by xpdev_free
  owner,      \* owner[x]: the pci device x was allocated for
  idx,        \* idx[x]: xpdev->idx
  hndl,       \* hndl[x]: xpdev->dev_hndl "unset" (0), "open" or "closed"
  eps,        \* eps[x]: endpoints of x's queue slots
  npc,        \* npc[n]: "idle", or "found" after xpdev_find_by_idx
  nref,       \* nref[n]: the pointer xpdev_find_by_idx returned
  nidx,       \* ghost: nidx[n]: the index handler n asked for
  useFreed,   \* ghost: a handler used a freed xpdev or a closed dev_hndl
  useUninit   \* ghost: a handler used an xpdev whose dev_hndl is not set

vars == <<pc, xp, drvdata, engOpen, xlist, alloc, freed, owner, idx, hndl,
          eps, npc, nref, nidx, useFreed, useUninit>>

PcStates == {"absent", "opened", "listed", "attached", "cleaned", "closed"}

-----------------------------------------------------------------------------
(* xpdev_list_remove: list_del under xpdev_mutex unlinks the node of x,   *)
(* wherever it stands in the list.                                         *)
ListRemove(x) == RemoveFirst(xlist, x)

(* xpdev_free: unlink from the list, then vfree / kfree.                   *)
XpdevFree(x) ==
  /\ xlist' = ListRemove(x)
  /\ freed' = freed \cup {x}

-----------------------------------------------------------------------------
Init ==
  /\ pc = [d \in PDevs |-> "absent"]
  /\ xp = [d \in PDevs |-> NULL]
  /\ drvdata = [d \in PDevs |-> NULL]
  /\ engOpen = {}
  /\ xlist = << >>
  /\ alloc = {}
  /\ freed = {}
  /\ owner = [x \in Addrs |-> CHOOSE d \in PDevs : TRUE]
  /\ idx = [x \in Addrs |-> IdxUnset]
  /\ hndl = [x \in Addrs |-> "unset"]
  /\ eps = [x \in Addrs |-> 0]
  /\ npc = [n \in NlProcs |-> "idle"]
  /\ nref = [n \in NlProcs |-> NULL]
  /\ nidx = [n \in NlProcs |-> IdxUnset]
  /\ useFreed = FALSE
  /\ useUninit = FALSE

NlVars == <<npc, nref, nidx, useFreed, useUninit>>

(* probe_one up to qdma_device_open: on failure its error is returned.    *)
ProbeOpen(d) ==
  /\ pc[d] = "absent"
  /\ \/ /\ engOpen' = engOpen \cup {d}
        /\ pc' = [pc EXCEPT ![d] = "opened"]
     \/ UNCHANGED <<engOpen, pc>>
  /\ UNCHANGED <<xp, drvdata, xlist, alloc, freed, owner, idx, hndl, eps>>
  /\ UNCHANGED NlVars

(* Mutant: the xpdev_alloc failure returns without qdma_device_close.      *)
ProbeAllocNoClose(d) ==
  /\ pc[d] = "opened"
  /\ \/ \E x \in Addrs \ alloc :
          /\ alloc' = alloc \cup {x}
          /\ owner' = [owner EXCEPT ![x] = d]
          /\ xlist' = Append(xlist, x)
          /\ xp' = [xp EXCEPT ![d] = x]
          /\ pc' = [pc EXCEPT ![d] = "listed"]
          /\ UNCHANGED engOpen
     \/ /\ pc' = [pc EXCEPT ![d] = "absent"]
        /\ UNCHANGED <<engOpen, alloc, owner, xlist, xp>>
  /\ UNCHANGED <<drvdata, freed, idx, hndl, eps>>
  /\ UNCHANGED NlVars

(* xpdev_alloc: a zeroed object with idx 0xFF, added to the tail of the    *)
(* list at once; when both kzalloc and vmalloc fail, probe_one closes the  *)
(* engine device and returns -EINVAL.                                      *)
ProbeAlloc(d) ==
  /\ pc[d] = "opened"
  /\ \/ \E x \in Addrs \ alloc :
          /\ alloc' = alloc \cup {x}
          /\ owner' = [owner EXCEPT ![x] = d]
          /\ xlist' = Append(xlist, x)
          /\ xp' = [xp EXCEPT ![d] = x]
          /\ pc' = [pc EXCEPT ![d] = "listed"]
          /\ UNCHANGED engOpen
     \/ /\ engOpen' = engOpen \ {d}
        /\ pc' = [pc EXCEPT ![d] = "absent"]
        /\ UNCHANGED <<alloc, owner, xlist, xp>>
  /\ UNCHANGED <<drvdata, freed, idx, hndl, eps>>
  /\ UNCHANGED NlVars

(* Mutant: the qdma_cdev_device_init failure closes the engine device but  *)
(* leaves out xpdev_free.                                                  *)
ProbeInitNoFree(d) ==
  LET x == xp[d] IN
  /\ pc[d] = "listed"
  /\ idx' = [idx EXCEPT ![x] = d]
  /\ \/ /\ hndl' = [hndl EXCEPT ![x] = "open"]
        /\ drvdata' = [drvdata EXCEPT ![d] = x]
        /\ pc' = [pc EXCEPT ![d] = "attached"]
        /\ UNCHANGED <<engOpen, xlist, freed>>
     \/ /\ hndl' = [hndl EXCEPT ![x] = "closed"]
        /\ engOpen' = engOpen \ {d}
        /\ pc' = [pc EXCEPT ![d] = "absent"]
        /\ UNCHANGED <<drvdata, xlist, freed>>
  /\ UNCHANGED <<xp, alloc, owner, eps>>
  /\ UNCHANGED NlVars

(* Mutant: the qdma_cdev_device_init failure jumps past                   *)
(* qdma_device_close to xpdev_free, the dev_hndl still open.              *)
ProbeInitNoClose(d) ==
  LET x == xp[d] IN
  /\ pc[d] = "listed"
  /\ idx' = [idx EXCEPT ![x] = d]
  /\ \/ /\ hndl' = [hndl EXCEPT ![x] = "open"]
        /\ drvdata' = [drvdata EXCEPT ![d] = x]
        /\ pc' = [pc EXCEPT ![d] = "attached"]
        /\ UNCHANGED <<engOpen, xlist, freed>>
     \/ /\ hndl' = [hndl EXCEPT ![x] = "open"]
        /\ XpdevFree(x)
        /\ pc' = [pc EXCEPT ![d] = "absent"]
        /\ UNCHANGED <<drvdata, engOpen>>
  /\ UNCHANGED <<xp, alloc, owner, eps>>
  /\ UNCHANGED NlVars

(* probe_one from setting dev_hndl and idx: qdma_cdev_device_init, then    *)
(* cdev_cb.xpdev and the drvdata are set.  If qdma_cdev_device_init fails  *)
(* the engine device is closed and the object freed.                       *)
ProbeInit(d) ==
  LET x == xp[d] IN
  /\ pc[d] = "listed"
  /\ idx' = [idx EXCEPT ![x] = d]
  /\ \/ /\ hndl' = [hndl EXCEPT ![x] = "open"]
        /\ drvdata' = [drvdata EXCEPT ![d] = x]
        /\ pc' = [pc EXCEPT ![d] = "attached"]
        /\ UNCHANGED <<engOpen, xlist, freed>>
     \/ /\ hndl' = [hndl EXCEPT ![x] = "closed"]
        /\ engOpen' = engOpen \ {d}
        /\ XpdevFree(x)
        /\ pc' = [pc EXCEPT ![d] = "absent"]
        /\ UNCHANGED drvdata
  /\ UNCHANGED <<xp, alloc, owner, eps>>
  /\ UNCHANGED NlVars

(* remove_one of an attached device: xpdev_device_cleanup destroys the     *)
(* endpoint of every slot and zeroes the slots.                            *)
RemoveCleanup(d) ==
  /\ pc[d] = "attached"
  /\ drvdata[d] # NULL
  /\ eps' = [eps EXCEPT ![drvdata[d]] = 0]
  /\ xp' = [xp EXCEPT ![d] = drvdata[d]]
  /\ pc' = [pc EXCEPT ![d] = "cleaned"]
  /\ UNCHANGED <<drvdata, engOpen, xlist, alloc, freed, owner, idx, hndl>>
  /\ UNCHANGED NlVars

(* remove_one: qdma_device_close releases the engine device.               *)
RemoveClose(d) ==
  /\ pc[d] = "cleaned"
  /\ engOpen' = engOpen \ {d}
  /\ hndl' = [hndl EXCEPT ![xp[d]] = "closed"]
  /\ pc' = [pc EXCEPT ![d] = "closed"]
  /\ UNCHANGED <<xp, drvdata, xlist, alloc, freed, owner, idx, eps>>
  /\ UNCHANGED NlVars

(* remove_one: xpdev_free, then the drvdata is cleared.                    *)
RemoveFree(d) ==
  /\ pc[d] = "closed"
  /\ XpdevFree(xp[d])
  /\ drvdata' = [drvdata EXCEPT ![d] = NULL]
  /\ pc' = [pc EXCEPT ![d] = "absent"]
  /\ UNCHANGED <<xp, engOpen, alloc, owner, idx, hndl, eps>>
  /\ UNCHANGED NlVars

-----------------------------------------------------------------------------
(* Mutant: when no object matches, the loop cursor is returned instead of *)
(* NULL (here the last object the loop visited).                           *)
NlLookupReturnsCursor(n, i) ==
  LET k == SelectInSeq(xlist, LAMBDA y : idx[y] = i) IN
  /\ npc[n] = "idle"
  /\ xlist # << >>
  /\ npc' = [npc EXCEPT ![n] = "found"]
  /\ nref' = [nref EXCEPT ![n] = IF k # 0 THEN xlist[k] ELSE xlist[Len(xlist)]]
  /\ nidx' = [nidx EXCEPT ![n] = i]
  /\ UNCHANGED <<pc, xp, drvdata, engOpen, xlist, alloc, freed, owner, idx,
                 hndl, eps, useFreed, useUninit>>

(* xpdev_find_by_idx(i): under xpdev_mutex, the first object of the list   *)
(* with idx i; the mutex is dropped before the pointer is returned.  When  *)
(* there is none the command fails and nothing changes.                    *)
NlLookup(n, i) ==
  LET k == SelectInSeq(xlist, LAMBDA y : idx[y] = i) IN
  /\ npc[n] = "idle"
  /\ k # 0
  /\ npc' = [npc EXCEPT ![n] = "found"]
  /\ nref' = [nref EXCEPT ![n] = xlist[k]]
  /\ nidx' = [nidx EXCEPT ![n] = i]
  /\ UNCHANGED <<pc, xp, drvdata, engOpen, xlist, alloc, freed, owner, idx,
                 hndl, eps, useFreed, useUninit>>

(* Mutant: the delete loses xpdev_queue_get's check_qhndl test and        *)
(* destroys an endpoint of a slot that has none.                           *)
NlQueueOpNoCheck(n, add) ==
  LET x == nref[n] IN
  /\ npc[n] = "found"
  /\ useFreed' = (useFreed \/ x \in freed \/ hndl[x] = "closed")
  /\ useUninit' = (useUninit \/ hndl[x] = "unset")
  /\ eps' = IF x \in freed \/ hndl[x] # "open" THEN eps
            ELSE IF add /\ eps[x] < MaxEps THEN [eps EXCEPT ![x] = @ + 1]
            ELSE IF ~add THEN [eps EXCEPT ![x] = @ - 1]
            ELSE eps
  /\ npc' = [npc EXCEPT ![n] = "idle"]
  /\ nref' = [nref EXCEPT ![n] = NULL]
  /\ UNCHANGED <<pc, xp, drvdata, engOpen, xlist, alloc, freed, owner, idx,
                 hndl, nidx>>

(* The queue command on the object found: xpdev_queue_add (add) or         *)
(* xpdev_queue_delete.  It reads xpdev->qmax and the slots, and hands      *)
(* xpdev->dev_hndl to the engine: on a freed object or a closed handle     *)
(* that is a use after free, on a handle still 0 a use of an unset one.    *)
(* Otherwise an add binds one more endpoint, a delete destroys one.       *)
NlQueueOp(n, add) ==
  LET x == nref[n] IN
  /\ npc[n] = "found"
  /\ useFreed' = (useFreed \/ x \in freed \/ hndl[x] = "closed")
  /\ useUninit' = (useUninit \/ hndl[x] = "unset")
  /\ eps' = IF x \in freed \/ hndl[x] # "open" THEN eps
            ELSE IF add /\ eps[x] < MaxEps THEN [eps EXCEPT ![x] = @ + 1]
            ELSE IF ~add /\ eps[x] > 0 THEN [eps EXCEPT ![x] = @ - 1]
            ELSE eps
  /\ npc' = [npc EXCEPT ![n] = "idle"]
  /\ nref' = [nref EXCEPT ![n] = NULL]
  /\ UNCHANGED <<pc, xp, drvdata, engOpen, xlist, alloc, freed, owner, idx,
                 hndl, nidx>>

Next ==
  \/ \E d \in PDevs :
       \/ ProbeOpen(d) \/ ProbeAlloc(d) \/ ProbeInit(d)
       \/ RemoveCleanup(d) \/ RemoveClose(d) \/ RemoveFree(d)
  \/ \E n \in NlProcs :
       \/ \E i \in ReqIdx : NlLookup(n, i)
       \/ \E add \in BOOLEAN : NlQueueOp(n, add)

Spec == Init /\ [][Next]_vars

-----------------------------------------------------------------------------
(* The list seen as the set of objects it links, each under its idx, and   *)
(* what each handler holds between its lookup and its queue command.       *)
Abs == INSTANCE XpdevSet WITH
         listed <- ToSet(xlist),
         key <- [x \in ToSet(xlist) |-> idx[x]],
         found <- [n \in NlProcs |->
                     IF npc[n] = "found" THEN {<<nref[n], nidx[n]>>} ELSE {}],
         Keys <- PDevs \cup {IdxUnset} \cup ReqIdx

(* xpdev_list with xpdev_find_by_idx implements XpdevSet: probe_one adds   *)
(* an object that is not yet linked and names it, xpdev_free unlinks it    *)
(* (and only it), and a lookup returns a linked object with the index      *)
(* asked for, through every failure path of probe_one and remove_one.      *)
RefinesXpdevSet == Abs!Spec

-----------------------------------------------------------------------------
TypeOK ==
  /\ pc \in [PDevs -> PcStates]
  /\ xp \in [PDevs -> Addrs \cup {NULL}]
  /\ drvdata \in [PDevs -> Addrs \cup {NULL}]
  /\ engOpen \subseteq PDevs
  /\ xlist \in Seq(Addrs)
  /\ alloc \subseteq Addrs /\ freed \subseteq alloc
  /\ owner \in [Addrs -> PDevs]
  /\ idx \in [Addrs -> PDevs \cup {IdxUnset}]
  /\ hndl \in [Addrs -> {"unset", "open", "closed"}]
  /\ eps \in [Addrs -> 0 .. MaxEps]
  /\ npc \in [NlProcs -> {"idle", "found"}]
  /\ nref \in [NlProcs -> Addrs \cup {NULL}]
  /\ nidx \in [NlProcs -> ReqIdx \cup {IdxUnset}]
  /\ useFreed \in BOOLEAN /\ useUninit \in BOOLEAN

(* The device list and the drvdata agree with the probe / remove threads,  *)
(* through every failure path of probe_one: an object is on xpdev_list    *)
(* exactly while its device is between xpdev_alloc and xpdev_free, only   *)
(* once, never freed; the drvdata is the listed object of its device.      *)
ListTracksDevices ==
  /\ \A x \in Addrs :
       x \in ToSet(xlist) <=>
         x \in alloc /\ xp[owner[x]] = x
                     /\ pc[owner[x]] \in {"listed", "attached", "cleaned", "closed"}
  /\ \A x \in ToSet(xlist) : x \notin freed
  /\ \A j, k \in 1 .. Len(xlist) : j # k => xlist[j] # xlist[k]
  /\ \A d \in PDevs :
       drvdata[d] # NULL => /\ pc[d] \in {"attached", "cleaned", "closed"}
                            /\ drvdata[d] \in ToSet(xlist)
                            /\ owner[drvdata[d]] = d

(* An engine device is open exactly while probe_one has opened it and      *)
(* neither its failure path nor remove_one has closed it: no error path   *)
(* of probe_one leaks an engine device, and none is closed twice.          *)
EngineOpenTracked ==
  \A d \in PDevs : d \in engOpen <=> pc[d] \in {"opened", "listed", "attached", "cleaned"}

(* xpdev_free is never applied to an object whose engine device is still  *)
(* open: on the failure path of probe_one and in remove_one,               *)
(* qdma_device_close releases the device and its dev_hndl before (or as)   *)
(* the object holding the handle is freed, so no engine device outlives    *)
(* the only object that could close it.                                    *)
FreeAfterClose ==
  [][\A x \in Addrs :
       x \notin freed /\ x \in freed' => /\ hndl'[x] = "closed"
                                      /\ owner[x] \notin engOpen']_vars

(* A queue command never dereferences an xpdev that remove_one (or a       *)
(* failed probe_one) freed, nor passes the engine a dev_hndl it closed.    *)
NoUseAfterFree == ~useFreed

(* A queue command never reaches a device whose probe_one has not yet set  *)
(* xpdev->dev_hndl and idx.                                                *)
NoUseBeforeProbeDone == ~useUninit

=============================================================================
