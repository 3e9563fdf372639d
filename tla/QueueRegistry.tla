--------------------------- MODULE QueueRegistry ---------------------------
(***************************************************************************)
(* The per-device queue registry of the qdma driver (src/drv/qdma_mod.c):  *)
(* the table of 2 * qmax queue slots of one attached device (H2C block     *)
(* then C2H block), each holding a hardware queue handle (qhndl) returned  *)
(* by the DMA engine and a pointer to the character-device endpoint        *)
(* (struct qdma_cdev, src/drv/cdev.c) created for it.                      *)
(*                                                                         *)
(* Administrative commands arrive through the netlink handler, which runs  *)
(* one command at a time, so each command below is one atomic step.  The   *)
(* engine (libqdma) is the environment: its queue_add / queue_remove may   *)
(* fail, and it hands out a handle that is not in use.                     *)
(*                                                                         *)
(* Endpoint objects are addresses from the pool Cdevs: kzalloc may return  *)
(* an address that was freed before.  A pointer that is not the address   *)
(* of a live endpoint is either NULL or WILD (a value that was never an    *)
(* endpoint).  The ghost variable fault records every kfree / cdev_del of  *)
(* a pointer that is not a live endpoint (a double free or a wild free).   *)
(***************************************************************************)
EXTENDS Integers, FiniteSets

CONSTANTS
  QMax,        \* xpdev->qmax: queue sets of the device (conf.qsets_max)
  Handles,     \* the values the engine may return as a queue handle
  INVALID,     \* QDMA_QUEUE_IDX_INVALID
  MinorCnt,    \* xcb->cdev_minor_cnt (QDMA_MINOR_MAX)
  Cdevs,       \* addresses kzalloc may return for a struct qdma_cdev
  NULL,        \* the null pointer
  WILD         \* a pointer value that is not the address of any endpoint

ASSUME QMaxAssumption == QMax \in Nat \ {0}
ASSUME HandlesAssumption == Handles \subseteq Nat /\ INVALID \notin Handles
ASSUME MinorAssumption == MinorCnt \in Nat
ASSUME PointerAssumption == NULL \notin Cdevs /\ WILD \notin Cdevs /\ NULL # WILD

VARIABLES
  qhndl,      \* qhndl[i]: xpdev->qdata[i].qhndl (0 when the slot is zeroed)
  xcdev,      \* xcdev[i]: xpdev->qdata[i].xcdev
  engineQ,    \* hardware queues the engine has allocated for this device
  live,       \* endpoints allocated, cdev_add-ed and device_create-d
  priv,       \* priv[c]: xcdev->priv_data, the handle (and minor) of c
  attached,   \* the device is probed and not yet removed
  ret,        \* return code of the last administrative command
  fault       \* ghost: a destroy of a pointer that is no live endpoint

vars == <<qhndl, xcdev, engineQ, live, priv, attached, ret, fault>>

Slots == 0 .. (2 * QMax - 1)
Pointers == Cdevs \cup {NULL, WILD}
RetCodes == {"ok", "einval", "enospc", "enomem", "ecdev", "eengine"}

-----------------------------------------------------------------------------
(* xpdev_queue_get: the slot index of (qidx, c2h), C2H slots after H2C.    *)
SlotOf(qidx, c2h) == IF c2h THEN qidx + QMax ELSE qidx

(* The check_qhndl test of xpdev_queue_get: a slot counts as configured    *)
(* when it has a handle or an endpoint.                                    *)
Configured(i) == qhndl[i] # 0 \/ xcdev[i] # NULL

(* xpdev_queue_get(xpdev, qidx, c2h, check_qhndl) finds a slot.            *)
QueueGetOk(qidx, c2h, check) ==
  /\ qidx < QMax
  /\ check => Configured(SlotOf(qidx, c2h))

(* The engine accepts a queue index below the device's qsets_max.          *)
EngineAccepts(qidx) == qidx < QMax

(* qdma_cdev_destroy applied to the pointers of the slots in the set ss:   *)
(* cdev_del and kfree of every live endpoint; a non-NULL pointer that is   *)
(* no live endpoint, or one held by two of the slots, is a fault.          *)
DestroyEndpoints(ss) ==
  LET ps == {xcdev[i] : i \in ss} \ {NULL} IN
  /\ live' = live \ ps
  /\ fault' = \/ fault
              \/ ~(ps \subseteq live)
              \/ \E i, j \in ss : i # j /\ xcdev[i] = xcdev[j] /\ xcdev[i] \in ps

-----------------------------------------------------------------------------
Init ==
  /\ qhndl = [i \in Slots |-> 0]
  /\ xcdev = [i \in Slots |-> NULL]
  /\ engineQ = {}
  /\ live = {}
  /\ priv = [c \in Cdevs |-> 0]
  /\ attached = TRUE
  /\ ret = "ok"
  /\ fault = FALSE

(* xpdev_queue_add when qdma_queue_add fails: the error is returned.       *)
QueueAddEngineFails(qidx, c2h) ==
  /\ attached
  /\ ret' = "eengine"
  /\ UNCHANGED <<qhndl, xcdev, engineQ, live, priv, attached, fault>>

(* xpdev_queue_add when the engine allocates queue h: qdma_cdev_create is  *)
(* called with minor = h and succeeds with a free endpoint address c; the  *)
(* slot is overwritten whatever it held.                                   *)
QueueAddCdevOk(qidx, c2h) ==
  /\ attached
  /\ EngineAccepts(qidx)
  /\ QueueGetOk(qidx, c2h, FALSE)
  /\ \E h \in Handles \ engineQ, c \in Cdevs \ live :
       /\ h < MinorCnt
       /\ engineQ' = engineQ \cup {h}
       /\ live' = live \cup {c}
       /\ priv' = [priv EXCEPT ![c] = h]
       /\ qhndl' = [qhndl EXCEPT ![SlotOf(qidx, c2h)] = h]
       /\ xcdev' = [xcdev EXCEPT ![SlotOf(qidx, c2h)] = c]
  /\ ret' = "ok"
  /\ UNCHANGED <<attached, fault>>

(* xpdev_queue_add when the engine allocates queue h but qdma_cdev_create  *)
(* fails: minor h beyond cdev_minor_cnt (ENOSPC), kzalloc fails (ENOMEM),  *)
(* or cdev_add / device_create fails.  The queue stays allocated, the      *)
(* slot records h and the local xcdev, never written by qdma_cdev_create   *)
(* on failure: an uninitialized stack value, any pointer.                  *)
QueueAddCdevFails(qidx, c2h) ==
  /\ attached
  /\ EngineAccepts(qidx)
  /\ QueueGetOk(qidx, c2h, FALSE)
  /\ \E h \in Handles \ engineQ, garbage \in Pointers :
       /\ ret' \in IF h < MinorCnt THEN {"enomem", "ecdev"}
                                  ELSE {"enomem", "enospc"}
       /\ engineQ' = engineQ \cup {h}
       /\ qhndl' = [qhndl EXCEPT ![SlotOf(qidx, c2h)] = h]
       /\ xcdev' = [xcdev EXCEPT ![SlotOf(qidx, c2h)] = garbage]
  /\ UNCHANGED <<live, priv, attached, fault>>

(* xpdev_queue_delete when xpdev_queue_get(check_qhndl = 1) fails.         *)
QueueDeleteNotFound(qidx, c2h) ==
  /\ attached
  /\ ~QueueGetOk(qidx, c2h, TRUE)
  /\ ret' = "einval"
  /\ UNCHANGED <<qhndl, xcdev, engineQ, live, priv, attached, fault>>

(* Mutants of xpdev_queue_delete, each a plausible slip in its code: the   *)
(* slot marked with QDMA_QUEUE_IDX_INVALID instead of zeroed, the memset   *)
(* left out, and the qdma_cdev_destroy call left out.                      *)
QueueDeleteMarksInvalid(qidx, c2h) ==
  LET i == SlotOf(qidx, c2h) IN
  /\ attached
  /\ QueueGetOk(qidx, c2h, TRUE)
  /\ DestroyEndpoints({i})
  /\ engineQ' = engineQ \ {qhndl[i]}
  /\ ret' = "ok"
  /\ qhndl' = [qhndl EXCEPT ![i] = INVALID]
  /\ xcdev' = [xcdev EXCEPT ![i] = NULL]
  /\ UNCHANGED <<priv, attached>>

QueueDeleteKeepsSlot(qidx, c2h) ==
  LET i == SlotOf(qidx, c2h) IN
  /\ attached
  /\ QueueGetOk(qidx, c2h, TRUE)
  /\ DestroyEndpoints({i})
  /\ engineQ' = engineQ \ {qhndl[i]}
  /\ ret' = "ok"
  /\ UNCHANGED <<qhndl, xcdev, priv, attached>>

QueueDeleteNoDestroy(qidx, c2h) ==
  LET i == SlotOf(qidx, c2h) IN
  /\ attached
  /\ QueueGetOk(qidx, c2h, TRUE)
  /\ engineQ' = engineQ \ {qhndl[i]}
  /\ ret' = "ok"
  /\ qhndl' = [qhndl EXCEPT ![i] = 0]
  /\ xcdev' = [xcdev EXCEPT ![i] = NULL]
  /\ UNCHANGED <<live, priv, attached, fault>>

(* xpdev_queue_delete of a configured slot: destroy the endpoint if any,   *)
(* then ask the engine to remove the queue unless the handle is INVALID,   *)
(* returning the engine's result; the slot is zeroed in every case.        *)
QueueDelete(qidx, c2h) ==
  LET i == SlotOf(qidx, c2h) IN
  /\ attached
  /\ QueueGetOk(qidx, c2h, TRUE)
  /\ DestroyEndpoints({i})
  /\ \E removed \in BOOLEAN :
       IF qhndl[i] # INVALID
         THEN /\ engineQ' = IF removed THEN engineQ \ {qhndl[i]} ELSE engineQ
              /\ ret' = IF removed THEN "ok" ELSE "eengine"
         ELSE /\ engineQ' = engineQ
              /\ ret' = "ok"
  /\ qhndl' = [qhndl EXCEPT ![i] = 0]
  /\ xcdev' = [xcdev EXCEPT ![i] = NULL]
  /\ UNCHANGED <<priv, attached>>

(* Mutant: remove_one without qdma_device_close, so the engine keeps the  *)
(* queues of the removed device.                                          *)
DeviceRemoveNoClose ==
  /\ attached
  /\ DestroyEndpoints(Slots)
  /\ qhndl' = [i \in Slots |-> 0]
  /\ xcdev' = [i \in Slots |-> NULL]
  /\ attached' = FALSE
  /\ UNCHANGED <<engineQ, priv, ret>>

(* remove_one: xpdev_device_cleanup destroys the endpoint of every slot    *)
(* and zeroes it, then qdma_device_close releases every engine queue and   *)
(* xpdev_free releases the device.                                         *)
DeviceRemove ==
  /\ attached
  /\ DestroyEndpoints(Slots)
  /\ qhndl' = [i \in Slots |-> 0]
  /\ xcdev' = [i \in Slots |-> NULL]
  /\ engineQ' = {}
  /\ attached' = FALSE
  /\ UNCHANGED <<priv, ret>>

Next ==
  \/ \E qidx \in 0 .. QMax, c2h \in BOOLEAN :
       \/ QueueAddEngineFails(qidx, c2h)
       \/ QueueAddCdevOk(qidx, c2h)
       \/ QueueAddCdevFails(qidx, c2h)
       \/ QueueDeleteNotFound(qidx, c2h)
       \/ QueueDelete(qidx, c2h)
  \/ DeviceRemove

Spec == Init /\ [][Next]_vars

-----------------------------------------------------------------------------
TypeOK ==
  /\ qhndl \in [Slots -> Handles \cup {0}]
  /\ xcdev \in [Slots -> Pointers]
  /\ engineQ \subseteq Handles
  /\ live \subseteq Cdevs
  /\ priv \in [Cdevs -> Handles \cup {0}]
  /\ attached \in BOOLEAN
  /\ ret \in RetCodes
  /\ fault \in BOOLEAN

(* Every slot that xpdev_queue_get reports as configured names a hardware  *)
(* queue the engine still holds, and no two slots name the same queue: so  *)
(* xpdev_queue_delete only ever hands qdma_queue_remove a live handle of   *)
(* its own slot, after any sequence of adds, failed adds and deletes.      *)
SlotQueuesLive ==
  /\ \A i \in Slots : Configured(i) => qhndl[i] \in engineQ
  /\ \A i, j \in Slots :
       i # j /\ Configured(i) /\ Configured(j) => qhndl[i] # qhndl[j]

(* While the device is attached, every reachable character device submits *)
(* to a hardware queue the engine still holds: xpdev_queue_delete destroys *)
(* the endpoint of the queue it removes.                                   *)
EndpointQueueLive ==
  attached => \A c \in live : priv[c] \in engineQ

-----------------------------------------------------------------------------
(* The refinement mapping to QueueSlots: a slot that xpdev_queue_get      *)
(* reports as configured is bound to its qhndl, any other slot is empty;  *)
(* the engine's queues and the attached flag map to themselves.           *)
AbsSlot == [i \in Slots |-> IF Configured(i) THEN qhndl[i] ELSE -1]
Abs == INSTANCE QueueSlots WITH slot <- AbsSlot, held <- engineQ, up <- attached

(* The registry implements QueueSlots: every add, failed add, delete and  *)
(* remove_one is a step of the abstract slot table, so a command only     *)
(* ever releases the queue of the slot it empties, an add only takes a    *)
(* queue the engine did not hold, and remove_one releases them all.       *)
RefinesQueueSlots == Abs!Spec

(* The spec (section 3): an endpoint is owned by exactly one slot, never   *)
(* shared.  No qdma_cdev_destroy is ever given a pointer that is not a     *)
(* live endpoint, nor the same endpoint twice.                             *)
NoEndpointFault == ~fault

(* The spec (sections 3, 4.2): endpoints are destroyed when their slot is  *)
(* deleted or the device is torn down.  After remove_one no endpoint of    *)
(* the device is left in the character-device namespace.                   *)
NoEndpointAfterRemove ==
  ~attached => live = {}

=============================================================================
