------------------------ MODULE QueueRegistryProofs ------------------------
(***************************************************************************)
(* Proofs about the queue registry, for every value of the constants:     *)
(* type correctness, and that every configured slot names a distinct      *)
(* hardware queue the engine still holds (SlotQueuesLive).                 *)
(***************************************************************************)
EXTENDS QueueRegistry, TLAPS

(* The slot of a queue index below qmax is one of the 2 * qmax slots.     *)
LEMMA SlotOfInSlots ==
  ASSUME NEW qidx \in 0 .. QMax, NEW c2h \in BOOLEAN, qidx < QMax
  PROVE  SlotOf(qidx, c2h) \in Slots
BY QMaxAssumption DEF SlotOf, Slots

(* DestroyEndpoints keeps live a set of endpoints and fault a Boolean.    *)
LEMMA DestroyEndpointsType ==
  ASSUME TypeOK, NEW ss \in SUBSET Slots, DestroyEndpoints(ss)
  PROVE  live' \subseteq Cdevs /\ fault' \in BOOLEAN
BY DEF DestroyEndpoints, TypeOK

-----------------------------------------------------------------------------
(* Every reachable state is well typed.                                    *)
THEOREM TypeCorrect == Spec => []TypeOK
<1>1. Init => TypeOK
  BY DEF Init, TypeOK, Slots, Pointers, RetCodes
<1>2. TypeOK /\ [Next]_vars => TypeOK'
  <2> SUFFICES ASSUME TypeOK, [Next]_vars PROVE TypeOK'
    OBVIOUS
  <2>1. ASSUME NEW qidx \in 0 .. QMax, NEW c2h \in BOOLEAN,
               QueueAddEngineFails(qidx, c2h)
        PROVE  TypeOK'
    BY <2>1 DEF QueueAddEngineFails, TypeOK, RetCodes
  <2>2. ASSUME NEW qidx \in 0 .. QMax, NEW c2h \in BOOLEAN,
               QueueAddCdevOk(qidx, c2h)
        PROVE  TypeOK'
    <3>1. SlotOf(qidx, c2h) \in Slots
      BY <2>2, SlotOfInSlots DEF QueueAddCdevOk, QueueGetOk
    <3>2. QED
      BY <2>2, <3>1 DEF QueueAddCdevOk, TypeOK, RetCodes, Pointers
  <2>3. ASSUME NEW qidx \in 0 .. QMax, NEW c2h \in BOOLEAN,
               QueueAddCdevFails(qidx, c2h)
        PROVE  TypeOK'
    <3>1. SlotOf(qidx, c2h) \in Slots
      BY <2>3, SlotOfInSlots DEF QueueAddCdevFails, QueueGetOk
    <3>2. QED
      BY <2>3, <3>1 DEF QueueAddCdevFails, TypeOK, RetCodes
  <2>4. ASSUME NEW qidx \in 0 .. QMax, NEW c2h \in BOOLEAN,
               QueueDeleteNotFound(qidx, c2h)
        PROVE  TypeOK'
    BY <2>4 DEF QueueDeleteNotFound, TypeOK, RetCodes
  <2>5. ASSUME NEW qidx \in 0 .. QMax, NEW c2h \in BOOLEAN,
               QueueDelete(qidx, c2h)
        PROVE  TypeOK'
    <3> DEFINE i == SlotOf(qidx, c2h)
    <3>1. i \in Slots
      BY <2>5, SlotOfInSlots DEF QueueDelete, QueueGetOk
    <3>2. live' \subseteq Cdevs /\ fault' \in BOOLEAN
      BY <2>5, <3>1, DestroyEndpointsType DEF QueueDelete
    <3>3. engineQ' \subseteq Handles /\ ret' \in RetCodes
      BY <2>5 DEF QueueDelete, TypeOK, RetCodes
    <3>4. QED
      BY <2>5, <3>1, <3>2, <3>3 DEF QueueDelete, TypeOK, Pointers
  <2>6. ASSUME DeviceRemove PROVE TypeOK'
    <3>1. live' \subseteq Cdevs /\ fault' \in BOOLEAN
      BY <2>6, DestroyEndpointsType DEF DeviceRemove
    <3>2. QED
      BY <2>6, <3>1 DEF DeviceRemove, TypeOK, Pointers
  <2>7. CASE UNCHANGED vars
    BY <2>7 DEF vars, TypeOK
  <2>8. QED
    BY <2>1, <2>2, <2>3, <2>4, <2>5, <2>6, <2>7 DEF Next
<1>3. QED
  BY <1>1, <1>2, PTL DEF Spec

-----------------------------------------------------------------------------
(* SlotQueuesLive is inductive together with TypeOK.                      *)
IInv == TypeOK /\ SlotQueuesLive

(* Every configured slot names a distinct live hardware queue, so         *)
(* xpdev_queue_delete never hands qdma_queue_remove a stale handle or one *)
(* of another slot, whatever the engine and qdma_cdev_create return.       *)
THEOREM SlotQueuesLiveThm == Spec => []SlotQueuesLive
<1>1. Init => SlotQueuesLive
  BY DEF Init, SlotQueuesLive, Configured
<1>2. IInv /\ [Next]_vars => SlotQueuesLive'
  <2> SUFFICES ASSUME IInv, [Next]_vars PROVE SlotQueuesLive'
    OBVIOUS
  <2> USE DEF IInv
  <2>1. ASSUME NEW qidx \in 0 .. QMax, NEW c2h \in BOOLEAN,
               QueueAddEngineFails(qidx, c2h)
        PROVE  SlotQueuesLive'
    BY <2>1 DEF QueueAddEngineFails, SlotQueuesLive, Configured
  <2>2. ASSUME NEW qidx \in 0 .. QMax, NEW c2h \in BOOLEAN,
               QueueAddCdevOk(qidx, c2h)
        PROVE  SlotQueuesLive'
    <3> DEFINE i == SlotOf(qidx, c2h)
    <3>1. i \in Slots
      BY <2>2, SlotOfInSlots DEF QueueAddCdevOk, QueueGetOk
    <3>2. PICK h \in Handles \ engineQ, c \in Cdevs \ live :
                 /\ engineQ' = engineQ \cup {h}
                 /\ qhndl' = [qhndl EXCEPT ![i] = h]
                 /\ xcdev' = [xcdev EXCEPT ![i] = c]
      BY <2>2 DEF QueueAddCdevOk
    <3>3. \A j \in Slots : j # i /\ Configured(j) => qhndl[j] # h
      BY <3>2 DEF SlotQueuesLive
    <3>4. QED
      BY <3>1, <3>2, <3>3 DEF SlotQueuesLive, Configured, TypeOK
  <2>3. ASSUME NEW qidx \in 0 .. QMax, NEW c2h \in BOOLEAN,
               QueueAddCdevFails(qidx, c2h)
        PROVE  SlotQueuesLive'
    <3> DEFINE i == SlotOf(qidx, c2h)
    <3>1. i \in Slots
      BY <2>3, SlotOfInSlots DEF QueueAddCdevFails, QueueGetOk
    <3>2. PICK h \in Handles \ engineQ, garbage \in Pointers :
                 /\ engineQ' = engineQ \cup {h}
                 /\ qhndl' = [qhndl EXCEPT ![i] = h]
                 /\ xcdev' = [xcdev EXCEPT ![i] = garbage]
      BY <2>3 DEF QueueAddCdevFails
    <3>3. \A j \in Slots : j # i /\ Configured(j) => qhndl[j] # h
      BY <3>2 DEF SlotQueuesLive
    <3>4. QED
      BY <3>1, <3>2, <3>3 DEF SlotQueuesLive, Configured, TypeOK
  <2>4. ASSUME NEW qidx \in 0 .. QMax, NEW c2h \in BOOLEAN,
               QueueDeleteNotFound(qidx, c2h)
        PROVE  SlotQueuesLive'
    BY <2>4 DEF QueueDeleteNotFound, SlotQueuesLive, Configured
  <2>5. ASSUME NEW qidx \in 0 .. QMax, NEW c2h \in BOOLEAN,
               QueueDelete(qidx, c2h)
        PROVE  SlotQueuesLive'
    <3> DEFINE i == SlotOf(qidx, c2h)
    <3>1. i \in Slots /\ Configured(i)
      BY <2>5, SlotOfInSlots DEF QueueDelete, QueueGetOk
    <3>2. engineQ \ {qhndl[i]} \subseteq engineQ'
      BY <2>5 DEF QueueDelete
    <3>3. qhndl' = [qhndl EXCEPT ![i] = 0] /\ xcdev' = [xcdev EXCEPT ![i] = NULL]
      BY <2>5 DEF QueueDelete
    <3>4. \A j \in Slots : j # i /\ Configured(j) => qhndl[j] \in engineQ \ {qhndl[i]}
      BY <3>1 DEF SlotQueuesLive
    <3>5. QED
      BY <3>1, <3>2, <3>3, <3>4 DEF SlotQueuesLive, Configured, TypeOK
  <2>6. ASSUME DeviceRemove PROVE SlotQueuesLive'
    BY <2>6 DEF DeviceRemove, SlotQueuesLive, Configured
  <2>7. CASE UNCHANGED vars
    BY <2>7 DEF vars, SlotQueuesLive, Configured
  <2>8. QED
    BY <2>1, <2>2, <2>3, <2>4, <2>5, <2>6, <2>7 DEF Next
<1>3. QED
  BY <1>1, <1>2, TypeCorrect, PTL DEF Spec, IInv

-----------------------------------------------------------------------------
(* EndpointQueueLive is not inductive: a step could remove the queue of a  *)
(* live endpoint held by no slot.  The strengthening says that the queue  *)
(* of a live endpoint is held, if by any configured slot, only by the     *)
(* slot whose pointer is that endpoint, so deleting the slot destroys it. *)
EndpointOwned ==
  attached => \A c \in live :
                /\ priv[c] \in engineQ
                /\ \A s \in Slots : Configured(s) /\ qhndl[s] = priv[c] => xcdev[s] = c

EInv == TypeOK /\ SlotQueuesLive /\ EndpointOwned

(* While the device is attached, every endpoint reachable through the     *)
(* character-device namespace submits to a queue the engine still holds:  *)
(* no sequence of xpdev_queue_add, failed adds and xpdev_queue_delete     *)
(* leaves a cdev whose priv_data handle was given back to the engine.     *)
THEOREM EndpointQueueLiveThm == Spec => []EndpointQueueLive
<1>1. Init => EndpointOwned
  BY DEF Init, EndpointOwned
<1>2. EInv /\ [Next]_vars => EndpointOwned'
  <2> SUFFICES ASSUME EInv, [Next]_vars PROVE EndpointOwned'
    OBVIOUS
  <2> USE DEF EInv
  <2>1. ASSUME NEW qidx \in 0 .. QMax, NEW c2h \in BOOLEAN,
               QueueAddEngineFails(qidx, c2h)
        PROVE  EndpointOwned'
    BY <2>1 DEF QueueAddEngineFails, EndpointOwned, Configured
  <2>2. ASSUME NEW qidx \in 0 .. QMax, NEW c2h \in BOOLEAN,
               QueueAddCdevOk(qidx, c2h)
        PROVE  EndpointOwned'
    <3> DEFINE i == SlotOf(qidx, c2h)
    <3>1. i \in Slots
      BY <2>2, SlotOfInSlots DEF QueueAddCdevOk, QueueGetOk
    <3>2. PICK h \in Handles \ engineQ, c \in Cdevs \ live :
                 /\ engineQ' = engineQ \cup {h}
                 /\ live' = live \cup {c}
                 /\ priv' = [priv EXCEPT ![c] = h]
                 /\ qhndl' = [qhndl EXCEPT ![i] = h]
                 /\ xcdev' = [xcdev EXCEPT ![i] = c]
      BY <2>2 DEF QueueAddCdevOk
    <3>3. attached' = attached
      BY <2>2 DEF QueueAddCdevOk
    <3>4. \A j \in Slots : j # i /\ Configured(j) => qhndl[j] # h
      BY <3>2 DEF SlotQueuesLive
    <3>5. attached => \A d \in live : priv[d] # h
      BY <3>2 DEF EndpointOwned
    <3>6. QED
      BY <3>1, <3>2, <3>3, <3>4, <3>5 DEF EndpointOwned, Configured, TypeOK
  <2>3. ASSUME NEW qidx \in 0 .. QMax, NEW c2h \in BOOLEAN,
               QueueAddCdevFails(qidx, c2h)
        PROVE  EndpointOwned'
    <3> DEFINE i == SlotOf(qidx, c2h)
    <3>1. i \in Slots
      BY <2>3, SlotOfInSlots DEF QueueAddCdevFails, QueueGetOk
    <3>2. PICK h \in Handles \ engineQ, garbage \in Pointers :
                 /\ engineQ' = engineQ \cup {h}
                 /\ qhndl' = [qhndl EXCEPT ![i] = h]
                 /\ xcdev' = [xcdev EXCEPT ![i] = garbage]
      BY <2>3 DEF QueueAddCdevFails
    <3>3. UNCHANGED <<live, priv, attached>>
      BY <2>3 DEF QueueAddCdevFails
    <3>4. \A d \in live : attached => priv[d] # h
      BY <3>2 DEF EndpointOwned
    <3>5. QED
      BY <3>1, <3>2, <3>3, <3>4 DEF EndpointOwned, Configured, TypeOK
  <2>4. ASSUME NEW qidx \in 0 .. QMax, NEW c2h \in BOOLEAN,
               QueueDeleteNotFound(qidx, c2h)
        PROVE  EndpointOwned'
    BY <2>4 DEF QueueDeleteNotFound, EndpointOwned, Configured
  <2>5. ASSUME NEW qidx \in 0 .. QMax, NEW c2h \in BOOLEAN,
               QueueDelete(qidx, c2h)
        PROVE  EndpointOwned'
    <3> DEFINE i == SlotOf(qidx, c2h)
    <3>1. i \in Slots /\ Configured(i)
      BY <2>5, SlotOfInSlots DEF QueueDelete, QueueGetOk
    <3>2. engineQ \ {qhndl[i]} \subseteq engineQ'
      BY <2>5 DEF QueueDelete
    <3>3. /\ qhndl' = [qhndl EXCEPT ![i] = 0]
          /\ xcdev' = [xcdev EXCEPT ![i] = NULL]
          /\ UNCHANGED <<priv, attached>>
      BY <2>5 DEF QueueDelete
    <3>4. live' = live \ ({xcdev[i]} \ {NULL})
      BY <2>5 DEF QueueDelete, DestroyEndpoints
    <3>5. \A d \in live' : attached => priv[d] \in engineQ \ {qhndl[i]}
      BY <3>1, <3>4, PointerAssumption DEF EndpointOwned, Configured, TypeOK
    <3>6. QED
      BY <3>1, <3>2, <3>3, <3>4, <3>5 DEF EndpointOwned, Configured, TypeOK
  <2>6. ASSUME DeviceRemove PROVE EndpointOwned'
    BY <2>6 DEF DeviceRemove, EndpointOwned
  <2>7. CASE UNCHANGED vars
    BY <2>7 DEF vars, EndpointOwned, Configured
  <2>8. QED
    BY <2>1, <2>2, <2>3, <2>4, <2>5, <2>6, <2>7 DEF Next
<1>3. EndpointOwned => EndpointQueueLive
  BY DEF EndpointOwned, EndpointQueueLive
<1>4. QED
  BY <1>1, <1>2, <1>3, TypeCorrect, SlotQueuesLiveThm, PTL DEF Spec, EInv


(* The abstract slot of a slot that no action touches is unchanged.       *)
LEMMA AbsSlotFrame ==
  ASSUME TypeOK, NEW j \in Slots, qhndl'[j] = qhndl[j], xcdev'[j] = xcdev[j]
  PROVE  AbsSlot'[j] = AbsSlot[j]
BY DEF AbsSlot, Configured

(* The registry implements the abstract slot table QueueSlots for every   *)
(* value of the constants: remove_one, xpdev_queue_add (whether or not    *)
(* qdma_cdev_create succeeds) and xpdev_queue_delete are steps of it, and *)
(* the failed commands are stutters.  The argument needs only TypeOK and  *)
(* that NULL is no endpoint address.                                      *)
THEOREM RefinementThm == Spec => RefinesQueueSlots
<1>1. Init => Abs!Init
  BY PointerAssumption DEF Init, Abs!Init, AbsSlot, Configured, Abs!Slots,
             Abs!Empty, Slots
<1>2. TypeOK /\ [Next]_vars => [Abs!Next]_Abs!svars
  <2> SUFFICES ASSUME TypeOK, [Next]_vars PROVE [Abs!Next]_Abs!svars
    OBVIOUS
  <2>1. ASSUME NEW qidx \in 0 .. QMax, NEW c2h \in BOOLEAN,
               QueueAddEngineFails(qidx, c2h)
        PROVE  UNCHANGED Abs!svars
    BY <2>1 DEF QueueAddEngineFails, Abs!svars, AbsSlot, Configured
  <2>2. ASSUME NEW qidx \in 0 .. QMax, NEW c2h \in BOOLEAN,
               QueueAddCdevOk(qidx, c2h)
        PROVE  Abs!Next
    <3> DEFINE i == SlotOf(qidx, c2h)
    <3>1. i \in Slots
      BY <2>2, SlotOfInSlots DEF QueueAddCdevOk, QueueGetOk
    <3>2. PICK h \in Handles \ engineQ, c \in Cdevs \ live :
                 /\ engineQ' = engineQ \cup {h}
                 /\ qhndl' = [qhndl EXCEPT ![i] = h]
                 /\ xcdev' = [xcdev EXCEPT ![i] = c]
      BY <2>2 DEF QueueAddCdevOk
    <3>3. attached /\ attached' = attached
      BY <2>2 DEF QueueAddCdevOk
    <3>4. AbsSlot'[i] = h
      BY <3>1, <3>2, PointerAssumption DEF AbsSlot, Configured, TypeOK
    <3>5. \A j \in Slots \ {i} : AbsSlot'[j] = AbsSlot[j]
      BY <3>1, <3>2, AbsSlotFrame DEF TypeOK
    <3>6. AbsSlot' = [AbsSlot EXCEPT ![i] = h]
      BY <3>1, <3>4, <3>5 DEF AbsSlot
    <3>7. Abs!Add(i, h)
      BY <3>2, <3>3, <3>6 DEF Abs!Add, Abs!Empty
    <3>8. QED
      BY <3>1, <3>7 DEF Abs!Next, Abs!Slots, Slots
  <2>3. ASSUME NEW qidx \in 0 .. QMax, NEW c2h \in BOOLEAN,
               QueueAddCdevFails(qidx, c2h)
        PROVE  Abs!Next
    <3> DEFINE i == SlotOf(qidx, c2h)
    <3>1. i \in Slots
      BY <2>3, SlotOfInSlots DEF QueueAddCdevFails, QueueGetOk
    <3>2. PICK h \in Handles \ engineQ, garbage \in Pointers :
                 /\ engineQ' = engineQ \cup {h}
                 /\ qhndl' = [qhndl EXCEPT ![i] = h]
                 /\ xcdev' = [xcdev EXCEPT ![i] = garbage]
      BY <2>3 DEF QueueAddCdevFails
    <3>3. attached /\ attached' = attached
      BY <2>3 DEF QueueAddCdevFails
    <3>4. AbsSlot'[i] \in {h, -1}
      BY <3>1, <3>2 DEF AbsSlot, Configured, TypeOK
    <3>5. \A j \in Slots \ {i} : AbsSlot'[j] = AbsSlot[j]
      BY <3>1, <3>2, AbsSlotFrame DEF TypeOK
    <3>6. \E e \in {h, -1} : AbsSlot' = [AbsSlot EXCEPT ![i] = e]
      BY <3>1, <3>4, <3>5 DEF AbsSlot
    <3>7. Abs!Add(i, h)
      BY <3>2, <3>3, <3>6 DEF Abs!Add, Abs!Empty
    <3>8. QED
      BY <3>1, <3>7 DEF Abs!Next, Abs!Slots, Slots
  <2>4. ASSUME NEW qidx \in 0 .. QMax, NEW c2h \in BOOLEAN,
               QueueDeleteNotFound(qidx, c2h)
        PROVE  UNCHANGED Abs!svars
    BY <2>4 DEF QueueDeleteNotFound, Abs!svars, AbsSlot, Configured
  <2>5. ASSUME NEW qidx \in 0 .. QMax, NEW c2h \in BOOLEAN,
               QueueDelete(qidx, c2h)
        PROVE  Abs!Next
    <3> DEFINE i == SlotOf(qidx, c2h)
    <3>1. i \in Slots /\ Configured(i)
      BY <2>5, SlotOfInSlots DEF QueueDelete, QueueGetOk
    <3>2. /\ qhndl' = [qhndl EXCEPT ![i] = 0]
          /\ xcdev' = [xcdev EXCEPT ![i] = NULL]
          /\ attached /\ attached' = attached
          /\ engineQ' \in {engineQ \ {qhndl[i]}, engineQ}
      BY <2>5 DEF QueueDelete
    <3>3. AbsSlot[i] = qhndl[i] /\ qhndl[i] # -1
      BY <3>1, HandlesAssumption DEF AbsSlot, TypeOK
    <3>4. AbsSlot'[i] = -1
      BY <3>1, <3>2 DEF AbsSlot, Configured, TypeOK
    <3>5. \A j \in Slots \ {i} : AbsSlot'[j] = AbsSlot[j]
      BY <3>1, <3>2, AbsSlotFrame DEF TypeOK
    <3>6. AbsSlot' = [AbsSlot EXCEPT ![i] = -1]
      BY <3>1, <3>4, <3>5 DEF AbsSlot
    <3>7. Abs!Delete(i)
      BY <3>2, <3>3, <3>6 DEF Abs!Delete, Abs!Empty
    <3>8. QED
      BY <3>1, <3>7 DEF Abs!Next, Abs!Slots, Slots
  <2>6. ASSUME DeviceRemove PROVE Abs!Next
    <3>1. Abs!Remove
      BY <2>6 DEF DeviceRemove, Abs!Remove, Abs!Slots, Abs!Empty, AbsSlot,
                  Configured, Slots
    <3>2. QED
      BY <3>1 DEF Abs!Next
  <2>7. CASE UNCHANGED vars
    BY <2>7 DEF vars, Abs!svars, AbsSlot, Configured
  <2>8. QED
    BY <2>1, <2>2, <2>3, <2>4, <2>5, <2>6, <2>7 DEF Next
<1>3. QED
  BY <1>1, <1>2, TypeCorrect, PTL DEF Spec, RefinesQueueSlots, Abs!Spec

=============================================================================
