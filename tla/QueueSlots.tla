----------------------------- MODULE QueueSlots -----------------------------
(***************************************************************************)
(* What the queue registry of one device promises its callers, abstractly *)
(* (spec sections 3 and 4.2): each of the 2 * qmax slots is empty or      *)
(* bound to a hardware queue the engine allocated for the device.  A      *)
(* queue add allocates a fresh queue, a queue delete empties one slot and *)
(* releases at most that slot's queue, and removing the device empties    *)
(* every slot and releases every queue.  Endpoints and return codes are   *)
(* left out; QueueRegistry implements this specification.                 *)
(***************************************************************************)
EXTENDS Integers

CONSTANTS QMax, Handles

VARIABLES
  slot,   \* slot[i]: the queue bound to slot i, or Empty
  held,   \* the queues the engine holds for the device
  up      \* the device is attached

Empty == -1
Slots == 0 .. (2 * QMax - 1)
svars == <<slot, held, up>>

Init ==
  /\ slot = [i \in Slots |-> Empty]
  /\ held = {}
  /\ up = TRUE

(* A queue add allocates a queue h the engine did not hold.  The slot     *)
(* records it, or is left empty when nothing marks it as configured; in   *)
(* both cases whatever the slot held before is forgotten, not released.   *)
Add(i, h) ==
  /\ up
  /\ h \notin held
  /\ held' = held \cup {h}
  /\ \E e \in {h, Empty} : slot' = [slot EXCEPT ![i] = e]
  /\ UNCHANGED up

(* A queue delete empties a bound slot and releases its queue, unless the *)
(* engine refuses to.                                                     *)
Delete(i) ==
  /\ up
  /\ slot[i] # Empty
  /\ slot' = [slot EXCEPT ![i] = Empty]
  /\ held' \in {held \ {slot[i]}, held}
  /\ UNCHANGED up

(* Removing the device empties every slot and releases every queue.      *)
Remove ==
  /\ up
  /\ slot' = [i \in Slots |-> Empty]
  /\ held' = {}
  /\ up' = FALSE

Next ==
  \/ \E i \in Slots, h \in Handles : Add(i, h)
  \/ \E i \in Slots : Delete(i)
  \/ Remove

Spec == Init /\ [][Next]_svars

=============================================================================
