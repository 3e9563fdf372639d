------------------------------ MODULE XpdevSet ------------------------------
(***************************************************************************)
(* What xpdev_list and xpdev_find_by_idx promise the rest of the driver,  *)
(* abstractly: a set of objects, each with the device index it is known    *)
(* by.  An object joins the set once, leaves it once, may be given its     *)
(* index while in it, and a lookup for index i hands a command handler an  *)
(* object of the set whose index is i.  What the handler does with the     *)
(* pointer afterwards is not part of this promise: the object may leave    *)
(* the set (and be freed) while the handler still holds it.  The list     *)
(* order, the mutex and the memory are left out; DeviceLifecycle           *)
(* implements this specification.                                          *)
(***************************************************************************)
CONSTANTS Addrs, NlProcs, Keys

VARIABLES
  listed,   \* the objects on the list
  key,      \* key[x]: the index a listed object x is found by
  found     \* found[n]: {<<x, k>>} when handler n holds object x from a
            \* lookup for index k, {} when it holds none

avars == <<listed, key, found>>

Init ==
  /\ listed = {}
  /\ key = [x \in {} |-> 0]
  /\ found = [n \in NlProcs |-> {}]

(* An object not in the set joins it, with some index.                     *)
Add(x, k) ==
  /\ x \notin listed
  /\ listed' = listed \cup {x}
  /\ key' = [y \in listed' |-> IF y = x THEN k ELSE key[y]]
  /\ UNCHANGED found

(* An object of the set leaves it; the others keep their index.            *)
Del(x) ==
  /\ x \in listed
  /\ listed' = listed \ {x}
  /\ key' = [y \in listed' |-> key[y]]
  /\ UNCHANGED found

(* A listed object is given its index.                                     *)
Name(x, k) ==
  /\ x \in listed
  /\ key' = [key EXCEPT ![x] = k]
  /\ UNCHANGED <<listed, found>>

(* A lookup for index k gives handler n an object of the set with index k. *)
Find(n, k) ==
  /\ found[n] = {}
  /\ \E x \in listed :
       /\ key[x] = k
       /\ found' = [found EXCEPT ![n] = {<<x, k>>}]
  /\ UNCHANGED <<listed, key>>

(* The handler is done with the object it found.                           *)
Drop(n) ==
  /\ found[n] # {}
  /\ found' = [found EXCEPT ![n] = {}]
  /\ UNCHANGED <<listed, key>>

Next ==
  \/ \E x \in Addrs, k \in Keys : Add(x, k) \/ Name(x, k)
  \/ \E x \in Addrs : Del(x)
  \/ \E n \in NlProcs, k \in Keys : Find(n, k)
  \/ \E n \in NlProcs : Drop(n)

Spec == Init /\ [][Next]_avars

=============================================================================
