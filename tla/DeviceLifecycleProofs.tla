----------------------- MODULE DeviceLifecycleProofs -----------------------
(***************************************************************************)
(* Proofs about the device list and the per-device objects, for every set *)
(* of PCI functions, object addresses and command handlers: type           *)
(* correctness, that xpdev_list and the drvdata track probe_one and        *)
(* remove_one through every failure path (ListTracksDevices), and that no  *)
(* engine device is leaked or closed twice (EngineOpenTracked).            *)
(***************************************************************************)
EXTENDS DeviceLifecycle, SequenceTheorems, WellFoundedInduction, TLAPS

(* The probe / remove states in which the device owns a listed object.    *)
Listed == {"listed", "attached", "cleaned", "closed"}
Bound == {"attached", "cleaned", "closed"}

(* No object is on xpdev_list twice.                                       *)
Distinct(s) == \A j, k \in 1 .. Len(s) : j # k => s[j] # s[k]

(* What ListTracksDevices needs to be inductive: a probe or remove thread *)
(* past xpdev_alloc holds an object allocated for its own device, the     *)
(* drvdata is set exactly from the end of probe_one to the end of         *)
(* remove_one and is then that object, and a handler past                  *)
(* xpdev_find_by_idx holds an object address.                              *)
ObjectsOwned ==
  /\ \A d \in PDevs : pc[d] \in Listed => xp[d] \in alloc /\ owner[xp[d]] = d
  /\ \A d \in PDevs : pc[d] \in Bound <=> drvdata[d] # NULL
  /\ \A d \in PDevs : pc[d] \in Bound => drvdata[d] = xp[d]
  /\ \A n \in NlProcs : npc[n] = "found" => nref[n] \in Addrs

(* ListTracksDevices, conjunct by conjunct.                                *)
InList ==
  \A x \in Addrs :
    x \in ToSet(xlist) <=> x \in alloc /\ xp[owner[x]] = x /\ pc[owner[x]] \in Listed
NotFreed == \A x \in ToSet(xlist) : x \notin freed
DrvListed ==
  \A d \in PDevs :
    drvdata[d] # NULL => /\ pc[d] \in Bound
                         /\ drvdata[d] \in ToSet(xlist)
                         /\ owner[drvdata[d]] = d

IInv == TypeOK /\ InList /\ NotFreed /\ Distinct(xlist) /\ DrvListed /\ ObjectsOwned

-----------------------------------------------------------------------------
(* A nonempty set of naturals has a least element, so the Min that        *)
(* SelectInSeq takes of the matching positions is one of them.             *)
LEMMA MinOfNats ==
  ASSUME NEW I \in SUBSET Nat, I # {}
  PROVE  Min(I) \in I /\ \A j \in I : Min(I) <= j
<1>1. \E x \in I : \A y \in I : ~(<<y, x>> \in OpToRel(<, Nat))
  BY NatLessThanWellFounded, WFMin
<1>2. PICK x \in I : \A y \in I : ~(<<y, x>> \in OpToRel(<, Nat))
  BY <1>1
<1>3. OpToRel(<, Nat) = {ss \in Nat \X Nat : ss[1] < ss[2]}
  BY DEF OpToRel
<1>4. \A y \in I : x <= y
  <2> TAKE y \in I
  <2>1. ~(<<y, x>> \in {ss \in Nat \X Nat : ss[1] < ss[2]})
    BY <1>2, <1>3
  <2>2. QED
    BY <2>1
<1>5. QED
  BY <1>4 DEF Min

(* Removing position k of a list without duplicates: the list loses      *)
(* exactly its k-th object and stays without duplicates.                   *)
LEMMA RemoveAtDistinct ==
  ASSUME NEW S, NEW s \in Seq(S), Distinct(s), NEW k \in 1 .. Len(s)
  PROVE  /\ RemoveAt(s, k) \in Seq(S)
         /\ ToSet(RemoveAt(s, k)) = ToSet(s) \ {s[k]}
         /\ Distinct(RemoveAt(s, k))
<1> DEFINE n == Len(s)
           A == SubSeq(s, 1, k - 1)
           B == SubSeq(s, k + 1, n)
           r == [j \in 1 .. n - 1 |-> IF j < k THEN s[j] ELSE s[j + 1]]
<1>1. n \in Nat /\ \A j \in 1 .. n : s[j] \in S
  BY LenProperties
<1>2. /\ A \in Seq(S) /\ Len(A) = k - 1
      /\ \A j \in 1 .. k - 1 : A[j] = s[j]
  <2>1. \A j \in 1 .. k - 1 : s[j] \in S
    BY <1>1
  <2>2. QED
    BY <2>1, SubSeqProperties
<1>3. /\ B \in Seq(S) /\ Len(B) = n - k
      /\ \A j \in 1 .. n - k : B[j] = s[k + j]
  <2>1. \A j \in k + 1 .. n : s[j] \in S
    BY <1>1
  <2>2. QED
    BY <2>1, SubSeqProperties
<1> HIDE DEF A, B
<1>4. /\ A \o B \in Seq(S) /\ Len(A \o B) = n - 1
      /\ \A j \in 1 .. n - 1 : (A \o B)[j] = IF j <= k - 1 THEN A[j] ELSE B[j - (k - 1)]
  <2>1. /\ A \o B \in Seq(S) /\ Len(A \o B) = Len(A) + Len(B)
        /\ \A i \in 1 .. Len(A) + Len(B) :
              (A \o B)[i] = IF i <= Len(A) THEN A[i] ELSE B[i - Len(A)]
    BY <1>2, <1>3, ConcatProperties
  <2>2. QED
    BY <2>1, <1>2, <1>3
<1>5. r \in Seq(S)
  <2>1. \A j \in 1 .. n - 1 : (IF j < k THEN s[j] ELSE s[j + 1]) \in S
    BY <1>1
  <2>2. n - 1 \in Nat
    BY <1>1
  <2>3. QED
    BY <2>1, <2>2, IsASeq
<1>6. RemoveAt(s, k) = r
  <2>1. Len(r) = n - 1
    BY <1>1
  <2>2. \A j \in 1 .. n - 1 : (A \o B)[j] = r[j]
    BY <1>2, <1>3, <1>4
  <2>3. QED
    BY <1>4, <1>5, <2>1, <2>2, SeqEqual DEF RemoveAt, A, B
<1>7. ToSet(r) = ToSet(s) \ {s[k]}
  <2>1. ASSUME NEW j \in 1 .. n - 1 PROVE r[j] \in ToSet(s) \ {s[k]}
    <3>1. CASE j < k
      BY <1>1, <3>1 DEF Distinct, ToSet
    <3>2. CASE j >= k
      BY <1>1, <3>2 DEF Distinct, ToSet
    <3>3. QED
      BY <3>1, <3>2
  <2>2. ASSUME NEW j \in 1 .. n, j # k PROVE s[j] \in ToSet(r)
    <3>1. CASE j < k
      <4>1. j \in DOMAIN r /\ r[j] = s[j]
        BY <1>1, <3>1, <2>2
      <4>2. QED
        BY <4>1 DEF ToSet
    <3>2. CASE j > k
      <4>1. j - 1 \in DOMAIN r /\ r[j - 1] = s[j]
        BY <1>1, <3>2, <2>2
      <4>2. QED
        BY <4>1 DEF ToSet
    <3>3. QED
      BY <3>1, <3>2, <2>2
  <2>3. DOMAIN r = 1 .. n - 1 /\ DOMAIN s = 1 .. n
    BY LenProperties
  <2>4. QED
    BY <2>1, <2>2, <2>3 DEF ToSet
<1>8. Distinct(r)
  BY <1>1 DEF Distinct
<1>9. QED
  BY <1>5, <1>6, <1>7, <1>8

(* xpdev_list_remove of an object that is on a list without duplicates:   *)
(* list_del unlinks its one node.                                          *)
LEMMA RemoveDistinct ==
  ASSUME NEW S, NEW s \in Seq(S), Distinct(s), NEW x \in ToSet(s)
  PROVE  /\ RemoveFirst(s, x) \in Seq(S)
         /\ ToSet(RemoveFirst(s, x)) = ToSet(s) \ {x}
         /\ Distinct(RemoveFirst(s, x))
<1> DEFINE k == SelectInSeq(s, LAMBDA v : v = x)
<1>1. k \in 1 .. Len(s) /\ s[k] = x
  <2> DEFINE I == {j \in 1 .. Len(s) : s[j] = x}
  <2>1. k = IF I # {} THEN Min(I) ELSE 0
    BY Zenon DEF SelectInSeq
  <2>2. I # {} /\ I \subseteq Nat
    BY DEF ToSet
  <2>3. Min(I) \in I
    BY <2>2, MinOfNats
  <2>4. QED
    BY <2>1, <2>2, <2>3
<1>2. RemoveFirst(s, x) = RemoveAt(s, k)
  BY <1>1, Zenon DEF RemoveFirst
<1> HIDE DEF k
<1>3. QED
  BY <1>1, <1>2, RemoveAtDistinct

(* list_add_tail of an object not yet on the list.                         *)
LEMMA AppendDistinct ==
  ASSUME NEW S, NEW s \in Seq(S), Distinct(s), NEW x \in S, x \notin ToSet(s)
  PROVE  /\ ToSet(Append(s, x)) = ToSet(s) \cup {x}
         /\ Distinct(Append(s, x))
<1>1. /\ Len(Append(s, x)) = Len(s) + 1
      /\ \A j \in 1 .. Len(s) : Append(s, x)[j] = s[j]
      /\ Append(s, x)[Len(s) + 1] = x
      /\ Len(s) \in Nat
  BY AppendProperties, LenProperties
<1>2. DOMAIN Append(s, x) = 1 .. Len(s) + 1 /\ DOMAIN s = 1 .. Len(s)
  BY <1>1
<1>3. ToSet(Append(s, x)) = ToSet(s) \cup {x}
  BY <1>1, <1>2 DEF ToSet
<1>4. Distinct(Append(s, x))
  BY <1>1, <1>2 DEF Distinct, ToSet
<1>5. QED
  BY <1>3, <1>4


-----------------------------------------------------------------------------
(* Every piece of state starts empty: no device probed, nothing listed.    *)
LEMMA InitIInv == Init => IInv
<1> SUFFICES ASSUME Init PROVE IInv
  OBVIOUS
<1>1. TypeOK
  <2>1. owner \in [Addrs -> PDevs]
    BY PDevsAssumption DEF Init
  <2>2. xlist \in Seq(Addrs)
    BY EmptySeq DEF Init
  <2>3. eps \in [Addrs -> 0 .. MaxEps]
    BY MaxEpsAssumption DEF Init
  <2>4. /\ pc \in [PDevs -> PcStates]
        /\ xp \in [PDevs -> Addrs \cup {NULL}]
        /\ drvdata \in [PDevs -> Addrs \cup {NULL}]
        /\ idx \in [Addrs -> PDevs \cup {IdxUnset}]
        /\ hndl \in [Addrs -> {"unset", "open", "closed"}]
        /\ npc \in [NlProcs -> {"idle", "found"}]
        /\ nref \in [NlProcs -> Addrs \cup {NULL}]
        /\ nidx \in [NlProcs -> ReqIdx \cup {IdxUnset}]
    BY DEF Init, PcStates
  <2>5. QED
    BY <2>1, <2>2, <2>3, <2>4 DEF Init, TypeOK
<1>2. ToSet(xlist) = {} /\ Len(xlist) = 0
  BY EmptySeq DEF Init, ToSet
<1>3. InList /\ NotFreed /\ Distinct(xlist) /\ DrvListed
  BY <1>2 DEF Init, InList, NotFreed, Distinct, DrvListed
<1>4. ObjectsOwned
  BY AddrsAssumption DEF Init, ObjectsOwned, Listed, Bound
<1>5. QED
  BY <1>1, <1>3, <1>4 DEF IInv

(* The invariant gives the property: ListTracksDevices is IInv's middle.  *)
LEMMA IInvListTracks == IInv => ListTracksDevices
BY DEF IInv, ListTracksDevices, InList, NotFreed, Distinct, DrvListed, Listed, Bound

(* Every listed object was allocated.                                     *)
LEMMA ListInAlloc == IInv => ToSet(xlist) \subseteq alloc
<1> SUFFICES ASSUME IInv, NEW x \in ToSet(xlist) PROVE x \in alloc
  OBVIOUS
<1>1. x \in Addrs
  BY ElementOfSeq DEF IInv, TypeOK, ToSet
<1>2. QED
  BY <1>1 DEF IInv, InList

-----------------------------------------------------------------------------
(* The first step of probe_one: qdma_device_open, which may fail.         *)
LEMMA ProbeOpenIInv ==
  ASSUME IInv, NEW d \in PDevs, ProbeOpen(d) PROVE IInv'
<1>1. /\ pc[d] = "absent" /\ drvdata[d] = NULL
      /\ pc' = [pc EXCEPT ![d] = "opened"] \/ pc' = pc
      /\ engOpen' \subseteq engOpen \cup {d}
      /\ UNCHANGED <<xp, drvdata, xlist, alloc, freed, owner, idx, hndl, eps>>
      /\ UNCHANGED <<npc, nref, nidx, useFreed, useUninit>>
  BY DEF ProbeOpen, NlVars, IInv, ObjectsOwned, Bound, TypeOK
<1>2. TypeOK'
  BY <1>1 DEF IInv, TypeOK, PcStates
<1>3. InList'
  BY <1>1 DEF IInv, InList, Listed, TypeOK
<1>4. (NotFreed /\ Distinct(xlist) /\ DrvListed)'
  BY <1>1 DEF IInv, NotFreed, Distinct, DrvListed, Bound, TypeOK
<1>5. ObjectsOwned'
  BY <1>1 DEF IInv, ObjectsOwned, Listed, Bound, TypeOK
<1>6. QED
  BY <1>2, <1>3, <1>4, <1>5 DEF IInv


(* xpdev_alloc: a fresh object is allocated for d and appended to the    *)
(* list, or the allocation fails and probe_one closes the engine device.  *)
LEMMA ProbeAllocIInv ==
  ASSUME IInv, NEW d \in PDevs, ProbeAlloc(d) PROVE IInv'
<1>0. /\ pc[d] = "opened" /\ drvdata[d] = NULL
      /\ ToSet(xlist) \subseteq alloc
      /\ UNCHANGED <<drvdata, freed, idx, hndl, eps, npc, nref, nidx, useFreed, useUninit>>
  <2>1. pc[d] = "opened" /\ drvdata[d] = NULL
    BY DEF ProbeAlloc, IInv, ObjectsOwned, Bound, TypeOK
  <2>2. ToSet(xlist) \subseteq alloc
    BY ListInAlloc
  <2>3. UNCHANGED <<drvdata, freed, idx, hndl, eps, npc, nref, nidx, useFreed, useUninit>>
    BY DEF ProbeAlloc, NlVars
  <2>4. QED
    BY <2>1, <2>2, <2>3
<1>1. CASE \E x \in Addrs \ alloc :
             /\ alloc' = alloc \cup {x}
             /\ owner' = [owner EXCEPT ![x] = d]
             /\ xlist' = Append(xlist, x)
             /\ xp' = [xp EXCEPT ![d] = x]
             /\ pc' = [pc EXCEPT ![d] = "listed"]
             /\ UNCHANGED engOpen
  <2>1. PICK x \in Addrs \ alloc :
             /\ alloc' = alloc \cup {x}
             /\ owner' = [owner EXCEPT ![x] = d]
             /\ xlist' = Append(xlist, x)
             /\ xp' = [xp EXCEPT ![d] = x]
             /\ pc' = [pc EXCEPT ![d] = "listed"]
             /\ UNCHANGED engOpen
    BY <1>1
  <2>2. /\ xlist' \in Seq(Addrs) /\ Distinct(xlist')
        /\ ToSet(xlist') = ToSet(xlist) \cup {x}
    <3>1. x \notin ToSet(xlist)
      BY <1>0, <2>1
    <3>2. QED
      BY <2>1, <3>1, AppendDistinct, AppendProperties DEF IInv, TypeOK
  <2>3. TypeOK'
    BY <1>0, <2>1, <2>2 DEF IInv, TypeOK, PcStates
  <2>4. InList'
    <3> SUFFICES ASSUME NEW y \in Addrs
                 PROVE  y \in ToSet(xlist') <=>
                          y \in alloc' /\ xp'[owner'[y]] = y /\ pc'[owner'[y]] \in Listed
      BY DEF InList
    <3>1. CASE y = x
      BY <1>0, <2>1, <2>2, <3>1 DEF IInv, TypeOK, Listed
    <3>2. CASE y # x /\ owner[y] = d
      BY <1>0, <2>1, <2>2, <3>2 DEF IInv, TypeOK, InList, Listed
    <3>3. CASE y # x /\ owner[y] # d
      BY <1>0, <2>1, <2>2, <3>3 DEF IInv, TypeOK, InList, Listed
    <3>4. QED
      BY <3>1, <3>2, <3>3
  <2>5. NotFreed'
    BY <1>0, <2>1, <2>2 DEF IInv, TypeOK, NotFreed
  <2>6. DrvListed'
    BY <1>0, <2>1, <2>2 DEF IInv, TypeOK, DrvListed, Bound
  <2>7. ObjectsOwned'
    BY <1>0, <2>1 DEF IInv, TypeOK, ObjectsOwned, Listed, Bound
  <2>8. QED
    BY <2>2, <2>3, <2>4, <2>5, <2>6, <2>7 DEF IInv
<1>2. CASE /\ engOpen' = engOpen \ {d}
           /\ pc' = [pc EXCEPT ![d] = "absent"]
           /\ UNCHANGED <<alloc, owner, xlist, xp>>
  <2>1. TypeOK'
    BY <1>0, <1>2 DEF IInv, TypeOK, PcStates
  <2>2. InList'
    BY <1>0, <1>2 DEF IInv, TypeOK, InList, Listed
  <2>3. (NotFreed /\ Distinct(xlist) /\ DrvListed)'
    BY <1>0, <1>2 DEF IInv, TypeOK, NotFreed, Distinct, DrvListed, Bound
  <2>4. ObjectsOwned'
    BY <1>0, <1>2 DEF IInv, TypeOK, ObjectsOwned, Listed, Bound
  <2>5. QED
    BY <2>1, <2>2, <2>3, <2>4 DEF IInv
<1>3. QED
  BY <1>1, <1>2 DEF ProbeAlloc


(* probe_one after xpdev_alloc: the device is attached, or                *)
(* qdma_cdev_device_init fails and the object is unlisted and freed.      *)
LEMMA ProbeInitIInv ==
  ASSUME IInv, NEW d \in PDevs, ProbeInit(d) PROVE IInv'
<1> DEFINE x == xp[d]
<1>0. /\ pc[d] = "listed" /\ drvdata[d] = NULL
      /\ x \in Addrs /\ x \in alloc /\ owner[x] = d /\ x \in ToSet(xlist)
      /\ ToSet(xlist) \subseteq alloc
      /\ UNCHANGED <<xp, alloc, owner, eps, npc, nref, nidx, useFreed, useUninit>>
      /\ idx' = [idx EXCEPT ![x] = d]
  <2>1. pc[d] = "listed" /\ drvdata[d] = NULL /\ x \in alloc /\ owner[x] = d
    BY DEF ProbeInit, IInv, ObjectsOwned, Bound, Listed, TypeOK
  <2>2. x \in Addrs /\ x \in ToSet(xlist)
    BY <2>1 DEF IInv, TypeOK, InList, Listed
  <2>3. QED
    BY <2>1, <2>2, ListInAlloc DEF ProbeInit, NlVars
<1>1. CASE /\ hndl' = [hndl EXCEPT ![x] = "open"]
           /\ drvdata' = [drvdata EXCEPT ![d] = x]
           /\ pc' = [pc EXCEPT ![d] = "attached"]
           /\ UNCHANGED <<engOpen, xlist, freed>>
  <2>1. TypeOK'
    BY <1>0, <1>1 DEF IInv, TypeOK, PcStates
  <2>2. InList'
    BY <1>0, <1>1 DEF IInv, TypeOK, InList, Listed
  <2>3. (NotFreed /\ Distinct(xlist))'
    BY <1>0, <1>1 DEF IInv, NotFreed, Distinct
  <2>4. DrvListed'
    BY <1>0, <1>1 DEF IInv, TypeOK, DrvListed, Bound
  <2>5. ObjectsOwned'
    BY <1>0, <1>1, AddrsAssumption DEF IInv, TypeOK, ObjectsOwned, Listed, Bound
  <2>6. QED
    BY <2>1, <2>2, <2>3, <2>4, <2>5 DEF IInv
<1>2. CASE /\ hndl' = [hndl EXCEPT ![x] = "closed"]
           /\ engOpen' = engOpen \ {d}
           /\ XpdevFree(x)
           /\ pc' = [pc EXCEPT ![d] = "absent"]
           /\ UNCHANGED drvdata
  <2>1. /\ xlist' \in Seq(Addrs) /\ Distinct(xlist')
        /\ ToSet(xlist') = ToSet(xlist) \ {x}
        /\ freed' = freed \cup {x}
    BY <1>0, <1>2, RemoveDistinct DEF IInv, TypeOK, XpdevFree, ListRemove
  <2>2. TypeOK'
    BY <1>0, <1>2, <2>1 DEF IInv, TypeOK, PcStates
  <2>3. InList'
    <3> SUFFICES ASSUME NEW y \in Addrs
                 PROVE  y \in ToSet(xlist') <=>
                          y \in alloc' /\ xp'[owner'[y]] = y /\ pc'[owner'[y]] \in Listed
      BY DEF InList
    <3>1. CASE y = x
      BY <1>0, <1>2, <2>1, <3>1 DEF IInv, TypeOK, Listed
    <3>2. CASE y # x /\ owner[y] = d
      BY <1>0, <1>2, <2>1, <3>2 DEF IInv, TypeOK, InList, Listed
    <3>3. CASE y # x /\ owner[y] # d
      BY <1>0, <1>2, <2>1, <3>3 DEF IInv, TypeOK, InList, Listed
    <3>4. QED
      BY <3>1, <3>2, <3>3
  <2>4. NotFreed'
    BY <1>0, <2>1 DEF IInv, NotFreed
  <2>5. DrvListed'
    BY <1>0, <1>2, <2>1 DEF IInv, TypeOK, DrvListed, Bound
  <2>6. ObjectsOwned'
    BY <1>0, <1>2 DEF IInv, TypeOK, ObjectsOwned, Listed, Bound
  <2>7. QED
    BY <2>1, <2>2, <2>3, <2>4, <2>5, <2>6 DEF IInv
<1>3. QED
  BY <1>1, <1>2 DEF ProbeInit


(* remove_one, xpdev_device_cleanup: the endpoints go, xp takes the      *)
(* drvdata, which is the object probe_one attached.                       *)
LEMMA RemoveCleanupIInv ==
  ASSUME IInv, NEW d \in PDevs, RemoveCleanup(d) PROVE IInv'
<1>1. /\ pc[d] = "attached" /\ drvdata[d] = xp[d] /\ xp[d] \in Addrs
      /\ xp' = xp /\ pc' = [pc EXCEPT ![d] = "cleaned"]
      /\ eps' = [eps EXCEPT ![xp[d]] = 0]
      /\ UNCHANGED <<drvdata, engOpen, xlist, alloc, freed, owner, idx, hndl>>
      /\ UNCHANGED <<npc, nref, nidx, useFreed, useUninit>>
  <2>1. pc[d] = "attached" /\ drvdata[d] = xp[d] /\ drvdata[d] # NULL
    BY DEF RemoveCleanup, IInv, ObjectsOwned, Bound
  <2>2. xp[d] \in Addrs
    BY <2>1 DEF IInv, TypeOK
  <2>3. xp' = xp
    BY <2>1 DEF RemoveCleanup, IInv, TypeOK
  <2>4. QED
    BY <2>1, <2>2, <2>3 DEF RemoveCleanup, NlVars
<1>2. TypeOK'
  BY <1>1, MaxEpsAssumption DEF IInv, TypeOK, PcStates
<1>3. InList'
  BY <1>1 DEF IInv, TypeOK, InList, Listed
<1>4. (NotFreed /\ Distinct(xlist) /\ DrvListed)'
  BY <1>1 DEF IInv, TypeOK, NotFreed, Distinct, DrvListed, Bound
<1>5. ObjectsOwned'
  BY <1>1 DEF IInv, TypeOK, ObjectsOwned, Listed, Bound
<1>6. QED
  BY <1>2, <1>3, <1>4, <1>5 DEF IInv

(* remove_one, qdma_device_close.                                         *)
LEMMA RemoveCloseIInv ==
  ASSUME IInv, NEW d \in PDevs, RemoveClose(d) PROVE IInv'
<1>1. /\ pc[d] = "cleaned" /\ xp[d] \in Addrs
      /\ pc' = [pc EXCEPT ![d] = "closed"]
      /\ hndl' = [hndl EXCEPT ![xp[d]] = "closed"]
      /\ UNCHANGED <<xp, drvdata, xlist, alloc, freed, owner, idx, eps>>
      /\ UNCHANGED <<npc, nref, nidx, useFreed, useUninit>>
  <2>1. pc[d] = "cleaned" /\ xp[d] \in alloc
    BY DEF RemoveClose, IInv, ObjectsOwned, Listed
  <2>2. QED
    BY <2>1 DEF RemoveClose, NlVars, IInv, TypeOK
<1>2. TypeOK'
  BY <1>1 DEF RemoveClose, IInv, TypeOK, PcStates
<1>3. InList'
  BY <1>1 DEF IInv, TypeOK, InList, Listed
<1>4. (NotFreed /\ Distinct(xlist) /\ DrvListed)'
  BY <1>1 DEF IInv, TypeOK, NotFreed, Distinct, DrvListed, Bound
<1>5. ObjectsOwned'
  BY <1>1 DEF IInv, TypeOK, ObjectsOwned, Listed, Bound
<1>6. QED
  BY <1>2, <1>3, <1>4, <1>5 DEF IInv

(* remove_one, xpdev_free and the drvdata cleared.                        *)
LEMMA RemoveFreeIInv ==
  ASSUME IInv, NEW d \in PDevs, RemoveFree(d) PROVE IInv'
<1> DEFINE x == xp[d]
<1>0. /\ pc[d] = "closed" /\ drvdata[d] = x
      /\ x \in Addrs /\ x \in alloc /\ owner[x] = d /\ x \in ToSet(xlist)
      /\ drvdata' = [drvdata EXCEPT ![d] = NULL]
      /\ pc' = [pc EXCEPT ![d] = "absent"]
      /\ UNCHANGED <<xp, engOpen, alloc, owner, idx, hndl, eps>>
      /\ UNCHANGED <<npc, nref, nidx, useFreed, useUninit>>
  <2>1. pc[d] = "closed" /\ drvdata[d] = x /\ x \in alloc /\ owner[x] = d
    BY DEF RemoveFree, IInv, ObjectsOwned, Bound, Listed, TypeOK
  <2>2. x \in Addrs /\ x \in ToSet(xlist)
    BY <2>1 DEF IInv, TypeOK, InList, Listed
  <2>3. QED
    BY <2>1, <2>2 DEF RemoveFree, NlVars
<1>1. /\ xlist' \in Seq(Addrs) /\ Distinct(xlist')
      /\ ToSet(xlist') = ToSet(xlist) \ {x}
      /\ freed' = freed \cup {x}
  BY <1>0, RemoveDistinct DEF RemoveFree, IInv, TypeOK, XpdevFree, ListRemove
<1>2. TypeOK'
  BY <1>0, <1>1 DEF IInv, TypeOK, PcStates
<1>3. InList'
  <2> SUFFICES ASSUME NEW y \in Addrs
               PROVE  y \in ToSet(xlist') <=>
                        y \in alloc' /\ xp'[owner'[y]] = y /\ pc'[owner'[y]] \in Listed
    BY DEF InList
  <2>1. CASE y = x
    BY <1>0, <1>1, <2>1 DEF IInv, TypeOK, Listed
  <2>2. CASE y # x /\ owner[y] = d
    BY <1>0, <1>1, <2>2 DEF IInv, TypeOK, InList, Listed
  <2>3. CASE y # x /\ owner[y] # d
    BY <1>0, <1>1, <2>3 DEF IInv, TypeOK, InList, Listed
  <2>4. QED
    BY <2>1, <2>2, <2>3
<1>4. NotFreed'
  BY <1>0, <1>1 DEF IInv, NotFreed
<1>5. DrvListed'
  BY <1>0, <1>1 DEF IInv, TypeOK, DrvListed, Bound
<1>6. ObjectsOwned'
  BY <1>0 DEF IInv, TypeOK, ObjectsOwned, Listed, Bound
<1>7. QED
  BY <1>1, <1>2, <1>3, <1>4, <1>5, <1>6 DEF IInv


(* xpdev_find_by_idx: the handler takes the address of a listed object.  *)
LEMMA NlLookupIInv ==
  ASSUME IInv, NEW n \in NlProcs, NEW i \in ReqIdx, NlLookup(n, i) PROVE IInv'
<1> DEFINE k == SelectInSeq(xlist, LAMBDA y : idx[y] = i)
<1>1. k \in 1 .. Len(xlist)
  <2> DEFINE I == {j \in 1 .. Len(xlist) : idx[xlist[j]] = i}
  <2>1. k = IF I # {} THEN Min(I) ELSE 0
    BY Zenon DEF SelectInSeq
  <2>2. k # 0
    BY DEF NlLookup
  <2>3. I # {} /\ I \subseteq Nat
    BY <2>1, <2>2
  <2>4. QED
    BY <2>1, <2>3, MinOfNats
<1>2. xlist[k] \in Addrs
  BY <1>1, ElementOfSeq DEF IInv, TypeOK
<1>3. /\ nref' = [nref EXCEPT ![n] = xlist[k]]
      /\ npc' = [npc EXCEPT ![n] = "found"]
      /\ nidx' = [nidx EXCEPT ![n] = i]
  BY DEF NlLookup
<1> HIDE DEF k
<1>4. UNCHANGED <<pc, xp, drvdata, engOpen, xlist, alloc, freed, owner, idx,
                  hndl, eps, useFreed, useUninit>>
  BY DEF NlLookup
<1>5. TypeOK'
  BY <1>2, <1>3, <1>4 DEF IInv, TypeOK
<1>6. (InList /\ NotFreed /\ Distinct(xlist) /\ DrvListed)'
  BY <1>4 DEF IInv, InList, NotFreed, Distinct, DrvListed
<1>7. ObjectsOwned'
  BY <1>2, <1>3, <1>4 DEF IInv, TypeOK, ObjectsOwned
<1>8. QED
  BY <1>5, <1>6, <1>7 DEF IInv

(* xpdev_queue_add / xpdev_queue_delete on the object found.              *)
LEMMA NlQueueOpIInv ==
  ASSUME IInv, NEW n \in NlProcs, NEW add \in BOOLEAN, NlQueueOp(n, add) PROVE IInv'
<1> DEFINE x == nref[n]
<1>1. x \in Addrs /\ eps[x] \in 0 .. MaxEps
  BY DEF NlQueueOp, IInv, TypeOK, ObjectsOwned
<1>2. UNCHANGED <<pc, xp, drvdata, engOpen, xlist, alloc, freed, owner, idx, hndl, nidx>>
  BY DEF NlQueueOp
<1>3. TypeOK'
  <2>1. eps' \in [Addrs -> 0 .. MaxEps]
    BY <1>1, MaxEpsAssumption DEF NlQueueOp, IInv, TypeOK
  <2>2. QED
    BY <1>2, <2>1 DEF NlQueueOp, IInv, TypeOK
<1>4. (InList /\ NotFreed /\ Distinct(xlist) /\ DrvListed)'
  BY <1>2 DEF IInv, InList, NotFreed, Distinct, DrvListed
<1>5. ObjectsOwned'
  BY <1>2 DEF NlQueueOp, IInv, TypeOK, ObjectsOwned
<1>6. QED
  BY <1>3, <1>4, <1>5 DEF IInv

(* The steps of probe_one and remove_one, and the command handlers, keep  *)
(* IInv.                                                                   *)
LEMMA NextIInv == IInv /\ [Next]_vars => IInv'
<1> SUFFICES ASSUME IInv, [Next]_vars PROVE IInv'
  OBVIOUS
<1>1. CASE UNCHANGED vars
  BY <1>1 DEF vars, IInv, TypeOK, InList, NotFreed, Distinct, DrvListed, ObjectsOwned
<1>2. QED
  BY <1>1, ProbeOpenIInv, ProbeAllocIInv, ProbeInitIInv, RemoveCleanupIInv,
     RemoveCloseIInv, RemoveFreeIInv, NlLookupIInv, NlQueueOpIInv DEF Next

-----------------------------------------------------------------------------
(* Every reachable state of the device list model is well typed, for     *)
(* every set of functions, addresses and handlers.                        *)
THEOREM TypeCorrect == Spec => []TypeOK
<1>1. IInv => TypeOK
  BY DEF IInv
<1>2. QED
  BY <1>1, InitIInv, NextIInv, PTL DEF Spec

(* xpdev_list and the drvdata track probe_one and remove_one through every *)
(* failure path, concurrently with the command handlers: an object is      *)
(* listed exactly while its device is between xpdev_alloc and xpdev_free,  *)
(* once and never freed, and a set drvdata is that listed object.          *)
THEOREM ListTracksDevicesThm == Spec => []ListTracksDevices
BY InitIInv, NextIInv, IInvListTracks, PTL DEF Spec


(* Each step of probe_one and remove_one moves its device's engine open   *)
(* state and its pc together; the command handlers touch neither.          *)
LEMMA NextEngineOpen ==
  IInv /\ EngineOpenTracked /\ [Next]_vars => EngineOpenTracked'
<1> SUFFICES ASSUME IInv, EngineOpenTracked, [Next]_vars PROVE EngineOpenTracked'
  OBVIOUS
<1> USE DEF EngineOpenTracked
<1>1. ASSUME NEW d \in PDevs, ProbeOpen(d) PROVE EngineOpenTracked'
  BY <1>1 DEF ProbeOpen, IInv, TypeOK
<1>2. ASSUME NEW d \in PDevs, ProbeAlloc(d) PROVE EngineOpenTracked'
  BY <1>2 DEF ProbeAlloc, IInv, TypeOK
<1>3. ASSUME NEW d \in PDevs, ProbeInit(d) PROVE EngineOpenTracked'
  BY <1>3 DEF ProbeInit, IInv, TypeOK
<1>4. ASSUME NEW d \in PDevs, RemoveCleanup(d) PROVE EngineOpenTracked'
  BY <1>4 DEF RemoveCleanup, IInv, TypeOK
<1>5. ASSUME NEW d \in PDevs, RemoveClose(d) PROVE EngineOpenTracked'
  BY <1>5 DEF RemoveClose, IInv, TypeOK
<1>6. ASSUME NEW d \in PDevs, RemoveFree(d) PROVE EngineOpenTracked'
  BY <1>6 DEF RemoveFree, IInv, TypeOK
<1>7. ASSUME NEW n \in NlProcs, NEW i \in ReqIdx, NlLookup(n, i)
      PROVE  EngineOpenTracked'
  BY <1>7 DEF NlLookup
<1>8. ASSUME NEW n \in NlProcs, NEW add \in BOOLEAN, NlQueueOp(n, add)
      PROVE  EngineOpenTracked'
  BY <1>8 DEF NlQueueOp
<1>9. CASE UNCHANGED vars
  BY <1>9 DEF vars
<1>10. QED
  BY <1>1, <1>2, <1>3, <1>4, <1>5, <1>6, <1>7, <1>8, <1>9 DEF Next

(* No error path of probe_one leaks an engine device and none is closed   *)
(* twice: qdma_device_open's device is open exactly while probe_one or    *)
(* remove_one of its function stands between open and close.               *)
THEOREM EngineOpenTrackedThm == Spec => []EngineOpenTracked
<1>1. Init => EngineOpenTracked
  BY DEF Init, EngineOpenTracked
<1>2. QED
  BY <1>1, InitIInv, NextIInv, NextEngineOpen, PTL DEF Spec

-----------------------------------------------------------------------------
(* The refinement mapping, as named in DeviceLifecycle's Abs.               *)
AKey == [x \in ToSet(xlist) |-> idx[x]]
AFound == [n \in NlProcs |-> IF npc[n] = "found" THEN {<<nref[n], nidx[n]>>} ELSE {}]

(* The objects on the list are objects.                                    *)
LEMMA ListInAddrs == IInv => ToSet(xlist) \subseteq Addrs
BY ElementOfSeq DEF IInv, TypeOK, ToSet

(* A step that touches neither the list, the indices nor the handlers is a *)
(* stutter of XpdevSet.                                                    *)
LEMMA AbsStutter ==
  ASSUME UNCHANGED <<xlist, idx, npc, nref, nidx>>
  PROVE  UNCHANGED Abs!avars
BY DEF Abs!avars

(* xpdev_free of a linked object is XpdevSet's Del: list_del unlinks that  *)
(* object and no other, since no object is linked twice.                   *)
LEMMA AbsDel ==
  ASSUME IInv, NEW x \in ToSet(xlist), xlist' = RemoveFirst(xlist, x),
         \A y \in Addrs \ {x} : idx'[y] = idx[y],
         UNCHANGED <<npc, nref, nidx>>
  PROVE  Abs!Del(x)
<1>1. ToSet(xlist') = ToSet(xlist) \ {x}
  BY RemoveDistinct DEF IInv, TypeOK
<1>2. \A y \in ToSet(xlist') : idx'[y] = AKey[y]
  BY <1>1, ListInAddrs DEF AKey
<1>3. [y \in ToSet(xlist') |-> idx'[y]] = [y \in ToSet(xlist') |-> AKey[y]]
  BY <1>2
<1>4. QED
  BY <1>1, <1>3 DEF Abs!Del, AKey

(* xpdev_list with xpdev_find_by_idx implements XpdevSet, for every value  *)
(* of the constants: xpdev_alloc adds an object that is not linked yet,    *)
(* probe_one names it, xpdev_free (on probe_one's failure path and in      *)
(* remove_one) removes exactly it, a lookup hands out a linked object with *)
(* the index asked for, and a queue command drops it; every other step is *)
(* a stutter.  The argument rests on IInv: the list has no duplicate and   *)
(* links only allocated objects, and the object a probe or remove thread  *)
(* holds is the one linked for its device.                                 *)
THEOREM RefinementThm == Spec => RefinesXpdevSet
<1>1. Init => Abs!Init
  BY EmptySeq DEF Init, Abs!Init, ToSet
<1>2. IInv /\ [Next]_vars => [Abs!Next]_Abs!avars
  <2> SUFFICES ASSUME IInv, [Next]_vars PROVE [Abs!Next]_Abs!avars
    OBVIOUS
  <2>1. ASSUME NEW d \in PDevs, ProbeOpen(d) PROVE UNCHANGED Abs!avars
    BY <2>1, AbsStutter DEF ProbeOpen, NlVars
  <2>2. ASSUME NEW d \in PDevs, ProbeAlloc(d) PROVE [Abs!Next]_Abs!avars
    <3>1. UNCHANGED <<idx, npc, nref, nidx>>
      BY <2>2 DEF ProbeAlloc, NlVars
    <3>2. CASE UNCHANGED xlist
      BY <3>1, <3>2, AbsStutter
    <3>3. CASE ~UNCHANGED xlist
      <4>1. PICK x \in Addrs \ alloc : xlist' = Append(xlist, x)
        BY <2>2, <3>3 DEF ProbeAlloc
      <4>2. x \notin ToSet(xlist)
        BY <4>1, ListInAlloc
      <4>3. ToSet(xlist') = ToSet(xlist) \cup {x}
        BY <4>1, <4>2, AppendDistinct DEF IInv, TypeOK
      <4>4. PICK k \in PDevs \cup {IdxUnset} : k = idx[x]
        BY DEF IInv, TypeOK
      <4>5. [y \in ToSet(xlist') |-> idx'[y]]
              = [y \in ToSet(xlist') |-> IF y = x THEN k ELSE AKey[y]]
        BY <3>1, <4>3, <4>4 DEF AKey
      <4>6. Abs!Add(x, k)
        BY <3>1, <4>2, <4>3, <4>5 DEF Abs!Add, AKey
      <4>7. QED
        BY <4>6 DEF Abs!Next
    <3>4. QED
      BY <3>2, <3>3
  <2>3. ASSUME NEW d \in PDevs, ProbeInit(d) PROVE Abs!Next
    <3>0. PICK x \in Addrs \cup {NULL} : x = xp[d]
      BY DEF IInv, TypeOK
    <3>1. /\ x \in ToSet(xlist) /\ x \in Addrs
          /\ idx' = [idx EXCEPT ![x] = d]
          /\ UNCHANGED <<npc, nref, nidx>>
      <4>1. pc[d] = "listed" /\ x \in alloc /\ owner[x] = d
        BY <2>3, <3>0 DEF ProbeInit, IInv, ObjectsOwned, Listed
      <4>2. QED
        BY <2>3, <3>0, <4>1 DEF ProbeInit, NlVars, IInv, TypeOK, InList, Listed
    <3>2. CASE UNCHANGED xlist
      <4>1. [y \in ToSet(xlist) |-> idx'[y]] = [AKey EXCEPT ![x] = d]
        BY <3>1, ListInAddrs DEF AKey, IInv, TypeOK
      <4>2. Abs!Name(x, d)
        BY <3>1, <3>2, <4>1 DEF Abs!Name, AKey
      <4>3. QED
        BY <3>1, <4>2 DEF Abs!Next
    <3>3. CASE ~UNCHANGED xlist
      <4>1. xlist' = RemoveFirst(xlist, x)
        BY <2>3, <3>0, <3>3 DEF ProbeInit, XpdevFree, ListRemove
      <4>2. \A y \in Addrs \ {x} : idx'[y] = idx[y]
        BY <3>1 DEF IInv, TypeOK
      <4>3. Abs!Del(x)
        BY <3>1, <4>1, <4>2, AbsDel
      <4>4. QED
        BY <3>1, <4>3 DEF Abs!Next
    <3>4. QED
      BY <3>2, <3>3
  <2>4. ASSUME NEW d \in PDevs, RemoveCleanup(d) \/ RemoveClose(d)
        PROVE  UNCHANGED Abs!avars
    BY <2>4, AbsStutter DEF RemoveCleanup, RemoveClose, NlVars
  <2>5. ASSUME NEW d \in PDevs, RemoveFree(d) PROVE Abs!Next
    <3>0. PICK x \in Addrs \cup {NULL} : x = xp[d]
      BY DEF IInv, TypeOK
    <3>1. x \in ToSet(xlist) /\ x \in Addrs
      <4>1. pc[d] = "closed" /\ x \in alloc /\ owner[x] = d
        BY <2>5, <3>0 DEF RemoveFree, IInv, ObjectsOwned, Listed
      <4>2. QED
        BY <3>0, <4>1 DEF IInv, TypeOK, InList, Listed
    <3>2. Abs!Del(x)
      <4>1. /\ xlist' = RemoveFirst(xlist, x)
            /\ \A y \in Addrs \ {x} : idx'[y] = idx[y]
            /\ UNCHANGED <<npc, nref, nidx>>
        BY <2>5, <3>0 DEF RemoveFree, XpdevFree, ListRemove, NlVars
      <4>2. QED
        BY <3>1, <4>1, AbsDel
    <3>3. QED
      BY <3>1, <3>2 DEF Abs!Next
  <2>6. ASSUME NEW n \in NlProcs, NEW i \in ReqIdx, NlLookup(n, i)
        PROVE  Abs!Next
    <3> DEFINE k == SelectInSeq(xlist, LAMBDA y : idx[y] = i)
               I == {j \in 1 .. Len(xlist) : idx[xlist[j]] = i}
    <3>1. k = IF I # {} THEN Min(I) ELSE 0
      BY Zenon DEF SelectInSeq
    <3>2. k \in I
      <4>1. k # 0
        BY <2>6 DEF NlLookup
      <4>2. I # {} /\ I \subseteq Nat
        BY <3>1, <4>1
      <4>3. QED
        BY <3>1, <4>2, MinOfNats
    <3> HIDE DEF k
    <3>3. PICK x \in ToSet(xlist) : x = xlist[k] /\ idx[x] = i
      BY <3>2 DEF ToSet, IInv, TypeOK
    <3>4. /\ npc[n] = "idle"
          /\ npc' = [npc EXCEPT ![n] = "found"]
          /\ nref' = [nref EXCEPT ![n] = x]
          /\ nidx' = [nidx EXCEPT ![n] = i]
          /\ UNCHANGED <<xlist, idx>>
      BY <2>6, <3>3 DEF NlLookup, k
    <3>5. AFound' = [AFound EXCEPT ![n] = {<<x, i>>}]
      <4>1. AFound'[n] = {<<x, i>>}
        BY <3>4 DEF AFound, IInv, TypeOK
      <4>2. \A m \in NlProcs \ {n} : AFound'[m] = AFound[m]
        BY <3>4 DEF AFound, IInv, TypeOK
      <4>3. QED
        BY <4>1, <4>2 DEF AFound
    <3>6. Abs!Find(n, i)
      BY <3>3, <3>4, <3>5 DEF Abs!Find, AFound, AKey
    <3>7. QED
      BY <3>6 DEF Abs!Next
  <2>7. ASSUME NEW n \in NlProcs, NEW add \in BOOLEAN, NlQueueOp(n, add)
        PROVE  Abs!Next
    <3>1. /\ npc[n] = "found"
          /\ npc' = [npc EXCEPT ![n] = "idle"]
          /\ nref' = [nref EXCEPT ![n] = NULL]
          /\ UNCHANGED <<xlist, idx, nidx>>
      BY <2>7 DEF NlQueueOp
    <3>2. AFound' = [AFound EXCEPT ![n] = {}]
      BY <3>1 DEF AFound, IInv, TypeOK
    <3>3. Abs!Drop(n)
      BY <3>1, <3>2 DEF Abs!Drop, AFound
    <3>4. QED
      BY <3>3 DEF Abs!Next
  <2>8. CASE UNCHANGED vars
    BY <2>8, AbsStutter DEF vars
  <2>9. QED
    BY <2>1, <2>2, <2>3, <2>4, <2>5, <2>6, <2>7, <2>8 DEF Next
<1>3. QED
  BY <1>1, <1>2, InitIInv, NextIInv, PTL DEF Spec, RefinesXpdevSet, Abs!Spec

-----------------------------------------------------------------------------
(* Once remove_one has passed qdma_device_close, the dev_hndl of the      *)
(* object it removes is closed, until xpdev_free.                          *)
HndlClosed == \A d \in PDevs : pc[d] = "closed" => hndl[xp[d]] = "closed"

(* Only probe_one and remove_one of d write hndl[xp[d]], and the objects  *)
(* of two devices past xpdev_alloc are different ones.                     *)
LEMMA NextHndlClosed == IInv /\ HndlClosed /\ [Next]_vars => HndlClosed'
<1> SUFFICES ASSUME IInv, HndlClosed, [Next]_vars PROVE HndlClosed'
  OBVIOUS
<1>0. \A d, e \in PDevs : d # e /\ pc[d] \in Listed /\ pc[e] \in Listed => xp[d] # xp[e]
  BY DEF IInv, ObjectsOwned
<1>1. ASSUME NEW d \in PDevs, ProbeOpen(d) PROVE HndlClosed'
  BY <1>1 DEF ProbeOpen, HndlClosed, IInv, TypeOK
<1>2. ASSUME NEW d \in PDevs, ProbeAlloc(d) PROVE HndlClosed'
  BY <1>2 DEF ProbeAlloc, HndlClosed, IInv, TypeOK
<1>3. ASSUME NEW d \in PDevs, ProbeInit(d) PROVE HndlClosed'
  <2>1. /\ pc[d] = "listed" /\ pc'[d] # "closed"
        /\ \A e \in PDevs \ {d} : pc'[e] = pc[e]
        /\ xp' = xp
        /\ \E h : hndl' = [hndl EXCEPT ![xp[d]] = h]
    BY <1>3 DEF ProbeInit, IInv, TypeOK
  <2>2. QED
    BY <1>0, <2>1 DEF HndlClosed, IInv, TypeOK, Listed
<1>4. ASSUME NEW d \in PDevs, RemoveCleanup(d) PROVE HndlClosed'
  BY <1>4 DEF RemoveCleanup, HndlClosed, IInv, TypeOK
<1>5. ASSUME NEW d \in PDevs, RemoveClose(d) PROVE HndlClosed'
  <2>1. /\ pc[d] = "cleaned" /\ pc' = [pc EXCEPT ![d] = "closed"]
        /\ xp' = xp /\ hndl' = [hndl EXCEPT ![xp[d]] = "closed"]
    BY <1>5 DEF RemoveClose
  <2>2. xp[d] \in Addrs
    BY <2>1 DEF IInv, ObjectsOwned, Listed, TypeOK
  <2>3. QED
    BY <1>0, <2>1, <2>2 DEF HndlClosed, IInv, TypeOK, Listed
<1>6. ASSUME NEW d \in PDevs, RemoveFree(d) PROVE HndlClosed'
  BY <1>6 DEF RemoveFree, HndlClosed, IInv, TypeOK
<1>7. ASSUME NEW n \in NlProcs, NEW i \in ReqIdx, NlLookup(n, i) PROVE HndlClosed'
  BY <1>7 DEF NlLookup, HndlClosed
<1>8. ASSUME NEW n \in NlProcs, NEW add \in BOOLEAN, NlQueueOp(n, add)
      PROVE  HndlClosed'
  BY <1>8 DEF NlQueueOp, HndlClosed
<1>9. CASE UNCHANGED vars
  BY <1>9 DEF vars, HndlClosed
<1>10. QED
  BY <1>1, <1>2, <1>3, <1>4, <1>5, <1>6, <1>7, <1>8, <1>9 DEF Next

(* The step form of FreeAfterClose.                                        *)
FreeStep ==
  \A x \in Addrs :
    x \notin freed /\ x \in freed' => /\ hndl'[x] = "closed"
                                   /\ owner[x] \notin engOpen'

(* xpdev_free is reached from two places: the failure path of probe_one,  *)
(* which has just closed the engine device and its handle, and remove_one *)
(* after qdma_device_close.  No other step frees an object.                *)
LEMMA NextFreeStep ==
  IInv /\ EngineOpenTracked /\ HndlClosed /\ [Next]_vars => FreeStep
<1> SUFFICES ASSUME IInv, EngineOpenTracked, HndlClosed, [Next]_vars,
                    NEW x \in Addrs, x \notin freed, x \in freed'
             PROVE  hndl'[x] = "closed" /\ owner[x] \notin engOpen'
  BY DEF FreeStep
<1>1. ASSUME NEW d \in PDevs, ProbeInit(d) PROVE hndl'[x] = "closed" /\ owner[x] \notin engOpen'
  <2>1. /\ pc[d] = "listed"
        /\ freed' = freed \cup {xp[d]}
        /\ hndl' = [hndl EXCEPT ![xp[d]] = "closed"]
        /\ engOpen' = engOpen \ {d}
    BY <1>1 DEF ProbeInit, XpdevFree
  <2>2. x = xp[d] /\ owner[x] = d
    BY <2>1 DEF IInv, ObjectsOwned, Listed
  <2>3. QED
    BY <2>1, <2>2 DEF IInv, TypeOK
<1>2. ASSUME NEW d \in PDevs, RemoveFree(d) PROVE hndl'[x] = "closed" /\ owner[x] \notin engOpen'
  <2>1. /\ pc[d] = "closed"
        /\ freed' = freed \cup {xp[d]}
        /\ UNCHANGED <<hndl, engOpen>>
    BY <1>2 DEF RemoveFree, XpdevFree
  <2>2. x = xp[d] /\ owner[x] = d
    BY <2>1 DEF IInv, ObjectsOwned, Listed
  <2>3. QED
    BY <2>1, <2>2 DEF HndlClosed, EngineOpenTracked
<1>3. ASSUME NEW d \in PDevs,
             ProbeOpen(d) \/ ProbeAlloc(d) \/ RemoveCleanup(d) \/ RemoveClose(d)
      PROVE  FALSE
  BY <1>3 DEF ProbeOpen, ProbeAlloc, RemoveCleanup, RemoveClose
<1>4. ASSUME NEW n \in NlProcs,
             (\E i \in ReqIdx : NlLookup(n, i)) \/ (\E add \in BOOLEAN : NlQueueOp(n, add))
      PROVE  FALSE
  BY <1>4 DEF NlLookup, NlQueueOp
<1>5. CASE UNCHANGED vars
  BY <1>5 DEF vars
<1>6. QED
  BY <1>1, <1>2, <1>3, <1>4, <1>5 DEF Next

(* FreeAfterClose: on every path of probe_one and remove_one, an xpdev is *)
(* freed only when its engine device is closed and its dev_hndl released, *)
(* for every number of devices, addresses and command handlers.           *)
THEOREM FreeAfterCloseThm == Spec => FreeAfterClose
<1>1. Init => HndlClosed
  BY DEF Init, HndlClosed
<1>2. Init => EngineOpenTracked
  BY DEF Init, EngineOpenTracked
<1>3. IInv /\ EngineOpenTracked /\ HndlClosed /\ [Next]_vars => [FreeStep]_vars
  BY NextFreeStep
<1>4. QED
  BY <1>1, <1>2, <1>3, InitIInv, NextIInv, NextEngineOpen, NextHndlClosed,
     PTL DEF Spec, FreeAfterClose, FreeStep
====
