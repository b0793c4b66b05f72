-------------------------- MODULE DeviceTable_proofs ---------------------------
(***************************************************************************)
(* What addNetworkDevices and removeNetworkDevices preserve, for a table   *)
(* of any length and any kind of device record.                            *)
(***************************************************************************)
EXTENDS DeviceTable, FiniteSetTheorems, TLAPS

(* D is a set of device records in which setIndex changes the index only.  *)
DeviceSet(D) ==
  \A d \in D, i \in Slot :
    /\ [d EXCEPT !.index = i] \in D
    /\ [d EXCEPT !.index = i].index = i
    /\ [d EXCEPT !.index = i].addr = d.addr

TableOf(D) == [dev : [Slot -> D], num : Count]

(* Writing a device into a slot keeps the array an array of devices,       *)
(* stores the address and the index, and leaves the other slots alone.     *)
LEMMA PutLemma ==
  ASSUME NEW D, DeviceSet(D), NEW t \in TableOf(D), NEW d \in D, NEW i \in Slot
  PROVE  /\ Put(t, i, d) \in [Slot -> D]
         /\ Put(t, i, d)[i].addr = d.addr
         /\ Put(t, i, d)[i].index = i
         /\ \A j \in Slot \ {i} : Put(t, i, d)[j] = t.dev[j]
<1>1. t.dev \in [Slot -> D]
  BY DEF TableOf
<1> DEFINE e == [d EXCEPT !.index = i]
<1>2. e \in D /\ e.index = i /\ e.addr = d.addr
  BY DEF DeviceSet
<1>3. Put(t, i, d) = [t.dev EXCEPT ![i] = e]
  BY DEF Put
<1> HIDE DEF e
<1> QED
  BY <1>1, <1>2, <1>3

(* addNetworkDevices leaves a table of devices.                            *)
LEMMA AddType ==
  ASSUME NEW D, DeviceSet(D), NEW t \in TableOf(D), NEW d \in D,
         NEW u \in AddNetworkDevice(t, d)
  PROVE  u \in TableOf(D)
<1>1. t.dev \in [Slot -> D] /\ t.num \in Count
  BY DEF TableOf
<1>2. CASE d.addr \in Listed(t)
  BY <1>2 DEF AddNetworkDevice
<1>3. CASE d.addr \notin Listed(t) /\ t.num < MAX_DEVICES
  <2>1. u = [dev |-> Put(t, t.num, d), num |-> t.num + 1]
    BY <1>3 DEF AddNetworkDevice
  <2>2. t.num \in Slot /\ t.num + 1 \in Count
    BY <1>1, <1>3, MaxDevicesAssumption DEF Slot, Count
  <2>3. Put(t, t.num, d) \in [Slot -> D]
    BY <2>2, PutLemma
  <2> QED
    BY <2>1, <2>2, <2>3 DEF TableOf
<1>4. CASE d.addr \notin Listed(t) /\ ~(t.num < MAX_DEVICES)
  <2>1. PICK w \in Slot : u = [t EXCEPT !.dev = Put(t, w, d)]
    BY <1>4 DEF AddNetworkDevice, Used
  <2>2. Put(t, w, d) \in [Slot -> D]
    BY PutLemma
  <2> QED
    BY <2>1, <2>2 DEF TableOf
<1> QED
  BY <1>2, <1>3, <1>4

(* addNetworkDevices keeps a consistent table consistent.                  *)
LEMMA AddTableOK ==
  ASSUME NEW D, DeviceSet(D), NEW t \in TableOf(D), NEW d \in D, TableOK(t),
         NEW u \in AddNetworkDevice(t, d)
  PROVE  TableOK(u)
<1>1. t.dev \in [Slot -> D] /\ t.num \in Count
  BY DEF TableOf
<1>2. CASE d.addr \in Listed(t)
  BY <1>2 DEF AddNetworkDevice
<1>3. CASE d.addr \notin Listed(t)
  <2>1. PICK w \in Slot, n \in Count :
          /\ u = [dev |-> Put(t, w, d), num |-> n]
          /\ \A i \in Slot : i < n => i < t.num \/ i = w
    <3>1. CASE t.num < MAX_DEVICES
      <4>1. t.num \in Slot /\ t.num + 1 \in Count
        BY <1>1, <3>1, MaxDevicesAssumption DEF Slot, Count
      <4>2. \A i \in Slot : i < t.num + 1 => i < t.num \/ i = t.num
        BY <1>1 DEF Slot, Count
      <4>3. u = [dev |-> Put(t, t.num, d), num |-> t.num + 1]
        BY <1>3, <3>1 DEF AddNetworkDevice
      <4> QED
        BY <4>1, <4>2, <4>3
    <3>2. CASE ~(t.num < MAX_DEVICES)
      <4>1. PICK w \in Slot : u = [t EXCEPT !.dev = Put(t, w, d)]
        BY <1>3, <3>2 DEF AddNetworkDevice, Used
      <4>2. u = [dev |-> Put(t, w, d), num |-> t.num]
        BY <4>1 DEF TableOf
      <4> QED
        BY <1>1, <4>2
    <3> QED
      BY <3>1, <3>2
  <2>2. /\ u.dev[w].addr = d.addr /\ u.dev[w].index = w
        /\ \A j \in Slot \ {w} : u.dev[j] = t.dev[j]
    BY <2>1, PutLemma
  <2>3. \A i \in Used(u) : i = w \/ (i \in Used(t) /\ u.dev[i] = t.dev[i])
    BY <2>1, <2>2 DEF Used
  <2>4. \A i \in Used(t) : t.dev[i].addr # d.addr
    BY <1>3 DEF Listed
  <2> QED
    BY <2>2, <2>3, <2>4 DEF TableOK, UniqueAddresses, IndexIsPosition
<1> QED
  BY <1>2, <1>3

(* removeNetworkDevices leaves a table of devices, at any index, as long   *)
(* as the table was not empty.                                             *)
LEMMA RemoveType ==
  ASSUME NEW D, DeviceSet(D), NEW t \in TableOf(D), NEW i \in Slot, t.num > 0
  PROVE  RemoveNetworkDevice(t, i) \in TableOf(D)
<1>1. t.dev \in [Slot -> D] /\ t.num \in Count
  BY DEF TableOf
<1>2. t.num - 1 \in Slot /\ t.num - 1 \in Count
  BY <1>1, MaxDevicesAssumption DEF Slot, Count
<1>3. Put(t, i, t.dev[t.num - 1]) \in [Slot -> D]
  BY <1>1, <1>2, PutLemma
<1> QED
  BY <1>1, <1>2, <1>3 DEF TableOf, RemoveNetworkDevice

(* removeNetworkDevices keeps a consistent table consistent, even when the *)
(* index is a stale one that is no longer below the count.                 *)
LEMMA RemoveTableOK ==
  ASSUME NEW D, DeviceSet(D), NEW t \in TableOf(D), NEW i \in Slot, t.num > 0,
         TableOK(t)
  PROVE  TableOK(RemoveNetworkDevice(t, i))
<1>1. t.dev \in [Slot -> D] /\ t.num \in Count
  BY DEF TableOf
<1> DEFINE k == t.num - 1
           u == RemoveNetworkDevice(t, i)
<1>2. k \in Slot /\ k \in Used(t)
  BY <1>1, MaxDevicesAssumption DEF Slot, Count, Used
<1>3. u.num = k
  BY DEF RemoveNetworkDevice
<1>4. \A j \in Used(u) : j \in Used(t) /\ j # k
  BY <1>1, <1>2, <1>3 DEF Used, Slot, Count
<1>5. CASE i = k
  <2>1. u.dev = t.dev
    BY <1>5 DEF RemoveNetworkDevice
  <2> QED
    BY <1>4, <2>1 DEF TableOK, UniqueAddresses, IndexIsPosition
<1>6. CASE i # k
  <2>1. u.dev = Put(t, i, t.dev[k])
    BY <1>6 DEF RemoveNetworkDevice
  <2>2. /\ u.dev[i].addr = t.dev[k].addr /\ u.dev[i].index = i
        /\ \A j \in Slot \ {i} : u.dev[j] = t.dev[j]
    BY <1>1, <1>2, <2>1, PutLemma
  <2>3. \A j \in Used(u) : j # i => u.dev[j] = t.dev[j]
    BY <2>2 DEF Used
  <2>4. \A j \in Used(u) : j \in Used(t) /\ j # k
    BY <1>4
  <2> HIDE DEF u, k
  <2>5. UniqueAddresses(u)
    BY <1>2, <2>2, <2>3, <2>4 DEF TableOK, UniqueAddresses
  <2>6. IndexIsPosition(u)
    BY <2>2, <2>3, <2>4 DEF TableOK, IndexIsPosition
  <2>7. TableOK(u)
    BY <2>5, <2>6 DEF TableOK
  <2> QED
    BY <2>7 DEF u
<1> QED
  BY <1>5, <1>6

(* A set of slots is finite; a set of used slots is no larger than the     *)
(* count.                                                                  *)
LEMMA SlotsFinite ==
  ASSUME NEW S \in SUBSET Slot
  PROVE  IsFiniteSet(S) /\ Cardinality(S) \in Nat
<1>1. IsFiniteSet(Slot)
  BY FS_Interval, MaxDevicesAssumption DEF Slot
<1>2. IsFiniteSet(S)
  BY <1>1, FS_Subset
<1> QED
  BY <1>2, FS_CardinalityType

LEMMA UsedWithinCount ==
  ASSUME NEW t, t.num \in Count, NEW S \in SUBSET Used(t)
  PROVE  Cardinality(S) <= t.num
<1>1. Used(t) = 0 .. (t.num - 1)
  BY MaxDevicesAssumption DEF Used, Slot, Count
<1>2. IsFiniteSet(Used(t)) /\ Cardinality(Used(t)) = t.num
  <2>1. t.num \in Int /\ t.num - 1 \in Int /\ 0 \in Int /\ t.num >= 0
    BY DEF Count
  <2>2. /\ IsFiniteSet(0 .. (t.num - 1))
        /\ Cardinality(0 .. (t.num - 1)) =
             IF 0 > t.num - 1 THEN 0 ELSE (t.num - 1) - 0 + 1
    BY <2>1, FS_Interval
  <2>3. (IF 0 > t.num - 1 THEN 0 ELSE (t.num - 1) - 0 + 1) = t.num
    BY <2>1
  <2> QED
    BY <1>1, <2>2, <2>3
<1>3. Cardinality(S) <= Cardinality(Used(t))
  BY <1>2, FS_Subset
<1> QED
  BY <1>2, <1>3

(* addNetworkDevices lists no other address than the one it was given.     *)
LEMMA AddListed ==
  ASSUME NEW D, DeviceSet(D), NEW t \in TableOf(D), NEW d \in D,
         NEW u \in AddNetworkDevice(t, d)
  PROVE  Listed(u) \subseteq Listed(t) \cup {d.addr}
<1>1. t.dev \in [Slot -> D] /\ t.num \in Count
  BY DEF TableOf
<1>2. CASE d.addr \in Listed(t)
  BY <1>2 DEF AddNetworkDevice
<1>3. CASE d.addr \notin Listed(t) /\ t.num < MAX_DEVICES
  <2>1. u.dev = Put(t, t.num, d) /\ u.num = t.num + 1
    BY <1>3 DEF AddNetworkDevice
  <2>2. t.num \in Slot
    BY <1>1, <1>3, MaxDevicesAssumption DEF Slot, Count
  <2>3. /\ u.dev[t.num].addr = d.addr
        /\ \A j \in Slot \ {t.num} : u.dev[j] = t.dev[j]
    BY <2>1, <2>2, PutLemma
  <2>4. \A j \in Slot : j \in Used(u) <=> j \in Used(t) \/ j = t.num
    BY <1>1, <2>1 DEF Used, Slot, Count
  <2> QED
    BY <2>2, <2>3, <2>4 DEF Listed, Used
<1>4. CASE d.addr \notin Listed(t) /\ ~(t.num < MAX_DEVICES)
  <2>1. PICK w \in Used(t) : u = [t EXCEPT !.dev = Put(t, w, d)]
    BY <1>4 DEF AddNetworkDevice
  <2>2. w \in Slot /\ u.dev = Put(t, w, d) /\ u.num = t.num
    BY <2>1 DEF Used, TableOf
  <2>3. u.dev[w].addr = d.addr /\ \A j \in Slot \ {w} : u.dev[j] = t.dev[j]
    BY <2>2, PutLemma
  <2>4. Used(u) = Used(t)
    BY <2>2 DEF Used
  <2> QED
    BY <2>1, <2>3, <2>4 DEF Listed, Used
<1> QED
  BY <1>2, <1>3, <1>4

(* removeNetworkDevices lists no address that was not listed.              *)
LEMMA RemoveListed ==
  ASSUME NEW D, DeviceSet(D), NEW t \in TableOf(D), NEW i \in Slot, t.num > 0
  PROVE  Listed(RemoveNetworkDevice(t, i)) \subseteq Listed(t)
<1>1. t.dev \in [Slot -> D] /\ t.num \in Count
  BY DEF TableOf
<1> DEFINE k == t.num - 1
           u == RemoveNetworkDevice(t, i)
<1>2. k \in Used(t) /\ k \in Slot
  BY <1>1, MaxDevicesAssumption DEF Slot, Count, Used
<1>3. Used(u) \subseteq Used(t)
  BY <1>1 DEF RemoveNetworkDevice, Used, Slot, Count
<1>4. \A j \in Slot : u.dev[j].addr = t.dev[j].addr \/ u.dev[j].addr = t.dev[k].addr
  <2>1. CASE i = k
    BY <2>1 DEF RemoveNetworkDevice
  <2>2. CASE i # k
    <3>1. u.dev = Put(t, i, t.dev[k])
      BY <2>2 DEF RemoveNetworkDevice
    <3>2. t.dev[k] \in D
      BY <1>1, <1>2
    <3>3. /\ Put(t, i, t.dev[k])[i].addr = t.dev[k].addr
          /\ \A j \in Slot \ {i} : Put(t, i, t.dev[k])[j] = t.dev[j]
      BY <3>2, PutLemma
    <3> QED
      BY <3>1, <3>3
  <2> QED
    BY <2>1, <2>2
<1> HIDE DEF u, k
<1>5. Listed(u) \subseteq Listed(t)
  BY <1>2, <1>3, <1>4 DEF Listed, Used
<1> QED
  BY <1>5 DEF u
================================================================================
