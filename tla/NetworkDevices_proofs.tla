------------------------ MODULE NetworkDevices_proofs --------------------------
(***************************************************************************)
(* The table of a node stays well typed and consistent, evicts the worst   *)
(* device and implements the set of known devices, for every length of the *)
(* array, every set of addresses and every inactivity time.                *)
(*                                                                         *)
(* The type invariant is not inductive alone: removeNetworkDevices does    *)
(* not test the count before it decrements it.  What keeps the count from  *)
(* going below zero is that a sweep holds no more indices than there are   *)
(* devices (SweepWithinCount), even once the indices are stale.            *)
(***************************************************************************)
EXTENDS NetworkDevices, DeviceTable_proofs, FiniteSetTheorems

LEMMA DevicesAreDevices == DeviceSet(Device) /\ Table = TableOf(Device)
  BY DEF DeviceSet, Device, Table, TableOf

LEMMA NewDeviceType ==
  ASSUME NEW a \in Address \cup {NoAddress}, NEW q \in Quality
  PROVE  NewDevice(a, q) \in Device
<1>1. 0 \in Slot
  BY MaxDevicesAssumption DEF Slot
<1>2. 0 \in Age
  BY InactivityAssumption DEF Age
<1> QED
  BY <1>1, <1>2 DEF NewDevice, Device

LEMMA OlderType == \A age \in Age : Older(age) \in Age
  BY InactivityAssumption DEF Older, Age

Inv == TypeOK /\ TableConsistent /\ SweepWithinCount

LEMMA InitInv == Init => Inv
<1> SUFFICES ASSUME Init PROVE Inv
  OBVIOUS
<1>1. PICK q \in Quality :
        table = [dev |-> [i \in Slot |-> NewDevice(NoAddress, q)], num |-> 0]
  BY DEF Init
<1>2. 0 \in Count /\ Used(table) = {}
  BY <1>1, MaxDevicesAssumption DEF Count, Used, Slot
<1>3. TypeOK
  BY <1>1, <1>2, NewDeviceType DEF Init, TypeOK, Table
<1>4. TableConsistent
  BY <1>2 DEF TableConsistent, TableOK, UniqueAddresses, IndexIsPosition
<1>5. SweepWithinCount
  BY <1>1, FS_EmptySet DEF Init, SweepWithinCount
<1> QED
  BY <1>3, <1>4, <1>5 DEF Inv

(* Changing the age and the quality of devices in place disturbs nothing.  *)
LEMMA RefreshKeepsInv ==
  ASSUME Inv, sweep' = sweep, NEW u \in Table, table' = u, u.num = table.num,
         \A i \in Slot : /\ u.dev[i].addr = table.dev[i].addr
                         /\ u.dev[i].index = table.dev[i].index
  PROVE  Inv'
<1>1. TypeOK'
  BY DEF Inv, TypeOK
<1>2. Used(u) = Used(table)
  BY DEF Used
<1>3. TableOK(u)
  BY <1>2 DEF Inv, TableConsistent, TableOK, UniqueAddresses, IndexIsPosition, Used
<1>4. TableConsistent'
  BY <1>3 DEF TableConsistent
<1>5. SweepWithinCount'
  BY DEF Inv, SweepWithinCount
<1> QED
  BY <1>1, <1>4, <1>5 DEF Inv

LEMMA NextInv == Inv /\ [Next]_vars => Inv'
<1> SUFFICES ASSUME Inv, [Next]_vars PROVE Inv'
  OBVIOUS
<1>0. /\ table \in Table /\ table \in TableOf(Device) /\ sweep \in SUBSET Slot
      /\ TableOK(table) /\ DeviceSet(Device)
      /\ table.dev \in [Slot -> Device] /\ table.num \in Count
  BY DevicesAreDevices DEF Inv, TypeOK, TableConsistent, Table
<1>1. ASSUME NEW a \in Address, NEW q \in Quality, AddDevice(a, q)
      PROVE  Inv'
  <2> DEFINE d == NewDevice(a, q)
  <2>1. d \in Device
    BY NewDeviceType
  <2> HIDE DEF d
  <2>2. table' \in AddNetworkDevice(table, d) /\ sweep = {} /\ sweep' = {}
    BY <1>1 DEF AddDevice, d
  <2>3. table' \in TableOf(Device)
    BY <1>0, <2>1, <2>2, AddType
  <2>4. TableOK(table')
    BY <1>0, <2>1, <2>2, AddTableOK
  <2>5. table'.num \in Nat
    BY <2>3 DEF TableOf, Count
  <2>6. Cardinality(sweep') <= table'.num
    BY <2>2, <2>5, FS_EmptySet
  <2> QED
    BY <2>2, <2>3, <2>4, <2>6, DevicesAreDevices
       DEF Inv, TypeOK, TableConsistent, SweepWithinCount
<1>2. ASSUME NEW a \in Address, NEW q \in Quality, NoteRange(a, q)
      PROVE  Inv'
  <2>1. PICK i \in Slot :
          table' = [table EXCEPT !.dev[i] = [[@ EXCEPT !.age = 0] EXCEPT !.quality = q]]
    BY <1>2 DEF NoteRange, SlotsOf, Used
  <2>2. 0 \in Age
    BY InactivityAssumption DEF Age
  <2>3. table' \in Table
    <3>1. [[table.dev[i] EXCEPT !.age = 0] EXCEPT !.quality = q] \in Device
      <4>1. [table.dev[i] EXCEPT !.age = 0] \in Device
        BY <1>0, <2>2 DEF Device
      <4> QED
        BY <4>1 DEF Device
    <3>2. table' = [table EXCEPT !.dev = [@ EXCEPT ![i] =
                      [[table.dev[i] EXCEPT !.age = 0] EXCEPT !.quality = q]]]
      BY <1>0, <2>1 DEF Table, Device
    <3> QED
      BY <1>0, <3>1, <3>2 DEF Table
  <2>4. \A j \in Slot : /\ table'.dev[j].addr = table.dev[j].addr
                        /\ table'.dev[j].index = table.dev[j].index
    BY <1>0, <2>1 DEF Table, Device
  <2>5. table'.num = table.num /\ sweep' = sweep
    BY <1>0, <1>2, <2>1 DEF Table, NoteRange
  <2> QED
    BY <2>3, <2>4, <2>5, RefreshKeepsInv
<1>3. ASSUME NEW a \in Address, NoteActivity(a)
      PROVE  Inv'
  <2>1. PICK i \in Slot : table' = [table EXCEPT !.dev[i].age = 0]
    BY <1>3 DEF NoteActivity, SlotsOf, Used
  <2>2. 0 \in Age
    BY InactivityAssumption DEF Age
  <2>3. table' \in Table
    BY <1>0, <2>1, <2>2 DEF Table, Device
  <2>4. \A j \in Slot : /\ table'.dev[j].addr = table.dev[j].addr
                        /\ table'.dev[j].index = table.dev[j].index
    BY <1>0, <2>1 DEF Table, Device
  <2>5. table'.num = table.num /\ sweep' = sweep
    BY <1>0, <1>3, <2>1 DEF Table, NoteActivity
  <2> QED
    BY <2>3, <2>4, <2>5, RefreshKeepsInv
<1>4. CASE CheckForInactiveDevices
  <2>1. table' = table /\ sweep' = InactiveSlots(table)
    BY <1>4 DEF CheckForInactiveDevices
  <2>2. sweep' \in SUBSET Used(table) /\ sweep' \in SUBSET Slot
    BY <2>1 DEF InactiveSlots, Used
  <2>3. Cardinality(sweep') <= table.num
    BY <1>0, <2>2, UsedWithinCount
  <2> QED
    BY <1>0, <2>1, <2>2, <2>3 DEF Inv, TypeOK, TableConsistent, SweepWithinCount
<1>5. CASE RemoveNextInactive
  <2>1. PICK i \in sweep : /\ table' = RemoveNetworkDevice(table, i)
                           /\ sweep' = sweep \ {i}
    BY <1>5 DEF RemoveNextInactive
  <2>2. /\ IsFiniteSet(sweep) /\ Cardinality(sweep) \in Nat
        /\ Cardinality(sweep) <= table.num
    BY <1>0, SlotsFinite DEF Inv, SweepWithinCount
  <2>3. Cardinality(sweep') = Cardinality(sweep) - 1 /\ Cardinality(sweep') \in Nat
    BY <1>0, <2>1, <2>2, FS_RemoveElement, SlotsFinite
  <2>4. table.num > 0
    BY <1>0, <2>2, <2>3 DEF Count
  <2>5. table'.num = table.num - 1
    BY <2>1 DEF RemoveNetworkDevice
  <2>6. table' \in TableOf(Device)
    BY <1>0, <2>1, <2>4, RemoveType
  <2>7. TableOK(table')
    BY <1>0, <2>1, <2>4, RemoveTableOK
  <2>8. Cardinality(sweep') <= table'.num
    BY <1>0, <2>2, <2>3, <2>5 DEF Count
  <2> QED
    BY <1>0, <2>1, <2>6, <2>7, <2>8, DevicesAreDevices
       DEF Inv, TypeOK, TableConsistent, SweepWithinCount
<1>6. CASE Elapse
  <2>1. table' = [table EXCEPT !.dev =
                    [i \in Slot |-> [table.dev[i] EXCEPT !.age = Older(@)]]]
    BY <1>6 DEF Elapse
  <2>2. \A i \in Slot : [table.dev[i] EXCEPT !.age = Older(@)] \in Device
    BY <1>0, OlderType DEF Device
  <2>3. table' \in Table
    BY <1>0, <2>1, <2>2 DEF Table
  <2>4. \A j \in Slot : /\ table'.dev[j].addr = table.dev[j].addr
                        /\ table'.dev[j].index = table.dev[j].index
    BY <1>0, <2>1 DEF Table, Device
  <2>5. table'.num = table.num /\ sweep' = sweep
    BY <1>0, <1>6, <2>1 DEF Table, Elapse
  <2> QED
    BY <2>3, <2>4, <2>5, RefreshKeepsInv
<1>7. CASE UNCHANGED vars
  BY <1>7 DEF vars, Inv, TypeOK, TableConsistent, SweepWithinCount
<1> QED
  BY <1>1, <1>2, <1>3, <1>4, <1>5, <1>6, <1>7 DEF Next

(* The inductive invariant of the table and its sweeps.                    *)
THEOREM Invariance == Spec => []Inv
  BY InitInv, NextInv, PTL DEF Spec

(* Every table the operations of DW1000Ranging can produce has the type of *)
(* a table; in particular the count stays between 0 and MAX_DEVICES.       *)
THEOREM TypeCorrect == Spec => []TypeOK
<1>1. Inv => TypeOK
  BY DEF Inv
<1> QED
  BY <1>1, Invariance, PTL

(* No address is ever listed twice, and _index is always the slot.         *)
THEOREM Consistent == Spec => []TableConsistent
<1>1. Inv => TableConsistent
  BY DEF Inv
<1> QED
  BY <1>1, Invariance, PTL

(* A sweep never removes more devices than there are: the count of type    *)
(* uint8_t does not wrap below zero, whatever indices have gone stale.     *)
THEOREM SweepNeverUnderflows == Spec => []SweepWithinCount
<1>1. Inv => SweepWithinCount
  BY DEF Inv
<1> QED
  BY <1>1, Invariance, PTL

(* Outside a sweep, a device is dropped only from a full table, and then   *)
(* one of the lowest quality.                                              *)
LEMMA StepEvictsWorst ==
  ASSUME Inv, [Next]_vars, sweep = {}, NEW i \in Used(table),
         table.dev[i].addr \notin Listed(table')
  PROVE  /\ table.num = MAX_DEVICES
         /\ \A j \in Used(table) : table.dev[i].quality <= table.dev[j].quality
<1>0. /\ table \in Table /\ table \in TableOf(Device) /\ DeviceSet(Device)
      /\ table.dev \in [Slot -> Device] /\ table.num \in Count
  BY DevicesAreDevices DEF Inv, TypeOK, Table
<1>1. ~(table'.num = table.num /\ \A j \in Slot : table'.dev[j].addr = table.dev[j].addr)
  BY DEF Listed, Used
<1>2. PICK a \in Address, q \in Quality : AddDevice(a, q)
  <2>1. ASSUME NEW a \in Address, NEW q \in Quality, NoteRange(a, q)
        PROVE  FALSE
    <3>1. PICK k \in Slot :
            table' = [table EXCEPT !.dev[k] = [[@ EXCEPT !.age = 0] EXCEPT !.quality = q]]
      BY <2>1 DEF NoteRange, SlotsOf, Used
    <3>2. /\ table'.num = table.num
          /\ \A j \in Slot : table'.dev[j].addr = table.dev[j].addr
      BY <1>0, <3>1 DEF Table, Device
    <3> QED
      BY <1>1, <3>2
  <2>2. ASSUME NEW a \in Address, NoteActivity(a)
        PROVE  FALSE
    <3>1. PICK k \in Slot : table' = [table EXCEPT !.dev[k].age = 0]
      BY <2>2 DEF NoteActivity, SlotsOf, Used
    <3>2. /\ table'.num = table.num
          /\ \A j \in Slot : table'.dev[j].addr = table.dev[j].addr
      BY <1>0, <3>1 DEF Table, Device
    <3> QED
      BY <1>1, <3>2
  <2>3. ~Elapse
    <3> SUFFICES ASSUME Elapse PROVE FALSE
      OBVIOUS
    <3>1. table' = [table EXCEPT !.dev =
                      [k \in Slot |-> [table.dev[k] EXCEPT !.age = Older(@)]]]
      BY DEF Elapse
    <3>2. /\ table'.num = table.num
          /\ \A j \in Slot : table'.dev[j].addr = table.dev[j].addr
      BY <1>0, <3>1 DEF Table, Device
    <3> QED
      BY <1>1, <3>2
  <2>4. ~CheckForInactiveDevices /\ ~(UNCHANGED vars) /\ ~RemoveNextInactive
    BY <1>1 DEF CheckForInactiveDevices, vars, RemoveNextInactive
  <2> QED
    BY <2>1, <2>2, <2>3, <2>4 DEF Next
<1> DEFINE d == NewDevice(a, q)
<1>3. d \in Device
  BY NewDeviceType
<1> HIDE DEF d
<1>4. table' \in AddNetworkDevice(table, d)
  BY <1>2 DEF AddDevice, d
<1>5. table' # table
  BY <1>1
<1>6. ~(table.num < MAX_DEVICES)
  <2> SUFFICES ASSUME table.num < MAX_DEVICES PROVE FALSE
    OBVIOUS
  <2>1. table' = [dev |-> Put(table, table.num, d), num |-> table.num + 1]
    BY <1>4, <1>5 DEF AddNetworkDevice
  <2>2. table.num \in Slot
    BY <1>0, MaxDevicesAssumption DEF Slot, Count
  <2>3. i \in Slot /\ i < table.num /\ i # table.num
    BY <1>0 DEF Used, Slot, Count
  <2>4. table'.dev[i] = table.dev[i]
    BY <1>0, <1>3, <2>1, <2>2, <2>3, PutLemma
  <2>5. i \in Used(table')
    BY <1>0, <2>1, <2>3 DEF Used, Slot, Count
  <2> QED
    BY <2>4, <2>5 DEF Listed
<1>7. table.num = MAX_DEVICES
  BY <1>0, <1>6, MaxDevicesAssumption DEF Count
<1>8. PICK w \in Used(table) : /\ IsWorst(table, w)
                               /\ table' = [table EXCEPT !.dev = Put(table, w, d)]
  BY <1>4, <1>5, <1>6 DEF AddNetworkDevice
<1>9. i = w
  <2> SUFFICES ASSUME i # w PROVE FALSE
    OBVIOUS
  <2>1. i \in Slot /\ w \in Slot
    BY DEF Used
  <2>2. table'.dev = Put(table, w, d) /\ table'.num = table.num
    BY <1>0, <1>8 DEF Table
  <2>3. table'.dev[i] = table.dev[i]
    BY <1>0, <1>3, <2>1, <2>2, PutLemma
  <2>4. i \in Used(table')
    BY <2>2 DEF Used
  <2> QED
    BY <2>3, <2>4 DEF Listed
<1>10. \A j \in Used(table) : table.dev[j].quality \in Int
  BY <1>0, QualityAssumption DEF Used, Device
<1>11. \A j \in Used(table) : table.dev[i].quality <= table.dev[j].quality
  BY <1>8, <1>9, <1>10 DEF IsWorst
<1> QED
  BY <1>7, <1>11

(* addNetworkDevices drops a device only from a full table, and then one   *)
(* of the lowest quality.                                                  *)
THEOREM EvictionTakesTheWorst == Spec => EvictsWorst
<1> DEFINE A == sweep = {} =>
       \A i \in Used(table) :
         table.dev[i].addr \notin Listed(table') =>
           /\ table.num = MAX_DEVICES
           /\ \A j \in Used(table) : table.dev[i].quality <= table.dev[j].quality
<1>1. Inv /\ [Next]_vars => A
  BY StepEvictsWorst
<1>2. Inv /\ [Next]_vars => [A]_vars
  BY <1>1
<1> QED
  BY <1>2, Invariance, PTL DEF Spec, EvictsWorst

---------------------------------------------------------------------------
(* NetworkDevices implements KnownDevices.  That an address is listed once *)
(* makes the entries of different slots different, so that there are as    *)
(* many of them as the count says and writing over one slot drops exactly  *)
(* one.                                                                    *)

(* The entries are numbered by the slots in use.                           *)
LEMMA KnownCardinality ==
  ASSUME NEW t \in Table, TableOK(t)
  PROVE  Cardinality(Known(t)) = t.num
<1>1. t.num \in Nat /\ \A k \in 1 .. t.num : k - 1 \in Used(t)
  BY MaxDevicesAssumption DEF Table, Count, Used, Slot
<1> DEFINE f == [k \in 1 .. t.num |-> Entry(t.dev[k - 1])]
<1>2. f \in [1 .. t.num -> Known(t)]
  BY <1>1 DEF Known
<1>3. ASSUME NEW j \in 1 .. t.num, NEW k \in 1 .. t.num, f[j] = f[k]
      PROVE  j = k
  <2>1. t.dev[j - 1].addr = t.dev[k - 1].addr
    BY <1>3 DEF Entry
  <2>2. j - 1 = k - 1
    BY <1>1, <2>1 DEF TableOK, UniqueAddresses
  <2> QED
    BY <1>1, <2>2
<1>4. ASSUME NEW e \in Known(t)
      PROVE  \E k \in 1 .. t.num : f[k] = e
  <2>1. PICK i \in Used(t) : e = Entry(t.dev[i])
    BY DEF Known
  <2>2. i + 1 \in 1 .. t.num /\ (i + 1) - 1 = i
    BY <1>1, <2>1 DEF Used, Slot
  <2> QED
    BY <2>1, <2>2
<1>5. f \in Bijection(1 .. t.num, Known(t))
  BY <1>2, <1>3, <1>4 DEF Bijection, Injection, Surjection, IsInjective
<1>6. ExistsBijection(1 .. t.num, Known(t))
  BY <1>5 DEF ExistsBijection
<1> QED
  BY <1>1, <1>6, FS_CountingElements

LEMMA SameEntries ==
  ASSUME NEW t, NEW u, u.num = t.num,
         \A j \in Used(t) : Entry(u.dev[j]) = Entry(t.dev[j])
  PROVE  Known(u) = Known(t)
  BY DEF Known, Used

(* Writing over the device of one slot in use replaces its entry only.     *)
LEMMA ReplaceOne ==
  ASSUME NEW t, TableOK(t), NEW u, u.num = t.num, NEW w \in Used(t),
         \A j \in Used(t) \ {w} : Entry(u.dev[j]) = Entry(t.dev[j])
  PROVE  Known(u) = (Known(t) \ {Entry(t.dev[w])}) \cup {Entry(u.dev[w])}
<1>1. Used(u) = Used(t)
  BY DEF Used
<1>2. \A j \in Used(t) \ {w} : Entry(t.dev[j]) # Entry(t.dev[w])
  BY DEF TableOK, UniqueAddresses, Entry
<1> QED
  BY <1>1, <1>2 DEF Known

(* addNetworkDevices joins the device, or changes nothing.                 *)
LEMMA AddJoins ==
  ASSUME NEW t \in Table, TableOK(t), NEW a \in Address, NEW q \in Quality,
         NEW u \in AddNetworkDevice(t, NewDevice(a, q)), Known(u) # Known(t)
  PROVE  /\ \A d \in Known(t) : d[1] # a
         /\ \/ /\ Cardinality(Known(t)) < MAX_DEVICES
               /\ Known(u) = Known(t) \cup {<<a, q>>}
            \/ /\ Cardinality(Known(t)) = MAX_DEVICES
               /\ \E worst \in Known(t) :
                    /\ \A d \in Known(t) : worst[2] <= d[2]
                    /\ Known(u) = (Known(t) \ {worst}) \cup {<<a, q>>}
<1>0. t.dev \in [Slot -> Device] /\ t.num \in Count /\ Cardinality(Known(t)) = t.num
  BY KnownCardinality DEF Table
<1> DEFINE d == NewDevice(a, q)
<1>1. d \in Device /\ d.addr = a /\ d.quality = q
  BY NewDeviceType DEF NewDevice
<1>2. \A i \in Slot : /\ [d EXCEPT !.index = i].quality = q
                      /\ [d EXCEPT !.index = i].addr = a
  BY DEF NewDevice
<1>3. \A i \in Slot : /\ Entry(Put(t, i, d)[i]) = <<a, q>>
                      /\ \A j \in Slot \ {i} : Put(t, i, d)[j] = t.dev[j]
  BY <1>0, <1>2 DEF Put, Entry
<1> HIDE DEF d
<1>4. u \in AddNetworkDevice(t, d) /\ u # t
  BY DEF d
<1>5. a \notin Listed(t)
  BY <1>1, <1>4 DEF AddNetworkDevice
<1>6. \A e \in Known(t) : e[1] # a
  BY <1>5 DEF Known, Listed, Entry
<1>7. CASE t.num < MAX_DEVICES
  <2>1. u = [dev |-> Put(t, t.num, d), num |-> t.num + 1]
    BY <1>1, <1>4, <1>5, <1>7 DEF AddNetworkDevice
  <2>2. t.num \in Slot /\ Used(u) = Used(t) \cup {t.num} /\ t.num \notin Used(t)
    BY <1>0, <1>7, <2>1, MaxDevicesAssumption DEF Slot, Used, Count
  <2>3. \A j \in Used(t) : u.dev[j] = t.dev[j]
    BY <1>3, <2>1, <2>2 DEF Used
  <2>4. Entry(u.dev[t.num]) = <<a, q>>
    BY <1>3, <2>1, <2>2
  <2>5. Known(u) = Known(t) \cup {<<a, q>>}
    BY <2>2, <2>3, <2>4 DEF Known
  <2> QED
    BY <1>0, <1>6, <1>7, <2>5
<1>8. CASE ~(t.num < MAX_DEVICES)
  <2>1. PICK w \in Used(t) : IsWorst(t, w) /\ u = [t EXCEPT !.dev = Put(t, w, d)]
    BY <1>1, <1>4, <1>5, <1>8 DEF AddNetworkDevice
  <2>2. w \in Slot /\ u.dev = Put(t, w, d) /\ u.num = t.num
    BY <2>1 DEF Used, Table
  <2>3. \A j \in Used(t) \ {w} : Entry(u.dev[j]) = Entry(t.dev[j])
    BY <1>3, <2>2 DEF Used
  <2>4. Entry(u.dev[w]) = <<a, q>>
    BY <1>3, <2>2
  <2>5. Known(u) = (Known(t) \ {Entry(t.dev[w])}) \cup {<<a, q>>}
    BY <2>2, <2>3, <2>4, ReplaceOne
  <2>6. \A j \in Used(t) : t.dev[w].quality <= t.dev[j].quality
    <3>1. \A j \in Used(t) : t.dev[j].quality \in Int
      BY <1>0, QualityAssumption DEF Used, Device
    <3> QED
      BY <2>1, <3>1 DEF IsWorst
  <2>7. \A e \in Known(t) : Entry(t.dev[w])[2] <= e[2]
    BY <2>6 DEF Known, Entry
  <2>8. Entry(t.dev[w]) \in Known(t) /\ t.num = MAX_DEVICES
    BY <1>0, <1>8, MaxDevicesAssumption DEF Known, Count
  <2> QED
    BY <1>0, <1>6, <2>5, <2>7, <2>8
<1> QED
  BY <1>7, <1>8

(* removeNetworkDevices forgets one device, at any index.                  *)
LEMMA RemoveForgets ==
  ASSUME NEW t \in Table, TableOK(t), NEW i \in Slot, t.num > 0
  PROVE  \E e \in Known(t) : Known(RemoveNetworkDevice(t, i)) = Known(t) \ {e}
<1>0. t.dev \in [Slot -> Device] /\ t.num \in Count
  BY DEF Table
<1> DEFINE k == t.num - 1
           u == RemoveNetworkDevice(t, i)
<1>1. k \in Slot /\ k \in Used(t)
  BY <1>0, MaxDevicesAssumption DEF Slot, Count, Used
<1>2. u.num = k
  BY DEF RemoveNetworkDevice
<1>3. Used(u) = Used(t) \ {k}
  BY <1>0, <1>1, <1>2 DEF Used, Slot, Count
<1>4. \A j, l \in Used(t) : j # l => Entry(t.dev[j]) # Entry(t.dev[l])
  BY DEF TableOK, UniqueAddresses, Entry
<1>5. CASE i = k \/ i \notin Used(t)
  <2>1. \A j \in Used(u) : u.dev[j] = t.dev[j]
    BY <1>0, <1>1, <1>3, <1>5 DEF RemoveNetworkDevice, Put, Used
  <2>2. Known(u) = Known(t) \ {Entry(t.dev[k])}
    <3> HIDE DEF u, k
    <3> QED
      BY <1>1, <1>3, <1>4, <2>1 DEF Known
  <2> QED
    BY <1>1, <2>2 DEF Known
<1>6. CASE i # k /\ i \in Used(t)
  <2>1. u.dev = [t.dev EXCEPT ![i] = [t.dev[k] EXCEPT !.index = i]]
    BY <1>6 DEF RemoveNetworkDevice, Put
  <2>2. Entry(u.dev[i]) = Entry(t.dev[k])
    BY <1>0, <1>1, <2>1 DEF Entry, Device
  <2>3. \A j \in Slot \ {i} : u.dev[j] = t.dev[j]
    BY <1>0, <2>1
  <2>4. Known(u) = Known(t) \ {Entry(t.dev[i])}
    <3>1. \A j \in Used(u) : Entry(u.dev[j]) =
                               Entry(t.dev[IF j = i THEN k ELSE j])
      BY <1>3, <2>2, <2>3 DEF Used
    <3> HIDE DEF u, k
    <3>2. Known(u) \subseteq Known(t) \ {Entry(t.dev[i])}
      BY <1>1, <1>3, <1>4, <1>6, <3>1 DEF Known
    <3>3. ASSUME NEW e \in Known(t) \ {Entry(t.dev[i])}
          PROVE  e \in Known(u)
      <4>1. PICK j \in Used(t) : e = Entry(t.dev[j])
        BY DEF Known
      <4>2. j # i
        BY <3>3, <4>1
      <4>3. CASE j = k
        BY <1>3, <1>6, <3>1, <4>1, <4>3 DEF Known
      <4>4. CASE j # k
        BY <1>3, <3>1, <4>1, <4>2, <4>4 DEF Known
      <4> QED
        BY <4>3, <4>4
    <3> QED
      BY <3>2, <3>3
  <2> QED
    BY <1>6, <2>4 DEF Known
<1> QED
  BY <1>5, <1>6

(* FiniteSets as the two modules see it.                                   *)
LEMMA SameCardinality ==
  ASSUME NEW S
  PROVE  Abstract!Cardinality(S) = Cardinality(S)
  BY DEF Abstract!Cardinality, Cardinality

(* Every step of the table is a step of the set, or leaves it as it is.    *)
LEMMA StepImplements ==
  ASSUME Inv, [Next]_vars
  PROVE  Abstract!Next \/ Known(table') = Known(table)
<1>0. /\ table \in Table /\ TableOK(table) /\ sweep \in SUBSET Slot
      /\ table.dev \in [Slot -> Device] /\ table.num \in Count
  BY DEF Inv, TypeOK, TableConsistent, Table
<1>1. ASSUME NEW a \in Address, NEW q \in Quality, AddDevice(a, q)
      PROVE  Abstract!Next \/ Known(table') = Known(table)
  <2>1. table' \in AddNetworkDevice(table, NewDevice(a, q))
    BY <1>1 DEF AddDevice
  <2>2. Known(table') # Known(table) => Abstract!Join(a, q)
    BY <1>0, <2>1, AddJoins, SameCardinality DEF Abstract!Join
  <2> QED
    BY <2>2 DEF Abstract!Next
<1>2. ASSUME NEW a \in Address, NEW q \in Quality, NoteRange(a, q)
      PROVE  Abstract!Next
  <2>1. PICK i \in SlotsOf(table, a) :
          table' = [table EXCEPT !.dev[i] = [[@ EXCEPT !.age = 0] EXCEPT !.quality = q]]
    BY <1>2 DEF NoteRange
  <2>2. i \in Used(table) /\ i \in Slot
    BY DEF SlotsOf, Used
  <2>3. /\ table'.num = table.num
        /\ \A j \in Slot \ {i} : table'.dev[j] = table.dev[j]
        /\ Entry(table'.dev[i]) = <<table.dev[i].addr, q>>
    BY <1>0, <2>1, <2>2 DEF Table, Device, Entry
  <2>4. \A j \in Used(table) \ {i} : Entry(table'.dev[j]) = Entry(table.dev[j])
    BY <2>3 DEF Used
  <2>5. Known(table') =
          (Known(table) \ {Entry(table.dev[i])}) \cup {<<table.dev[i].addr, q>>}
    BY <1>0, <2>2, <2>3, <2>4, ReplaceOne
  <2>6. Entry(table.dev[i]) \in Known(table) /\ Entry(table.dev[i])[1] = table.dev[i].addr
    BY <2>2 DEF Known, Entry
  <2>7. Abstract!Rate(Entry(table.dev[i]), q)
    BY <2>5, <2>6 DEF Abstract!Rate
  <2> QED
    BY <2>6, <2>7 DEF Abstract!Next
<1>3. ASSUME NEW a \in Address, NoteActivity(a)
      PROVE  Known(table') = Known(table)
  <2>1. PICK i \in Slot : table' = [table EXCEPT !.dev[i].age = 0]
    BY <1>3 DEF NoteActivity, SlotsOf, Used
  <2>2. /\ table'.num = table.num
        /\ \A j \in Slot : Entry(table'.dev[j]) = Entry(table.dev[j])
    BY <1>0, <2>1 DEF Table, Device, Entry
  <2> QED
    BY <2>2, SameEntries DEF Used
<1>4. CASE CheckForInactiveDevices
  BY <1>4 DEF CheckForInactiveDevices
<1>5. CASE RemoveNextInactive
  <2>1. PICK i \in sweep : table' = RemoveNetworkDevice(table, i)
    BY <1>5 DEF RemoveNextInactive
  <2>2. table.num > 0
    <3>1. IsFiniteSet(sweep) /\ Cardinality(sweep) \in Nat /\ Cardinality(sweep) # 0
      BY <1>0, <2>1, SlotsFinite, FS_EmptySet
    <3> QED
      BY <1>0, <3>1 DEF Inv, SweepWithinCount, Count
  <2>3. \E e \in Known(table) : Known(table') = Known(table) \ {e}
    BY <1>0, <2>1, <2>2, RemoveForgets
  <2> QED
    BY <2>3 DEF Abstract!Next, Abstract!Forget
<1>6. CASE Elapse
  <2>1. table' = [table EXCEPT !.dev =
                    [i \in Slot |-> [table.dev[i] EXCEPT !.age = Older(@)]]]
    BY <1>6 DEF Elapse
  <2>2. /\ table'.num = table.num
        /\ \A j \in Slot : Entry(table'.dev[j]) = Entry(table.dev[j])
    BY <1>0, <2>1 DEF Table, Device, Entry
  <2> QED
    BY <2>2, SameEntries DEF Used
<1>7. CASE UNCHANGED vars
  BY <1>7 DEF vars
<1> QED
  BY <1>1, <1>2, <1>3, <1>4, <1>5, <1>6, <1>7 DEF Next

(* The array of DW1000Ranging behaves as a set of known devices: each      *)
(* addition and each removal changes it by the one device it is about, and *)
(* an addition to a full table by one of the lowest quality besides.       *)
THEOREM Refinement == Spec => ImplementsKnownDevices
<1>1. Init => Abstract!Init
  <2> SUFFICES ASSUME Init PROVE Known(table) = {}
    BY DEF Abstract!Init
  <2>1. table.num = 0
    BY DEF Init
  <2>2. Used(table) = {}
    BY <2>1, MaxDevicesAssumption DEF Used, Slot
  <2> QED
    BY <2>2 DEF Known
<1>2. Inv /\ [Next]_vars => [Abstract!Next]_(Known(table))
  BY StepImplements
<1> QED
  BY <1>1, <1>2, Invariance, PTL DEF Spec, ImplementsKnownDevices, Abstract!Spec
================================================================================
