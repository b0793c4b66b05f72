------------------------------ MODULE DeviceTable ------------------------------
(***************************************************************************)
(* The network device table of DW1000Ranging: the array _networkDevices    *)
(* together with the count _networkDevicesNumber, and the three functions  *)
(* that change it or look something up in it.                              *)
(*                                                                         *)
(* A table is a record t:                                                  *)
(*   t.dev   the array, a function on Slot (init() fills all MAX_DEVICES); *)
(*   t.num   _networkDevicesNumber; only the slots below it are in use.    *)
(* A device is a record with at least the fields addr (_shortAddress),     *)
(* index (_index), quality (_quality) and age, the time since the last     *)
(* noteActivity(), saturating just above INACTIVITY_TIME.                  *)
(*                                                                         *)
(* A few operators are wrong on purpose (IsBest, AddWithoutLimit,          *)
(* AddWithoutSearch, RemoveWithoutIndex, RemoveCopyingPastLast,            *)
(* InactiveSlotsOnePast, InactiveSlotsAfterFirst): each is a slip the code *)
(* could have made, kept to see that a property notices it.                *)
(***************************************************************************)
EXTENDS Integers

CONSTANTS
  MAX_DEVICES,     \* length of the array _networkDevices (12 in the code)
  INACTIVITY_TIME  \* a device silent for longer is inactive (2000 ms)

ASSUME MaxDevicesAssumption == MAX_DEVICES \in Nat \ {0}
ASSUME InactivityAssumption == INACTIVITY_TIME \in Nat

Slot == 0 .. (MAX_DEVICES - 1)
Count == 0 .. MAX_DEVICES

Used(t) == {i \in Slot : i < t.num}

Listed(t) == {t.dev[i].addr : i \in Used(t)}

(* searchDistantDevice: the slots in use that hold the address.            *)
SlotsOf(t, a) == {i \in Used(t) : t.dev[i].addr = a}

Age == 0 .. (INACTIVITY_TIME + 1)

Older(age) == IF age > INACTIVITY_TIME THEN age ELSE age + 1

IsInactive(d) == d.age > INACTIVITY_TIME

InactiveSlotsOnePast(t) == {i \in Slot : i <= t.num /\ IsInactive(t.dev[i])}
InactiveSlotsAfterFirst(t) == {i \in Used(t) : i > 0 /\ IsInactive(t.dev[i])}

InactiveSlots(t) == {i \in Used(t) : IsInactive(t.dev[i])}

(* The slot the loop of addNetworkDevices leaves in worstQuality: the      *)
(* first one with the lowest quality.                                      *)
IsBest(t, w) ==
  \A j \in Used(t) : \/ t.dev[w].quality > t.dev[j].quality
                     \/ t.dev[w].quality = t.dev[j].quality /\ w <= j

IsWorst(t, w) ==
  \A j \in Used(t) : \/ t.dev[w].quality < t.dev[j].quality
                     \/ t.dev[w].quality = t.dev[j].quality /\ w <= j

Put(t, i, d) == [t.dev EXCEPT ![i] = [d EXCEPT !.index = i]]

(* addNetworkDevices(device): the tables it may leave behind. The result   *)
(* is a set only because "the worst slot" is stated and not computed.      *)
AddWithoutLimit(t, d) ==
  IF d.addr \in Listed(t) THEN {t}
  ELSE {[dev |-> Put(t, t.num, d), num |-> t.num + 1]}

AddWithoutSearch(t, d) ==
  IF t.num < MAX_DEVICES
  THEN {[dev |-> Put(t, t.num, d), num |-> t.num + 1]}
  ELSE {[t EXCEPT !.dev = Put(t, w, d)] : w \in {i \in Used(t) : IsWorst(t, i)}}

AddNetworkDevice(t, d) ==
  IF d.addr \in Listed(t) THEN {t}
  ELSE IF t.num < MAX_DEVICES
  THEN {[dev |-> Put(t, t.num, d), num |-> t.num + 1]}
  ELSE {[t EXCEPT !.dev = Put(t, w, d)] : w \in {i \in Used(t) : IsWorst(t, i)}}

(* removeNetworkDevices(index): the last device moves into the hole. The   *)
(* code does not test that the index is still below the count.             *)
RemoveWithoutIndex(t, i) ==
  [dev |-> IF i # t.num - 1 THEN [t.dev EXCEPT ![i] = t.dev[t.num - 1]] ELSE t.dev,
   num |-> t.num - 1]

RemoveCopyingPastLast(t, i) ==
  [dev |-> IF t.num \in Slot THEN Put(t, i, t.dev[t.num]) ELSE t.dev, num |-> t.num - 1]

RemoveNetworkDevice(t, i) ==
  [dev |-> IF i # t.num - 1 THEN Put(t, i, t.dev[t.num - 1]) ELSE t.dev,
   num |-> t.num - 1]

(* What every table must satisfy between two operations: no two slots in   *)
(* use hold the same address, so that searchDistantDevice is unambiguous,  *)
(* and every device knows the slot it is in.                               *)
UniqueAddresses(t) ==
  \A i, j \in Used(t) : t.dev[i].addr = t.dev[j].addr => i = j

IndexIsPosition(t) == \A i \in Used(t) : t.dev[i].index = i

TableOK(t) == UniqueAddresses(t) /\ IndexIsPosition(t)
================================================================================
