----------------------------- MODULE NetworkDevices -----------------------------
(***************************************************************************)
(* The life of one node's device table: devices are added when a frame     *)
(* announces them, refreshed when they are heard, and swept when they have *)
(* been silent for too long.  Only the task that runs loop() touches the   *)
(* table, so the operations follow one another; the sweep of               *)
(* checkForInactiveDevices is one step per iteration of its second loop.   *)
(***************************************************************************)
EXTENDS DeviceTable, FiniteSets

CONSTANTS
  Address,    \* short addresses of the other nodes
  NoAddress,  \* the unset address of a slot that was never used
  Quality     \* values of getReceiveQuality()

ASSUME NoAddressAssumption == NoAddress \notin Address
ASSUME QualityAssumption == Quality \subseteq Int /\ Quality # {}

VARIABLES
  table,  \* _networkDevices and _networkDevicesNumber
  sweep   \* inactiveDevices[]: the slots still to be removed, lowest first

vars == <<table, sweep>>

Device == [addr : Address \cup {NoAddress}, index : Slot,
           quality : Quality, age : Age]

Table == [dev : [Slot -> Device], num : Count]

(* DW1000Device(port, address) followed by setQuality; _index is unset     *)
(* until setIndex.                                                         *)
NewDevice(a, q) == [addr |-> a, index |-> 0, quality |-> q, age |-> 0]

Init ==
  /\ \E q \in Quality :
       table = [dev |-> [i \in Slot |-> NewDevice(NoAddress, q)], num |-> 0]
  /\ sweep = {}

AddDevice(a, q) ==
  /\ sweep = {}
  /\ table' \in AddNetworkDevice(table, NewDevice(a, q))
  /\ UNCHANGED sweep

(* A POLL or POLL_ACK of a listed device: device->noteActivity().          *)
NoteActivity(a) ==
  /\ sweep = {}
  /\ \E i \in SlotsOf(table, a) : table' = [table EXCEPT !.dev[i].age = 0]
  /\ UNCHANGED sweep

(* A RANGE of a listed device also replaces its quality.                   *)
NoteRange(a, q) ==
  /\ sweep = {}
  /\ \E i \in SlotsOf(table, a) :
       table' = [table EXCEPT !.dev[i] = [[@ EXCEPT !.age = 0] EXCEPT !.quality = q]]
  /\ UNCHANGED sweep

(* The first loop of checkForInactiveDevices.                              *)
CheckForInactiveDevices ==
  /\ sweep = {}
  /\ sweep' = InactiveSlots(table)
  /\ UNCHANGED table

(* One iteration of its second loop.                                       *)
RemoveNextInactive ==
  \E i \in sweep :
    /\ \A j \in sweep : i <= j
    /\ table' = RemoveNetworkDevice(table, i)
    /\ sweep' = sweep \ {i}

(* One unit of time passes for every device.                               *)
Elapse ==
  /\ sweep = {}
  /\ table' = [table EXCEPT !.dev =
                 [i \in Slot |-> [table.dev[i] EXCEPT !.age = Older(@)]]]
  /\ UNCHANGED sweep

Next ==
  \/ \E a \in Address, q \in Quality : AddDevice(a, q) \/ NoteRange(a, q)
  \/ \E a \in Address : NoteActivity(a)
  \/ CheckForInactiveDevices
  \/ RemoveNextInactive
  \/ Elapse

Spec == Init /\ [][Next]_vars

(* timerTick() calls checkForInactiveDevices every BLINK_INTERVAL ticks    *)
(* for ever, and runs it to its end.                                       *)
FairSpec ==
  /\ Spec
  /\ WF_vars(CheckForInactiveDevices /\ InactiveSlots(table) # {})
  /\ WF_vars(RemoveNextInactive)

---------------------------------------------------------------------------
TypeOK ==
  /\ table \in Table
  /\ sweep \subseteq Slot

(* Between any two steps the addresses in use are pairwise different and   *)
(* every device's _index is its slot, whatever indices the sweep removed   *)
(* (addNetworkDevices, removeNetworkDevices).                              *)
TableConsistent == TableOK(table)

(* The sweep holds at most as many indices as there are devices, so that   *)
(* _networkDevicesNumber (a uint8_t) is never decremented below zero and   *)
(* slot -1 is never copied, although removeNetworkDevices does not check.  *)
SweepWithinCount == Cardinality(sweep) <= table.num

(* The array, with its count, indices and moves, implements a set of known *)
(* devices: above all, each removal of a sweep drops one device, not two   *)
(* and not none, even at an index that has gone stale.                     *)
Entry(d) == <<d.addr, d.quality>>
Known(t) == {Entry(t.dev[i]) : i \in Used(t)}

Abstract == INSTANCE KnownDevices WITH MaxDevices <- MAX_DEVICES, known <- Known(table)

ImplementsKnownDevices == Abstract!Spec

(* Outside a sweep a device leaves the table only to make room in a full   *)
(* one, and then no device that stays had a lower quality (the "worst"     *)
(* replacement of addNetworkDevices).                                      *)
EvictsWorst ==
  [][sweep = {} =>
       \A i \in Used(table) :
         table.dev[i].addr \notin Listed(table') =>
           /\ table.num = MAX_DEVICES
           /\ \A j \in Used(table) : table.dev[i].quality <= table.dev[j].quality]_vars

(* A device that stays silent does not stay listed: although a sweep may   *)
(* remove the wrong device, it always removes the first inactive one, and  *)
(* an inactive one that survives has moved to a lower slot.                *)
StaleDevicesLeave ==
  \A a \in Address :
    []<>(\A i \in SlotsOf(table, a) : ~IsInactive(table.dev[i]))

(* What the comments of checkForInactiveDevices and timerTick say: "we     *)
(* need to delete the device from the array" is about the devices found    *)
(* inactive, so a sweep deletes no other.                                  *)
SweepDropsOnlyInactive ==
  [][sweep # {} =>
       \A i \in Used(table) :
         table.dev[i].addr \notin Listed(table') => IsInactive(table.dev[i])]_vars
=================================================================================
