------------------------------ MODULE KnownDevices ------------------------------
(***************************************************************************)
(* What a node's device table promises: a set of at most MaxDevices known  *)
(* devices, each with its address and quality, in which an address occurs  *)
(* once.  A device that joins takes nobody's place while there is room,    *)
(* and otherwise the place of one of the lowest quality; nothing that is   *)
(* removed takes another device with it.                                   *)
(***************************************************************************)
EXTENDS Integers, FiniteSets

CONSTANTS MaxDevices, Address, Quality

VARIABLE known

Init == known = {}

Join(a, q) ==
  /\ \A d \in known : d[1] # a
  /\ \/ /\ Cardinality(known) < MaxDevices
        /\ known' = known \cup {<<a, q>>}
     \/ /\ Cardinality(known) = MaxDevices
        /\ \E worst \in known :
             /\ \A d \in known : worst[2] <= d[2]
             /\ known' = (known \ {worst}) \cup {<<a, q>>}

Rate(d, q) == known' = (known \ {d}) \cup {<<d[1], q>>}

Forget(d) == known' = known \ {d}

Next ==
  \/ \E a \in Address, q \in Quality : Join(a, q)
  \/ \E d \in known : Forget(d) \/ \E q \in Quality : Rate(d, q)

Spec == Init /\ [][Next]_known
================================================================================
