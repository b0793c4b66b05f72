---------------------------- MODULE MCNetworkDevices ----------------------------
(* Small instances of NetworkDevices: three slots, one more address than   *)
(* slots so that a full table has to evict.                                *)
EXTENDS NetworkDevices
=================================================================================
