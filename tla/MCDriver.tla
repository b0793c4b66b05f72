-------------------------------- MODULE MCDriver --------------------------------
(* Instances of Driver: one core with and without transfers cut short, two *)
(* cores without; and the gentlest of them alone.                          *)
EXTENDS Driver

ThreeBuilds == {b \in Build : b.cores = 1 \/ b.whole}
OneCoreWhole == {[cores |-> 1, whole |-> TRUE]}
================================================================================
