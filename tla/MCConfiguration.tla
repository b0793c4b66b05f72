---------------------------- MODULE MCConfiguration ----------------------------
(* Small instances of Configuration.                                       *)
EXTENDS Configuration
================================================================================
