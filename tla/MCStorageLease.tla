---------------------------- MODULE MCStorageLease ----------------------------
(* StorageLease for TLC: two coordinator processes race for one run.        *)
EXTENDS StorageLease
=============================================================================
