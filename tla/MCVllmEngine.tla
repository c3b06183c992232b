----------------------------- MODULE MCVllmEngine -----------------------------
(* VllmEngine for TLC. *)
EXTENDS VllmEngine
=============================================================================
