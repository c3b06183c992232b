----------------------------- MODULE MCTextHarness -----------------------------
(* TextHarness for TLC: two versions of one sidecar, a PyO3 plugin, a cdylib. *)
EXTENDS TextHarness

MCName(i) == IF i \in {"v1", "v2"} THEN "side" ELSE i
MCMode(i) == CASE i = "py" -> "pyo3" [] i = "lib" -> "cdylib" [] OTHER -> "sidecar"
=============================================================================
