----------------------------- MODULE MCMainLoop -----------------------------
(* Instances of MainLoop for TLC. *)
EXTENDS MainLoop

CONSTANTS d1, d2, v1, x1

Sources == [fd \in Fd |-> CASE fd = v1 -> "dvr" [] fd = x1 -> "external" [] OTHER -> "device"]
=============================================================================
