----------------------------- MODULE MCSessions -----------------------------
(* A log of a few events, a handful of sessions. *)
EXTENDS Sessions, TLC
=============================================================================
