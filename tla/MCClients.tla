----------------------------- MODULE MCClients -----------------------------
(* Module Clients for TLC: messages are interchangeable.                   *)
EXTENDS Clients, TLC

CONSTANTS m1, m2, m3, t1, g1

Symmetry == Permutations(Msgs)
=============================================================================
