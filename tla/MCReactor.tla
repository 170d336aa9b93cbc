----------------------------- MODULE MCReactor -----------------------------
(* Instances of Reactor for TLC: the sets are model values named in the cfgs. *)
EXTENDS ReactorMailbox, TLC

CONSTANTS m1, m2, m3, t1, t2, g1, g2

\* Messages, tool calls and signatures are interchangeable, except that a tool
\* call that needs approval is not one that does not.
Symmetry ==
    Permutations(Msgs) \cup Permutations(Sigs)
        \cup Permutations(NeedsApproval) \cup Permutations(ToolIds \ NeedsApproval)
=============================================================================
