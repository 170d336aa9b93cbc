---------------------------- MODULE MCWorkflow ----------------------------
(* Two nodes and every relation of dependence between them; the first has    *)
(* two targets for one worker.                                               *)
EXTENDS Workflow

CONSTANTS n1, n2

MCOrder == <<n1, n2>>
MCWidth == (n1 :> 2) @@ (n2 :> 1)
MCLimit == (n1 :> 1) @@ (n2 :> 2)
MCTargets == {<<n1, 1>>, <<n1, 2>>, <<n2, 1>>}
=============================================================================
