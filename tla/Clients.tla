------------------------------ MODULE Clients ------------------------------
(***************************************************************************)
(* The runtime with a client that calls its API in any order, or with the   *)
(* terminal interface.                                                      *)
(***************************************************************************)
EXTENDS ReactorMailbox, InteractiveMode

VARIABLE client

ClientsInit ==
    /\ client \in {"any", "terminal"}
    /\ InterfaceInit

ClientsNext ==
    /\ UNCHANGED client
    /\ \/ client = "any" /\ Next /\ UNCHANGED uiVars
       \/ client = "terminal" /\ InterfaceNext

ClientsSpec == ClientsInit /\ [][ClientsNext]_<<client, vars, uiVars>>

\* The runtime's properties are about its own variables; those of the interface
\* are about what it shows while it is the client.
TerminalSound == client = "terminal" => InterfaceSound
=============================================================================
