---------------------------- MODULE MCClients --------------------------------
(* Bounds for model-checking Clients: one agent, one watcher; "cutout" stands *)
(* for the CPU steps of the kit.                                              *)
EXTENDS Clients

CONSTANTS j1, j2

Registry == {"cutout", "multiview"}
Inputs   == [cutout |-> {"Image"}, multiview |-> {"Cutout"}]
Outputs  == [cutout |-> "Cutout", multiview |-> "Views"]
Classes  == [cutout |-> "cpu", multiview |-> "gpu"]
PresetChains == [multiview |-> <<"cutout", "multiview">>]

Multiview == [key |-> "k", chain |-> [preset |-> "multiview"], image |-> "photo"]
Goals     == {Multiview}

\* The service time average: one drain target per item
Long == {2}

=============================================================================
