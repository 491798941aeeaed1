---------------------------- MODULE MCJobService ----------------------------
(* Bounds for model-checking JobService, with a registry of three steps:      *)
(* "cutout" stands for the CPU steps segment and remove_bg, which follow each *)
(* other, and the other two are the GPU steps.                                *)
EXTENDS JobServiceRefinement

CONSTANTS j1, j2

JobSymmetry == Permutations(Jobs)

Registry == {"cutout", "multiview", "mesh"}
Inputs   == [cutout |-> {"Image"}, multiview |-> {"Cutout"}, mesh |-> {"Views"}]
Outputs  == [cutout |-> "Cutout", multiview |-> "Views", mesh |-> "Mesh"]
Classes  == [cutout |-> "cpu", multiview |-> "gpu", mesh |-> "gpu"]
PresetChains == [full |-> <<"cutout", "multiview", "mesh">>]

Request(key, chain) == [key |-> key, chain |-> chain, image |-> "photo"]
ListOf(chain)       == [steps |-> chain]

\* A preset, a list of steps, and chains that submit() refuses: steps in the
\* wrong order, an input nobody makes, unknown names, no step at all
Submissions == {Request("full", [preset |-> "full"]),
                Request("multiview", ListOf(<<"cutout", "multiview">>)),
                Request("refused", ListOf(<<"multiview", "cutout">>)),
                Request("refused", ListOf(<<"cutout", "mesh">>)),
                Request("refused", ListOf(<<"cutoff">>)),
                Request("refused", [preset |-> "fast"]),
                Request("refused", ListOf(<<>>))}

\* The service time average: one drain target per item
Long == {2}

=============================================================================
