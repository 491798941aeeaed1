-------------------------------- MODULE Chains --------------------------------
(* Chains of steps: the STEPS registry (pipeline_kit/pipelines.py), the       *)
(* resource classes (service/resources.py), and the resolution and validation *)
(* of a submitted chain (service/models.py).                                  *)
EXTENDS Naturals, FiniteSets, SequencesExt

CONSTANTS
  Steps,          \* names in STEPS
  InputModels,    \* StepInfo.input_models, as a set of types
  OutputModel,    \* StepInfo.output_model
  ResourceClass,  \* RESOURCE_CLASS: "cpu" or "gpu" for each name
  Presets         \* PRESETS: preset name -> sequence of steps

\* ensure_all_steps_classified: the module is not imported otherwise.
AllStepsClassified == Steps \subseteq DOMAIN ResourceClass

ASSUME RegistryAssumption ==
  /\ AllStepsClassified
  /\ Steps = DOMAIN InputModels /\ Steps = DOMAIN OutputModel

GpuSteps == {s \in Steps : ResourceClass[s] = "gpu"}

(* The registry, classes and presets of the kit                               *)
KitInputModels == [segment            |-> {"Image"},
                   remove_bg          |-> {"Image", "Mask"},
                   generate_multiview |-> {"Cutout"},
                   fit_to_last        |-> {"MultiviewResult"}]
KitOutputModel == [segment            |-> "Mask",
                   remove_bg          |-> "Cutout",
                   generate_multiview |-> "MultiviewResult",
                   fit_to_last        |-> "Mesh"]
KitResourceClass == [s \in DOMAIN KitInputModels |->
                       IF s \in {"segment", "remove_bg"} THEN "cpu" ELSE "gpu"]
FullChain  == <<"segment", "remove_bg", "generate_multiview", "fit_to_last">>
KitPresets == [full |-> FullChain, multiview |-> SubSeq(FullChain, 1, 3),
               cutout |-> SubSeq(FullChain, 1, 2)]

(* A chain is submitted as [preset |-> name] or [steps |-> sequence].         *)
ByPreset(c) == "preset" \in DOMAIN c

ResolveChain(c) == IF ByPreset(c) THEN Presets[c.preset] ELSE c.steps

\* The types in the context of a job when the steps in S have succeeded
Available(c, S) == {"Image"} \cup {OutputModel[c[m]] : m \in S}

\* Mutant: an input may be produced anywhere in the chain.
InputsSatisfied_AnyOrder(c, n) ==
  InputModels[c[n]] \subseteq Available(c, (1 .. Len(c)) \ {n})

InputsSatisfied(c, n) == InputModels[c[n]] \subseteq Available(c, 1 .. (n - 1))

\* validate_chain accepts a resolved chain.
ValidChain(c) ==
  /\ c # <<>>
  /\ ToSet(c) \subseteq Steps
  /\ \A n \in 1 .. Len(c) : InputsSatisfied(c, n)

\* submit() goes on to the idempotency key.
Accepts(c) == (ByPreset(c) => c.preset \in DOMAIN Presets) /\ ValidChain(ResolveChain(c))

\* Mutant: one unit for a job, however many GPU steps it has.
GpuItemCount_PerJob(c) == IF \E n \in 1 .. Len(c) : c[n] \in GpuSteps THEN 1 ELSE 0

\* gpu_item_count: memoized or not, every GPU step counts.
GpuItemCount(c) == Cardinality({n \in 1 .. Len(c) : c[n] \in GpuSteps})

===============================================================================
