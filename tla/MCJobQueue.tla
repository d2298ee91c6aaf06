----------------------------- MODULE MCJobQueue -----------------------------
(* Values of the constants for the model-checking runs of JobQueue. *)
EXTENDS JobQueue, TLC

CONSTANT EvidenceWorkers   \* the workers that poll for evidence jobs

MCTypes == {"hint", "hypothesis_generation"}
MCHintOnly == {"hint"}
MCTypeOf == [j \in Jobs |-> IF j = "evidence" THEN "hypothesis_generation" ELSE "hint"]
MCOneOwner == [j \in Jobs |-> CHOOSE u \in Users : TRUE]
MCPollHints == [w \in Workers |-> "hint"]
MCPollEach == [w \in Workers |-> IF w \in EvidenceWorkers THEN "hypothesis_generation" ELSE "hint"]
MCWorkerSymmetry == Permutations(Workers \ EvidenceWorkers)
MCHints == {j \in Jobs : MCTypeOf[j] = "hint"}
=============================================================================
