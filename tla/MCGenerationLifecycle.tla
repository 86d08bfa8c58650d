------------------------ MODULE MCGenerationLifecycle ------------------------
(* Symmetry for the safety runs of LifecycleProperties. *)
EXTENDS LifecycleProperties, TLC

ScenePermutations == Permutations(Scene)
=============================================================================
