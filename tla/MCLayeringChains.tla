--------------------------- MODULE MCLayeringChains --------------------------
(* Symmetry of the model-checking runs of LayeringChains. *)
EXTENDS LayeringChains, TLC

Symmetry == Permutations(Accounts)

==============================================================================
