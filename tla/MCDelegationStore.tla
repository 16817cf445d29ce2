--------------------------- MODULE MCDelegationStore ---------------------------
(* Instances of DelegationStore for TLC. *)
EXTENDS DelegationStore, TLC

Symmetry == Permutations(Runs) \cup Permutations(Tasks)
              \cup Permutations(Controls) \cup Permutations(Requests)

================================================================================
