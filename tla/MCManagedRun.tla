----------------------------- MODULE MCManagedRun -----------------------------
(* One run of one task, cut into instances by what its environment does. *)
EXTENDS ManagedRun, TLC

Symmetry == Permutations(Answers) \cup Permutations(Requests)

\* Bound: a behaviour is followed until its run is being ended.  Where owners do not die a
\* finish is never taken back, and WaitingIsAnswerable asks nothing of a run that finishes.
UntilItEnds == ~Finishing
================================================================================
