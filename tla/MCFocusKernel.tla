---------------------------- MODULE MCFocusKernel ----------------------------
(* FocusKernel on small instances: the symmetry of its workers and actions. *)
EXTENDS FocusKernel, TLC

\* Workers and actions are interchangeable: no definition orders them.
Symmetry == Permutations(Worker) \cup Permutations(Action)
=============================================================================
