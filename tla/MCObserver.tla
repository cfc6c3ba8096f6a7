----------------------------- MODULE MCObserver -----------------------------
(* Finite values of the constants of Observer for TLC.                     *)
EXTENDS Observer, TLC

Symmetric == Permutations(Observers) \cup Permutations(Observables)
=============================================================================
