------------------------------ MODULE MCDispatch ------------------------------
(* The instances of Dispatch that TLC checks.                                *)
EXTENDS Dispatch

WorkerSymmetry == Permutations(Workers)

=============================================================================
