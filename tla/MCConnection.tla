----------------------------- MODULE MCConnection -----------------------------
(* The instances of Connection that TLC checks.                              *)
EXTENDS Connection, TLC

SendSymmetry == Permutations(Sends)

=============================================================================
