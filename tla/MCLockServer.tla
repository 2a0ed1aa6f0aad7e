----------------------------- MODULE MCLockServer -----------------------------
(* The instances of LockServer that TLC checks.                              *)
EXTENDS LockServer, TLC

CONSTANTS c1, c2, t1, t2, t3

\* Two threads share a client, as in test 5 of lock_tester.
SharedClient == t1 :> c1 @@ t2 :> c1 @@ t3 :> c2

WorkerSymmetry == Permutations(Workers)

=============================================================================
