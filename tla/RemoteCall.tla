------------------------------ MODULE RemoteCall ------------------------------
(***************************************************************************)
(* What a caller of the RPC library may rely on, without connections,      *)
(* retransmissions, reply windows or server instances.  Each call is       *)
(* issued once and executed at most once.  It succeeds only after it was   *)
(* executed.  A call that fails may have been executed, and may still be:  *)
(* its request is not called back.                                         *)
(***************************************************************************)
EXTENDS Integers

CONSTANT Calls

VARIABLES
  outcome,   \* "none" before the call, then "pending", then its result
  runs       \* how often the handler ran for it

rcVars == <<outcome, runs>>

RCInit ==
  /\ outcome = [k \in Calls |-> "none"]
  /\ runs    = [k \in Calls |-> 0]

IssueCall(k) ==
  /\ outcome[k] = "none"
  /\ outcome' = [outcome EXCEPT ![k] = "pending"]
  /\ UNCHANGED runs

Execute(k) ==
  /\ outcome[k] # "none"
  /\ runs[k] = 0
  /\ runs' = [runs EXCEPT ![k] = 1]
  /\ UNCHANGED outcome

Succeed(k) ==
  /\ outcome[k] = "pending"
  /\ runs[k] = 1
  /\ outcome' = [outcome EXCEPT ![k] = "ok"]
  /\ UNCHANGED runs

Fail(k) ==
  /\ outcome[k] = "pending"
  /\ outcome' = [outcome EXCEPT ![k] = "failed"]
  /\ UNCHANGED runs

RCNext == \E k \in Calls : IssueCall(k) \/ Execute(k) \/ Succeed(k) \/ Fail(k)

RCSpec == RCInit /\ [][RCNext]_rcVars

=============================================================================
