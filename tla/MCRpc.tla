-------------------------------- MODULE MCRpc --------------------------------
(* The instances of Rpc that TLC checks.                                     *)
EXTENDS RpcInvariant, FiniteSets, TLC

\* The workers of the pool are interchangeable.
WorkerSymmetry == Permutations(Workers)

\* What registers the handler earlier than the first request that it is for is
\* in the queue changes nothing in between, so that TLC may leave it out.
LateRegistration ==
  known' /\ ~known => \E m \in jobs : hdr[m.clt][m.xid].proc = "op"

CONSTANT Made   \* the calls that a client with a nonce has behind it

\* One client, b, is bound and has made further calls, one after the other and
\* undisturbed, on the first connection (one with nonce 0 has only made bind()),
\* with nothing left in flight; the server has its handler registered, or not
\* yet if only bind() was called.  The others have made all their calls before,
\* when no server could be reached, and were told timeout_failure.  Runs that
\* start here spend their bounds on the calls that follow.
MadeBy(b)       == IF b \in PlainClients THEN 1 ELSE Made
Only(b, v, w)   == [c \in Clients |-> IF c = b THEN v ELSE w]
UpTo(n, v, w)   == [x \in Xids |-> IF x <= n THEN v ELSE w]
All(v)          == [x \in Xids |-> v]

BoundInitOf(b, n) ==
  /\ xid       = Only(b, n + 1, MaxXid + 1)
  /\ bound     = Only(b, 1, 0)
  /\ cancelled = Only(b, FALSE, FALSE)
  /\ chan      = Only(b, 1, NoConn)
  /\ acked     = Only(b, 1..n, Xids)
  /\ st        = Only(b, UpTo(n, "returned", "idle"), All("returned"))
  /\ hdr       = Only(b, [x \in Xids |->
                           IF x \in 2..n
                             THEN [proc |-> "op", nonce |-> 1, rep |-> x - 1]
                             ELSE NoHeader],
                      [x \in Xids |-> [NoHeader EXCEPT !.rep = x - 1]])
  /\ ch        = Only(b, UpTo(n, 1, NoConn), All(NoConn))
  /\ ret       = Only(b, UpTo(n, "ok", "none"), All("timeout"))
  /\ val       = Only(b, UpTo(n, 1, 0), All(0))
  /\ nconn     = 1
  /\ cliDead   = {}
  /\ srvDead   = {}
  /\ reqs      = {}
  /\ replies   = {}
  /\ srv       = "up"
  /\ inc       = 1
  /\ jobs      = {}
  /\ wk        = [w \in Workers |-> IdleWorker]
  /\ mark      = Only(b, IF b \in PlainClients THEN 0 ELSE n - 1, 0)
  /\ win       = Only(b, [x \in Xids |->
                           IF b \notin PlainClients /\ x \in n - 1..n
                             THEN "done" ELSE "none"], All("none"))
  /\ last      = Only(b, IF b \in PlainClients THEN NoConn ELSE 1, NoConn)
  /\ kept      = {}
  /\ known \in IF n > 1 THEN {TRUE} ELSE BOOLEAN
  /\ unknown   = {}
  /\ execs     = Only(b, UpTo(n, 1, 0), All(0))

BoundInit == \E b \in Clients : BoundInitOf(b, MadeBy(b))

BoundSpec == BoundInit /\ [][Next]_vars

FairBoundSpec == BoundSpec /\ Fairness

=============================================================================
