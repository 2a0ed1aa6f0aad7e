------------------------------- MODULE Timespec -------------------------------
(***************************************************************************)
(* The arithmetic of deadlines: struct timespec, add_timespec and          *)
(* cmp_timespec.                                                           *)
(***************************************************************************)
EXTENDS Integers

NsPerSec == 1000000000
NsPerMs  == 1000000

\* What clock_gettime yields and pthread_cond_timedwait accepts (any other
\* time makes it return EINVAL at once, the mutex still held).
ValidTime(t) == t.sec \in Nat /\ t.ns \in 0..NsPerSec - 1

ForgetsTheSecond(a, ms) ==                                          \* mutant
  LET ns == a.ns + (ms % 1000) * NsPerMs IN
  [sec |-> a.sec + ms \div 1000, ns |-> IF ns > NsPerSec THEN ns - NsPerSec ELSE ns]

NoCarry(a, ms) ==                                                   \* mutant
  [sec |-> a.sec + ms \div 1000, ns |-> a.ns + (ms % 1000) * NsPerMs]

\* add_timespec for a valid a: what is left of the seconds is carried by a
\* loop, which such an a enters once at most, and not for exactly NsPerSec.
Plus(a, ms) ==
  LET ns == a.ns + (ms % 1000) * NsPerMs IN
  IF ns > NsPerSec THEN [sec |-> a.sec + ms \div 1000 + 1, ns |-> ns - NsPerSec]
                   ELSE [sec |-> a.sec + ms \div 1000,     ns |-> ns]

\* cmp_timespec(a, b) > 0.
Later(a, b) == a.sec > b.sec \/ (a.sec = b.sec /\ a.ns > b.ns)

=============================================================================
