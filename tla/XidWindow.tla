------------------------------ MODULE XidWindow ------------------------------
(***************************************************************************)
(* xid_rep_window_ of rpcc: the sorted list of the xids reported to be     *)
(* answered or given up, whose consecutive beginning is merged into its    *)
(* first element, and update_xid_rep, which got_pdu and call1 both call    *)
(* for the same xid, in any order and more than once.                      *)
(*                                                                         *)
(* Module Rpc keeps the reported xids as a set and takes for xid_rep any n *)
(* with IsFront(n, acked); WindowIsExact is what justifies it.  The client *)
(* of module Dispatch calls it.                                            *)
(*                                                                         *)
(* A definition marked mutant is a wrong variant of the one after it.      *)
(***************************************************************************)
EXTENDS Integers, SequencesExt

CONSTANT MaxXid     \* bound: the xids a client issues

ASSUME WindowAssumption == MaxXid \in Nat

Xids == 1..MaxXid

VARIABLES
  window,    \* xid_rep_window_
  reported   \* history: the xids update_xid_rep was called for

\* 0 is pushed by the constructor of rpcc.
EmptyWindow == window = <<0>> /\ reported = {}

\* The list with x before its first larger element, or at its end.
AtEnd(s, x)    == Append(s, x)                                     \* mutant
Inserted(s, x) ==
  LET i == SelectInSeq(s, LAMBDA y : y > x)
  IN  IF i = 0 THEN Append(s, x) ELSE InsertAt(s, i, x)

\* The compress loop at the element it of the list s: elements are popped in
\* front of it as long as the front is the number before it, then it moves on.
OnlyNeighbour(s, it) == it = 2 /\ Head(s) + 1 = s[it]             \* mutant
MergesWith(s, it)    == Head(s) + 1 = s[it]

\* Where the loop is: the list, which is never empty, and the index of it.
Loops == [xids : Seq(Nat) \ {<<>>}, it : Nat \ {0}]

compress[l \in Loops] ==
  IF l.it > Len(l.xids) THEN l.xids
  ELSE IF MergesWith(l.xids, l.it)
    THEN compress[[xids |-> Tail(l.xids), it |-> l.it - 1]]
    ELSE compress[[xids |-> l.xids, it |-> l.it + 1]]

Updated(s, x) ==
  IF x <= Head(s) THEN s ELSE compress[[xids |-> Inserted(s, x), it |-> 2]]

\* A reply (got_pdu) or the end of a call (call1) reports the xid.
UpdateXidRep(x) ==
  /\ window'   = Updated(window, x)
  /\ reported' = reported \cup {x}

-----------------------------------------------------------------------------
\* The front is exact: every xid up to it was reported and the next one was
\* not.  Were it too high, the server would drop replies a caller waits for;
\* were it too low, the server would keep them for ever.  The rest of the list
\* is what was reported beyond the front, in order; reporting an xid twice is
\* harmless ("I don't think there's any harm in maybe doing it twice", call1).
WindowIsExact ==
  /\ 1..Head(window) \subseteq reported /\ Head(window) + 1 \notin reported
  /\ {window[i] : i \in 2..Len(window)} \ {Head(window)} =
       {x \in reported : x > Head(window)}
  /\ \A i, j \in 1..Len(window) : i < j => window[i] <= window[j]

=============================================================================
