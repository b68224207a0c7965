------------------------------- MODULE ByteFifo -------------------------------
(***************************************************************************)
(* A bounded first-in first-out buffer of bytes whose delivery may fail.   *)
(* A byte is named by its position in the stream of the bytes accepted, so *)
(* the bytes delivered are 0, 1, 2, ... when none is lost or out of order  *)
(* and no delivery failed.  One that fails may have put the first of its   *)
(* bytes into the sink; they are delivered again.                          *)
(***************************************************************************)
EXTENDS Integers, Sequences

CONSTANT Size     \* bytes the buffer holds

VARIABLES
  accepted,       \* number of bytes accepted
  delivered,      \* number of bytes delivered
  failed,         \* number of deliveries that failed
  sink            \* what arrived

fifoVars == <<accepted, delivered, failed, sink>>

Init == accepted = 0 /\ delivered = 0 /\ failed = 0 /\ sink = <<>>

\* The next n bytes arrive.
Arrive(n) ==
  /\ delivered + n <= accepted
  /\ sink' = sink \o [k \in 1 .. n |-> delivered + k - 1]

Accept(n) ==
  /\ accepted + n <= delivered + Size
  /\ accepted' = accepted + n
  /\ UNCHANGED <<delivered, failed, sink>>
Deliver(n) == Arrive(n) /\ delivered' = delivered + n /\ UNCHANGED <<accepted, failed>>
Fail(n) == Arrive(n) /\ failed' = failed + 1 /\ UNCHANGED <<accepted, delivered>>

Next == \E n \in 0 .. Size : Accept(n) \/ Deliver(n) \/ Fail(n)

Spec == Init /\ [][Next]_fifoVars

=============================================================================
