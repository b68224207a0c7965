----------------------------- MODULE BlockDevice -----------------------------
(***************************************************************************)
(* What the volume code expects of readSectors, writeSector and            *)
(* writeSectors (BlockDeviceInterface.h): sectors are moved one after the  *)
(* other between the caller and the place that was asked for; a call may   *)
(* fail, and one that writes may then have stored the sector at hand.      *)
(***************************************************************************)
EXTENDS Integers

CONSTANTS Sectors, Val, NoVal

VARIABLES
  flash,  \* what each sector holds
  op,     \* "none", "read" or "write"
  at,     \* the sector that is moved next
  left,   \* how many are still to be moved
  val,    \* what is written
  got     \* what the last sector read delivered

vars == <<flash, op, at, left, val, got>>

Rest == op' = "none" /\ at' = 0 /\ left' = 0 /\ val' = NoVal /\ got' = NoVal
Init == flash \in [Sectors -> Val] /\ op = "none" /\ at = 0 /\ left = 0 /\ val = NoVal /\ got = NoVal

Start ==
  /\ op = "none" /\ op' \in {"read", "write"}
  /\ at' \in Sectors /\ left' \in Nat
  /\ val' \in Val \cup {NoVal}
  /\ UNCHANGED <<flash, got>>

Deliver ==
  /\ op = "read" /\ left > 0 /\ at \in Sectors
  /\ got' = flash[at]
  /\ at' = at + 1 /\ left' = left - 1
  /\ UNCHANGED <<flash, op, val>>

Stored == [flash EXCEPT ![at] = val]
Store ==
  /\ op = "write" /\ left > 0 /\ at \in Sectors
  /\ flash' = Stored
  /\ at' = at + 1 /\ left' = left - 1
  /\ UNCHANGED <<op, val, got>>

Done == op # "none" /\ left = 0 /\ Rest /\ UNCHANGED flash
\* Only the sector at hand may have changed.
Fail ==
  /\ op # "none" /\ Rest
  /\ \/ UNCHANGED flash
     \/ op = "write" /\ at \in Sectors /\ flash' = Stored

Next == Start \/ Deliver \/ Store \/ Done \/ Fail
Spec == Init /\ [][Next]_vars
=============================================================================
