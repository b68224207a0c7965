----------------------------- MODULE SectorStore -----------------------------
(***************************************************************************)
(* What the sector cache promises to the file system above it: a store of  *)
(* sectors in which a read returns the last value put, part of which is    *)
(* already durable.  Values reach the device at any time, all of them at   *)
(* the latest by a successful Flush; a restart goes back to what the       *)
(* device holds.  A direct write that fails leaves its sectors as the      *)
(* device has them.                                                        *)
(***************************************************************************)
EXTENDS Integers

CONSTANTS
  Sectors,   \* the sectors of the volume
  Val        \* what a sector can hold

VARIABLES
  store,     \* what a read returns
  durable,   \* what survives a restart
  result     \* what the last operation returned: data, or "ok", "flushed", "error"

storeVars == <<store, durable, result>>

Init ==
  /\ store \in [Sectors -> Val]
  /\ durable = store
  /\ result = "ok"

\* Any operation may also write sectors back to the device.
WriteBack ==
  /\ durable' \in [Sectors -> Val]
  /\ \A s \in Sectors : durable'[s] \in {durable[s], store[s]}

Read(s) == result' = store[s] /\ UNCHANGED store /\ WriteBack

Put(s, v) == result' = "ok" /\ store' = [store EXCEPT ![s] = v] /\ WriteBack

Flush == result' = "flushed" /\ durable' = store /\ UNCHANGED store

\* The operation failed and changed nothing that can be read.
Fail == result' = "error" /\ UNCHANGED store /\ WriteBack

\* w is written straight to the device at the sectors S.
Write(S, w) ==
  /\ result' = "ok"
  /\ store' = [s \in Sectors |-> IF s \in S THEN w[s] ELSE store[s]]
  /\ durable' = [s \in Sectors |-> IF s \in S THEN w[s] ELSE durable[s]]

WriteFails(S, w) ==
  /\ result' = "error"
  /\ durable' \in [Sectors -> Val]
  /\ \A s \in Sectors :
       IF s \in S THEN durable'[s] \in {durable[s], w[s]} /\ store'[s] = durable'[s]
                  ELSE UNCHANGED <<durable[s], store[s]>>
  /\ store' \in [Sectors -> Val]

Restart == result' = "ok" /\ WriteBack /\ store' = durable'

Next ==
  \/ \E s \in Sectors : Read(s) \/ \E v \in Val : Put(s, v)
  \/ Flush \/ Fail \/ Restart
  \/ \E S \in SUBSET Sectors, w \in [Sectors -> Val] : Write(S, w) \/ WriteFails(S, w)

Spec == Init /\ [][Next]_storeVars

=============================================================================
