------------------------------ MODULE SdSpiCard ------------------------------
(***************************************************************************)
(* The SD card driver over SPI, SdSpiCard.cpp: DedicatedSpiCard, which     *)
(* keeps a multi-sector transfer open between two calls and goes on with   *)
(* it when the next call asks for the next sector, and SharedSpiCard below *)
(* it, whose syncDevice ends such a transfer before any command.           *)
(*                                                                         *)
(* The card is external: it answers commands while it is selected, moves   *)
(* sectors of an open transfer in ascending order, and ignores what is     *)
(* sent while it is not.  One step of the model is one exchange with the   *)
(* card (a command, a sector, the end of a transfer); the card may be busy *)
(* for too long, refuse, or send an error token in any of them, but it     *)
(* obeys a CMD12 that it receives while it sends sectors.                  *)
(***************************************************************************)
EXTENDS Integers

CONSTANTS
  LastSector,  \* the last sector of the card
  Val,         \* what a sector can hold
  NoVal,       \* no sector
  MaxFaults    \* bound on the exchanges that fail

ASSUME CardAssumption ==
  /\ LastSector \in Nat /\ MaxFaults \in Nat
  /\ NoVal \notin Val
Sectors == 0 .. LastSector

VARIABLES
  mState,      \* m_state: "idle", "read", "write"
  mCurSector,  \* m_curSector
  spiActive,   \* m_spiActive: the card is selected
  sharedSpi,   \* m_sharedSpi: other devices use the bus between two calls
  cardState,   \* external: "tran", "data" (it sends sectors), "rcv", "rcvOne"
  cardSector,  \* external: the sector the card sends or stores next
  flash,       \* external: what its sectors hold
  pc, op,      \* where the driver is, and in which call
  at, left,    \* the sector the call moves next, and how many are left
  val, got,    \* what is written, what the last sector read delivered
  faults       \* exchanges that failed so far

card == <<cardState, cardSector, flash>>
driver == <<mState, mCurSector, spiActive, sharedSpi>>
args == <<op, at, left, val, got>>
vars == <<driver, card, pc, args, faults>>

Places == {"free", "sync", "command", "transfer", "down"}
Flags == {0, 1}
TypeOK ==
  /\ mState \in {"idle", "read", "write"} /\ mCurSector \in 0 .. LastSector + 1
  /\ spiActive \in Flags /\ sharedSpi \in Flags
  /\ cardState \in {"tran", "data", "rcv", "rcvOne"}
  /\ cardSector \in Nat /\ flash \in [Sectors -> Val]
  /\ pc \in Places /\ op \in {"none", "sync", "read", "write", "single"}
  /\ at \in 0 .. LastSector + 1 /\ left \in 0 .. LastSector + 1 /\ at + left <= LastSector + 1
  /\ val \in Val \cup {NoVal} /\ got \in Val \cup {NoVal}
  /\ faults \in Nat

\* After begin().  m_curSector has no initial value.
Init ==
  /\ mState = "idle" /\ mCurSector \in Sectors /\ spiActive = 0 /\ sharedSpi \in Flags
  /\ cardState = "tran" /\ cardSector = 0 /\ flash \in [Sectors -> Val]
  /\ pc = "free" /\ op = "none" /\ at = 0 /\ left = 0 /\ val = NoVal /\ got = NoVal
  /\ faults = 0

-----------------------------------------------------------------------------
\* The state of the card in a transfer: CMD18, CMD25, CMD24.
Transfer == [read |-> "data", write |-> "rcv", single |-> "rcvOne"]

Fault == faults < MaxFaults /\ faults' = faults + 1
NoFault == UNCHANGED faults

\* spiStop: the card is no longer selected.
SpiStop == spiActive' = 0
Return ==
  /\ pc' = "free"
  /\ op' = "none" /\ at' = 0 /\ left' = 0 /\ val' = NoVal /\ got' = NoVal
\* Every failing exchange deselects the card and ends the call.
Fails == SpiStop /\ Return

\* begin: CMD0 and ACMD41 make the card ready whatever it was doing.
Begin(shared) ==
  /\ pc \in {"free", "down"}
  /\ mState' = "idle" /\ cardState' = "tran" /\ sharedSpi' = shared
  /\ SpiStop /\ Return /\ NoFault
  /\ UNCHANGED <<mCurSector, cardSector, flash>>
\* The program does not use a card that begin could not start.
BeginFails ==
  /\ pc \in {"free", "down"}
  /\ mState' = "idle" /\ SpiStop
  /\ pc' = "down" /\ Fault
  /\ UNCHANGED <<mCurSector, sharedSpi, card, args>>

\* A call for n sectors from s; v is written.
Call(call, s, n, v) ==
  /\ pc = "free" /\ n > 0 /\ s + n <= LastSector + 1
  /\ op' = call /\ at' = s /\ left' = n /\ val' = v
  /\ NoFault
  /\ UNCHANGED <<driver, card, got>>
\* Mutant: the open transfer is used wherever it has come to.
GoesOnAnywhere(state, s) == mState = state
\* The open transfer is at s: no command is needed.
GoesOn(state, s) == mState = state /\ s = mCurSector

ReadSectors(s, n) ==
  /\ Call("read", s, n, NoVal)
  /\ pc' = IF GoesOn("read", s) THEN "transfer" ELSE "sync"
WriteSectors(s, n, v) ==
  /\ Call("write", s, n, v)
  /\ pc' = IF GoesOn("write", s) THEN "transfer" ELSE "sync"
\* writeSector with a shared bus, or after setIsolatedSectorWriteCmd(true).
WriteSector(s, v) == Call("single", s, 1, v) /\ pc' = "sync"
SyncDevice ==
  /\ pc = "free" /\ pc' = "sync" /\ op' = "sync"
  /\ NoFault
  /\ UNCHANGED <<driver, card, at, left, val, got>>

-----------------------------------------------------------------------------
(* syncDevice: end an open transfer.                                       *)

Synced == IF op = "sync" THEN Return ELSE pc' = "command" /\ UNCHANGED args

SyncIdle ==
  /\ pc = "sync" /\ mState = "idle"
  /\ Synced /\ NoFault
  /\ UNCHANGED <<driver, card>>

\* readStop: CMD12 selects the card and ends the transfer.
ReadStop ==
  /\ mState' = "idle" /\ SpiStop
  /\ cardState' = "tran"
  /\ UNCHANGED <<mCurSector, sharedSpi, cardSector, flash>>
SyncRead == pc = "sync" /\ mState = "read" /\ ReadStop /\ Synced /\ NoFault
\* CMD12 is obeyed but its answer is bad: the command after it is not sent.
SyncReadFails == pc = "sync" /\ mState = "read" /\ ReadStop /\ Return /\ Fault

\* What STOP_TRAN_TOKEN does: writeStop does not select the card for it.
StopToken == IF spiActive = 1 THEN "tran" ELSE cardState
WriteStop ==
  /\ mState' = "idle" /\ SpiStop
  /\ cardState' = StopToken
  /\ UNCHANGED <<mCurSector, sharedSpi, cardSector, flash>>
SyncWrite == pc = "sync" /\ mState = "write" /\ WriteStop /\ Synced /\ NoFault

\* The card is busy for too long: m_state stays.
WriteStopFails == spiActive = 1 /\ Fault /\ Fails /\ UNCHANGED <<mState, mCurSector, sharedSpi, card>>
SyncWriteFails == pc = "sync" /\ mState = "write" /\ WriteStopFails

-----------------------------------------------------------------------------
(* readStart, writeStart and writeSector: CMD18, CMD25 or CMD24.           *)

\* A card whose transfer never got its stop token may take the command.
Command ==
  /\ pc = "command"
  /\ cardState \in {"tran", "rcv"}
  /\ cardState' = Transfer[op] /\ cardSector' = at
  /\ spiActive' = 1
  /\ IF op = "single" THEN UNCHANGED <<mState, mCurSector>> ELSE mState' = op /\ mCurSector' = at
  /\ pc' = "transfer" /\ NoFault
  /\ UNCHANGED <<sharedSpi, flash, args>>
CommandFails ==
  /\ pc = "command"
  /\ IF cardState = "rcv" THEN NoFault ELSE Fault
  /\ Fails
  /\ UNCHANGED <<mState, mCurSector, sharedSpi, card>>

-----------------------------------------------------------------------------
(* readData and writeData.  A card that is not selected sends nothing: the *)
(* read times out, the answer to a sector is no acceptance.                *)

Moved == at' = at + 1 /\ left' = left - 1 /\ UNCHANGED <<op, val, pc>>

ReadData ==
  /\ pc = "transfer" /\ op = "read" /\ left > 0
  /\ spiActive = 1 /\ cardState = "data" /\ cardSector \in Sectors
  /\ got' = flash[cardSector] /\ cardSector' = cardSector + 1
  /\ Moved /\ NoFault
  /\ UNCHANGED <<driver, cardState, flash>>
ReadDataFails ==
  /\ pc = "transfer" /\ op = "read" /\ left > 0
  /\ \/ spiActive = 1 /\ Fault /\ cardSector' \in {cardSector, cardSector + 1}
     \/ spiActive = 0 /\ NoFault /\ UNCHANGED cardSector
  /\ Fails
  /\ UNCHANGED <<mState, mCurSector, sharedSpi, cardState, flash>>

Writes == pc = "transfer" /\ op \in {"write", "single"} /\ left > 0
\* The card stores a sector of the transfer; one sector ends a CMD24.
Stored == cardSector \in Sectors /\ flash' = [flash EXCEPT ![cardSector] = val]
Received == cardState' = IF cardState = "rcvOne" THEN "tran" ELSE cardState

WriteData ==
  /\ Writes /\ spiActive = 1 /\ cardState \in {"rcv", "rcvOne"}
  /\ Stored /\ Received /\ cardSector' = cardSector + 1
  /\ Moved /\ NoFault
  /\ UNCHANGED <<driver, got>>
WriteDataFails ==
  /\ Writes
  /\ \/ spiActive = 1 /\ Fault /\ Received /\ (Stored \/ UNCHANGED flash)
     \/ spiActive = 0 /\ NoFault /\ UNCHANGED <<cardState, flash>>
  /\ Fails
  /\ UNCHANGED <<mState, mCurSector, sharedSpi, cardSector>>

\* The end of the call.  A shared bus is given back, else the transfer stays.
Ends(call) == pc = "transfer" /\ op = call /\ left = 0
\* Mutant: m_curSector stays behind.
KeepOpenBehind == sharedSpi = 0 /\ UNCHANGED <<driver, card>>
KeepOpen ==
  /\ sharedSpi = 0 /\ mCurSector' = at
  /\ UNCHANGED <<mState, spiActive, sharedSpi, card>>
CloseShared ==
  /\ sharedSpi = 1 /\ mCurSector' = at
  /\ mState' = "idle" /\ SpiStop /\ UNCHANGED <<sharedSpi, cardSector, flash>>
ReadEnd ==
  /\ Ends("read") /\ Return /\ NoFault
  /\ \/ KeepOpen
     \/ CloseShared /\ cardState' = "tran"
WriteEnd ==
  /\ Ends("write") /\ Return /\ NoFault
  /\ \/ KeepOpen
     \/ CloseShared /\ cardState' = StopToken
WriteEndFails ==
  /\ Ends("write") /\ sharedSpi = 1 /\ spiActive = 1 /\ Fault /\ Fails /\ mCurSector' = at
  /\ UNCHANGED <<mState, sharedSpi, card>>
SingleEnd ==
  /\ Ends("single") /\ SpiStop /\ Return /\ NoFault
  /\ UNCHANGED <<mState, mCurSector, sharedSpi, card>>

-----------------------------------------------------------------------------
CallNext ==
  \/ \E shared \in Flags : Begin(shared)
  \/ BeginFails \/ SyncDevice
  \/ \E s \in Sectors, n \in 1 .. LastSector + 1 :
       ReadSectors(s, n) \/ \E v \in Val : WriteSectors(s, n, v)
  \/ \E s \in Sectors, v \in Val : WriteSector(s, v)
StepNext ==
  \/ SyncIdle \/ SyncRead \/ SyncReadFails \/ SyncWrite \/ SyncWriteFails
  \/ Command \/ CommandFails
  \/ ReadData \/ ReadDataFails \/ WriteData \/ WriteDataFails
  \/ ReadEnd \/ WriteEnd \/ WriteEndFails \/ SingleEnd
Next == CallNext \/ StepNext
Spec == Init /\ [][Next]_vars

-----------------------------------------------------------------------------
\* While the card is selected between two calls it is in the transfer that
\* m_state says, at the sector m_curSector: a call may go on without a command.
PointerAgrees ==
  pc = "free" /\ spiActive = 1 =>
    mState # "idle" /\ cardState = Transfer[mState] /\ cardSector = mCurSector

\* On a shared bus the card is deselected between two calls, whatever failed
\* in them, and without an open transfer it is so on any bus.
BusReleased == pc = "free" /\ (sharedSpi = 1 \/ mState = "idle") => spiActive = 0

\* The card sends sectors only when the driver knows: a CMD12 is still due.
SendsAgrees == cardState = "data" /\ pc # "down" => mState = "read"

Abs == INSTANCE BlockDevice WITH
  op <- IF op = "sync" THEN "none" ELSE IF op = "single" THEN "write" ELSE op
\* Every sector goes to and comes from where the caller asked, whatever calls
\* failed before: the pointer in the card is never trusted when it is wrong.
IsBlockDevice == Abs!Spec
=============================================================================
