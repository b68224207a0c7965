---------------------------- MODULE SdCards_proofs ----------------------------
(***************************************************************************)
(* The card over SPI: for every card size and any number of failing        *)
(* exchanges the driver is a block device.  The invariant says where the   *)
(* card stands whenever it is selected: between two calls in the transfer  *)
(* of m_state at m_curSector, within a call in the transfer of the call at *)
(* the sector it moves next.                                               *)
(*                                                                         *)
(* What SdioTeensy promises of every card size, on both builds, with DMA   *)
(* or with the FIFO, however many exchanges fail and whenever the          *)
(* interrupt handler runs; and that the card over SPI keeps its promises   *)
(* in a program that may have either.                                      *)
(*                                                                         *)
(* A sector the driver reports as written is stored later (FIFO) or was    *)
(* stored by somebody else (DMA).  The invariant ties the two: with the    *)
(* FIFO, what the open transfer still holds; with DMA, how far the host    *)
(* controller has come, in the call that waits for it and after a call     *)
(* that gave it up.                                                        *)
(***************************************************************************)
EXTENDS SdCards, TLAPS

USE CardAssumption

\* A call that moves sectors.
Moving == {"read", "write", "single"}

CardInv ==
  /\ TypeOK
  /\ pc \in {"free", "down"} => op = "none"
  /\ pc = "sync" => op \in Moving \cup {"sync"}
  /\ pc \in {"command", "transfer"} => op \in Moving
  /\ op \in {"none", "sync"} => at = 0 /\ left = 0 /\ val = NoVal /\ got = NoVal
  /\ op \in {"write", "single"} => val \in Val
  /\ op = "single" => left <= 1
  /\ pc = "command" => spiActive = 0 /\ mState = "idle"
  /\ pc = "down" => spiActive = 0
  /\ pc \in {"free", "sync"} /\ spiActive = 1 =>
       /\ sharedSpi = 0 /\ mState # "idle"
       /\ cardState = Transfer[mState] /\ cardSector = mCurSector
  /\ pc = "transfer" =>
       /\ mState = IF op = "single" THEN "idle" ELSE op
       /\ spiActive = 1 =>
            /\ cardSector = at
            /\ cardState = Transfer[op] \/ (op = "single" /\ left = 0)
  /\ SendsAgrees

\* What the driver may do seen from the caller.
Seen == [Abs!Next]_(Abs!vars)

\* The first state of the card over SPI is one of the block device.
LEMMA CardInit == Init => CardInv /\ Abs!Init
BY DEF Init, CardInv, TypeOK, Places, Flags, Moving, SendsAgrees, Sectors, Abs!Init

\* The state of the card that goes with each transfer.
LEMMA TransferValues ==
  Transfer["read"] = "data" /\ Transfer["write"] = "rcv" /\ Transfer["single"] = "rcvOne"
BY DEF Transfer

-----------------------------------------------------------------------------
(* The calls.                                                              *)

\* Begin keeps the invariant, and is one of the block device, or none.
LEMMA BeginStep == ASSUME CardInv, NEW shared \in Flags, Begin(shared) PROVE CardInv' /\ Seen
BY DEF CardInv, Begin, TypeOK, Places, Flags, Moving, SendsAgrees, SpiStop, Return, NoFault, Seen, Abs!vars

\* BeginFails keeps the invariant, and is one of the block device, or none.
LEMMA BeginFailsStep == ASSUME CardInv, BeginFails PROVE CardInv' /\ Seen
BY DEF CardInv, BeginFails, TypeOK, Places, Flags, Moving, SendsAgrees, SpiStop, Fault, card, args, Seen, Abs!vars

\* SyncDevice keeps the invariant, and is one of the block device, or none.
LEMMA SyncDeviceStep == ASSUME CardInv, SyncDevice PROVE CardInv' /\ Seen
BY DEF CardInv, SyncDevice, TypeOK, Places, Flags, Moving, SendsAgrees, NoFault, driver, card, Seen, Abs!vars

\* A call leaves the card alone and starts an operation of the device.
LEMMA CallStep ==
  ASSUME CardInv, NEW s \in Sectors, NEW n \in 1 .. LastSector + 1,
         NEW call \in Moving, NEW v \in Val \cup {NoVal}, Call(call, s, n, v),
         call # "read" => v \in Val, call = "single" => n = 1, pc' \in {"sync", "transfer"},
         pc' = "transfer" => call # "single" /\ GoesOn(call, s)
  PROVE  CardInv' /\ Seen
<1>1. TypeOK'
  BY DEF CardInv, TypeOK, Call, NoFault, driver, card, Places, Sectors, Moving
<1>2. CardInv'
  BY <1>1 DEF CardInv, Call, NoFault, driver, card, Moving, SendsAgrees, GoesOn
<1>3. Abs!Start
  BY DEF CardInv, Call, NoFault, driver, card, Moving, Abs!Start, Sectors
<1> QED  BY <1>2, <1>3 DEF Seen, Abs!Next

\* CallNext keeps the invariant, and is one of the block device, or none.
LEMMA CallNextStep == ASSUME CardInv, CallNext PROVE CardInv' /\ Seen
<1>1. CASE \E shared \in Flags : Begin(shared)
  BY <1>1, BeginStep
<1>2. CASE BeginFails
  BY <1>2, BeginFailsStep
<1>3. CASE SyncDevice
  BY <1>3, SyncDeviceStep
<1>4. ASSUME NEW s \in Sectors, NEW n \in 1 .. LastSector + 1, ReadSectors(s, n)
      PROVE  CardInv' /\ Seen
  BY <1>4, CallStep DEF ReadSectors, Moving
<1>5. ASSUME NEW s \in Sectors, NEW n \in 1 .. LastSector + 1, NEW v \in Val, WriteSectors(s, n, v)
      PROVE  CardInv' /\ Seen
  BY <1>5, CallStep DEF WriteSectors, Moving
<1>6. ASSUME NEW s \in Sectors, NEW v \in Val, WriteSector(s, v)
      PROVE  CardInv' /\ Seen
  BY <1>6, CallStep DEF WriteSector, Moving
<1> QED  BY <1>1, <1>2, <1>3, <1>4, <1>5, <1>6 DEF CallNext

-----------------------------------------------------------------------------
(* Steps within a call.                                                    *)

\* A call that ends without a store fails or is done.
LEMMA ReturnSeen == ASSUME CardInv, Return, UNCHANGED flash PROVE Seen
BY DEF CardInv, Return, Seen, Abs!vars, Abs!Next, Abs!Fail, Abs!Rest

\* The end of a transfer changes nothing that is seen.
LEMMA SyncedStep ==
  ASSUME CardInv, pc = "sync", Synced, UNCHANGED flash PROVE Seen
<1>1. CASE Return
  BY <1>1, ReturnSeen
<1>2. CASE UNCHANGED args
  BY <1>2 DEF args, Seen, Abs!vars
<1> QED  BY <1>1, <1>2 DEF Synced

\* SyncIdle keeps the invariant, and is one of the block device, or none.
LEMMA SyncIdleStep == ASSUME CardInv, SyncIdle PROVE CardInv' /\ Seen
<1>1. CardInv'
  BY DEF CardInv, SyncIdle, Synced, Return, TypeOK, Places, Flags, Moving, SendsAgrees, NoFault, driver, card, args
<1> QED  BY <1>1, SyncedStep DEF SyncIdle, card

\* SyncRead keeps the invariant, and is one of the block device, or none.
LEMMA SyncReadStep == ASSUME CardInv, SyncRead PROVE CardInv' /\ Seen
<1>1. CardInv'
  BY DEF CardInv, SyncRead, ReadStop, SpiStop, Synced, Return, TypeOK, Places, Flags, Moving, SendsAgrees,
         NoFault, args
<1> QED  BY <1>1, SyncedStep DEF SyncRead, ReadStop

\* SyncReadFails keeps the invariant, and is one of the block device, or none.
LEMMA SyncReadFailsStep == ASSUME CardInv, SyncReadFails PROVE CardInv' /\ Seen
<1>1. CardInv'
  BY DEF CardInv, SyncReadFails, ReadStop, SpiStop, Return, TypeOK, Places, Flags, Moving, SendsAgrees, Fault
<1> QED  BY <1>1, ReturnSeen DEF SyncReadFails, ReadStop

\* SyncWrite keeps the invariant, and is one of the block device, or none.
LEMMA SyncWriteStep == ASSUME CardInv, SyncWrite PROVE CardInv' /\ Seen
<1>1. CardInv'
  BY DEF CardInv, SyncWrite, WriteStop, StopToken, SpiStop, Synced, Return, TypeOK, Places, Flags, Moving,
         SendsAgrees, NoFault, args
<1> QED  BY <1>1, SyncedStep DEF SyncWrite, WriteStop

\* SyncWriteFails keeps the invariant, and is one of the block device, or none.
LEMMA SyncWriteFailsStep == ASSUME CardInv, SyncWriteFails PROVE CardInv' /\ Seen
<1>1. CardInv'
  BY DEF CardInv, SyncWriteFails, WriteStopFails, Fails, SpiStop, Return, TypeOK, Places, Flags, Moving,
         SendsAgrees, Fault, card
<1> QED  BY <1>1, ReturnSeen DEF SyncWriteFails, WriteStopFails, Fails, card

\* Command keeps the invariant, and is one of the block device, or none.
LEMMA CommandStep == ASSUME CardInv, Command PROVE CardInv' /\ Seen
<1>1. CardInv'
  BY TransferValues DEF CardInv, Command, TypeOK, Places, Flags, Moving, SendsAgrees, NoFault, args
<1>2. Seen
  BY DEF Command, args, Seen, Abs!vars
<1> QED  BY <1>1, <1>2

\* CommandFails keeps the invariant, and is one of the block device, or none.
LEMMA CommandFailsStep == ASSUME CardInv, CommandFails PROVE CardInv' /\ Seen
<1>1. CardInv'
  BY DEF CardInv, CommandFails, Fails, SpiStop, Return, TypeOK, Places, Flags, Moving, SendsAgrees,
         Fault, NoFault, card
<1> QED  BY <1>1, ReturnSeen DEF CommandFails, Fails, card

\* ReadData keeps the invariant, and is one of the block device, or none.
LEMMA ReadDataStep == ASSUME CardInv, ReadData PROVE CardInv' /\ Seen
<1>1. TypeOK'
  BY DEF CardInv, ReadData, Moved, TypeOK, Places, Flags, Sectors, NoFault, driver
<1>2. CardInv'
  BY <1>1 DEF CardInv, ReadData, Moved, Moving, SendsAgrees, NoFault, driver
<1>3. Abs!Deliver
  BY DEF CardInv, TypeOK, ReadData, Moved, driver, Abs!Deliver, Sectors
<1> QED  BY <1>2, <1>3 DEF Seen, Abs!Next

\* ReadDataFails keeps the invariant, and is one of the block device, or none.
LEMMA ReadDataFailsStep == ASSUME CardInv, ReadDataFails PROVE CardInv' /\ Seen
<1>1. CardInv'
  BY DEF CardInv, ReadDataFails, Fails, SpiStop, Return, TypeOK, Places, Flags, Moving, SendsAgrees,
         Fault, NoFault
<1> QED  BY <1>1, ReturnSeen DEF ReadDataFails, Fails

\* WriteData keeps the invariant, and is one of the block device, or none.
LEMMA WriteDataStep == ASSUME CardInv, WriteData PROVE CardInv' /\ Seen
<1>1. TypeOK'
  BY DEF CardInv, WriteData, Writes, Stored, Received, Moved, TypeOK, Places, Flags, Sectors, NoFault, driver
<1>2. CardInv'
  BY <1>1, TransferValues
     DEF CardInv, TypeOK, WriteData, Writes, Received, Moved, Moving, SendsAgrees, NoFault, driver
<1>3. Abs!Store
  BY DEF CardInv, TypeOK, WriteData, Writes, Stored, Moved, driver, Abs!Store, Abs!Stored, Sectors
<1> QED  BY <1>2, <1>3 DEF Seen, Abs!Next

\* WriteDataFails keeps the invariant, and is one of the block device, or none.
LEMMA WriteDataFailsStep == ASSUME CardInv, WriteDataFails PROVE CardInv' /\ Seen
<1>1. TypeOK'
  BY DEF CardInv, WriteDataFails, Writes, Stored, Received, Fails, SpiStop, Return, TypeOK, Places, Flags,
         Sectors, Fault, NoFault
<1>2. CardInv'
  BY <1>1 DEF CardInv, WriteDataFails, Writes, Received, Fails, SpiStop, Return, Moving, SendsAgrees,
              Fault, NoFault
<1>3. CASE UNCHANGED flash
  BY <1>3, ReturnSeen, <1>2 DEF WriteDataFails, Fails
<1>4. CASE spiActive = 1 /\ Stored
  BY <1>2, <1>4 DEF CardInv, WriteDataFails, Writes, Stored, Fails, Return, Seen, Abs!Next, Abs!Fail,
                    Abs!Rest, Abs!Stored
<1> QED  BY <1>2, <1>3, <1>4 DEF WriteDataFails

\* ReadEnd keeps the invariant, and is one of the block device, or none.
LEMMA ReadEndStep == ASSUME CardInv, ReadEnd PROVE CardInv' /\ Seen
<1>1. CardInv'
  BY TransferValues DEF CardInv, ReadEnd, Ends, KeepOpen, CloseShared, SpiStop, Return, TypeOK, Places, Flags,
         Moving, SendsAgrees, NoFault, card
<1> QED  BY <1>1, ReturnSeen DEF ReadEnd, KeepOpen, CloseShared, card

\* WriteEnd keeps the invariant, and is one of the block device, or none.
LEMMA WriteEndStep == ASSUME CardInv, WriteEnd PROVE CardInv' /\ Seen
<1>1. CardInv'
  BY TransferValues DEF CardInv, WriteEnd, Ends, KeepOpen, CloseShared, StopToken, SpiStop, Return, TypeOK,
         Places, Flags, Moving, SendsAgrees, NoFault, card
<1> QED  BY <1>1, ReturnSeen DEF WriteEnd, KeepOpen, CloseShared, card

\* The other ends of a transfer keep the invariant and are steps of the block device, or none.
LEMMA OtherEndStep == ASSUME CardInv, WriteEndFails \/ SingleEnd PROVE CardInv' /\ Seen
<1>1. CardInv'
  BY DEF CardInv, WriteEndFails, SingleEnd, Ends, Fails, SpiStop, Return, TypeOK, Places, Flags,
         Moving, SendsAgrees, Fault, NoFault, card
<1> QED  BY <1>1, ReturnSeen DEF WriteEndFails, SingleEnd, Fails, card

\* Every step over SPI keeps the invariant and is one of the block device, or none.
LEMMA CardStep == CardInv /\ [Next]_vars => CardInv' /\ Seen
<1> SUFFICES ASSUME CardInv, [Next]_vars PROVE CardInv' /\ Seen
  OBVIOUS
<1>1. CASE UNCHANGED vars
  <2>1. CardInv'
    BY <1>1 DEF vars, driver, card, args, CardInv, TypeOK, Moving, SendsAgrees
  <2>2. Seen
    BY <1>1 DEF vars, card, args, Seen, Abs!vars
  <2> QED  BY <2>1, <2>2
<1>2. CASE CallNext
  BY <1>2, CallNextStep
<1>3. CASE StepNext
  BY <1>3, SyncIdleStep, SyncReadStep, SyncReadFailsStep, SyncWriteStep, SyncWriteFailsStep,
     CommandStep, CommandFailsStep, ReadDataStep, ReadDataFailsStep, WriteDataStep, WriteDataFailsStep,
     ReadEndStep, WriteEndStep, OtherEndStep
     DEF StepNext
<1> QED  BY <1>1, <1>2, <1>3 DEF Next

-----------------------------------------------------------------------------
\* The invariant holds in every state.
THEOREM CardInvariance == Spec => []CardInv
<1>1. Init => CardInv
  BY CardInit
<1>2. CardInv /\ [Next]_vars => CardInv'
  BY CardStep
<1> QED  BY <1>1, <1>2, PTL DEF Spec

\* Between two calls the pointer of the driver and the card's agree whenever a
\* call could go on with the open transfer; a bus that must be free is free; the
\* driver knows of a card that sends.
THEOREM CardSafety == Spec => [](TypeOK /\ PointerAgrees /\ BusReleased /\ SendsAgrees)
<1>1. CardInv => TypeOK /\ PointerAgrees /\ BusReleased /\ SendsAgrees
  BY DEF CardInv, TypeOK, Flags, PointerAgrees, BusReleased
<1> QED  BY <1>1, CardInvariance, PTL

\* Every sector goes to and comes from where the caller asked.
THEOREM CardIsBlockDevice == Spec => IsBlockDevice
<1>1. Init => Abs!Init
  BY CardInit
<1>2. CardInv /\ [Next]_vars => [Abs!Next]_(Abs!vars)
  BY CardStep DEF Seen
<1> QED  BY <1>1, <1>2, CardInvariance, PTL DEF Spec, Abs!Spec, IsBlockDevice

-----------------------------------------------------------------------------
(* The card over SDIO.                                                     *)

Errors == {"CERR", "DERR"}

SdioTypes ==
  /\ curSector \in Nat /\ sdioCardSector \in Nat /\ sdioAt \in Nat /\ sdioLeft \in Int
  /\ chunk \in Nat /\ todo \in Nat \cup {-1}
  /\ block \in Val \cup {NoVal}
  /\ sdioFaults \in Nat
  /\ sdioFlash \in [Sdio!Sectors -> Val] /\ accepted \in [Sdio!Sectors -> Val \cup {NoVal}]

\* Where the thread is and in which call.
Calling ==
  /\ sdioPc \in {"free", "down"} => sdioOp = "none" /\ sdioAt = 0
  /\ sdioPc \in {"wait", "stop"} => sdioOp \in {"read", "write", "sync"}
  /\ sdioPc \in {"start", "data", "ready", "poll", "stat", "dma"} => sdioOp \in {"read", "write"}
  /\ sdioPc = "end" => sdioOp = "read"
  /\ sdioPc \in {"wait", "stop", "start", "data", "ready", "poll", "stat", "dma"} /\ sdioOp = "write"
       => sdioVal \in Val

\* The sector before m_curSector is stored, or a call that wrote it failed.
LastStored == curSector - 1 \in Sdio!Sectors => accepted[curSector - 1] \in {sdioFlash[curSector - 1], NoVal}

\* With the FIFO: what it holds is the sector the card moves next, also when the driver has given
\* it up; when a transfer the driver waits for ended with no error and the FIFO is empty, the
\* sector before m_curSector is stored.  While nothing has failed no late end is there to be taken.
FifoInv ==
  /\ todo = 0 /\ sdioPc \notin {"ready", "poll", "stat", "dma"}
  /\ curState # "idle" => sdioCardState = curState
  /\ block # NoVal =>
       /\ sdioCardState = "write" /\ (transferActive => curState = "write")
       /\ sdioCardSector \in Sdio!Sectors /\ ~dead => accepted[sdioCardSector] \in {block, NoVal}
  /\ transferActive /\ block = NoVal /\ "TC" \in irqstat /\ irqstat \cap Errors = {} => LastStored
  /\ sdioFaults = 0 =>
       /\ block # NoVal => transferActive /\ irqstat = {}
       /\ irqstat # {} => transferActive
  /\ sdioPc \in {"stop", "start", "data", "end"} => ~transferActive
  /\ sdioPc = "start" => curState = "idle"
  /\ sdioPc = "data" => curState = sdioOp /\ curSector = sdioAt
  /\ sdioPc = "end" =>
       /\ curState = "read" /\ curSector = sdioAt /\ sdioCardSector = sdioAt + 1
       /\ sdioGot = sdioFlash[sdioAt]

\* A call waits for the command it gave.
Running == sdioPc \in {"poll", "stat", "dma"}
HoldsVal(s) == s \in Sdio!Sectors /\ sdioOp = "write" => sdioFlash[s] = sdioVal

\* With DMA: in a call, the sectors the host controller has moved hold what is written, and the
\* end of the transfer is only reported of the transfer of this call; what a call gave up is
\* moved into sectors of which nothing is expected.
DmaInv ==
  /\ curState = "idle" /\ ~transferActive /\ block = NoVal /\ doubt = {}
  /\ sdioPc \notin {"stop", "start", "data", "end"} /\ (sdioPc = "wait" => sdioOp = "sync")
  /\ sdioPc = "ready" \/ Running => chunk > 0 /\ chunk <= sdioLeft /\ chunk \in {1, sdioLeft}
  /\ todo = -1 => sdioPc = "poll" /\ irqstat = {} /\ mIrqstat = {}
  /\ Running /\ todo > 0 =>
       /\ sdioCardState = sdioOp /\ sdioCardSector + todo = sdioAt + chunk /\ sdioAt <= sdioCardSector
       /\ \A s \in sdioAt .. sdioCardSector - 1 : HoldsVal(s)
  /\ Running /\ "TC" \in irqstat \cup mIrqstat => todo = 0 /\ \A s \in Sdio!Chunk : HoldsVal(s)
  /\ ~Running /\ todo > 0 /\ sdioCardState = "write" =>
       \A s \in sdioCardSector .. sdioCardSector + todo - 1 : s \in Sdio!Sectors => accepted[s] = NoVal

SdioInv ==
  /\ SdioTypes /\ Calling
  /\ IF useDma THEN DmaInv ELSE FifoInv
  /\ Sdio!Kept /\ Sdio!PointerAgrees

\* What a step may do to the sector a read is at.
ReadsStep ==
  sdioOp = "read" /\ sdioAt' > sdioAt =>
    IF useDma THEN todo = 0 ELSE sdioCardSector' = sdioAt' /\ sdioGot' = sdioFlash[sdioAt]

USE DEF Sdio!build, Sdio!driver, Sdio!irq, Sdio!card, Sdio!args, Sdio!Fault, Sdio!NoFault,
        Sdio!Takes, Sdio!CommandTakes, Sdio!MayTake

-----------------------------------------------------------------------------
(* The calls.                                                              *)

\* Call of the SDIO driver keeps SdioInv, and a sector that was read holds what the card does.
LEMMA SdioCallStep ==
  ASSUME SdioInv, NEW s \in Sdio!Sectors, NEW n \in 1 .. SdioLastSector + 1, NEW c \in 1 .. SdioLastSector + 1,
         NEW call \in {"read", "write"}, NEW v \in Val \cup {NoVal}, call = "write" => v \in Val,
         Sdio!Call(call, s, n, v, c)
  PROVE  SdioInv' /\ ReadsStep
BY DEF SdioInv, SdioTypes, Calling, FifoInv, LastStored, Errors, Sdio!PointerAgrees, DmaInv,
   Running, ReadsStep, Sdio!Sectors, Sdio!Kept, Sdio!Pending, Sdio!Moving, Sdio!Call

\* SyncDevice of the SDIO driver keeps SdioInv, and a sector that was read holds what the card does.
LEMMA SdioSyncDeviceStep ==
  ASSUME SdioInv, Sdio!SyncDevice PROVE SdioInv' /\ ReadsStep
BY DEF SdioInv, SdioTypes, Calling, FifoInv, LastStored, Errors, Sdio!PointerAgrees, DmaInv,
   Running, ReadsStep, Sdio!Kept, Sdio!Pending, Sdio!Moving, Sdio!SyncDevice

\* Erase of the SDIO driver keeps SdioInv, and a sector that was read holds what the card does.
LEMMA SdioEraseStep ==
  ASSUME SdioInv, NEW s \in Sdio!Sectors, NEW n \in 1 .. SdioLastSector + 1, Sdio!Erase(s, n)
  PROVE  SdioInv' /\ ReadsStep
BY DEF SdioInv, SdioTypes, Calling, FifoInv, LastStored, Errors, Sdio!PointerAgrees, DmaInv,
   Running, ReadsStep, Sdio!Sectors, Sdio!Kept, Sdio!Pending, Sdio!Moving, Sdio!Erase

\* Begin of the SDIO driver keeps SdioInv, and a sector that was read holds what the card does.
LEMMA SdioBeginStep ==
  ASSUME SdioInv, Sdio!Begin PROVE SdioInv' /\ ReadsStep
BY DEF SdioInv, SdioTypes, Calling, FifoInv, Sdio!PointerAgrees, DmaInv, HoldsVal, Running,
   Sdio!Chunk, ReadsStep, Sdio!Sectors, Sdio!Kept, Sdio!Pending, Sdio!Moving, Sdio!Begin,
   Sdio!InitSDHC

\* BeginFails of the SDIO driver keeps SdioInv, and a sector that was read holds what the card does.
LEMMA SdioBeginFailsStep ==
  ASSUME SdioInv, Sdio!BeginFails PROVE SdioInv' /\ ReadsStep
BY DEF SdioInv, SdioTypes, Calling, FifoInv, Sdio!PointerAgrees, DmaInv, HoldsVal, Running,
   Sdio!Chunk, ReadsStep, Sdio!Sectors, Sdio!Kept, Sdio!Pending, Sdio!Moving, Sdio!BeginFails,
   Sdio!InitSDHC

\* IsBusyEnds of the SDIO driver keeps SdioInv, and a sector that was read holds what the card does.
LEMMA SdioIsBusyEndsStep ==
  ASSUME SdioInv, Sdio!IsBusyEnds PROVE SdioInv' /\ ReadsStep
<1>1. ~useDma
  BY DEF SdioInv, DmaInv, Sdio!IsBusyEnds, Sdio!Expect, Sdio!TransferComplete, Sdio!GoesIdle, Sdio!Stopped
<1>2. SdioTypes' /\ Calling' /\ ReadsStep /\ useDma' = useDma
  BY <1>1 DEF SdioInv, SdioTypes, Calling, FifoInv, ReadsStep, Sdio!IsBusyEnds, Sdio!Expect, Sdio!TransferComplete, Sdio!GoesIdle, Sdio!Stopped
<1>3. FifoInv'
  BY <1>1, CardAssumption DEF SdioInv, SdioTypes, Calling, FifoInv, LastStored, Errors, Sdio!PointerAgrees, Sdio!IsBusyEnds, Sdio!Expect, Sdio!TransferComplete, Sdio!GoesIdle, Sdio!Stopped
<1>4. Sdio!Kept'
  BY <1>1, CardAssumption DEF SdioInv, SdioTypes, Calling, FifoInv, LastStored, Errors, Sdio!Kept, Sdio!Pending, Sdio!Moving, Sdio!IsBusyEnds, Sdio!Expect, Sdio!TransferComplete, Sdio!GoesIdle, Sdio!Stopped
<1>5. Sdio!PointerAgrees'
  BY <1>1, CardAssumption DEF SdioInv, SdioTypes, Calling, FifoInv, Sdio!PointerAgrees, Sdio!IsBusyEnds, Sdio!Expect, Sdio!TransferComplete, Sdio!GoesIdle, Sdio!Stopped
<1> QED  BY <1>1, <1>2, <1>3, <1>4, <1>5 DEF SdioInv

\* Status of the SDIO driver keeps SdioInv, and a sector that was read holds what the card does.
LEMMA SdioStatusStep ==
  ASSUME SdioInv, Sdio!Status PROVE SdioInv' /\ ReadsStep
BY DEF SdioInv, SdioTypes, Calling, FifoInv, LastStored, Errors, Sdio!PointerAgrees, DmaInv,
   Running, ReadsStep, Sdio!Kept, Sdio!Pending, Sdio!Moving, Sdio!Status

-----------------------------------------------------------------------------
(* With the FIFO.                                                          *)

\* Wait of the SDIO driver keeps SdioInv, and a sector that was read holds what the card does.
LEMMA SdioWaitStep ==
  ASSUME SdioInv, Sdio!Wait PROVE SdioInv' /\ ReadsStep
<1>1. SdioTypes' /\ Calling' /\ ReadsStep /\ useDma' = useDma
  BY DEF SdioInv, SdioTypes, Calling, FifoInv, DmaInv, ReadsStep, Sdio!Pending, Sdio!Wait, Sdio!BlockLost, Sdio!Return,
     Sdio!Expect, Sdio!NeedsStart, Sdio!TransferComplete
<1>2. useDma => DmaInv'
  BY DEF SdioInv, SdioTypes, Calling, DmaInv, Running, Sdio!Wait, Sdio!BlockLost, Sdio!Return,
     Sdio!Expect, Sdio!NeedsStart, Sdio!TransferComplete
<1>3. ~useDma => FifoInv'
  BY DEF SdioInv, SdioTypes, Calling, FifoInv, Sdio!PointerAgrees, Sdio!Wait, Sdio!BlockLost, Sdio!Return,
     Sdio!Expect, Sdio!NeedsStart, Sdio!TransferComplete
<1>4. Sdio!Kept'
  <2>1. Sdio!Pending' = {} /\ Sdio!Moving = {} /\ UNCHANGED <<sdioFlash, sdioFaults>>
        /\ Sdio!Moving' = {}
    BY DEF Sdio!Pending, Sdio!Moving, Sdio!Wait, Sdio!Return
  <2>2. CASE transferActive /\ Sdio!BlockLost
    <3>1. accepted' = [s \in Sdio!Sectors |-> IF s \in Sdio!Pending THEN NoVal ELSE accepted[s]] /\ doubt' = doubt
      BY <2>2 DEF Sdio!Wait, Sdio!Expect
    <3> QED  BY <2>1, <3>1 DEF SdioInv, Sdio!Kept
  <2>3. CASE ~transferActive
    <3>1. accepted' = accepted /\ Sdio!Pending = {} /\ doubt' = doubt
      BY <2>3 DEF Sdio!Wait, Sdio!Pending
    <3> QED  BY <2>1, <3>1 DEF SdioInv, Sdio!Kept
  <2>4. CASE transferActive /\ ~Sdio!BlockLost /\ block # NoVal
    <3>1. accepted' = accepted /\ doubt' = doubt \cup Sdio!Pending
      BY <2>4 DEF Sdio!Wait
    <3>2. ~useDma
      BY <2>4 DEF SdioInv, DmaInv
    <3>4. irqstat \cap {"TC", "CERR", "DERR"} # {}
      BY <2>4 DEF Sdio!Wait, Sdio!TransferComplete
    <3>5. irqstat # {}
      BY <3>4
    <3>3. sdioFaults # 0 /\ sdioFaults \in Nat
      BY <2>4, <3>2, <3>5 DEF SdioInv, SdioTypes, FifoInv
    <3> QED  BY <2>1, <3>1, <3>3 DEF SdioInv, Sdio!Kept
  <2>5. CASE transferActive /\ ~Sdio!BlockLost /\ block = NoVal
    <3>1. accepted' = accepted /\ doubt' = doubt /\ Sdio!Pending = {curSector - 1}
      BY <2>5 DEF Sdio!Wait, Sdio!Pending
    <3>2. "TC" \in irqstat /\ irqstat \cap Errors = {} /\ ~useDma
      BY <2>5 DEF SdioInv, DmaInv, Errors, Sdio!Wait, Sdio!TransferComplete, Sdio!BlockLost
    <3>3. LastStored
      BY <2>5, <3>2 DEF SdioInv, FifoInv, Sdio!Wait, Sdio!TransferComplete, Sdio!BlockLost
    <3> QED  BY <2>1, <3>1, <3>3 DEF SdioInv, LastStored, Sdio!Kept
  <2> QED  BY <2>2, <2>3, <2>4, <2>5
<1>5. Sdio!PointerAgrees'
  BY DEF SdioInv, SdioTypes, Calling, FifoInv, Sdio!PointerAgrees, Sdio!Wait, Sdio!BlockLost, Sdio!Return,
     Sdio!Expect, Sdio!NeedsStart, Sdio!TransferComplete
<1> QED  BY <1>1, <1>2, <1>3, <1>4, <1>5 DEF SdioInv

\* WaitTimeout of the SDIO driver keeps SdioInv, and a sector that was read holds what the card does.
LEMMA SdioWaitTimeoutStep ==
  ASSUME SdioInv, Sdio!WaitTimeout PROVE SdioInv' /\ ReadsStep
BY DEF SdioInv, SdioTypes, Calling, FifoInv, LastStored, Errors, Sdio!PointerAgrees, DmaInv,
   Running, ReadsStep, Sdio!Kept, Sdio!Pending, Sdio!Moving, Sdio!WaitTimeout, Sdio!Return,
   Sdio!Expect, Sdio!TransferComplete

\* StopTransmission of the SDIO driver keeps SdioInv, and a sector that was read holds what the card does.
LEMMA SdioStopTransmissionStep ==
  ASSUME SdioInv, Sdio!StopTransmission PROVE SdioInv' /\ ReadsStep
BY DEF SdioInv, SdioTypes, Calling, FifoInv, Errors, Sdio!PointerAgrees, DmaInv, ReadsStep,
   Sdio!Kept, Sdio!Pending, Sdio!Moving, Sdio!StopTransmission, Sdio!GoesIdle, Sdio!Stopped,
   Sdio!Return

\* StopFails of the SDIO driver keeps SdioInv, and a sector that was read holds what the card does.
LEMMA SdioStopFailsStep ==
  ASSUME SdioInv, Sdio!StopFails PROVE SdioInv' /\ ReadsStep
<1>1. ~useDma
  BY DEF SdioInv, DmaInv, Sdio!StopFails, Sdio!GoesIdle, Sdio!Stopped, Sdio!Fails, Sdio!Return, Sdio!Expect, Sdio!Chunk
<1>2. SdioTypes' /\ Calling' /\ ReadsStep /\ useDma' = useDma
  BY <1>1 DEF SdioInv, SdioTypes, Calling, FifoInv, ReadsStep, Sdio!StopFails, Sdio!GoesIdle, Sdio!Stopped, Sdio!Fails, Sdio!Return, Sdio!Expect, Sdio!Chunk
<1>3. FifoInv'
  BY <1>1, CardAssumption DEF SdioInv, SdioTypes, Calling, FifoInv, LastStored, Errors, Sdio!PointerAgrees, Sdio!StopFails, Sdio!GoesIdle, Sdio!Stopped, Sdio!Fails, Sdio!Return, Sdio!Expect, Sdio!Chunk
<1>4. Sdio!Kept'
  BY <1>1, CardAssumption DEF SdioInv, SdioTypes, Calling, FifoInv, LastStored, Errors, Sdio!Kept, Sdio!Pending, Sdio!Moving, Sdio!StopFails, Sdio!GoesIdle, Sdio!Stopped, Sdio!Fails, Sdio!Return, Sdio!Expect, Sdio!Chunk
<1>5. Sdio!PointerAgrees'
  BY <1>1, CardAssumption DEF SdioInv, SdioTypes, Calling, FifoInv, Sdio!PointerAgrees, Sdio!StopFails, Sdio!GoesIdle, Sdio!Stopped, Sdio!Fails, Sdio!Return, Sdio!Expect, Sdio!Chunk
<1> QED  BY <1>1, <1>2, <1>3, <1>4, <1>5 DEF SdioInv

\* Start of the SDIO driver keeps SdioInv, and a sector that was read holds what the card does.
LEMMA SdioStartStep ==
  ASSUME SdioInv, Sdio!Start PROVE SdioInv' /\ ReadsStep
BY DEF SdioInv, SdioTypes, Calling, FifoInv, Errors, Sdio!PointerAgrees, DmaInv, ReadsStep,
   Sdio!Kept, Sdio!Pending, Sdio!Moving, Sdio!Start

\* StartFails of the SDIO driver keeps SdioInv, and a sector that was read holds what the card does.
LEMMA SdioStartFailsStep ==
  ASSUME SdioInv, Sdio!StartFails PROVE SdioInv' /\ ReadsStep
<1>1. ~useDma
  BY DEF SdioInv, DmaInv, Sdio!StartFails, Sdio!Fails, Sdio!Return, Sdio!Expect, Sdio!Chunk
<1>2. SdioTypes' /\ Calling' /\ ReadsStep /\ useDma' = useDma
  BY <1>1 DEF SdioInv, SdioTypes, Calling, FifoInv, ReadsStep, Sdio!StartFails, Sdio!Fails, Sdio!Return, Sdio!Expect, Sdio!Chunk
<1>3. FifoInv'
  BY <1>1, CardAssumption DEF SdioInv, SdioTypes, Calling, FifoInv, LastStored, Errors, Sdio!PointerAgrees, Sdio!StartFails, Sdio!Fails, Sdio!Return, Sdio!Expect, Sdio!Chunk
<1>4. Sdio!Kept'
  BY <1>1, CardAssumption DEF SdioInv, SdioTypes, Calling, FifoInv, LastStored, Errors, Sdio!Kept, Sdio!Pending, Sdio!Moving, Sdio!StartFails, Sdio!Fails, Sdio!Return, Sdio!Expect, Sdio!Chunk
<1>5. Sdio!PointerAgrees'
  BY <1>1, CardAssumption DEF SdioInv, SdioTypes, Calling, FifoInv, Sdio!PointerAgrees, Sdio!StartFails, Sdio!Fails, Sdio!Return, Sdio!Expect, Sdio!Chunk
<1> QED  BY <1>1, <1>2, <1>3, <1>4, <1>5 DEF SdioInv

\* ReadData of the SDIO driver keeps SdioInv, and a sector that was read holds what the card does.
LEMMA SdioReadDataStep ==
  ASSUME SdioInv, Sdio!ReadData PROVE SdioInv' /\ ReadsStep
BY DEF SdioInv, SdioTypes, Calling, FifoInv, Errors, Sdio!PointerAgrees, DmaInv, ReadsStep,
   Sdio!Kept, Sdio!Pending, Sdio!Moving, Sdio!ReadData, Sdio!NextSector, Sdio!Advance

\* ReadDataFails of the SDIO driver keeps SdioInv, and a sector that was read holds what the card does.
LEMMA SdioReadDataFailsStep ==
  ASSUME SdioInv, Sdio!ReadDataFails PROVE SdioInv' /\ ReadsStep
BY DEF SdioInv, SdioTypes, Calling, FifoInv, Errors, Sdio!PointerAgrees, DmaInv, ReadsStep,
   Sdio!Kept, Sdio!Pending, Sdio!Moving, Sdio!ReadDataFails, Sdio!Fails, Sdio!Return

\* ReadEnd of the SDIO driver keeps SdioInv, and a sector that was read holds what the card does.
LEMMA SdioReadEndStep ==
  ASSUME SdioInv, Sdio!ReadEnd PROVE SdioInv' /\ ReadsStep
BY DEF SdioInv, SdioTypes, Calling, FifoInv, Errors, Sdio!PointerAgrees, DmaInv, ReadsStep,
   Sdio!Kept, Sdio!Pending, Sdio!Moving, Sdio!ReadEnd, Sdio!GoesIdle, Sdio!Stopped, Sdio!NextSector,
   Sdio!Advance

\* WriteData of the SDIO driver keeps SdioInv, and a sector that was read holds what the card does.
LEMMA SdioWriteDataStep ==
  ASSUME SdioInv, Sdio!WriteData PROVE SdioInv' /\ ReadsStep
BY CardAssumption DEF SdioInv, SdioTypes, Calling, FifoInv, Errors, Sdio!PointerAgrees, DmaInv,
   ReadsStep, Sdio!Kept, Sdio!Pending, Sdio!Moving, Sdio!WriteData, Sdio!NextSector, Sdio!Advance,
   Sdio!Expect

\* WriteDataFails of the SDIO driver keeps SdioInv, and a sector that was read holds what the card does.
LEMMA SdioWriteDataFailsStep ==
  ASSUME SdioInv, Sdio!WriteDataFails PROVE SdioInv' /\ ReadsStep
<1>1. ~useDma
  BY DEF SdioInv, DmaInv, Sdio!WriteDataFails, Sdio!Fails, Sdio!Return, Sdio!Expect, Sdio!Chunk
<1>2. SdioTypes' /\ Calling' /\ ReadsStep /\ useDma' = useDma
  BY <1>1 DEF SdioInv, SdioTypes, Calling, FifoInv, ReadsStep, Sdio!WriteDataFails, Sdio!Fails, Sdio!Return, Sdio!Expect, Sdio!Chunk
<1>3. FifoInv'
  BY <1>1, CardAssumption DEF SdioInv, SdioTypes, Calling, FifoInv, LastStored, Errors, Sdio!PointerAgrees, Sdio!WriteDataFails, Sdio!Fails, Sdio!Return, Sdio!Expect, Sdio!Chunk
<1>4. Sdio!Kept'
  BY <1>1, CardAssumption DEF SdioInv, SdioTypes, Calling, FifoInv, LastStored, Errors, Sdio!Kept, Sdio!Pending, Sdio!Moving, Sdio!WriteDataFails, Sdio!Fails, Sdio!Return, Sdio!Expect, Sdio!Chunk
<1>5. Sdio!PointerAgrees'
  BY <1>1, CardAssumption DEF SdioInv, SdioTypes, Calling, FifoInv, Sdio!PointerAgrees, Sdio!WriteDataFails, Sdio!Fails, Sdio!Return, Sdio!Expect, Sdio!Chunk
<1> QED  BY <1>1, <1>2, <1>3, <1>4, <1>5 DEF SdioInv

\* BlockEnds of the SDIO driver keeps SdioInv, and a sector that was read holds what the card does.
LEMMA SdioBlockEndsStep ==
  ASSUME SdioInv, Sdio!BlockEnds PROVE SdioInv' /\ ReadsStep
<1>1. ~useDma
  BY DEF SdioInv, DmaInv, Sdio!BlockEnds
<1>2. SdioTypes' /\ Calling' /\ ReadsStep /\ useDma' = useDma
  BY <1>1 DEF SdioInv, SdioTypes, Calling, FifoInv, ReadsStep, Sdio!BlockEnds
<1>3. FifoInv'
  <2>1. transferActive /\ ~dead => curSector - 1 = sdioCardSector
    BY <1>1 DEF SdioInv, SdioTypes, Calling, FifoInv, Sdio!PointerAgrees, Sdio!BlockEnds
  <2>2. block \in Val /\ block' = NoVal /\ UNCHANGED <<Sdio!driver, sdioPc, Sdio!args, accepted, todo, sdioCardState>>
    BY DEF SdioInv, SdioTypes, Sdio!BlockEnds
  <2>3. sdioPc # "end" /\ todo = 0 /\ (curState # "idle" => sdioCardState = curState) /\ (sdioFaults = 0 => transferActive)
    BY <1>1 DEF SdioInv, FifoInv, Sdio!BlockEnds
  <2>4. sdioFaults' = 0 => sdioFaults = 0
    <3>1. UNCHANGED sdioFaults \/ sdioFaults' = sdioFaults + 1
      BY DEF Sdio!BlockEnds
    <3>2. sdioFaults \in Nat
      BY DEF SdioInv, SdioTypes
    <3> QED  BY <3>1, <3>2
  <2>5. transferActive /\ irqstat' \cap Errors = {} => LastStored'
    <3> SUFFICES ASSUME transferActive, irqstat' \cap Errors = {} PROVE LastStored'
      OBVIOUS
    <3>1. "DERR" \notin irqstat'
      BY DEF Errors
    <3>2. ~dead /\ sdioFlash' = [sdioFlash EXCEPT ![sdioCardSector] = block]
      BY <3>1 DEF Sdio!BlockEnds
    <3> QED  BY <1>1, <2>1, <2>2, <3>2 DEF SdioInv, SdioTypes, FifoInv, LastStored
  <2>6. /\ sdioPc \notin {"ready", "poll", "stat", "dma"}
        /\ sdioPc \in {"stop", "start", "data", "end"} => ~transferActive
        /\ sdioPc = "start" => curState = "idle"
        /\ sdioPc = "data" => curState = sdioOp /\ curSector = sdioAt
    BY <1>1 DEF SdioInv, FifoInv
  <2> QED  BY <2>2, <2>3, <2>4, <2>5, <2>6 DEF FifoInv
<1>4. Sdio!Kept'
  BY <1>1, CardAssumption DEF SdioInv, SdioTypes, Calling, FifoInv, LastStored, Errors, Sdio!Kept, Sdio!Pending, Sdio!Moving, Sdio!BlockEnds
<1>5. Sdio!PointerAgrees'
  BY <1>1, CardAssumption DEF SdioInv, SdioTypes, Calling, FifoInv, Sdio!PointerAgrees, Sdio!BlockEnds
<1> QED  BY <1>1, <1>2, <1>3, <1>4, <1>5 DEF SdioInv

\* EraseSectors of the SDIO driver keeps SdioInv, and a sector that was read holds what the card does.
LEMMA SdioEraseSectorsStep ==
  ASSUME SdioInv, Sdio!EraseSectors PROVE SdioInv' /\ ReadsStep
BY DEF SdioInv, SdioTypes, Calling, FifoInv, LastStored, Errors, Sdio!PointerAgrees, DmaInv,
   Running, ReadsStep, Sdio!Kept, Sdio!Pending, Sdio!Moving, Sdio!EraseSectors, Sdio!Return,
   Sdio!Expect

\* Done of the SDIO driver keeps SdioInv, and a sector that was read holds what the card does.
LEMMA SdioDoneStep ==
  ASSUME SdioInv, Sdio!Done PROVE SdioInv' /\ ReadsStep
BY DEF SdioInv, SdioTypes, Calling, FifoInv, LastStored, Errors, Sdio!PointerAgrees, DmaInv,
   Running, ReadsStep, Sdio!Kept, Sdio!Pending, Sdio!Moving, Sdio!Done, Sdio!Return

-----------------------------------------------------------------------------
(* With DMA.                                                               *)

\* RdWrSectors of the SDIO driver keeps SdioInv, and a sector that was read holds what the card does.
LEMMA SdioRdWrSectorsStep ==
  ASSUME SdioInv, Sdio!RdWrSectors PROVE SdioInv' /\ ReadsStep
<1>1. useDma
  BY DEF SdioInv, FifoInv, Sdio!RdWrSectors, Sdio!EnableDmaIrs
<1>2. SdioTypes' /\ Calling'
  BY DEF SdioInv, SdioTypes, Calling, Sdio!RdWrSectors
<1>3. DmaInv' /\ Sdio!Kept' /\ Sdio!PointerAgrees' /\ ReadsStep
  BY <1>1 DEF SdioInv, DmaInv, Sdio!Kept, Sdio!Pending, Sdio!Moving, ReadsStep, Sdio!PointerAgrees,
     Sdio!RdWrSectors, Sdio!EnableDmaIrs
<1> QED  BY <1>1, <1>2, <1>3 DEF SdioInv, Sdio!RdWrSectors

\* ReadyFails of the SDIO driver keeps SdioInv, and a sector that was read holds what the card does.
LEMMA SdioReadyFailsStep ==
  ASSUME SdioInv, Sdio!ReadyFails PROVE SdioInv' /\ ReadsStep
<1>1. useDma
  BY DEF SdioInv, FifoInv, Sdio!ReadyFails, Sdio!Fails, Sdio!Return, Sdio!Expect
<1>2. SdioTypes' /\ Calling'
  BY DEF SdioInv, SdioTypes, Calling, Sdio!ReadyFails, Sdio!Fails, Sdio!Return, Sdio!Expect
<1>3. DmaInv' /\ Sdio!Kept' /\ Sdio!PointerAgrees' /\ ReadsStep
  BY <1>1 DEF SdioInv, SdioTypes, DmaInv, Running, Sdio!Kept, Sdio!Pending, Sdio!Moving, ReadsStep,
     Sdio!PointerAgrees, Sdio!ReadyFails, Sdio!Fails, Sdio!Return, Sdio!Expect
<1> QED  BY <1>1, <1>2, <1>3 DEF SdioInv, Sdio!ReadyFails

\* Poll of the SDIO driver keeps SdioInv, and a sector that was read holds what the card does.
LEMMA SdioPollStep ==
  ASSUME SdioInv, Sdio!Poll PROVE SdioInv' /\ ReadsStep
<1>1. useDma
  BY DEF SdioInv, FifoInv, Sdio!Poll
<1>2. SdioTypes' /\ Calling'
  BY DEF SdioInv, SdioTypes, Calling, Sdio!Poll
<1>3. DmaInv' /\ Sdio!Kept' /\ Sdio!PointerAgrees' /\ ReadsStep
  BY <1>1 DEF SdioInv, SdioTypes, DmaInv, HoldsVal, Running, Sdio!Chunk, Sdio!Kept, Sdio!Pending,
     Sdio!Moving, ReadsStep, Sdio!PointerAgrees, Sdio!Poll
<1> QED  BY <1>1, <1>2, <1>3 DEF SdioInv, Sdio!Poll

\* PollTimeout of the SDIO driver keeps SdioInv, and a sector that was read holds what the card does.
LEMMA SdioPollTimeoutStep ==
  ASSUME SdioInv, Sdio!PollTimeout PROVE SdioInv' /\ ReadsStep
<1>1. useDma
  BY DEF SdioInv, FifoInv, Sdio!PollTimeout, Sdio!NothingToSee, Sdio!Fails, Sdio!Return,
     Sdio!Expect, Sdio!Chunk
<1>2. SdioTypes' /\ Calling'
  BY <1>1 DEF SdioInv, SdioTypes, Calling, DmaInv, HoldsVal, Running, Sdio!Chunk, Sdio!PollTimeout,
     Sdio!NothingToSee, Sdio!Fails, Sdio!Return, Sdio!Expect
<1>3. DmaInv' /\ Sdio!Kept' /\ Sdio!PointerAgrees' /\ ReadsStep
  BY <1>1, <1>2 DEF SdioInv, SdioTypes, Calling, DmaInv, HoldsVal, Running, Sdio!Chunk,
     Sdio!Sectors, Sdio!Kept, Sdio!Pending, Sdio!Moving, ReadsStep, Sdio!PointerAgrees,
     Sdio!PollTimeout, Sdio!NothingToSee, Sdio!Fails, Sdio!Return, Sdio!Expect
<1> QED  BY <1>1, <1>2, <1>3 DEF SdioInv, Sdio!PollTimeout, Sdio!NothingToSee, Sdio!Fails,
     Sdio!Return, Sdio!Expect, Sdio!Chunk

\* DmaTimeout of the SDIO driver keeps SdioInv, and a sector that was read holds what the card does.
LEMMA SdioDmaTimeoutStep ==
  ASSUME SdioInv, Sdio!DmaTimeout PROVE SdioInv' /\ ReadsStep
<1>1. useDma
  BY DEF SdioInv, FifoInv, Sdio!DmaTimeout, Sdio!Fails, Sdio!Return, Sdio!Expect, Sdio!Chunk
<1>2. SdioTypes' /\ Calling'
  BY <1>1 DEF SdioInv, SdioTypes, Calling, DmaInv, HoldsVal, Running, Sdio!Chunk, Sdio!DmaTimeout,
     Sdio!Fails, Sdio!Return, Sdio!Expect
<1>3. DmaInv' /\ Sdio!Kept' /\ Sdio!PointerAgrees' /\ ReadsStep
  BY <1>1, <1>2 DEF SdioInv, SdioTypes, Calling, DmaInv, HoldsVal, Running, Sdio!Chunk,
     Sdio!Sectors, Sdio!Kept, Sdio!Pending, Sdio!Moving, ReadsStep, Sdio!PointerAgrees,
     Sdio!DmaTimeout, Sdio!Fails, Sdio!Return, Sdio!Expect
<1> QED  BY <1>1, <1>2, <1>3 DEF SdioInv, Sdio!DmaTimeout, Sdio!Fails, Sdio!Return, Sdio!Expect,
     Sdio!Chunk

\* HostFails of the SDIO driver keeps SdioInv, and a sector that was read holds what the card does.
LEMMA SdioHostFailsStep ==
  ASSUME SdioInv, Sdio!HostFails PROVE SdioInv' /\ ReadsStep
<1>1. useDma
  BY DEF SdioInv, FifoInv, Sdio!HostFails
<1>2. SdioTypes' /\ Calling'
  BY <1>1 DEF SdioInv, SdioTypes, Calling, DmaInv, HoldsVal, Running, Sdio!Chunk, Sdio!HostFails
<1>3. DmaInv' /\ Sdio!Kept' /\ Sdio!PointerAgrees' /\ ReadsStep
  BY <1>1, <1>2 DEF SdioInv, SdioTypes, Calling, DmaInv, HoldsVal, Running, Sdio!Chunk,
     Sdio!Sectors, Sdio!Kept, Sdio!Pending, Sdio!Moving, ReadsStep, Sdio!PointerAgrees,
     Sdio!HostFails
<1> QED  BY <1>1, <1>2, <1>3 DEF SdioInv, Sdio!HostFails

\* SdIrs of the SDIO driver keeps SdioInv, and a sector that was read holds what the card does.
LEMMA SdioSdIrsStep ==
  ASSUME SdioInv, Sdio!SdIrs PROVE SdioInv' /\ ReadsStep
BY DEF SdioInv, SdioTypes, Calling, FifoInv, Sdio!PointerAgrees, DmaInv, HoldsVal, Running,
   Sdio!Chunk, ReadsStep, Sdio!Sectors, Sdio!Kept, Sdio!Pending, Sdio!Moving, Sdio!SdIrs

\* CommandStatus of the SDIO driver keeps SdioInv, and a sector that was read holds what the card does.
LEMMA SdioCommandStatusStep ==
  ASSUME SdioInv, Sdio!CommandStatus PROVE SdioInv' /\ ReadsStep
<1>1. useDma
  BY DEF SdioInv, FifoInv, Sdio!CommandStatus
<1>2. SdioTypes' /\ Calling' /\ Sdio!PointerAgrees' /\ ReadsStep
  BY DEF SdioInv, SdioTypes, Calling, Sdio!PointerAgrees, ReadsStep, Sdio!CommandStatus, Sdio!Fails,
     Sdio!Return, Sdio!Expect
<1>3. CASE Sdio!Fails
  <2>1. DmaInv'
    BY <1>1, <1>3 DEF SdioInv, SdioTypes, DmaInv, Running, Sdio!Chunk, Sdio!CommandStatus,
       Sdio!Fails, Sdio!Return, Sdio!Expect
  <2>2. Sdio!Kept'
    BY <1>3 DEF SdioInv, Sdio!Kept, Sdio!Pending, Sdio!Moving, Sdio!CommandStatus, Sdio!Fails,
       Sdio!Expect
  <2> QED  BY <1>1, <1>2, <2>1, <2>2 DEF SdioInv, Sdio!CommandStatus, Sdio!build
<1>4. CASE sdioPc' = "dma" /\ UNCHANGED <<Sdio!args, accepted>>
  <2>1. DmaInv'
    BY <1>1, <1>4 DEF SdioInv, DmaInv, HoldsVal, Running, Sdio!Chunk, Sdio!CommandStatus
  <2>2. Sdio!Kept'
    BY <1>4 DEF SdioInv, Sdio!Kept, Sdio!Pending, Sdio!Moving, Sdio!Chunk, Sdio!CommandStatus
  <2> QED  BY <1>1, <1>2, <2>1, <2>2 DEF SdioInv, Sdio!CommandStatus, Sdio!build
<1> QED  BY <1>3, <1>4 DEF Sdio!CommandStatus

\* WaitDmaStatus of the SDIO driver keeps SdioInv, and a sector that was read holds what the card does.
LEMMA SdioWaitDmaStatusStep ==
  ASSUME SdioInv, Sdio!WaitDmaStatus PROVE SdioInv' /\ ReadsStep
<1>1. useDma
  BY DEF SdioInv, FifoInv, Sdio!WaitDmaStatus
<1>2. CASE Sdio!TransferOk(mIrqstat)
  <2>1. todo = 0 /\ \A s \in Sdio!Chunk : HoldsVal(s)
    BY <1>1, <1>2 DEF SdioInv, DmaInv, Running, Sdio!WaitDmaStatus, Sdio!TransferOk
  <2>2. SdioTypes' /\ Calling' /\ Sdio!PointerAgrees' /\ ReadsStep
    BY <1>1, <1>2, <2>1 DEF SdioInv, SdioTypes, Calling, DmaInv, Running, Sdio!PointerAgrees,
       ReadsStep, Sdio!WaitDmaStatus, Sdio!Advance, Sdio!Expect
  <2>3. DmaInv'
    BY <1>1, <1>2, <2>1 DEF SdioInv, SdioTypes, DmaInv, Running, Sdio!WaitDmaStatus, Sdio!Advance
  <2>4. Sdio!Kept'
    BY <1>1, <1>2, <2>1 DEF SdioInv, SdioTypes, DmaInv, HoldsVal, Sdio!Kept, Sdio!Pending,
       Sdio!Moving, Sdio!Chunk, Sdio!WaitDmaStatus, Sdio!Advance, Sdio!Expect
  <2> QED  BY <1>1, <2>2, <2>3, <2>4 DEF SdioInv, Sdio!WaitDmaStatus, Sdio!build
<1>3. CASE ~Sdio!TransferOk(mIrqstat)
  <2>1. SdioTypes' /\ Calling' /\ Sdio!PointerAgrees' /\ ReadsStep
    BY <1>1, <1>3 DEF SdioInv, SdioTypes, Calling, DmaInv, Sdio!PointerAgrees, ReadsStep,
       Sdio!WaitDmaStatus, Sdio!Fails, Sdio!Return, Sdio!Expect
  <2>2. DmaInv'
    BY <1>1, <1>3 DEF SdioInv, SdioTypes, Calling, DmaInv, Running, Sdio!Chunk, Sdio!WaitDmaStatus,
       Sdio!Fails, Sdio!Return, Sdio!Expect
  <2>3. Sdio!Kept'
    BY <1>1, <1>3 DEF SdioInv, SdioTypes, DmaInv, Sdio!Kept, Sdio!Pending, Sdio!Moving, Sdio!Chunk,
       Sdio!WaitDmaStatus, Sdio!Fails, Sdio!Return, Sdio!Expect
  <2> QED  BY <1>1, <2>1, <2>2, <2>3 DEF SdioInv, Sdio!WaitDmaStatus, Sdio!build
<1> QED  BY <1>2, <1>3

\* HostCommand of the SDIO driver keeps SdioInv, and a sector that was read holds what the card does.
LEMMA SdioHostCommandStep ==
  ASSUME SdioInv, Sdio!HostCommand PROVE SdioInv' /\ ReadsStep
<1>1. useDma /\ sdioPc = "poll" /\ irqstat = {} /\ mIrqstat = {}
  BY DEF SdioInv, FifoInv, DmaInv, Sdio!HostCommand
<1>2. SdioTypes' /\ Calling' /\ Sdio!PointerAgrees' /\ ReadsStep
  BY <1>1 DEF SdioInv, SdioTypes, Calling, DmaInv, Running, Sdio!PointerAgrees, ReadsStep,
     Sdio!HostCommand
<1>3. "TC" \notin irqstat' \cup mIrqstat'
  BY <1>1 DEF Sdio!HostCommand
<1>4. DmaInv'
  BY <1>1, <1>3 DEF SdioInv, SdioTypes, DmaInv, Running, Sdio!HostCommand
<1>5. Sdio!Kept'
  BY <1>1 DEF SdioInv, SdioTypes, Sdio!Kept, Sdio!Pending, Sdio!Moving, Sdio!Chunk, Sdio!HostCommand
<1> QED  BY <1>1, <1>2, <1>4, <1>5 DEF SdioInv, Sdio!HostCommand

\* HostMoves of the SDIO driver keeps SdioInv, and a sector that was read holds what the card does.
LEMMA SdioHostMovesStep ==
  ASSUME SdioInv, NEW v \in Val, Sdio!HostMoves(v) PROVE SdioInv' /\ ReadsStep
<1>1. useDma /\ todo \in Nat /\ todo > 0
  BY DEF SdioInv, SdioTypes, FifoInv, Sdio!HostMoves
<1>2. sdioFlash' \in [Sdio!Sectors -> Val]
  BY DEF SdioInv, SdioTypes, Sdio!HostMoves
<1>3. SdioTypes' /\ Calling' /\ Sdio!PointerAgrees' /\ ReadsStep
  BY <1>1, <1>2 DEF SdioInv, SdioTypes, Calling, DmaInv, Sdio!PointerAgrees, ReadsStep,
     Sdio!HostMoves
<1>4. CASE Running
  <2>1. sdioCardState = sdioOp /\ sdioCardSector + todo = sdioAt + chunk /\ sdioAt <= sdioCardSector
        /\ \A s \in sdioAt .. sdioCardSector - 1 : HoldsVal(s)
    BY <1>1, <1>4 DEF SdioInv, DmaInv
  <2>2. sdioOp = "write" => v = sdioVal
    BY <1>4 DEF Running, Sdio!HostMoves
  <2>3. \A s \in sdioAt .. sdioCardSector : HoldsVal(s)'
    BY <2>1, <2>2 DEF SdioInv, SdioTypes, HoldsVal, Sdio!HostMoves
  <2>4. todo = 1 => sdioAt .. sdioCardSector = Sdio!Chunk
    BY <2>1 DEF SdioInv, SdioTypes, Sdio!Chunk
  <2>5. DmaInv'
    BY <1>1, <1>4, <2>1, <2>3, <2>4 DEF SdioInv, SdioTypes, DmaInv, Running, Sdio!Chunk,
       Sdio!HostMoves
  <2>6. Sdio!Kept'
    BY <1>1, <1>4, <2>1 DEF SdioInv, SdioTypes, Running, Sdio!Kept, Sdio!Pending, Sdio!Moving,
       Sdio!Chunk, Sdio!HostMoves
  <2> QED  BY <1>1, <1>3, <2>5, <2>6 DEF SdioInv, Sdio!HostMoves, Sdio!build
<1>5. CASE ~Running
  <2>1. sdioCardState = "write" =>
          \A s \in sdioCardSector .. sdioCardSector + todo - 1 : s \in Sdio!Sectors => accepted[s] = NoVal
    BY <1>1, <1>5 DEF SdioInv, DmaInv
  <2>2. DmaInv'
    BY <1>1, <1>5, <2>1 DEF SdioInv, SdioTypes, DmaInv, Running, Sdio!HostMoves
  <2>3. Sdio!Kept'
    BY <1>1, <1>5, <2>1 DEF SdioInv, SdioTypes, Running, Sdio!Kept, Sdio!Pending, Sdio!Moving,
       Sdio!Chunk, Sdio!HostMoves
  <2> QED  BY <1>1, <1>3, <2>2, <2>3 DEF SdioInv, Sdio!HostMoves, Sdio!build
<1> QED  BY <1>4, <1>5

-----------------------------------------------------------------------------
(* The card over SDIO.                                                     *)

\* CallNext of the SDIO driver keeps SdioInv, and a sector that was read holds what the card does.
LEMMA SdioCallNextStep == ASSUME SdioInv, Sdio!CallNext PROVE SdioInv' /\ ReadsStep
<1>1. CASE Sdio!SyncDevice \/ Sdio!Begin \/ Sdio!BeginFails \/ Sdio!IsBusyEnds \/ Sdio!Status
  BY <1>1, SdioSyncDeviceStep, SdioBeginStep, SdioBeginFailsStep, SdioIsBusyEndsStep, SdioStatusStep
<1>2. ASSUME NEW s \in Sdio!Sectors, NEW n \in 1 .. SdioLastSector + 1, NEW c \in 1 .. SdioLastSector + 1,
             Sdio!ReadSectors(s, n, c)
      PROVE  SdioInv' /\ ReadsStep
  BY <1>2, SdioCallStep DEF Sdio!ReadSectors
<1>3. ASSUME NEW s \in Sdio!Sectors, NEW n \in 1 .. SdioLastSector + 1, Sdio!Erase(s, n)
      PROVE  SdioInv' /\ ReadsStep
  BY <1>3, SdioEraseStep
<1>4. ASSUME NEW s \in Sdio!Sectors, NEW n \in 1 .. SdioLastSector + 1, NEW c \in 1 .. SdioLastSector + 1,
             NEW v \in Val, Sdio!WriteSectors(s, n, v, c)
      PROVE  SdioInv' /\ ReadsStep
  BY <1>4, SdioCallStep DEF Sdio!WriteSectors
<1> QED  BY <1>1, <1>2, <1>3, <1>4 DEF Sdio!CallNext

\* Every step over SDIO keeps SdioInv.
LEMMA SdioNextStep == ASSUME SdioInv, Sdio!Next PROVE SdioInv' /\ ReadsStep
<1>1. CASE Sdio!CallNext
  BY <1>1, SdioCallNextStep
<1>2. CASE Sdio!FifoNext
  BY <1>2, SdioWaitStep, SdioWaitTimeoutStep, SdioStopTransmissionStep, SdioStopFailsStep, SdioStartStep, SdioStartFailsStep,
     SdioReadDataStep, SdioReadDataFailsStep, SdioReadEndStep, SdioWriteDataStep, SdioWriteDataFailsStep,
     SdioEraseSectorsStep, SdioDoneStep
     DEF Sdio!FifoNext
<1>3. CASE Sdio!DmaNext
  BY <1>3, SdioRdWrSectorsStep, SdioReadyFailsStep, SdioPollStep, SdioPollTimeoutStep,
     SdioCommandStatusStep, SdioWaitDmaStatusStep, SdioDmaTimeoutStep
     DEF Sdio!DmaNext
<1>4. CASE Sdio!HostNext
  BY <1>4, SdioBlockEndsStep, SdioHostCommandStep, SdioHostFailsStep, SdioSdIrsStep, SdioHostMovesStep
     DEF Sdio!HostNext
<1> QED  BY <1>1, <1>2, <1>3, <1>4 DEF Sdio!Next

\* The first state of the card over SDIO.
LEMMA SdioInit == CardsInit => SdioInv
BY SdioAssumption
   DEF CardsInit, Sdio!Init, SdioInv, SdioTypes, Calling, DmaInv, FifoInv, Running, Sdio!Kept, Sdio!PointerAgrees

\* Every step of the cards keeps SdioInv.
LEMMA CardsStep == SdioInv /\ [CardsNext]_cardsVars => SdioInv' /\ (ReadsStep \/ UNCHANGED sdioVars)
<1> SUFFICES ASSUME SdioInv, [CardsNext]_cardsVars PROVE SdioInv' /\ (ReadsStep \/ UNCHANGED sdioVars)
  OBVIOUS
<1>1. CASE UNCHANGED sdioVars
  BY <1>1 DEF sdioVars, SdioInv, SdioTypes, Calling, DmaInv, FifoInv, LastStored, Running, HoldsVal,
              Sdio!Kept, Sdio!PointerAgrees, Sdio!Pending, Sdio!Moving, Sdio!Chunk
<1>2. CASE Sdio!Next
  BY <1>2, SdioNextStep
<1> QED  BY <1>1, <1>2 DEF CardsNext, Spi, OverSdio, cardsVars

\* SdioInv is an invariant of the cards, whatever DMA, interrupts and timeouts do.
THEOREM SdioInvariance == CardsSpec => []SdioInv
<1>1. CardsInit => SdioInv
  BY SdioInit
<1>2. SdioInv /\ [CardsNext]_cardsVars => SdioInv'
  BY CardsStep
<1> QED  BY <1>1, <1>2, PTL DEF CardsSpec

\* What a program wrote over SDIO without being told of a failure is on the card, but for the
\* sector that is still in the FIFO, and the driver knows where the open transfer is.
THEOREM SdioSafety == CardsSpec => []SdioKept
<1>1. SdioInv => SdioKept
  BY DEF SdioInv, SdioKept
<1> QED  BY <1>1, SdioInvariance, PTL

\* A read over SDIO delivers the sector that was asked for.
THEOREM SdioReads == CardsSpec => SdioReadsRight
<1>1. SdioInv /\ [CardsNext]_cardsVars => [ReadsStep]_(Sdio!vars)
  BY CardsStep DEF sdioVars, Sdio!vars
<1>2. [ReadsStep]_(Sdio!vars) =>
        [sdioOp = "read" /\ sdioAt' > sdioAt =>
           IF useDma THEN todo = 0
           ELSE sdioCardSector' = sdioAt' /\ sdioGot' = sdioFlash[sdioAt]]_(Sdio!vars)
  BY DEF ReadsStep
<1> QED  BY <1>1, <1>2, SdioInvariance, PTL DEF CardsSpec, SdioReadsRight, Sdio!ReadsRight

-----------------------------------------------------------------------------
(* The card over SPI.                                                      *)

\* In a program that may have either card the one over SPI is still SdSpiCard: it keeps what is
\* proved of that.
THEOREM SpiAmongCards == CardsSpec => Spec /\ []PointerAgrees /\ IsBlockDevice
<1>1. CardsInit => Init
  BY DEF CardsInit
<1>2. [CardsNext]_cardsVars => [Next]_vars
  BY DEF CardsNext, Spi, OverSdio, cardsVars
<1>3. CardsSpec => Spec
  BY <1>1, <1>2, PTL DEF CardsSpec, Spec
<1> QED  BY <1>3, CardSafety, CardIsBlockDevice, PTL

=============================================================================
