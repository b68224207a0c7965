----------------------------- MODULE SdioTeensy -----------------------------
(***************************************************************************)
(* The SD card driver over SDIO of the Teensy boards, SdioTeensy.cpp.  It  *)
(* works in one of two ways: with DMA, where a call programs the host      *)
(* controller and waits for its interrupt handler sdIrs, or with the FIFO, *)
(* where a transfer stays open between calls and a sector that was handed  *)
(* to the FIFO is only waited for by the next call.                        *)
(*                                                                         *)
(* The host controller and the card are external.  They go on by           *)
(* themselves: a command completes or is refused, a sector moves or ends   *)
(* in an error, at any time while the thread is anywhere.  After an error  *)
(* in an open transfer no sector of it moves until CMD12; the card refuses *)
(* a data command while it is in a transfer; a sector that is still in the *)
(* FIFO at a CMD12 goes no further.                                        *)
(***************************************************************************)
EXTENDS Integers, FiniteSets

CONSTANTS
  LastSector,  \* the last sector of the card
  Val, NoVal,  \* what a sector can hold, and no sector
  MaxBlkCnt,   \* MAX_BLKCNT, scaled: the sectors of one transfer on Kinetis
  MaxFaults    \* bound on the exchanges that fail

Sectors == 0 .. LastSector

VARIABLES
  kinetis,         \* the build: a transfer has a block count
  useDma,          \* m_sdioConfig.useDma()
  curState,        \* m_curState: "idle", "read", "write"
  curSector,       \* m_curSector
  transferActive,  \* m_transferActive: a sector was left to the FIFO
  mIrqstat,        \* m_irqstat
  dmaBusy,         \* m_dmaBusy
  irqstat, sigen,  \* SDHC_IRQSTAT: a subset of CC, TC, CERR, DERR; SDHC_IRQSIGEN
  blkcnt,          \* the count in SDHC_BLKATTR
  block,           \* external: the sector in the FIFO, or NoVal
  todo,            \* external: sectors the DMA still has to move, -1 before its command
  cardState,       \* external: "tran", "read", "write"
  cardSector,      \* external: the sector the card moves next
  dead,            \* external: the open transfer had an error
  flash,           \* external: what the sectors hold
  pc, op,          \* where the thread is, and in which call
  at, left, chunk, \* the sector at hand, the sectors left, the sectors of the command
  val, got,        \* what is written, what the last sector read delivered
  accepted,        \* what the caller may expect of a sector; NoVal where a call failed
  doubt,           \* the sectors taken for stored on the word of an earlier one
  faults

build == <<kinetis, useDma>>
driver == <<curState, curSector, transferActive>>
irq == <<mIrqstat, dmaBusy, irqstat, sigen>>
card == <<block, todo, cardState, cardSector, dead, flash>>
args == <<op, at, left, chunk, val, got>>
vars == <<build, driver, irq, blkcnt, card, pc, args, accepted, doubt, faults>>

Init ==
  /\ kinetis \in BOOLEAN /\ useDma \in BOOLEAN
  /\ curState = "idle" /\ curSector = 0 /\ transferActive = FALSE
  /\ mIrqstat = {} /\ dmaBusy = FALSE /\ irqstat = {} /\ sigen = FALSE /\ blkcnt = 0
  /\ block = NoVal /\ todo = 0 /\ cardState = "tran" /\ cardSector = 0 /\ dead = FALSE
  /\ \E v \in Val : flash = [s \in Sectors |-> v]
  /\ accepted = flash /\ doubt = {}
  /\ pc = "free" /\ op = "none" /\ at = 0 /\ left = 0 /\ chunk = 0 /\ val = NoVal /\ got = NoVal
  /\ faults = 0

Fault == faults < MaxFaults /\ faults' = faults + 1
NoFault == UNCHANGED faults

\* A command or a wait takes what is in SDHC_IRQSTAT into m_irqstat and clears it.
Takes(bits) == irqstat' = {} /\ mIrqstat' = irqstat \cup bits
\* cardCommand; a call that gives up early gives no command.
CommandTakes == Takes({"CC"}) /\ UNCHANGED <<dmaBusy, sigen>>
MayTake == CommandTakes \/ UNCHANGED irq

Chunk == at .. at + chunk - 1
Expect(set, v) == accepted' = [s \in Sectors |-> IF s \in set THEN v ELSE accepted[s]]
Return ==
  /\ pc' = "free"
  /\ op' = "none" /\ at' = 0 /\ left' = 0 /\ chunk' = 0 /\ val' = NoVal /\ got' = NoVal
\* A call that fails leaves the sectors it was writing open.
Fails ==
  /\ Return
  /\ IF op = "write" THEN Expect(Chunk, NoVal) ELSE UNCHANGED accepted
\* n sectors of the call are done; what it writes is taken for written.
Advance(n) ==
  /\ at' = at + n /\ left' = left - n
  /\ IF op = "write" THEN Expect(at .. at + n - 1, val) ELSE UNCHANGED accepted
  /\ UNCHANGED <<op, val>>

-----------------------------------------------------------------------------
(* The calls.  With an aligned buffer the DMA moves all sectors in one     *)
(* command; otherwise readSectors and writeSectors go sector by sector.    *)
Call(call, s, n, v, c) ==
  /\ pc = "free" /\ n > 0 /\ s + n <= LastSector + 1 /\ c \in {1, n}
  /\ pc' = IF useDma THEN "ready" ELSE "wait"
  /\ op' = call /\ at' = s /\ left' = n /\ val' = v
  /\ chunk' = IF useDma THEN c ELSE 1
  /\ NoFault /\ UNCHANGED <<build, driver, irq, blkcnt, card, got, accepted, doubt>>
ReadSectors(s, n, c) == Call("read", s, n, NoVal, c)
WriteSectors(s, n, v, c) == Call("write", s, n, v, c)
SyncDevice ==
  /\ pc = "free" /\ pc' = "wait" /\ op' = "sync"
  /\ NoFault /\ UNCHANGED <<build, driver, irq, blkcnt, card, at, left, chunk, val, got, accepted, doubt>>

\* erase; its syncDevice is compiled out: ENABLE_TEENSY_SDIO_MOD is defined nowhere.
Erase(s, n) ==
  /\ pc = "free" /\ n > 0 /\ s + n <= LastSector + 1
  /\ pc' = "erase"
  /\ op' = "erase" /\ at' = s /\ left' = n
  /\ NoFault /\ UNCHANGED <<build, driver, irq, blkcnt, card, chunk, val, got, accepted, doubt>>

\* initSDHC: what was in the controller is lost.
InitSDHC == irqstat' = {} /\ sigen' = FALSE /\ blkcnt' = 0 /\ block' = NoVal /\ todo' = 0
\* begin: CMD0 resets the card; m_transferActive keeps its value.
Begin ==
  /\ pc \in {"free", "down"} /\ pc' = "free"
  /\ curState' = "idle" /\ InitSDHC /\ dmaBusy' = FALSE
  /\ cardState' = "tran" /\ dead' = FALSE
  /\ NoFault
  /\ UNCHANGED <<build, curSector, transferActive, mIrqstat, cardSector, flash, args, accepted, doubt>>
\* The program does not use a card that begin could not start.
BeginFails ==
  /\ pc \in {"free", "down"} /\ pc' = "down"
  /\ curState' = "idle" /\ InitSDHC
  /\ Fault
  /\ UNCHANGED <<build, curSector, transferActive, mIrqstat, dmaBusy, cardState, cardSector, dead,
                 flash, args, accepted, doubt>>

-----------------------------------------------------------------------------
(* With the FIFO.                                                          *)

\* What was handed to the FIFO and not yet found stored.
Pending == IF transferActive THEN {curSector - 1} ELSE {}

\* Mutant: the open transfer is used wherever it has come to.
NeedsStartAnywhere == curState # op
\* readSector, writeSector: the open transfer is not at this sector, or at its count.
NeedsStart ==
  \/ curState # op \/ curSector # at
  \/ kinetis /\ op = "write" /\ blkcnt = 0

\* Mutant: only a refused command counts.
BlockLostUnseen == "CERR" \in irqstat
BlockLost == irqstat \cap {"CERR", "DERR"} # {}
\* isBusyTransferComplete, negated.
TransferComplete == irqstat \cap {"TC", "CERR", "DERR"} # {}

\* waitTransferComplete, and where the call goes from there.  It does not ask whose end
\* it sees: the sector in the FIFO may not be the one that is complete.
Wait ==
  /\ pc = "wait" /\ (transferActive => TransferComplete)
  /\ transferActive' = FALSE
  /\ IF transferActive THEN Takes({}) ELSE UNCHANGED <<irqstat, mIrqstat>>
  /\ IF transferActive /\ BlockLost
     THEN Return /\ Expect(Pending, NoVal) /\ UNCHANGED doubt
     ELSE /\ UNCHANGED accepted
          /\ doubt' = IF block # NoVal THEN doubt \cup Pending ELSE doubt
          /\ \/ op = "sync" /\ curState = "idle" /\ Return
             \/ /\ op # "sync" \/ curState # "idle"
                /\ pc' = IF op = "sync" THEN "stop"
                         ELSE IF ~NeedsStart THEN "data"
                         ELSE IF curState # "idle" THEN "stop" ELSE "start"
                /\ UNCHANGED args
  /\ NoFault
  /\ UNCHANGED <<build, curState, curSector, dmaBusy, sigen, blkcnt, card>>
\* The second is over: the card was too slow, or no end will come because a command has
\* taken its status.  m_curState and m_curSector stay, and so does a sector in the FIFO.
WaitTimeout ==
  /\ pc = "wait" /\ transferActive
  /\ Fault \/ (block = NoVal /\ ~TransferComplete /\ NoFault)
  /\ transferActive' = FALSE /\ Takes({})
  /\ Return /\ Expect(Pending, NoVal)
  /\ UNCHANGED <<build, curState, curSector, dmaBusy, sigen, blkcnt, card, doubt>>

GoesIdle == curState' = "idle"
\* stopTransmission: CMD12 ends the transfer of the card; a sector in the FIFO is stored
\* or lost.
Stopped ==
  /\ cardState' = "tran" /\ dead' = FALSE /\ block' = NoVal
  /\ \/ UNCHANGED flash
     \/ block # NoVal /\ ~dead /\ flash' = [flash EXCEPT ![cardSector] = block]
StopTransmission ==
  /\ pc = "stop" /\ GoesIdle /\ Stopped /\ CommandTakes
  /\ IF op = "sync" THEN Return ELSE pc' = "start" /\ UNCHANGED args
  /\ NoFault
  /\ UNCHANGED <<build, curSector, transferActive, blkcnt, todo, cardSector, accepted, doubt>>
\* CMD12 got no answer: m_curState is idle whatever the card does.
StopFails ==
  /\ pc \in {"stop", "end"} /\ GoesIdle /\ MayTake /\ Fails /\ Fault
  /\ (Stopped \/ UNCHANGED <<cardState, dead, block, flash>>)
  /\ UNCHANGED <<build, curSector, transferActive, blkcnt, todo, cardSector, doubt>>

\* readStart, writeStart: CMD18 or CMD25 at the sector.
Start ==
  /\ pc = "start" /\ cardState = "tran" /\ CommandTakes
  /\ blkcnt' = IF kinetis THEN MaxBlkCnt ELSE 0
  /\ cardState' = op /\ cardSector' = at /\ dead' = FALSE
  /\ curState' = op /\ curSector' = at
  /\ pc' = "data" /\ NoFault
  /\ UNCHANGED <<build, transferActive, block, todo, flash, args, accepted, doubt>>
\* The card was busy too long, refused, or took the command and the answer was lost.
StartFails ==
  /\ pc = "start" /\ MayTake /\ Fails
  /\ blkcnt' \in {blkcnt, IF kinetis THEN MaxBlkCnt ELSE 0}
  /\ \/ cardState # "tran" /\ NoFault /\ UNCHANGED <<cardState, cardSector>>
     \/ cardState = "tran" /\ Fault
        /\ (UNCHANGED <<cardState, cardSector>> \/ (cardState' = op /\ cardSector' = at))
  /\ UNCHANGED <<build, driver, block, todo, dead, flash, doubt>>

Counted == blkcnt' = IF kinetis THEN blkcnt - 1 ELSE blkcnt
NextSector == IF left = 1 THEN "done" ELSE "wait"

\* readData: one sector from the FIFO; at the block count the transfer is ended.
ReadData ==
  /\ pc = "data" /\ op = "read" /\ ~dead
  /\ Takes({"TC"})
  /\ got' = flash[cardSector] /\ cardSector' = cardSector + 1 /\ Counted
  /\ IF kinetis /\ blkcnt = 1
     THEN pc' = "end" /\ UNCHANGED <<driver, op, at, left, chunk, val, accepted>>
     ELSE /\ pc' = NextSector /\ curSector' = curSector + 1 /\ Advance(1)
          /\ UNCHANGED <<curState, transferActive, chunk>>
  /\ NoFault
  /\ UNCHANGED <<build, dmaBusy, sigen, block, todo, cardState, dead, flash, doubt>>
ReadDataFails ==
  /\ pc = "data" /\ op = "read" /\ dead' = TRUE /\ Fails
  /\ IF dead THEN NoFault ELSE Fault
  /\ UNCHANGED <<build, driver, irq, blkcnt, block, todo, cardState, cardSector, flash, doubt>>
\* The syncDevice at the end of a counted transfer.
ReadEnd ==
  /\ pc = "end" /\ GoesIdle /\ Stopped /\ CommandTakes
  /\ curSector' = curSector + 1 /\ pc' = NextSector /\ Advance(1)
  /\ NoFault
  /\ UNCHANGED <<build, transferActive, blkcnt, todo, cardSector, chunk, got, doubt>>

\* writeData: once the FIFO is free the sector is in it; nobody waits for it here, and
\* the end of an earlier sector may still stand in SDHC_IRQSTAT.
WriteData ==
  /\ pc = "data" /\ op = "write" /\ block = NoVal
  /\ block' = val /\ transferActive' = TRUE
  /\ curSector' = curSector + 1 /\ pc' = NextSector /\ Advance(1)
  /\ doubt' = doubt \ {at}
  /\ NoFault
  /\ UNCHANGED <<build, curState, irq, blkcnt, todo, cardState, cardSector, dead, flash, chunk, got>>
WriteDataFails ==
  /\ pc = "data" /\ op = "write" /\ (dead' = TRUE \/ UNCHANGED dead) /\ Fails /\ Fault
  /\ UNCHANGED <<build, driver, irq, blkcnt, block, todo, cardState, cardSector, flash, doubt>>
\* erase: the content of the sectors is up to the card, which refuses while in a transfer.
EraseSectors ==
  /\ pc = "erase" /\ MayTake /\ Return /\ Expect(at .. at + left - 1, NoVal)
  /\ IF cardState = "tran" THEN NoFault \/ Fault ELSE NoFault
  /\ \E v \in Val : flash' = IF cardState = "tran"
       THEN [s \in Sectors |-> IF s \in at .. at + left - 1 THEN v ELSE flash[s]] ELSE flash
  /\ UNCHANGED <<build, driver, blkcnt, block, todo, cardState, cardSector, dead, doubt>>
Done ==
  /\ pc = "done" /\ Return /\ NoFault
  /\ UNCHANGED <<build, driver, irq, blkcnt, card, accepted, doubt>>

\* isBusy with the FIFO, on Kinetis at the block count: the transfer is ended, and
\* neither the status it saw nor what becomes of its CMD12 is looked at.
IsBusyEnds ==
  /\ pc = "free" /\ ~useDma /\ kinetis /\ transferActive /\ TransferComplete /\ blkcnt = 0
  /\ transferActive' = FALSE /\ GoesIdle
  /\ IF irqstat = {"TC"} /\ block = NoVal THEN UNCHANGED accepted ELSE Expect(Pending, NoVal)
  /\ \/ Stopped /\ CommandTakes /\ NoFault
     \/ (Stopped \/ UNCHANGED <<cardState, dead, block, flash>>) /\ MayTake /\ Fault
  /\ UNCHANGED <<build, curSector, blkcnt, todo, cardSector, pc, args, doubt>>
\* status, and isBusy with DMA: CMD13.
Status ==
  /\ pc = "free" /\ CommandTakes /\ NoFault
  /\ UNCHANGED <<build, driver, blkcnt, card, pc, args, accepted, doubt>>

\* The sector in the FIFO is stored or not; after an error the transfer is dead.
BlockEnds ==
  /\ block # NoVal /\ block' = NoVal
  /\ \/ /\ ~dead /\ flash' = [flash EXCEPT ![cardSector] = block]
        /\ cardSector' = cardSector + 1 /\ Counted
        /\ irqstat' = irqstat \cup {"TC"} /\ doubt' = doubt \ {cardSector}
        /\ NoFault /\ UNCHANGED dead
     \/ /\ irqstat' = irqstat \cup {"DERR"} /\ dead' = TRUE
        /\ IF dead THEN NoFault /\ UNCHANGED flash
           ELSE Fault /\ flash' \in {flash, [flash EXCEPT ![cardSector] = block]}
        /\ UNCHANGED <<cardSector, blkcnt, doubt>>
  /\ UNCHANGED <<build, driver, mIrqstat, dmaBusy, sigen, todo, cardState, pc, args, accepted>>

-----------------------------------------------------------------------------
(* With DMA.                                                               *)

\* enableDmaIrs.
EnableDmaIrs == mIrqstat' = {} /\ dmaBusy' = TRUE

\* rdWrSectors up to the command; the card says with CMD13 that it is ready.
RdWrSectors ==
  /\ pc = "ready" /\ todo = 0
  /\ EnableDmaIrs /\ irqstat' = {} /\ sigen' = TRUE
  /\ todo' = -1 /\ pc' = "poll" /\ NoFault
  /\ UNCHANGED <<build, driver, blkcnt, block, cardState, cardSector, dead, flash, args, accepted, doubt>>
\* yieldTimeout(isBusyCMD13); its commands take what is in SDHC_IRQSTAT.
ReadyFails ==
  /\ pc = "ready" /\ Fails /\ Fault
  /\ irqstat' = {} /\ mIrqstat' = irqstat
  /\ UNCHANGED <<build, driver, dmaBusy, sigen, blkcnt, card, doubt>>

\* The command completes, or the card refuses it.
HostCommand ==
  /\ todo = -1
  /\ \/ cardState = "tran" /\ irqstat' = irqstat \cup {"CC"} /\ NoFault
        /\ cardState' = op /\ cardSector' = at /\ todo' = chunk
     \/ irqstat' = irqstat \cup {"CERR"} /\ todo' = 0 /\ UNCHANGED <<cardState, cardSector>>
        /\ IF cardState = "tran" THEN Fault ELSE NoFault
  /\ UNCHANGED <<build, driver, mIrqstat, dmaBusy, sigen, blkcnt, block, dead, flash, pc, args, accepted, doubt>>

\* The DMA moves a sector, which is anything once the call has returned; the last one ends the transfer with an automatic CMD12.
HostMoves(v) ==
  /\ todo > 0 /\ (pc \in {"poll", "stat", "dma"} /\ op = "write" => v = val) /\ todo' = todo - 1 /\ cardSector' = cardSector + 1
  /\ flash' = IF cardState = "write" THEN [flash EXCEPT ![cardSector] = v] ELSE flash
  /\ IF todo = 1 THEN irqstat' = irqstat \cup {"TC"} /\ cardState' = "tran"
                 ELSE UNCHANGED <<irqstat, cardState>>
  /\ NoFault
  /\ UNCHANGED <<build, driver, mIrqstat, dmaBusy, sigen, blkcnt, block, dead, pc, args, accepted, doubt>>
HostFails ==
  /\ todo > 0 /\ todo' = 0
  /\ irqstat' = irqstat \cup {"DERR"} /\ cardState' \in {"tran", cardState}
  /\ Fault
  /\ UNCHANGED <<build, driver, mIrqstat, dmaBusy, sigen, blkcnt, block, cardSector, dead, flash, pc,
                 args, accepted, doubt>>

\* The interrupt handler, for every bit of SDHC_IRQSIGEN_MASK.
SdIrs ==
  /\ sigen /\ irqstat \cap {"TC", "CERR", "DERR"} # {}
  /\ sigen' = FALSE /\ mIrqstat' = irqstat /\ irqstat' = {} /\ dmaBusy' = FALSE
  /\ NoFault /\ UNCHANGED <<build, driver, blkcnt, card, pc, args, accepted, doubt>>

\* cardCommand waits for the command; if the handler was faster there is nothing to see.
Poll ==
  /\ pc = "poll" /\ irqstat \cap {"CC", "CERR"} # {} /\ pc' = "stat"
  /\ NoFault /\ UNCHANGED <<build, driver, irq, blkcnt, card, args, accepted, doubt>>
\* Mutant: no limit to the wait.
NothingToSeeYet == FALSE
NothingToSee == todo # -1 /\ irqstat \cap {"CC", "CERR"} = {}
PollTimeout ==
  /\ pc = "poll" /\ NothingToSee /\ Fails
  /\ NoFault /\ UNCHANGED <<build, driver, irq, blkcnt, card, doubt>>
\* cardCommand reads SDHC_IRQSTAT a second time, and clears what it read.
CommandStatus ==
  /\ pc = "stat" /\ mIrqstat' = irqstat /\ irqstat' = {}
  /\ IF "CC" \in irqstat /\ "CERR" \notin irqstat
     THEN pc' = "dma" /\ UNCHANGED <<args, accepted>>
     ELSE Fails
  /\ NoFault /\ UNCHANGED <<build, driver, dmaBusy, sigen, blkcnt, card, doubt>>

TransferOk(status) == "TC" \in status /\ status \cap {"CERR", "DERR"} = {}
\* waitDmaStatus.
WaitDmaStatus ==
  /\ pc = "dma" /\ ~dmaBusy
  /\ IF TransferOk(mIrqstat)
     THEN Advance(chunk) /\ pc' = (IF left = chunk THEN "done" ELSE "ready") /\ UNCHANGED <<chunk, got>>
     ELSE Fails
  /\ NoFault /\ UNCHANGED <<build, driver, irq, blkcnt, card, doubt>>
\* The second is over: the DMA is not at its end, and goes on, or no interrupt will come
\* because cardCommand has cleared its cause.
DmaTimeout ==
  /\ pc = "dma" /\ dmaBusy /\ Fails
  /\ IF todo > 0 THEN Fault ELSE irqstat = {} /\ NoFault
  /\ UNCHANGED <<build, driver, irq, blkcnt, card, doubt>>

-----------------------------------------------------------------------------
CallNext ==
  \/ \E s \in Sectors, n \in 1 .. LastSector + 1, c \in 1 .. LastSector + 1 :
       \/ ReadSectors(s, n, c) \/ (c = 1 /\ Erase(s, n))
       \/ \E v \in Val : WriteSectors(s, n, v, c)
  \/ SyncDevice \/ Begin \/ BeginFails \/ IsBusyEnds \/ Status
FifoNext ==
  \/ Wait \/ WaitTimeout \/ StopTransmission \/ StopFails \/ Start \/ StartFails
  \/ ReadData \/ ReadDataFails \/ ReadEnd \/ WriteData \/ WriteDataFails
  \/ EraseSectors \/ Done
DmaNext ==
  \/ RdWrSectors \/ ReadyFails \/ Poll \/ PollTimeout \/ CommandStatus \/ WaitDmaStatus \/ DmaTimeout
HostNext ==
  \/ BlockEnds \/ HostCommand \/ HostFails \/ SdIrs
  \/ \E v \in Val : HostMoves(v)
Next == CallNext \/ FifoNext \/ DmaNext \/ HostNext
Spec == Init /\ [][Next]_vars /\ WF_vars(FifoNext) /\ WF_vars(DmaNext) /\ WF_vars(HostNext)

-----------------------------------------------------------------------------
(* Properties.                                                             *)

\* The sectors a DMA command is moving.
Moving == IF pc \in {"poll", "stat", "dma"} /\ op = "write" THEN Chunk ELSE {}

\* What was written with success is on the card, but for the sector that is still in
\* the FIFO and the sectors of calls that failed: a sector the card did not store makes
\* the next call fail (waitTransferComplete).  After a wait that timed out the next wait may
\* take the late end of the sector given up for the one in the FIFO: those are in doubt, and
\* none is while nothing has failed.
Kept ==
  /\ \A s \in Sectors \ (Pending \cup Moving \cup doubt) : accepted[s] \in {flash[s], NoVal}
  /\ doubt # {} => faults > 0

\* A transfer that the driver takes for open (m_curState, m_curSector) is open on the
\* card, at that sector, unless an error ended it.
PointerAgrees ==
  ~useDma /\ curState # "idle" /\ ~dead /\ pc # "end" =>
    /\ cardState = curState
    /\ cardSector = curSector - (IF block # NoVal THEN 1 ELSE 0)

\* A read only goes on to the next sector when the card has sent this one: the sector
\* the caller gets is the sector that was asked for, and the DMA has moved all of them.
ReadsRight ==
  [][op = "read" /\ at' > at =>
       IF useDma THEN todo = 0 ELSE cardSector' = at' /\ got' = flash[at]]_vars

\* Every call returns, whatever the order of the interrupt handler and of the thread.
CallsReturn == pc \notin {"free", "down"} ~> pc = "free"
=============================================================================
