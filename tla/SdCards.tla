------------------------------- MODULE SdCards -------------------------------
(***************************************************************************)
(* SdCardFactory, SdCard.h: the card is driven over SPI (SdSpiCard) or     *)
(* over SDIO (SdioTeensy), for as long as the program runs.                *)
(***************************************************************************)
EXTENDS SdSpiCard

CONSTANTS
  SdioLastSector,  \* LastSector of the card over SDIO
  SdioMaxFaults,   \* MaxFaults of the card over SDIO
  MaxBlkCnt        \* MAX_BLKCNT, scaled
ASSUME SdioAssumption == SdioLastSector \in Nat /\ SdioMaxFaults \in Nat /\ MaxBlkCnt \in Nat

VARIABLES
  interface,       \* "spi" or "sdio": the configuration given to begin
  kinetis, useDma, curState, curSector, transferActive, mIrqstat, dmaBusy,
  irqstat, sigen, blkcnt, block, todo, dead, chunk, accepted, doubt,
  sdioPc, sdioOp, sdioAt, sdioLeft, sdioVal, sdioGot,
  sdioCardState, sdioCardSector, sdioFlash, sdioFaults

sdioVars ==
  <<kinetis, useDma, curState, curSector, transferActive, mIrqstat, dmaBusy,
    irqstat, sigen, blkcnt, block, todo, dead, chunk, accepted, doubt,
    sdioPc, sdioOp, sdioAt, sdioLeft, sdioVal, sdioGot,
    sdioCardState, sdioCardSector, sdioFlash, sdioFaults>>
cardsVars == <<interface, vars, sdioVars>>

Sdio == INSTANCE SdioTeensy WITH
  LastSector <- SdioLastSector, MaxFaults <- SdioMaxFaults,
  pc <- sdioPc, op <- sdioOp, at <- sdioAt, left <- sdioLeft, val <- sdioVal, got <- sdioGot,
  cardState <- sdioCardState, cardSector <- sdioCardSector, flash <- sdioFlash,
  faults <- sdioFaults

\* The card of the other interface is never begun.
SomeVal == CHOOSE v \in Val : TRUE
NoSpi == mCurSector = 0 /\ sharedSpi = 0 /\ flash = [s \in Sectors |-> SomeVal]
NoSdio == kinetis = FALSE /\ useDma = FALSE /\ sdioFlash[0] = SomeVal

\* newCard: m_spiCard.begin or m_sdioCard.begin.
CardsInit ==
  /\ Init /\ Sdio!Init
  /\ \/ interface = "spi" /\ NoSdio
     \/ interface = "sdio" /\ NoSpi

Spi == interface = "spi" /\ Next /\ UNCHANGED <<interface, sdioVars>>
OverSdio(step) == interface = "sdio" /\ step /\ UNCHANGED <<interface, vars>>

CardsNext == Spi \/ OverSdio(Sdio!Next)
\* The driver goes on in a call, and the host controller with what it was told.
CardsFair ==
  /\ WF_cardsVars(OverSdio(Sdio!FifoNext))
  /\ WF_cardsVars(OverSdio(Sdio!DmaNext))
  /\ WF_cardsVars(OverSdio(Sdio!HostNext))
CardsSpec == CardsInit /\ [][CardsNext]_cardsVars /\ CardsFair

-----------------------------------------------------------------------------
(* What SdioTeensy promises.  Over SPI it is PointerAgrees and             *)
(* IsBlockDevice of SdSpiCard.                                             *)

\* What was written with success is on the card, unless it is the sector in the FIFO, one of
\* a call that failed, or one that a wait after a timed-out wait took for stored on the end of
\* the sector before, and the transfer the driver takes for open is where it thinks
\* (SdioTeensy::writeSectors, waitTransferComplete, m_curState and m_curSector).
SdioKept == Sdio!Kept /\ Sdio!PointerAgrees

\* The sector a read gives the caller is the one asked for (readData, rdWrSectors).
SdioReadsRight == Sdio!ReadsRight

\* Every call over SDIO returns, whatever the order of sdIrs and of the thread.
SdioReturns == Sdio!CallsReturn
=============================================================================
