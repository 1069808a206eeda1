------------------------------- MODULE SpiGpio -------------------------------
(***************************************************************************)
(* SPI_GPIO.c over the spi_0 core: the shadow register GPIO_Cntrl, the     *)
(* polled transmitter with its holding and shift registers, and the        *)
(* expander at the other end of the wire.                                  *)
(*                                                                         *)
(* The processor and the transmitter run concurrently.  SPI_GPIOInit and   *)
(* SPI_GPIO_Mash are the loops over SPI_TxData they are in the code: `at`  *)
(* is the register whose word the processor has yet to hand over, and each *)
(* SPI_TxData is a poll of TRDY followed by a write.                       *)
(***************************************************************************)
EXTENDS Expander, Naturals

CONSTANTS InitVal,       \* the argument of SPI_GPIOInit
          MaxRestarts    \* bound: resets of the FPGA

ASSUME InitValAssumption == InitVal \subseteq Pins
ASSUME RestartsAssumption == MaxRestarts \in Nat

VARIABLES
  GPIO_Val,              \* GPIO_Cntrl.GPIO_Val
  GPIO_Changed,          \* GPIO_Cntrl.GPIO_Changed
  at,                    \* the register to write next, "none" outside the handlers
  init,                  \* the processor is in SPI_GPIOInit
  polled,                \* SPI_TxData has read TRDY = 1
  holding, shifting,     \* tx_holding_reg and shift_reg, NoWord when not primed
  TOE,                   \* the core's transmit overrun bit
  olat, outputs,         \* the chip
  lowered,               \* history: pins the firmware has asked to be 0
  restarts

cpu  == << GPIO_Val, GPIO_Changed, at, init, polled >>
spi  == << holding, shifting, TOE >>
chip == << olat, outputs >>
vars == << cpu, spi, chip, lowered, restarts >>

NoWord == [reg |-> "none", val |-> {}]

TypeOK ==
  /\ GPIO_Val \in SUBSET Pins
  /\ GPIO_Changed \in BOOLEAN
  /\ at \in Regs \cup {"none"}
  /\ init \in BOOLEAN
  /\ polled \in BOOLEAN
  /\ holding \in Words \cup {NoWord}
  /\ shifting \in Words \cup {NoWord}
  /\ TOE \in BOOLEAN
  /\ olat \in SUBSET Pins
  /\ outputs \in SUBSET Pins
  /\ lowered \in SUBSET Pins
  /\ restarts \in 0 .. MaxRestarts

Init ==
  /\ GPIO_Val = InitVal
  /\ GPIO_Changed = FALSE
  /\ at = "GPIOA"
  /\ init = TRUE
  /\ polled = FALSE
  /\ holding = NoWord
  /\ shifting = NoWord
  /\ TOE = FALSE
  /\ olat = {}
  /\ outputs = {}
  /\ lowered = Pins \ InitVal
  /\ restarts = 0

(***************************************************************************)
(* The callers.  The processor is in the main loop, outside SPI_GPIOInit   *)
(* and SPI_GPIO_Mash, when it calls these.                                 *)
(***************************************************************************)
(* Mutant: the flag is assigned, not raised: a call that changes nothing   *)
(* forgets an earlier one.                                                 *)
BugSetVal(v) ==
  /\ at = "none"
  /\ GPIO_Val' = v
  /\ GPIO_Changed' = (v # GPIO_Val)
  /\ UNCHANGED << at, init, polled, spi, chip, restarts >>

SetVal(v) ==
  /\ at = "none"
  /\ GPIO_Val' = v
  /\ GPIO_Changed' = (GPIO_Changed \/ v # GPIO_Val)
  /\ UNCHANGED << at, init, polled, spi, chip, restarts >>

SPI_GPIO_Set(gpio) ==
  /\ SetVal(GPIO_Val \cup gpio)
  /\ UNCHANGED lowered

SPI_GPIO_Clr(gpio) ==
  /\ SetVal(GPIO_Val \ gpio)
  /\ lowered' = lowered \cup gpio

(* SPI_GPIO_Mash calls SPI_GPIOWrite when the flag is up. *)
SPI_GPIO_Mash ==
  /\ at = "none"
  /\ GPIO_Changed
  /\ at' = "GPIOA"
  /\ UNCHANGED << GPIO_Val, GPIO_Changed, init, polled, spi, chip, lowered, restarts >>

(***************************************************************************)
(* SPI_TxData: spin on TRDY, then write the transmit register.             *)
(***************************************************************************)
Transmitting == shifting # NoWord
HoldingPrimed == holding # NoWord
TRDY == ~(Transmitting /\ HoldingPrimed)

PollStatus ==
  /\ at # "none"
  /\ ~polled
  /\ TRDY
  /\ polled' = TRUE
  /\ UNCHANGED << GPIO_Val, GPIO_Changed, at, init, spi, chip, lowered, restarts >>

(* Mutants: a fifth word in SPI_GPIOInit, port B's latch left out of it,   *)
(* and port B left out of SPI_GPIO_Mash.                                   *)
BugAfterLong(reg) ==
  CASE reg = "GPIOA"            -> "GPIOB"
    [] reg = "GPIOB" /\ init    -> "IODIRA"
    [] reg = "IODIRA"           -> "IODIRB"
    [] reg = "IODIRB"           -> "IPOLA"
    [] OTHER                    -> "none"

BugAfterNoLatchB(reg) ==
  CASE reg = "GPIOA" /\ init    -> "IODIRA"
    [] reg = "GPIOA"            -> "GPIOB"
    [] reg = "IODIRA"           -> "IODIRB"
    [] OTHER                    -> "none"

BugAfterNoPortB(reg) ==
  CASE reg = "GPIOA" /\ init    -> "GPIOB"
    [] reg = "GPIOB" /\ init    -> "IODIRA"
    [] reg = "IODIRA"           -> "IODIRB"
    [] OTHER                    -> "none"

(* Where the processor goes after a write: through SPI_GPIOInit's four     *)
(* words, or out of SPI_GPIO_Mash after two.                               *)
After(reg) ==
  CASE reg = "GPIOA"            -> "GPIOB"
    [] reg = "GPIOB" /\ init    -> "IODIRA"
    [] reg = "IODIRA"           -> "IODIRB"
    [] OTHER                    -> "none"

(* Mutant: a word overtakes the one in the holding register. *)
BugTakeWord(w) ==
  IF TRDY
    THEN /\ holding' = IF Transmitting THEN w ELSE holding
         /\ shifting' = IF Transmitting THEN shifting ELSE w
         /\ UNCHANGED TOE
    ELSE /\ TOE' = TRUE
         /\ UNCHANGED << holding, shifting >>

(* What the core does with a write: the word goes into the holding         *)
(* register, whose old word moves on to an idle shift register in the same *)
(* clock; a write while both are full is dropped and recorded in TOE.      *)
TakeWord(w) ==
  IF TRDY
    THEN /\ holding' = w
         /\ shifting' = IF HoldingPrimed THEN holding ELSE shifting
         /\ UNCHANGED TOE
    ELSE /\ TOE' = TRUE
         /\ UNCHANGED << holding, shifting >>

WriteTx ==
  /\ at # "none"
  /\ polled
  /\ TakeWord(Word(at, GPIO_Val))
  /\ polled' = FALSE
  /\ at' = After(at)
  /\ init' = IF After(at) = "none" THEN FALSE ELSE init
  /\ GPIO_Changed' = IF After(at) = "none" THEN FALSE ELSE GPIO_Changed
  /\ UNCHANGED << GPIO_Val, chip, lowered, restarts >>

(***************************************************************************)
(* The transmitter: a primed holding register is loaded into an idle shift *)
(* register, and a word that has been shifted out is in the chip.          *)
(***************************************************************************)
LoadShift ==
  /\ HoldingPrimed /\ ~Transmitting
  /\ shifting' = holding
  /\ holding' = NoWord
  /\ UNCHANGED << cpu, TOE, chip, lowered, restarts >>

Complete ==
  /\ Transmitting
  /\ olat' = LatchAfter(olat, shifting)
  /\ outputs' = OutputsAfter(outputs, shifting)
  /\ shifting' = NoWord
  /\ UNCHANGED << cpu, holding, TOE, lowered, restarts >>

(***************************************************************************)
(* The FPGA is reset, by a lost PLL lock or a new configuration: main runs *)
(* again while the chip keeps its registers, and a word on the wire is cut *)
(* short.                                                                  *)
(***************************************************************************)
Restart ==
  /\ restarts < MaxRestarts
  /\ restarts' = restarts + 1
  /\ GPIO_Val' = InitVal
  /\ GPIO_Changed' = FALSE
  /\ at' = "GPIOA"
  /\ init' = TRUE
  /\ polled' = FALSE
  /\ holding' = NoWord
  /\ shifting' = NoWord
  /\ TOE' = FALSE
  /\ UNCHANGED << chip, lowered >>

Next ==
  \/ \E gpio \in SUBSET Pins : SPI_GPIO_Set(gpio) \/ SPI_GPIO_Clr(gpio)
  \/ SPI_GPIO_Mash
  \/ PollStatus
  \/ WriteTx
  \/ LoadShift
  \/ Complete
  \/ Restart

(* The main loop calls SPI_GPIO_Mash again and again, a handler that has   *)
(* begun goes on, and the transmitter never stops.                         *)
Spec ==
  /\ Init /\ [][Next]_vars
  /\ WF_vars(SPI_GPIO_Mash) /\ WF_vars(PollStatus) /\ WF_vars(WriteTx)
  /\ WF_vars(LoadShift) /\ WF_vars(Complete)

-----------------------------------------------------------------------------
(***************************************************************************)
(* The pins of a port's register as they will be once everything handed to *)
(* the core, and everything the running handler is still to hand over, has *)
(* reached the chip.                                                       *)
(***************************************************************************)
StillToWrite(reg) == at = reg \/ (reg = "GPIOB" /\ at = "GPIOA")

Final(reg, pins) ==
  IF StillToWrite(reg) THEN GPIO_Val \cap pins
  ELSE IF holding.reg = reg THEN holding.val
  ELSE IF shifting.reg = reg THEN shifting.val
  ELSE olat \cap pins

(* The shadow is never ahead of the chip without the flag saying so: while *)
(* GPIO_Changed is 0, and while SPI_GPIO_Mash is sending, what is in       *)
(* flight will leave the chip's latches equal to GPIO_Val.  No update is   *)
(* lost between SPI_GPIO_Set or SPI_GPIO_Clr and the flush (SPI_GPIO.c     *)
(* lines 85 to 106), also across resets of the FPGA.                       *)
ShadowMirrored ==
  (~GPIO_Changed \/ at # "none") =>
    /\ Final("GPIOA", PinsA) = GPIO_Val \cap PinsA
    /\ Final("GPIOB", PinsB) = GPIO_Val \cap PinsB

(* A pin drives low only if the firmware asked for it: SPI_GPIOInit loads  *)
(* the latches before it turns the pins into outputs (lines 73 to 76), so  *)
(* the zeros the chip powers up with never reach a pin.  ATX_PSON is       *)
(* active low: a zero would switch the power supply on.                    *)
NoUnaskedLow == \A p \in outputs : p \notin olat => p \in lowered

(* The core never drops a word: SPI_TxData writes only when it has seen    *)
(* TRDY (line 33), and nothing makes TRDY fall in between.                 *)
NoOverrun == ~TOE

(* Every pin that settles in the shadow settles on the chip: a value that  *)
(* SPI_GPIO_Set or SPI_GPIO_Clr left there for good is driven in the end.  *)
PinsFollowShadow ==
  \A p \in Pins :
    /\ <>[](p \in GPIO_Val) => <>[](p \in outputs /\ p \in olat)
    /\ <>[](p \notin GPIO_Val) => <>[](p \in outputs /\ p \notin olat)

(***************************************************************************)
(* The words the callers of the link believe to be sent: the transmitter's *)
(* and those of the running handler.                                       *)
(***************************************************************************)
Stage(w) == IF w = NoWord THEN << >> ELSE << w >>

Unsent ==
  LET w(reg) == Word(reg, GPIO_Val)
      dirs   == IF init THEN << w("IODIRA"), w("IODIRB") >> ELSE << >>
  IN  CASE at = "GPIOA"  -> << w("GPIOA"), w("GPIOB") >> \o dirs
        [] at = "GPIOB"  -> << w("GPIOB") >> \o dirs
        [] at = "IODIRA" -> << w("IODIRA"), w("IODIRB") >>
        [] at = "IODIRB" -> << w("IODIRB") >>
        [] OTHER         -> << >>

Link == INSTANCE GpioLink WITH
          link <- Stage(shifting) \o Stage(holding) \o Unsent,
          GPIO_Changed <- (GPIO_Changed /\ at = "none")

(* The code implements the link GpioLink describes: a flush that takes     *)
(* effect at one instant and words that arrive once each, in order.        *)
ImplementsLink == Link!Spec
=============================================================================
