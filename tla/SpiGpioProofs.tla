--------------------------- MODULE SpiGpioProofs ---------------------------
(***************************************************************************)
(* Theorems about SpiGpio, for every division of the pins into two ports,  *)
(* every initial value and every number of restarts.                       *)
(***************************************************************************)
EXTENDS SpiGpio, SequenceTheorems, TLAPS

(***************************************************************************)
(* TypeOK alone is not enough to bound the values of words: a word for a   *)
(* port holds pins of that port.                                           *)
(***************************************************************************)
WordOK(w) ==
  /\ w.reg = "GPIOA" => w.val \subseteq PinsA
  /\ w.reg = "GPIOB" => w.val \subseteq PinsB

(* Where the processor can be: SPI_GPIO_Mash writes two words, SPI_GPIOInit *)
(* four and never with the flag up; a poll that saw TRDY stays good.       *)
Control ==
  /\ at \in {"IODIRA", "IODIRB"} => init
  /\ init => at # "none" /\ ~GPIO_Changed
  /\ polled => at # "none" /\ TRDY

MirrorInv ==
  /\ TypeOK
  /\ Control
  /\ WordOK(holding) /\ WordOK(shifting)
  /\ NoOverrun
  /\ ShadowMirrored

LEMMA WordType ==
  ASSUME NEW reg \in Regs, NEW val \in SUBSET Pins
  PROVE  /\ Word(reg, val) \in Words
         /\ WordOK(Word(reg, val))
         /\ Word(reg, val) # NoWord
         /\ Word(reg, val).reg = reg
         /\ reg = "GPIOA" => Word(reg, val).val = val \cap PinsA
         /\ reg = "GPIOB" => Word(reg, val).val = val \cap PinsB
  BY DEF Word, Words, WordOK, NoWord, Regs, Pins

LEMMA ChipType ==
  ASSUME NEW w \in Words, WordOK(w), NEW l \in SUBSET Pins, NEW o \in SUBSET Pins
  PROVE  /\ LatchAfter(l, w) \in SUBSET Pins
         /\ OutputsAfter(o, w) \in SUBSET Pins
  BY DEF LatchAfter, OutputsAfter, Words, WordOK, Pins, Regs

LEMMA MirrorInit == Init => MirrorInv
<1> SUFFICES ASSUME Init PROVE MirrorInv
  OBVIOUS
<1>1. TypeOK
  <2>1. restarts \in 0 .. MaxRestarts
    BY RestartsAssumption DEF Init
  <2>2. InitVal \in SUBSET Pins
    BY InitValAssumption
  <2> QED
    BY <2>1, <2>2 DEF Init, TypeOK, Regs
<1>2. Control
  BY DEF Init, Control
<1>3. WordOK(holding) /\ WordOK(shifting)
  BY DEF Init, WordOK, NoWord
<1>4. NoOverrun
  BY DEF Init, NoOverrun
<1>5. ShadowMirrored
  BY DEF Init, ShadowMirrored, Final, StillToWrite
<1> QED
  BY <1>1, <1>2, <1>3, <1>4, <1>5 DEF MirrorInv

(***************************************************************************)
(* Outside the handlers only the shadow and the flag change.               *)
(***************************************************************************)
LEMMA MirrorSetVal ==
  ASSUME MirrorInv, NEW v \in SUBSET Pins, SetVal(v), lowered' \in SUBSET Pins
  PROVE  MirrorInv'
<1> USE DEF MirrorInv
<1>1. TypeOK'
  BY DEF SetVal, TypeOK, spi, chip
<1>2. Control'
  BY DEF SetVal, Control, TRDY, Transmitting, HoldingPrimed, spi
<1>3. (WordOK(holding) /\ WordOK(shifting))'
  BY DEF SetVal, WordOK, spi
<1>4. NoOverrun'
  BY DEF SetVal, NoOverrun, spi
<1>5. ShadowMirrored'
  <2>1. CASE GPIO_Changed'
    BY <2>1 DEF SetVal, ShadowMirrored
  <2>2. CASE ~GPIO_Changed'
    BY <2>2 DEF SetVal, ShadowMirrored, Final, StillToWrite, spi, chip, TypeOK
  <2> QED
    BY <2>1, <2>2
<1> QED
  BY <1>1, <1>2, <1>3, <1>4, <1>5

LEMMA MirrorMash == MirrorInv /\ SPI_GPIO_Mash => MirrorInv'
<1> SUFFICES ASSUME MirrorInv, SPI_GPIO_Mash PROVE MirrorInv'
  OBVIOUS
<1> USE DEF MirrorInv, SPI_GPIO_Mash
<1>1. TypeOK'
  BY DEF TypeOK, spi, chip, Regs
<1>2. Control'
  BY DEF Control, TRDY, Transmitting, HoldingPrimed, spi
<1>3. (WordOK(holding) /\ WordOK(shifting))'
  BY DEF WordOK, spi
<1>4. NoOverrun'
  BY DEF NoOverrun, spi
<1>5. ShadowMirrored'
  BY DEF ShadowMirrored, Final, StillToWrite
<1> QED
  BY <1>1, <1>2, <1>3, <1>4, <1>5

LEMMA MirrorPoll == MirrorInv /\ PollStatus => MirrorInv'
<1> SUFFICES ASSUME MirrorInv, PollStatus PROVE MirrorInv'
  OBVIOUS
<1> USE DEF MirrorInv, PollStatus
<1>1. TypeOK'
  BY DEF TypeOK, spi, chip
<1>2. Control'
  BY DEF Control, TRDY, Transmitting, HoldingPrimed, spi
<1>3. (WordOK(holding) /\ WordOK(shifting))'
  BY DEF WordOK, spi
<1>4. NoOverrun'
  BY DEF NoOverrun, spi
<1>5. ShadowMirrored'
  BY DEF ShadowMirrored, Final, StillToWrite, spi, chip
<1> QED
  BY <1>1, <1>2, <1>3, <1>4, <1>5

(***************************************************************************)
(* The word handed over is the shadow's, and it goes behind the ones the   *)
(* core already holds.                                                     *)
(***************************************************************************)
LEMMA MirrorWrite == MirrorInv /\ WriteTx => MirrorInv'
<1> SUFFICES ASSUME MirrorInv, WriteTx PROVE MirrorInv'
  OBVIOUS
<1> DEFINE w == Word(at, GPIO_Val)
<1>1. /\ at \in Regs /\ polled /\ TRDY
      /\ GPIO_Val \in SUBSET Pins
  BY DEF MirrorInv, TypeOK, Control, WriteTx
<1>2. /\ w \in Words /\ WordOK(w) /\ w # NoWord /\ w.reg = at
      /\ at = "GPIOA" => w.val = GPIO_Val \cap PinsA
      /\ at = "GPIOB" => w.val = GPIO_Val \cap PinsB
  BY <1>1, WordType
<1>3. /\ holding' = w
      /\ shifting' = IF HoldingPrimed THEN holding ELSE shifting
      /\ TOE' = TOE
      /\ HoldingPrimed => shifting = NoWord
  BY <1>1 DEF WriteTx, TakeWord, TRDY, HoldingPrimed, Transmitting
<1> HIDE DEF w
<1>4. /\ at' = After(at) /\ polled' = FALSE
      /\ init' = IF After(at) = "none" THEN FALSE ELSE init
      /\ GPIO_Changed' = IF After(at) = "none" THEN FALSE ELSE GPIO_Changed
      /\ UNCHANGED << GPIO_Val, olat, outputs, lowered, restarts >>
  BY DEF WriteTx, chip
<1>5. /\ at = "GPIOA" => After(at) = "GPIOB"
      /\ at = "GPIOB" => After(at) = IF init THEN "IODIRA" ELSE "none"
      /\ at = "IODIRA" => After(at) = "IODIRB"
      /\ at = "IODIRB" => After(at) = "none"
  BY DEF After
<1>6. TypeOK'
  <2>1. at' \in Regs \cup {"none"}
    BY <1>1, <1>4, <1>5 DEF Regs
  <2>2. holding' \in Words \cup {NoWord} /\ shifting' \in Words \cup {NoWord}
    BY <1>2, <1>3 DEF MirrorInv, TypeOK
  <2>3. polled' \in BOOLEAN /\ init' \in BOOLEAN /\ GPIO_Changed' \in BOOLEAN
    BY <1>4 DEF MirrorInv, TypeOK
  <2> QED
    BY <1>3, <1>4, <2>1, <2>2, <2>3 DEF MirrorInv, TypeOK
<1>7. Control'
  BY <1>1, <1>4, <1>5 DEF MirrorInv, Control, Regs
<1>8. (WordOK(holding) /\ WordOK(shifting))'
  BY <1>2, <1>3 DEF MirrorInv, WordOK
<1>9. NoOverrun'
  BY <1>3 DEF MirrorInv, NoOverrun
<1>10. ShadowMirrored'
  <2> USE DEF MirrorInv, ShadowMirrored, Final, StillToWrite
  <2>1. CASE at = "GPIOA"
    BY <2>1, <1>2, <1>3, <1>4, <1>5
  <2>2. CASE at = "GPIOB"
    BY <2>2, <1>2, <1>3, <1>4, <1>5 DEF NoWord, HoldingPrimed
  <2>3. CASE at \in {"IODIRA", "IODIRB"}
    BY <2>3, <1>2, <1>3, <1>4, <1>5 DEF NoWord, HoldingPrimed
  <2> QED
    BY <1>1, <2>1, <2>2, <2>3 DEF Regs
<1> QED
  BY <1>6, <1>7, <1>8, <1>9, <1>10 DEF MirrorInv

LEMMA MirrorLoad == MirrorInv /\ LoadShift => MirrorInv'
<1> SUFFICES ASSUME MirrorInv, LoadShift PROVE MirrorInv'
  OBVIOUS
<1> USE DEF MirrorInv, LoadShift
<1>1. TypeOK'
  BY DEF TypeOK, cpu, chip
<1>2. Control'
  BY DEF Control, TRDY, Transmitting, HoldingPrimed, cpu
<1>3. (WordOK(holding) /\ WordOK(shifting))'
  BY DEF WordOK, NoWord
<1>4. NoOverrun'
  BY DEF NoOverrun
<1>5. ShadowMirrored'
  BY DEF ShadowMirrored, Final, StillToWrite, Transmitting, NoWord, cpu, chip
<1> QED
  BY <1>1, <1>2, <1>3, <1>4, <1>5

LEMMA MirrorComplete == MirrorInv /\ Complete => MirrorInv'
<1> SUFFICES ASSUME MirrorInv, Complete PROVE MirrorInv'
  OBVIOUS
<1> USE DEF MirrorInv, Complete
<1>0. shifting \in Words /\ WordOK(shifting)
  BY DEF TypeOK, Transmitting
<1>1. TypeOK'
  <2>1. olat' \in SUBSET Pins /\ outputs' \in SUBSET Pins
    BY <1>0, ChipType DEF TypeOK
  <2> QED
    BY <2>1 DEF TypeOK, cpu
<1>2. Control'
  BY DEF Control, TRDY, Transmitting, HoldingPrimed, cpu
<1>3. (WordOK(holding) /\ WordOK(shifting))'
  BY DEF WordOK, NoWord
<1>4. NoOverrun'
  BY DEF NoOverrun
<1>5. ShadowMirrored'
  <2>1. /\ shifting.reg = "GPIOA" => olat' \cap PinsA = shifting.val
        /\ shifting.reg # "GPIOA" => olat' \cap PinsA = olat \cap PinsA
        /\ shifting.reg = "GPIOB" => olat' \cap PinsB = shifting.val
        /\ shifting.reg # "GPIOB" => olat' \cap PinsB = olat \cap PinsB
    BY <1>0, PortsAssumption DEF LatchAfter, WordOK, Words, Regs
  <2> QED
    BY <2>1 DEF ShadowMirrored, Final, StillToWrite, NoWord, cpu
<1> QED
  BY <1>1, <1>2, <1>3, <1>4, <1>5

LEMMA MirrorRestart == MirrorInv /\ Restart => MirrorInv'
<1> SUFFICES ASSUME MirrorInv, Restart PROVE MirrorInv'
  OBVIOUS
<1> USE DEF MirrorInv, Restart
<1>1. TypeOK'
  <2>1. restarts' \in 0 .. MaxRestarts
    BY RestartsAssumption DEF TypeOK
  <2>2. InitVal \in SUBSET Pins
    BY InitValAssumption
  <2> QED
    BY <2>1, <2>2 DEF TypeOK, chip, Regs
<1>2. Control'
  BY DEF Control
<1>3. (WordOK(holding) /\ WordOK(shifting))'
  BY DEF WordOK, NoWord
<1>4. NoOverrun'
  BY DEF NoOverrun
<1>5. ShadowMirrored'
  BY DEF ShadowMirrored, Final, StillToWrite
<1> QED
  BY <1>1, <1>2, <1>3, <1>4, <1>5

LEMMA MirrorNext == MirrorInv /\ [Next]_vars => MirrorInv'
<1> SUFFICES ASSUME MirrorInv, [Next]_vars PROVE MirrorInv'
  OBVIOUS
<1>1. ASSUME NEW gpio \in SUBSET Pins, SPI_GPIO_Set(gpio) PROVE MirrorInv'
  BY <1>1, MirrorSetVal DEF SPI_GPIO_Set, MirrorInv, TypeOK
<1>2. ASSUME NEW gpio \in SUBSET Pins, SPI_GPIO_Clr(gpio) PROVE MirrorInv'
  BY <1>2, MirrorSetVal DEF SPI_GPIO_Clr, MirrorInv, TypeOK
<1>3. CASE UNCHANGED vars
  BY <1>3 DEF vars, cpu, spi, chip, MirrorInv, TypeOK, Control, WordOK, NoOverrun,
     ShadowMirrored, Final, StillToWrite, TRDY, Transmitting, HoldingPrimed
<1> QED
  BY <1>1, <1>2, <1>3, MirrorMash, MirrorPoll, MirrorWrite, MirrorLoad, MirrorComplete,
     MirrorRestart DEF Next

(* The type invariant of the driver and the transmitter. *)
THEOREM TypeCorrect == Spec => []TypeOK
<1>1. MirrorInv => TypeOK
  BY DEF MirrorInv
<1> QED
  BY <1>1, MirrorInit, MirrorNext, PTL DEF Spec

(* No update of the shadow is lost on its way to the chip (SPI_GPIO.c      *)
(* lines 85 to 106), whatever the pins and however often the FPGA resets.  *)
THEOREM Mirrored == Spec => []ShadowMirrored
<1>1. MirrorInv => ShadowMirrored
  BY DEF MirrorInv
<1> QED
  BY <1>1, MirrorInit, MirrorNext, PTL DEF Spec

(* SPI_TxData never overruns the transmitter. *)
THEOREM NeverOverrun == Spec => []NoOverrun
<1>1. MirrorInv => NoOverrun
  BY DEF MirrorInv
<1> QED
  BY <1>1, MirrorInit, MirrorNext, PTL DEF Spec

(***************************************************************************)
(* NoUnaskedLow follows a port's latch word ahead of its direction word    *)
(* through the transmitter: `Loaded` says the latch may be shown, and a    *)
(* direction word is in the shift register only when it is.                *)
(***************************************************************************)
Loaded(pins) == pins \ olat \subseteq lowered

PortSafe(pins, latch, dir, behind) ==
  /\ holding.reg = latch => pins \ holding.val \subseteq lowered
  /\ shifting.reg = latch => pins \ shifting.val \subseteq lowered
  /\ at \in behind /\ init => Loaded(pins) \/ holding.reg = latch \/ shifting.reg = latch
  /\ holding.reg = dir => Loaded(pins) \/ shifting.reg = latch
  /\ shifting.reg = dir => Loaded(pins)
  /\ outputs \cap pins # {} => Loaded(pins)

SafeA == PortSafe(PinsA, "GPIOA", "IODIRA", {"GPIOB", "IODIRA"})
SafeB == PortSafe(PinsB, "GPIOB", "IODIRB", {"IODIRA", "IODIRB"})

LowInv ==
  /\ MirrorInv
  /\ Pins \ GPIO_Val \subseteq lowered
  /\ Pins \ InitVal \subseteq lowered
  /\ SafeA /\ SafeB

LEMMA LowInit == Init => LowInv
<1> SUFFICES ASSUME Init PROVE LowInv
  OBVIOUS
<1>1. MirrorInv
  BY MirrorInit
<1>2. SafeA /\ SafeB
  BY DEF Init, SafeA, SafeB, PortSafe, NoWord
<1> QED
  BY <1>1, <1>2 DEF Init, LowInv

(* An action that moves no word keeps both ports safe when `lowered` only  *)
(* grows and the processor does not get behind a word it has not written.  *)
LEMMA LowStill ==
  ASSUME SafeA, SafeB, UNCHANGED << holding, shifting, olat, outputs >>,
         lowered \subseteq lowered',
         (at' = at /\ init' = init) \/ at' = "GPIOA" \/ at' = "none"
  PROVE  SafeA' /\ SafeB'
<1>1. SafeA'
  BY DEF SafeA, PortSafe, Loaded
<1>2. SafeB'
  BY DEF SafeB, PortSafe, Loaded
<1> QED
  BY <1>1, <1>2

LEMMA LowWrite == LowInv /\ WriteTx => SafeA' /\ SafeB'
<1> SUFFICES ASSUME LowInv, WriteTx PROVE SafeA' /\ SafeB'
  OBVIOUS
<1> DEFINE w == Word(at, GPIO_Val)
<1>1. /\ at \in Regs /\ TRDY
      /\ GPIO_Val \in SUBSET Pins
      /\ init \in BOOLEAN
      /\ at \in {"IODIRA", "IODIRB"} => init
  BY DEF LowInv, MirrorInv, TypeOK, Control, WriteTx
<1>2. /\ w.reg = at
      /\ at = "GPIOA" => PinsA \ w.val \subseteq lowered
      /\ at = "GPIOB" => PinsB \ w.val \subseteq lowered
  BY <1>1, WordType DEF LowInv, Pins
<1>3. /\ holding' = w
      /\ shifting' = IF HoldingPrimed THEN holding ELSE shifting
      /\ HoldingPrimed => shifting = NoWord
      /\ ~HoldingPrimed => holding = NoWord
  BY <1>1 DEF WriteTx, TakeWord, TRDY, HoldingPrimed, Transmitting
<1> HIDE DEF w
<1>4. /\ at' = After(at)
      /\ init' = IF After(at) = "none" THEN FALSE ELSE init
      /\ UNCHANGED << olat, outputs, lowered >>
  BY DEF WriteTx, chip
<1>5. /\ at = "GPIOA" => After(at) = "GPIOB"
      /\ at = "GPIOB" => After(at) = IF init THEN "IODIRA" ELSE "none"
      /\ at = "IODIRA" => After(at) = "IODIRB"
      /\ at = "IODIRB" => After(at) = "none"
  BY DEF After
<1>6. SafeA'
  <2> USE <1>2, <1>3, <1>4, <1>5 DEF LowInv, SafeA, PortSafe, Loaded, NoWord
  <2>1. CASE at = "GPIOA"
    BY <2>1
  <2>2. CASE at = "GPIOB"
    BY <2>2
  <2>3. CASE at = "IODIRA"
    BY <2>3, <1>1
  <2>4. CASE at = "IODIRB"
    BY <2>4, <1>1
  <2> QED
    BY <1>1, <2>1, <2>2, <2>3, <2>4 DEF Regs
<1>7. SafeB'
  <2> USE <1>2, <1>3, <1>4, <1>5 DEF LowInv, SafeB, PortSafe, Loaded, NoWord
  <2>1. CASE at = "GPIOA"
    BY <2>1
  <2>2. CASE at = "GPIOB"
    BY <2>2
  <2>3. CASE at = "IODIRA"
    BY <2>3, <1>1
  <2>4. CASE at = "IODIRB"
    BY <2>4, <1>1
  <2> QED
    BY <1>1, <2>1, <2>2, <2>3, <2>4 DEF Regs
<1> QED
  BY <1>6, <1>7

LEMMA LowComplete == LowInv /\ Complete => SafeA' /\ SafeB'
<1> SUFFICES ASSUME LowInv, Complete PROVE SafeA' /\ SafeB'
  OBVIOUS
<1>1. /\ shifting \in Words /\ WordOK(shifting)
      /\ shifting' = NoWord
      /\ UNCHANGED << holding, at, init, lowered >>
      /\ olat' = LatchAfter(olat, shifting)
      /\ outputs' = OutputsAfter(outputs, shifting)
  BY DEF LowInv, MirrorInv, TypeOK, Complete, Transmitting, cpu
<1>2. /\ shifting.reg = "GPIOA" => olat' \cap PinsA = shifting.val
      /\ shifting.reg # "GPIOA" => olat' \cap PinsA = olat \cap PinsA
      /\ shifting.reg = "GPIOB" => olat' \cap PinsB = shifting.val
      /\ shifting.reg # "GPIOB" => olat' \cap PinsB = olat \cap PinsB
  BY <1>1, PortsAssumption DEF LatchAfter, WordOK, Words, Regs
<1>3. /\ shifting.reg # "IODIRA" => outputs' \cap PinsA = outputs \cap PinsA
      /\ shifting.reg # "IODIRB" => outputs' \cap PinsB = outputs \cap PinsB
  BY <1>1, PortsAssumption DEF OutputsAfter, Words, Regs
<1>4. SafeA'
  <2>1. Loaded(PinsA) \/ shifting.reg = "GPIOA" => Loaded(PinsA)'
    BY <1>1, <1>2 DEF Loaded, LowInv, SafeA, PortSafe
  <2> QED
    BY <1>1, <1>3, <2>1 DEF LowInv, SafeA, PortSafe, NoWord
<1>5. SafeB'
  <2>1. Loaded(PinsB) \/ shifting.reg = "GPIOB" => Loaded(PinsB)'
    BY <1>1, <1>2 DEF Loaded, LowInv, SafeB, PortSafe
  <2> QED
    BY <1>1, <1>3, <2>1 DEF LowInv, SafeB, PortSafe, NoWord
<1> QED
  BY <1>4, <1>5

LEMMA LowNext == LowInv /\ [Next]_vars => LowInv'
<1> SUFFICES ASSUME LowInv, [Next]_vars PROVE LowInv'
  OBVIOUS
<1>1. MirrorInv'
  BY MirrorNext DEF LowInv
<1> SUFFICES (/\ Pins \ GPIO_Val \subseteq lowered
              /\ Pins \ InitVal \subseteq lowered
              /\ SafeA /\ SafeB)'
  BY <1>1 DEF LowInv
<1> USE DEF LowInv
<1>2. ASSUME NEW gpio \in SUBSET Pins, SPI_GPIO_Set(gpio)
      PROVE  (/\ Pins \ GPIO_Val \subseteq lowered
              /\ Pins \ InitVal \subseteq lowered
              /\ SafeA /\ SafeB)'
  BY <1>2, LowStill DEF SPI_GPIO_Set, SetVal, spi, chip
<1>3. ASSUME NEW gpio \in SUBSET Pins, SPI_GPIO_Clr(gpio)
      PROVE  (/\ Pins \ GPIO_Val \subseteq lowered
              /\ Pins \ InitVal \subseteq lowered
              /\ SafeA /\ SafeB)'
  BY <1>3, LowStill DEF SPI_GPIO_Clr, SetVal, spi, chip
<1>4. CASE SPI_GPIO_Mash
  BY <1>4, LowStill DEF SPI_GPIO_Mash, spi, chip
<1>5. CASE PollStatus
  BY <1>5, LowStill DEF PollStatus, spi, chip
<1>6. CASE WriteTx
  BY <1>6, LowWrite DEF WriteTx
<1>7. CASE LoadShift
  BY <1>7 DEF LoadShift, HoldingPrimed, Transmitting, NoWord, cpu, chip, SafeA, SafeB,
     PortSafe, Loaded
<1>8. CASE Complete
  BY <1>8, LowComplete DEF Complete, cpu
<1>9. CASE Restart
  BY <1>9 DEF Restart, chip, NoWord, SafeA, SafeB, PortSafe, Loaded
<1>10. CASE UNCHANGED vars
  BY <1>10, LowStill DEF vars, cpu, spi, chip
<1> QED
  BY <1>2, <1>3, <1>4, <1>5, <1>6, <1>7, <1>8, <1>9, <1>10 DEF Next

(* No pin is driven low that the firmware has not asked to be low          *)
(* (SPI_GPIO.c lines 69 to 82), in particular not ATX_PSON.                *)
THEOREM NeverUnaskedLow == Spec => []NoUnaskedLow
<1>1. LowInv => NoUnaskedLow
  BY DEF LowInv, MirrorInv, TypeOK, SafeA, SafeB, PortSafe, Loaded, NoUnaskedLow, Pins
<1> QED
  BY <1>1, LowInit, LowNext, PTL DEF Spec

(***************************************************************************)
(* SpiGpio implements GpioLink, for every division of the pins into ports, *)
(* every initial value and every number of restarts: its initial states    *)
(* are initial states of the link, and each of its steps is a step of the  *)
(* link or leaves it as it is.  Link!Spec's fairness is left to the run    *)
(* spi_gpio.                                                               *)
(***************************************************************************)
(***************************************************************************)
(* The link's words under the refinement mapping: in the core, then in the *)
(* running handler.                                                        *)
(***************************************************************************)
InCore == Stage(shifting) \o Stage(holding)
Sent == InCore \o Unsent

LEMMA PairIsConcat ==
  ASSUME NEW S, NEW a \in S, NEW b \in S
  PROVE  << a, b >> = << a >> \o << b >>
<1> DEFINE s == << a, b >>
           t == << a >> \o << b >>
<1>1. /\ s \in Seq(S) /\ Len(s) = 2
      /\ s[1] = a /\ s[2] = b
  OBVIOUS
<1>2. /\ << a >> \in Seq(S) /\ << b >> \in Seq(S)
      /\ Len(<< a >>) = 1 /\ Len(<< b >>) = 1
      /\ << a >>[1] = a /\ << b >>[1] = b
  OBVIOUS
<1>3. /\ t \in Seq(S) /\ Len(t) = 2
      /\ t[1] = a /\ t[2] = b
  BY <1>2, ConcatProperties
<1> HIDE DEF s, t
<1>4. s = t
  BY <1>1, <1>3, SeqEqual
<1> QED
  BY <1>4 DEF s, t

LEMMA HeadFirst ==
  ASSUME NEW S, NEW a \in S, NEW s \in Seq(S)
  PROVE  /\ << a >> \o s # << >>
         /\ Head(<< a >> \o s) = a
         /\ Tail(<< a >> \o s) = s
  OBVIOUS

LEMMA StageType ==
  ASSUME NEW w \in Words \cup {NoWord}
  PROVE  Stage(w) \in Seq(Words) /\ Len(Stage(w)) <= 1
  BY DEF Stage

(* The next word of the running handler is the first of those unsent. *)
LEMMA UnsentFirst ==
  ASSUME MirrorInv, at \in Regs,
         at' = After(at), GPIO_Val' = GPIO_Val,
         init' = IF After(at) = "none" THEN FALSE ELSE init
  PROVE  /\ Unsent' \in Seq(Words)
         /\ Unsent = << Word(at, GPIO_Val) >> \o Unsent'
<1> DEFINE w(reg) == Word(reg, GPIO_Val)
<1>1. \A reg \in Regs : w(reg) \in Words
  BY WordType DEF MirrorInv, TypeOK
<1>2. at \in {"IODIRA", "IODIRB"} => init
  BY DEF MirrorInv, Control
<1>3. init \in BOOLEAN
  BY DEF MirrorInv, TypeOK
<1> HIDE DEF w
<1>4. CASE at = "GPIOA"
  BY <1>1, <1>2, <1>3, <1>4 DEF Unsent, After, Regs, w
<1>5. CASE at = "GPIOB"
  BY <1>1, <1>2, <1>3, <1>5 DEF Unsent, After, Regs, w
<1>6. CASE at = "IODIRA"
  BY <1>1, <1>2, <1>3, <1>6 DEF Unsent, After, Regs, w
<1>7. CASE at = "IODIRB"
  BY <1>1, <1>2, <1>3, <1>7 DEF Unsent, After, Regs, w
<1> QED
  BY <1>4, <1>5, <1>6, <1>7 DEF Regs

LEMMA InCoreType ==
  MirrorInv => InCore \in Seq(Words) /\ Len(InCore) <= 2
<1> SUFFICES ASSUME MirrorInv PROVE InCore \in Seq(Words) /\ Len(InCore) <= 2
  OBVIOUS
<1>1. /\ Stage(shifting) \in Seq(Words) /\ Len(Stage(shifting)) <= 1
      /\ Stage(holding) \in Seq(Words) /\ Len(Stage(holding)) <= 1
  BY StageType DEF MirrorInv, TypeOK
<1>2. Len(InCore) = Len(Stage(shifting)) + Len(Stage(holding))
  BY <1>1, ConcatProperties DEF InCore
<1>3. Len(Stage(shifting)) \in Nat /\ Len(Stage(holding)) \in Nat
  BY <1>1, LenProperties
<1> QED
  BY <1>1, <1>2, <1>3, ConcatProperties DEF InCore

LEMMA UnsentType == MirrorInv => Unsent \in Seq(Words)
<1> SUFFICES ASSUME MirrorInv PROVE Unsent \in Seq(Words)
  OBVIOUS
<1> DEFINE w(reg) == Word(reg, GPIO_Val)
<1>1. \A reg \in Regs : w(reg) \in Words
  BY WordType DEF MirrorInv, TypeOK
<1>2. at \in Regs \cup {"none"} /\ init \in BOOLEAN
  BY DEF MirrorInv, TypeOK
<1> HIDE DEF w
<1>3. CASE at = "GPIOA"
  BY <1>1, <1>2, <1>3 DEF Unsent, Regs, w
<1>4. CASE at = "GPIOB"
  BY <1>1, <1>2, <1>4 DEF Unsent, Regs, w
<1>5. CASE at = "IODIRA"
  BY <1>1, <1>2, <1>5 DEF Unsent, Regs, w
<1>6. CASE at = "IODIRB"
  BY <1>1, <1>2, <1>6 DEF Unsent, Regs, w
<1>7. CASE at = "none"
  BY <1>7 DEF Unsent
<1> QED
  BY <1>2, <1>3, <1>4, <1>5, <1>6, <1>7 DEF Regs

(* The link is at rest but for what is in the core, outside the handlers.  *)
LEMMA SentAtRest == MirrorInv /\ at = "none" => Sent = InCore /\ Unsent = << >>
  BY InCoreType, ConcatEmptySeq DEF Sent, Unsent

LEMMA RefineInit == Init => Link!Init
<1> SUFFICES ASSUME Init PROVE Link!Init
  OBVIOUS
<1>1. MirrorInv
  BY MirrorInit
<1>2. Stage(shifting) = << >> /\ Stage(holding) = << >>
  BY DEF Init, Stage
<1>3. Unsent = InitWords(InitVal)
  BY DEF Init, Unsent, InitWords, FlushWords, Word
<1>4. Unsent \in Seq(Words)
  BY <1>1, UnsentType
<1>5. InCore = << >>
  BY <1>2, EmptySeq, ConcatEmptySeq DEF InCore
<1>6. Sent = InitWords(InitVal)
  BY <1>3, <1>4, <1>5, ConcatEmptySeq DEF Sent
<1>7. (Stage(shifting) \o Stage(holding)) \o Unsent = InitWords(InitVal)
  BY <1>6 DEF Sent, InCore
<1> QED
  BY <1>7
  DEF Init, Link!Init, Link!InitWords, Link!FlushWords, Link!Word, InitWords, FlushWords, Word

(***************************************************************************)
(* The steps.  GPIO_Changed is the link's flag outside the handlers only:  *)
(* SPI_GPIO_Mash is a flush the moment it starts.                          *)
(***************************************************************************)
Abstract == << GPIO_Val, GPIO_Changed /\ at = "none", Sent, olat, outputs, restarts >>

LEMMA AbstractVars == UNCHANGED Abstract => UNCHANGED Link!vars
  BY DEF Link!vars, Abstract, Sent, InCore

LEMMA RefineSetVal ==
  ASSUME MirrorInv, NEW v \in SUBSET Pins, SetVal(v)
  PROVE  Link!Next \/ UNCHANGED Abstract
<1>1. /\ at = "none" /\ at' = "none"
      /\ GPIO_Val' = v
      /\ GPIO_Changed' = (GPIO_Changed \/ v # GPIO_Val)
      /\ UNCHANGED << holding, shifting, olat, outputs, restarts >>
  BY DEF SetVal, spi, chip
<1>2. GPIO_Changed \in BOOLEAN
  BY DEF MirrorInv, TypeOK
<1>3. Sent' = Sent
  BY <1>1 DEF Sent, InCore, Unsent, Stage
<1>4. CASE v = GPIO_Val
  BY <1>1, <1>2, <1>3, <1>4 DEF Abstract
<1>5. CASE v # GPIO_Val
  <2>1. \E u \in SUBSET Link!Pins : u # GPIO_Val /\ GPIO_Val' = u
    BY <1>1, <1>5 DEF Link!Pins, Pins
  <2>2. (GPIO_Changed /\ at = "none")' = TRUE
    BY <1>1, <1>5
  <2>3. Link!Update
    BY <1>1, <1>3, <2>1, <2>2 DEF Link!Update, Sent, InCore
  <2> QED
    BY <2>3 DEF Link!Next
<1> QED
  BY <1>4, <1>5

LEMMA RefineMash ==
  ASSUME MirrorInv, SPI_GPIO_Mash
  PROVE  Link!Next
<1>1. /\ at = "none" /\ GPIO_Changed /\ at' = "GPIOA" /\ init' = init
      /\ UNCHANGED << GPIO_Val, holding, shifting, olat, outputs, restarts >>
  BY DEF SPI_GPIO_Mash, spi, chip
<1>2. init = FALSE
  BY <1>1 DEF MirrorInv, TypeOK, Control
<1>3. Sent = InCore /\ InCore' = InCore
  BY <1>1, SentAtRest DEF InCore, Stage
<1>4. Unsent' = FlushWords(GPIO_Val)
  <2>1. FlushWords(GPIO_Val) \in Seq(Words)
    BY WordType DEF FlushWords, Regs, MirrorInv, TypeOK
  <2> QED
    BY <1>1, <1>2, <2>1, ConcatEmptySeq DEF Unsent, FlushWords
<1>5. Sent' = Sent \o FlushWords(GPIO_Val)
  BY <1>3, <1>4 DEF Sent
<1>6. Len(Sent) <= 2
  BY <1>3, InCoreType
<1>7. Link!Flush
  BY <1>1, <1>5, <1>6 DEF Link!Flush, Link!FlushWords, Link!Word, FlushWords, Word, Sent, InCore
<1> QED
  BY <1>7 DEF Link!Next

LEMMA RefineWrite ==
  ASSUME MirrorInv, WriteTx
  PROVE  UNCHANGED Abstract
<1> DEFINE w == Word(at, GPIO_Val)
<1>1. /\ at \in Regs /\ TRDY /\ GPIO_Val \in SUBSET Pins
      /\ at' = After(at) /\ GPIO_Val' = GPIO_Val
      /\ init' = IF After(at) = "none" THEN FALSE ELSE init
      /\ GPIO_Changed' = IF After(at) = "none" THEN FALSE ELSE GPIO_Changed
      /\ UNCHANGED << olat, outputs, restarts >>
  BY DEF MirrorInv, TypeOK, Control, WriteTx, chip
<1>2. w \in Words /\ w # NoWord
  BY <1>1, WordType
<1>3. /\ holding' = w
      /\ shifting' = IF HoldingPrimed THEN holding ELSE shifting
      /\ HoldingPrimed => shifting = NoWord
      /\ ~HoldingPrimed => holding = NoWord
  BY <1>1 DEF WriteTx, TakeWord, TRDY, HoldingPrimed, Transmitting
<1> HIDE DEF w
<1>4. /\ Unsent' \in Seq(Words)
      /\ Unsent = << w >> \o Unsent'
  BY <1>1, UnsentFirst DEF w
<1>5. /\ << w >> \in Seq(Words)
      /\ Stage(holding)' = << w >>
  BY <1>2, <1>3 DEF Stage
<1>6. InCore' = InCore \o << w >>
  <2>1. /\ Stage(shifting) \in Seq(Words) /\ Stage(holding) \in Seq(Words)
        /\ Stage(NoWord) = << >>
    BY StageType DEF MirrorInv, TypeOK, Stage
  <2>2. CASE HoldingPrimed
    <3>1. Stage(shifting) = << >> /\ Stage(shifting)' = Stage(holding)
      BY <1>3, <2>1, <2>2 DEF Stage
    <3>2. InCore = Stage(holding)
      BY <2>1, <3>1, ConcatEmptySeq DEF InCore
    <3> QED
      BY <1>5, <3>1, <3>2 DEF InCore
  <2>3. CASE ~HoldingPrimed
    <3>1. Stage(holding) = << >> /\ Stage(shifting)' = Stage(shifting)
      BY <1>3, <2>1, <2>3 DEF Stage
    <3>2. InCore = Stage(shifting)
      BY <2>1, <3>1, ConcatEmptySeq DEF InCore
    <3> QED
      BY <1>5, <3>1, <3>2 DEF InCore
  <2> QED
    BY <2>2, <2>3
<1>7. Sent' = Sent
  BY <1>4, <1>5, <1>6, InCoreType, ConcatAssociative DEF Sent
<1>8. (GPIO_Changed /\ at = "none")' = (GPIO_Changed /\ at = "none")
  BY <1>1 DEF Regs
<1> QED
  BY <1>1, <1>7, <1>8 DEF Abstract

LEMMA RefineLoad ==
  ASSUME MirrorInv, LoadShift
  PROVE  UNCHANGED Abstract
<1>1. /\ shifting = NoWord /\ shifting' = holding /\ holding' = NoWord
      /\ UNCHANGED << GPIO_Val, GPIO_Changed, at, init, olat, outputs, restarts >>
  BY DEF LoadShift, Transmitting, cpu, chip
<1>2. Stage(holding) \in Seq(Words) /\ Stage(NoWord) = << >>
  BY StageType DEF MirrorInv, TypeOK, Stage
<1>3. /\ Stage(shifting) = << >> /\ Stage(shifting)' = Stage(holding)
      /\ Stage(holding)' = << >>
  BY <1>1, <1>2 DEF Stage
<1>4. InCore' = InCore
  BY <1>2, <1>3, ConcatEmptySeq DEF InCore
<1>5. Unsent' = Unsent
  BY <1>1 DEF Unsent
<1> QED
  BY <1>1, <1>4, <1>5 DEF Abstract, Sent

LEMMA RefineComplete ==
  ASSUME MirrorInv, Complete
  PROVE  Link!Next
<1>1. /\ shifting # NoWord /\ shifting' = NoWord
      /\ olat' = LatchAfter(olat, shifting)
      /\ outputs' = OutputsAfter(outputs, shifting)
      /\ UNCHANGED << GPIO_Val, GPIO_Changed, at, init, holding, restarts >>
  BY DEF Complete, Transmitting, cpu
<1>2. shifting \in Words
  BY <1>1 DEF MirrorInv, TypeOK
<1> DEFINE rest == Stage(holding) \o Unsent
<1>3. /\ Stage(shifting) = << shifting >> /\ Stage(shifting)' = << >>
      /\ Stage(holding)' = Stage(holding) /\ Unsent' = Unsent
  BY <1>1 DEF Stage, Unsent
<1>4. /\ Stage(holding) \in Seq(Words) /\ Unsent \in Seq(Words)
      /\ << shifting >> \in Seq(Words)
  BY <1>2, StageType, UnsentType DEF MirrorInv, TypeOK
<1>5. rest \in Seq(Words)
  BY <1>4, ConcatProperties
<1>6. Sent = << shifting >> \o rest
  BY <1>3, <1>4, ConcatAssociative DEF Sent, InCore
<1>7. Sent' = rest
  BY <1>3, <1>4, ConcatEmptySeq DEF Sent, InCore
<1>8. Sent # << >> /\ Head(Sent) = shifting /\ Tail(Sent) = Sent'
  BY <1>2, <1>5, <1>6, <1>7, HeadFirst
<1>9. Link!Deliver
  BY <1>1, <1>8 DEF Link!Deliver, Link!LatchAfter, Link!OutputsAfter, LatchAfter,
     OutputsAfter, Sent, InCore
<1> QED
  BY <1>9 DEF Link!Next

LEMMA RefineRestart ==
  ASSUME MirrorInv, Restart
  PROVE  Link!Next
<1>1. /\ restarts < MaxRestarts /\ restarts' = restarts + 1
      /\ GPIO_Val' = InitVal /\ GPIO_Changed' = FALSE
      /\ at' = "GPIOA" /\ init' = TRUE
      /\ holding' = NoWord /\ shifting' = NoWord
      /\ UNCHANGED << olat, outputs >>
  BY DEF Restart, chip
<1>2. MirrorInv'
  BY MirrorRestart
<1>3. Unsent' = InitWords(InitVal)
  <2>1. /\ Word("IODIRA", InitVal) = Word("IODIRA", {})
        /\ Word("IODIRB", InitVal) = Word("IODIRB", {})
    BY DEF Word
  <2> QED
    BY <1>1, <2>1 DEF Unsent, InitWords, FlushWords
<1>4. InitWords(InitVal) \in Seq(Words)
  <2>1. InitVal \in SUBSET Pins
    BY InitValAssumption
  <2>2. FlushWords(InitVal) \in Seq(Words)
    BY <2>1, WordType DEF FlushWords, Regs
  <2>3. << Word("IODIRA", {}), Word("IODIRB", {}) >> \in Seq(Words)
    BY WordType DEF Regs
  <2> QED
    BY <2>2, <2>3, ConcatProperties DEF InitWords
<1>5. InCore' = << >>
  BY <1>1, EmptySeq, ConcatEmptySeq DEF InCore, Stage
<1>6. Sent' = InitWords(InitVal)
  BY <1>3, <1>4, <1>5, ConcatEmptySeq DEF Sent
<1>7. Link!Restart
  BY <1>1, <1>6 DEF Link!Restart, Link!InitWords, Link!FlushWords, Link!Word, InitWords,
     FlushWords, Word, Sent, InCore
<1> QED
  BY <1>7 DEF Link!Next

LEMMA RefineNext == MirrorInv /\ [Next]_vars => [Link!Next]_(Link!vars)
<1> SUFFICES ASSUME MirrorInv, [Next]_vars PROVE Link!Next \/ UNCHANGED Abstract
  BY AbstractVars
<1>1. ASSUME NEW gpio \in SUBSET Pins, SPI_GPIO_Set(gpio) \/ SPI_GPIO_Clr(gpio)
      PROVE  Link!Next \/ UNCHANGED Abstract
  BY <1>1, RefineSetVal DEF SPI_GPIO_Set, SPI_GPIO_Clr, MirrorInv, TypeOK
<1>2. CASE PollStatus
  BY <1>2 DEF PollStatus, spi, chip, Abstract, Sent, InCore, Unsent, Stage
<1>3. CASE UNCHANGED vars
  BY <1>3 DEF vars, cpu, spi, chip, Abstract, Sent, InCore, Unsent, Stage
<1> QED
  BY <1>1, <1>2, <1>3, RefineMash, RefineWrite, RefineLoad, RefineComplete, RefineRestart
  DEF Next

(* SPI_GPIO.c over the spi_0 core implements the link: a flush takes       *)
(* effect at one instant, every word arrives once and in order, and        *)
(* nothing else reaches the chip.                                          *)
THEOREM Implements == Spec => Link!Init /\ [][Link!Next]_(Link!vars)
  BY RefineInit, RefineNext, MirrorInit, MirrorNext, PTL DEF Spec
=============================================================================
