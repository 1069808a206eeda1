--------------------------- MODULE PowerSeqProofs ---------------------------
(***************************************************************************)
(* Theorems about the power sequence, for every choice of the delays the   *)
(* assumptions allow, every set of observed pins and every number of       *)
(* resets of the FPGA.                                                     *)
(***************************************************************************)
EXTENDS PowerSeq, Naturals, SequenceTheorems, TLAPS

(***************************************************************************)
(* Sequences of words on their way to the expander: what they will leave   *)
(* in the latch of a pin, and what a flush, a delivery and the start of    *)
(* the firmware do to that.                                                *)
(***************************************************************************)
(* The words SPI_GPIOWrite makes: pins of their own port only. *)
Sent == {Word(reg, v) : reg \in Regs, v \in SUBSET Pins}

WritesPin(w, p) == w.reg = IF p \in PinsA THEN "GPIOA" ELSE "GPIOB"

(* Behind the words of q, the latch of pin p, which is in l now, has the   *)
(* value it has in v: the last word for the pin carries it, or there is no *)
(* such word and the latch has it already.                                 *)
LastWord(q, v, p, k) ==
  /\ WritesPin(q[k], p)
  /\ p \in q[k].val <=> p \in v
  /\ \A i \in 1 .. Len(q) : i > k => ~WritesPin(q[i], p)

Reached(q, l, v, p) ==
  \/ /\ \A i \in 1 .. Len(q) : ~WritesPin(q[i], p)
     /\ p \in l <=> p \in v
  \/ \E k \in 1 .. Len(q) : LastWord(q, v, p, k)

(***************************************************************************)
(* The words, and what one does to a pin.                                  *)
(***************************************************************************)
LEMMA FlushWordsAre ==
  ASSUME NEW v \in SUBSET Pins, NEW f, f = FlushWords(v)
  PROVE  /\ f \in Seq(Sent) /\ Len(f) = 2
         /\ f[1] = Word("GPIOA", v) /\ f[2] = Word("GPIOB", v)
<1>1. Word("GPIOA", v) \in Sent /\ Word("GPIOB", v) \in Sent
  BY DEF Sent, Regs
<1> QED
  BY <1>1 DEF FlushWords

LEMMA InitWordsAre ==
  ASSUME NEW v \in SUBSET Pins, NEW q, q = InitWords(v)
  PROVE  /\ q \in Seq(Sent) /\ Len(q) = 4
         /\ q[1] = Word("GPIOA", v) /\ q[2] = Word("GPIOB", v)
         /\ q[3] = Word("IODIRA", {}) /\ q[4] = Word("IODIRB", {})
<1> DEFINE f == FlushWords(v)
           d == << Word("IODIRA", {}), Word("IODIRB", {}) >>
<1>1. /\ f \in Seq(Sent) /\ Len(f) = 2
      /\ f[1] = Word("GPIOA", v) /\ f[2] = Word("GPIOB", v)
  BY FlushWordsAre
<1>2. Word("IODIRA", {}) \in Sent /\ Word("IODIRB", {}) \in Sent
  BY DEF Sent, Regs
<1>3. /\ d \in Seq(Sent) /\ Len(d) = 2
      /\ d[1] = Word("IODIRA", {}) /\ d[2] = Word("IODIRB", {})
  BY <1>2
<1>4. q = f \o d
  BY DEF InitWords
<1> HIDE DEF f, d
<1>5. /\ f \o d \in Seq(Sent) /\ Len(f \o d) = Len(f) + Len(d)
      /\ \A i \in 1 .. Len(f) + Len(d) :
           (f \o d)[i] = IF i <= Len(f) THEN f[i] ELSE d[i - Len(f)]
  BY <1>1, <1>3, ConcatProperties
<1>6. Len(q) = 4 /\ q[1] = f[1] /\ q[2] = f[2] /\ q[3] = d[1] /\ q[4] = d[2]
  BY <1>1, <1>3, <1>4, <1>5
<1> QED
  BY <1>1, <1>3, <1>4, <1>5, <1>6

LEMMA WordOfPin ==
  ASSUME NEW v \in SUBSET Pins, NEW p \in Pins
  PROVE  /\ p \in PinsA => /\ WritesPin(Word("GPIOA", v), p) /\ ~WritesPin(Word("GPIOB", v), p)
                           /\ p \in Word("GPIOA", v).val <=> p \in v
         /\ p \notin PinsA => /\ WritesPin(Word("GPIOB", v), p) /\ ~WritesPin(Word("GPIOA", v), p)
                              /\ p \in Word("GPIOB", v).val <=> p \in v
         /\ ~WritesPin(Word("IODIRA", {}), p) /\ ~WritesPin(Word("IODIRB", {}), p)
  BY DEF WritesPin, Word, Pins

LEMMA LatchOfPin ==
  ASSUME NEW w \in Sent, NEW l \in SUBSET Pins
  PROVE  /\ LatchAfter(l, w) \in SUBSET Pins
         /\ \A p \in Pins :
              p \in LatchAfter(l, w) <=> IF WritesPin(w, p) THEN p \in w.val ELSE p \in l
<1>1. PICK reg \in Regs, v \in SUBSET Pins : w = Word(reg, v)
  BY DEF Sent
<1>2. CASE reg = "GPIOA"
  <2>1. w.reg = "GPIOA" /\ w.val = v \cap PinsA
    BY <1>1, <1>2 DEF Word
  <2>2. LatchAfter(l, w) = (l \ PinsA) \cup w.val
    BY <2>1 DEF LatchAfter
  <2> QED
    BY <2>1, <2>2 DEF WritesPin, Pins
<1>3. CASE reg = "GPIOB"
  <2>1. w.reg = "GPIOB" /\ w.val = v \cap PinsB
    BY <1>1, <1>3 DEF Word
  <2>2. LatchAfter(l, w) = (l \ PinsB) \cup w.val
    BY <2>1 DEF LatchAfter
  <2> QED
    BY <2>1, <2>2, PortsAssumption DEF WritesPin, Pins
<1>4. CASE reg \in {"IODIRA", "IODIRB"}
  <2>1. w.reg = reg
    BY <1>1 DEF Word
  <2>2. LatchAfter(l, w) = l
    BY <1>4, <2>1 DEF LatchAfter
  <2> QED
    BY <1>4, <2>1, <2>2 DEF WritesPin
<1> QED
  BY <1>2, <1>3, <1>4 DEF Regs

(***************************************************************************)
(* What happens to a sequence.                                             *)
(***************************************************************************)
LEMMA InitReaches ==
  ASSUME NEW v \in SUBSET Pins, NEW q, q = InitWords(v), NEW l, NEW p \in Pins
  PROVE  Reached(q, l, v, p)
<1>1. /\ Len(q) = 4
      /\ q[1] = Word("GPIOA", v) /\ q[2] = Word("GPIOB", v)
      /\ q[3] = Word("IODIRA", {}) /\ q[4] = Word("IODIRB", {})
  BY InitWordsAre
<1>2. \A i \in 1 .. Len(q) : i = 1 \/ i = 2 \/ i = 3 \/ i = 4
  BY <1>1
<1>3. ~WritesPin(q[3], p) /\ ~WritesPin(q[4], p)
  BY <1>1, WordOfPin
<1>4. CASE p \in PinsA
  <2>1. WritesPin(q[1], p) /\ ~WritesPin(q[2], p) /\ (p \in q[1].val <=> p \in v)
    BY <1>1, <1>4, WordOfPin
  <2>2. LastWord(q, v, p, 1)
    BY <1>2, <1>3, <2>1 DEF LastWord
  <2> QED
    BY <1>1, <2>2 DEF Reached
<1>5. CASE p \notin PinsA
  <2>1. WritesPin(q[2], p) /\ (p \in q[2].val <=> p \in v)
    BY <1>1, <1>5, WordOfPin
  <2>2. \A i \in 1 .. Len(q) : i > 2 => i = 3 \/ i = 4
    BY <1>2
  <2>3. LastWord(q, v, p, 2)
    BY <1>3, <2>1, <2>2 DEF LastWord
  <2> QED
    BY <1>1, <2>3 DEF Reached
<1> QED
  BY <1>4, <1>5

LEMMA FlushReaches ==
  ASSUME NEW q \in Seq(Sent), NEW v \in SUBSET Pins, NEW r, r = q \o FlushWords(v),
         NEW l, NEW p \in Pins
  PROVE  Reached(r, l, v, p)
<1> DEFINE f == FlushWords(v)
           n == Len(q)
<1>1. /\ f \in Seq(Sent) /\ Len(f) = 2
      /\ f[1] = Word("GPIOA", v) /\ f[2] = Word("GPIOB", v)
  BY FlushWordsAre
<1>2. r = q \o f /\ n \in Nat
  OBVIOUS
<1> HIDE DEF f
<1>3. Len(r) = n + 2 /\ r[n + 1] = f[1] /\ r[n + 2] = f[2]
  <2>1. /\ Len(q \o f) = n + 2
        /\ \A i \in 1 .. n + 2 : (q \o f)[i] = IF i <= n THEN q[i] ELSE f[i - n]
    <3>1. /\ Len(q \o f) = Len(q) + Len(f)
          /\ \A i \in 1 .. Len(q) + Len(f) :
               (q \o f)[i] = IF i <= Len(q) THEN q[i] ELSE f[i - Len(q)]
      BY <1>1, ConcatProperties
    <3> QED
      BY <1>1, <3>1
  <2>2. /\ n + 1 \in 1 .. n + 2 /\ ~(n + 1 <= n) /\ n + 1 - n = 1
        /\ n + 2 \in 1 .. n + 2 /\ ~(n + 2 <= n) /\ n + 2 - n = 2
    BY <1>2
  <2> QED
    BY <1>2, <2>1, <2>2
<1> HIDE DEF n
<1>4. /\ n + 1 \in 1 .. Len(r) /\ n + 2 \in 1 .. Len(r)
      /\ \A i \in 1 .. Len(r) : (i > n + 1 => i = n + 2) /\ ~(i > n + 2)
  BY <1>2, <1>3
<1>5. CASE p \in PinsA
  <2>1. WritesPin(f[1], p) /\ ~WritesPin(f[2], p) /\ (p \in f[1].val <=> p \in v)
    BY <1>1, <1>5, WordOfPin
  <2>2. LastWord(r, v, p, n + 1)
    BY <1>3, <1>4, <2>1 DEF LastWord
  <2> QED
    BY <1>4, <2>2 DEF Reached
<1>6. CASE p \notin PinsA
  <2>1. WritesPin(f[2], p) /\ (p \in f[2].val <=> p \in v)
    BY <1>1, <1>6, WordOfPin
  <2>2. LastWord(r, v, p, n + 2)
    BY <1>3, <1>4, <2>1 DEF LastWord
  <2> QED
    BY <1>4, <2>2 DEF Reached
<1> QED
  BY <1>5, <1>6

LEMMA DeliverReaches ==
  ASSUME NEW q \in Seq(Sent), q # << >>, NEW v, NEW l \in SUBSET Pins,
         NEW p \in Pins, Reached(q, l, v, p)
  PROVE  Reached(Tail(q), LatchAfter(l, Head(q)), v, p)
<1> DEFINE n == Len(q)
           r == Tail(q)
           m == LatchAfter(l, Head(q))
<1>1. n \in Nat \ {0}
  BY EmptySeq
<1>2. /\ Head(q) = q[1] /\ q[1] \in Sent
      /\ r \in Seq(Sent) /\ Len(r) = n - 1
      /\ \A i \in 1 .. n - 1 : i + 1 \in 1 .. n /\ r[i] = q[i + 1]
  BY <1>1, HeadTailProperties
<1>3. p \in m <=> IF WritesPin(q[1], p) THEN p \in q[1].val ELSE p \in l
  BY <1>2, LatchOfPin
<1> HIDE DEF n, r, m
<1>4. CASE (\A i \in 1 .. n : ~WritesPin(q[i], p)) /\ (p \in l <=> p \in v)
  <2>1. ~WritesPin(q[1], p) /\ \A i \in 1 .. n - 1 : ~WritesPin(r[i], p)
    BY <1>1, <1>2, <1>4
  <2> QED
    BY <1>2, <1>3, <1>4, <2>1 DEF Reached, r, m
<1>5. ASSUME NEW k \in 1 .. n, LastWord(q, v, p, k), k = 1 PROVE Reached(r, m, v, p)
  <2>1. \A i \in 1 .. n - 1 : i + 1 > 1 /\ ~WritesPin(q[i + 1], p)
    BY <1>1, <1>2, <1>5 DEF LastWord, n
  <2>2. \A i \in 1 .. n - 1 : ~WritesPin(r[i], p)
    BY <1>2, <2>1
  <2> QED
    BY <1>2, <1>3, <1>5, <2>2 DEF Reached, LastWord
<1>6. ASSUME NEW k \in 1 .. n, LastWord(q, v, p, k), k # 1 PROVE Reached(r, m, v, p)
  <2>1. k - 1 \in 1 .. n - 1 /\ r[k - 1] = q[k]
    BY <1>1, <1>2, <1>6
  <2>2. \A i \in 1 .. n - 1 : i > k - 1 => ~WritesPin(r[i], p)
    BY <1>1, <1>2, <1>6 DEF LastWord, n
  <2>3. LastWord(r, v, p, k - 1)
    BY <1>2, <1>6, <2>1, <2>2 DEF LastWord
  <2> QED
    BY <1>2, <2>1, <2>3 DEF Reached
<1> QED
  BY <1>4, <1>5, <1>6 DEF Reached, n, r, m
-----------------------------------------------------------------------------

(***************************************************************************)
(* Types.                                                                  *)
(***************************************************************************)
LEMMA TimeTypes ==
  /\ TIME_100_MS \in 0 .. TIME_1_SEC
  /\ TIME_1_SEC \in 0 .. TIME_1_SEC
  /\ 0 \in 0 .. TIME_1_SEC
  /\ HoldUp \in 0 .. HoldUp
  BY TimesAssumption

LEMMA FlushType ==
  ASSUME NEW v \in SUBSET Pins
  PROVE  /\ Word("GPIOA", v) \in Words /\ Word("GPIOB", v) \in Words
         /\ FlushWords(v) = << Word("GPIOA", v), Word("GPIOB", v) >>
         /\ FlushWords(v) \in Seq(Words)
<1>1. Word("GPIOA", v) \in Words /\ Word("GPIOB", v) \in Words
  BY DEF Word, Words, Regs, Pins
<1> QED
  BY <1>1 DEF FlushWords

LEMMA InitWordsType ==
  /\ Word("IODIRA", {}) \in Words /\ Word("IODIRB", {}) \in Words
  /\ InitWords(InitVal) \in Seq(Words)
<1>1. Word("IODIRA", {}) \in Words /\ Word("IODIRB", {}) \in Words
  BY DEF Word, Words, Regs
<1>2. FlushWords(InitVal) \in Seq(Words)
  BY FlushType, InitValAssumption
<1>3. << Word("IODIRA", {}), Word("IODIRB", {}) >> \in Seq(Words)
  BY <1>1
<1> QED
  BY <1>1, <1>2, <1>3, ConcatProperties DEF InitWords

LEMMA GpioWriteType ==
  ASSUME BoardTypes, NEW set, NEW clr, GpioWrite(set, clr)
  PROVE  GPIO_Val' \in SUBSET Pins /\ GPIO_Changed' \in BOOLEAN
  BY DEF BoardTypes, GpioWrite

LEMMA ChipType ==
  ASSUME NEW w \in Words, NEW l \in SUBSET Pins, NEW o \in SUBSET Pins
  PROVE  /\ LatchAfter(l, w) \in SUBSET Pins
         /\ OutputsAfter(o, w) \in SUBSET Pins
  BY DEF LatchAfter, OutputsAfter, Words, Pins, Regs

LEMMA TypeInit == Init => TypeOK
<1> SUFFICES ASSUME Init PROVE TypeOK
  OBVIOUS
<1>1. /\ GPIO_Val = InitVal /\ GPIO_Changed = FALSE
      /\ link = InitWords(InitVal) /\ olat = {} /\ outputs = {} /\ restarts = 0
  BY DEF Init, Link!Init, Link!InitWords, Link!FlushWords, Link!Word, InitWords, FlushWords,
     Word
<1>2. link \in Seq(Words) /\ GPIO_Val \in SUBSET Pins
  BY <1>1, InitWordsType, InitValAssumption
<1>3. restarts \in 0 .. MaxRestarts
  BY <1>1, RestartsAssumption
<1>4. off \in 0 .. HoldUp /\ TimerPower_Counter \in 0 .. TIME_1_SEC /\ clocked \in 0 .. TIME_1_SEC
  BY TimeTypes DEF Init
<1>5. BoardTypes
  BY <1>1, <1>2, <1>3, <1>4 DEF Init, BoardTypes, Stages
<1> QED
  BY <1>5 DEF Init, TypeOK

LEMMA BoardNext == BoardTypes /\ [Next]_vars => BoardTypes'
<1> SUFFICES ASSUME BoardTypes, [Next]_vars PROVE BoardTypes'
  OBVIOUS
<1> USE TimeTypes
<1>1. CASE StageInit
  BY <1>1 DEF StageInit, SetTimer, BoardTypes, Stages, gpio, board, psu
<1>2. CASE StageS0
  BY <1>2, GpioWriteType DEF StageS0, SetTimer, BoardTypes, Stages, board, psu
<1>3. CASE StageS1Good
  BY <1>3 DEF StageS1Good, SetTimer, SetPIO, PioBits, BoardTypes, Stages, gpio, board, psu
<1>4. CASE StageS1Fail
  BY <1>4 DEF StageS1Fail, BoardTypes, Stages, gpio, board, psu
<1>5. CASE StageAtxFail
  BY <1>5, GpioWriteType DEF StageAtxFail, BoardTypes, machine, board, psu
<1>6. CASE StageS2
  BY <1>6 DEF StageS2, BoardTypes, Stages, gpio, board, psu
<1>7. CASE StageS2Clocks
  BY <1>7, GpioWriteType DEF StageS2Clocks, SetTimer, PioBits, BoardTypes, board, psu
<1>8. CASE StageS3
  BY <1>8 DEF StageS3, SetTimer, SetPIO, PioBits, BoardTypes, Stages, gpio, board, psu
<1>9. CASE StageS4
  <2>1. GPIO_Val' \in SUBSET Pins /\ GPIO_Changed' \in BOOLEAN
    BY <1>9, GpioWriteType DEF StageS4, SfpLed
  <2>2. pio' \in SUBSET PioBits
    BY <1>9 DEF StageS4, PioBits, BoardTypes
  <2> QED
    BY <1>9, <2>1, <2>2 DEF StageS4, BoardTypes, machine, board, psu
<1>10. CASE MashLED
  BY <1>10, GpioWriteType DEF MashLED, BoardTypes, machine, board, psu
<1>11. CASE Switch_BootSpi2BMC
  BY <1>11, GpioWriteType DEF Switch_BootSpi2BMC, SetPIO, PioBits, BoardTypes, machine, board, psu
<1>12. CASE Switch_BootSpi2CPU
  BY <1>12, GpioWriteType DEF Switch_BootSpi2CPU, ClrPIO, BoardTypes, machine, board, psu
<1>13. CASE SPI_GPIO_Mash
  <2>1. link' = link \o FlushWords(GPIO_Val)
    BY <1>13 DEF SPI_GPIO_Mash, Link!Flush, Link!FlushWords, Link!Word, FlushWords, Word
  <2>2. link' \in Seq(Words)
    BY <2>1, FlushType, ConcatProperties DEF BoardTypes
  <2> QED
    BY <1>13, <2>2 DEF SPI_GPIO_Mash, Link!Flush, BoardTypes, machine, psu
<1>14. CASE Deliver
  <2>1. link # << >> /\ link \in Seq(Words)
    BY <1>14 DEF Deliver, Link!Deliver, BoardTypes
  <2>2. Head(link) \in Words /\ Tail(link) \in Seq(Words)
    BY <2>1, HeadTailProperties
  <2>3. olat' = LatchAfter(olat, Head(link)) /\ outputs' = OutputsAfter(outputs, Head(link))
    BY <1>14 DEF Deliver, Link!Deliver, Link!LatchAfter, Link!OutputsAfter, LatchAfter,
       OutputsAfter
  <2>4. olat' \in SUBSET Pins /\ outputs' \in SUBSET Pins
    BY <2>2, <2>3, ChipType DEF BoardTypes
  <2> QED
    BY <1>14, <2>2, <2>4 DEF Deliver, Link!Deliver, BoardTypes, machine, psu
<1>15. CASE Tick
  <2>1. TimerPower_Counter' \in 0 .. TIME_1_SEC
    BY <1>15, TimesAssumption DEF Tick, CountDown, BoardTypes
  <2>2. off' \in 0 .. HoldUp
    BY <1>15, TimesAssumption DEF Tick, Age, BoardTypes
  <2>3. clocked' \in 0 .. TIME_1_SEC
    BY <1>15, TimesAssumption DEF Tick, Age, BoardTypes
  <2>4. overdue' \in BOOLEAN /\ pgood' \in BOOLEAN
    BY <1>15 DEF Tick, BoardTypes
  <2> QED
    BY <1>15, <2>1, <2>2, <2>3, <2>4 DEF Tick, BoardTypes, gpio
<1>16. CASE SupplyGood \/ SupplyFails
  BY <1>16 DEF SupplyGood, SupplyFails, BoardTypes, machine, gpio, board
<1>17. CASE Button
  BY <1>17 DEF Button, BoardTypes, machine, gpio, board, psu
<1>18. CASE Restart
  <2>1. link' = InitWords(InitVal)
    BY <1>18 DEF Restart, Link!Restart, Link!InitWords, Link!FlushWords, Link!Word, InitWords,
       FlushWords, Word
  <2>2. restarts' \in 0 .. MaxRestarts
    BY <1>18, RestartsAssumption DEF Restart, Link!Restart, BoardTypes
  <2>3. GPIO_Val' \in SUBSET Pins
    BY <1>18, InitValAssumption DEF Restart, Link!Restart
  <2> QED
    BY <1>18, <2>1, <2>2, <2>3, InitWordsType DEF Restart, Link!Restart, BoardTypes, Stages, psu
<1>19. CASE PageWrite \/ PageWritten \/ SessionEnds
  BY <1>19 DEF PageWrite, PageWritten, SessionEnds, BoardTypes, machine, gpio, board, psu
<1>20. CASE UNCHANGED vars
  BY <1>20 DEF vars, BoardTypes, machine, gpio, board, psu
<1> QED
  BY <1>1, <1>2, <1>3, <1>4, <1>5, <1>6, <1>7, <1>8, <1>9, <1>10, <1>11, <1>12, <1>13,
     <1>14, <1>15, <1>16, <1>17, <1>18, <1>19, <1>20 DEF Next, MachPower

LEMMA ConsoleNext ==
  TypeOK /\ [Next]_vars => XmodemMode' \in BOOLEAN /\ poll' \in BOOLEAN
<1> SUFFICES ASSUME TypeOK, [Next]_vars
             PROVE  XmodemMode' \in BOOLEAN /\ poll' \in BOOLEAN
  OBVIOUS
<1> USE DEF TypeOK, console
<1>1. CASE MachPower
  BY <1>1 DEF MachPower, StageInit, StageS0, StageS1Good, StageS1Fail, StageAtxFail, StageS2,
     StageS3, StageS4
<1>2. CASE StageS2Clocks \/ MashLED \/ SPI_GPIO_Mash
  BY <1>2 DEF StageS2Clocks, MashLED, SPI_GPIO_Mash
<1>3. CASE Switch_BootSpi2BMC \/ Switch_BootSpi2CPU
  BY <1>3 DEF Switch_BootSpi2BMC, Switch_BootSpi2CPU
<1>4. CASE PageWrite \/ PageWritten \/ SessionEnds
  BY <1>4 DEF PageWrite, PageWritten, SessionEnds
<1>5. CASE Deliver \/ Tick \/ SupplyGood \/ SupplyFails \/ Button
  BY <1>5 DEF Deliver, Tick, SupplyGood, SupplyFails, Button
<1>6. CASE Restart
  BY <1>6 DEF Restart
<1>7. CASE UNCHANGED vars
  BY <1>7 DEF vars
<1> QED
  BY <1>1, <1>2, <1>3, <1>4, <1>5, <1>6, <1>7 DEF Next

LEMMA TypeNext == TypeOK /\ [Next]_vars => TypeOK'
<1>1. TypeOK => BoardTypes
  BY DEF TypeOK
<1> QED
  BY <1>1, BoardNext, ConsoleNext DEF TypeOK

(* The type invariant of the power sequence. *)
THEOREM TypeCorrect == Spec => []TypeOK
  BY TypeInit, TypeNext, PTL DEF Spec

(***************************************************************************)
(* The order of the sequence.  What a stage has switched on stays on until *)
(* the FPGA is reset, and the time since the clocks were enabled is what   *)
(* the power timer has counted down.                                       *)
(***************************************************************************)
Running == {"S2", "S3", "S4"}

OrderInv ==
  /\ i2c => PowerStage = "S3"
  /\ PowerStage \notin Running => pio \subseteq BootSpi
  /\ PowerStage \in Running => Rails \subseteq pio
  /\ PowerStage \in {"S3", "S4"} /\ ~i2c => Clocks \subseteq pio
  /\ PowerStage = "S4" => Resets \subseteq pio /\ clocked = TIME_1_SEC
  /\ PowerStage = "S3" /\ ~i2c => clocked + TimerPower_Counter >= TIME_1_SEC
  /\ PowerStage # "S4" => pio \cap Resets = {} /\ "CPU_RESET" \notin pio
  /\ "LED_PGOOD" \in GPIO_Val => PowerStage = "ATX_FAIL"

(* Handlers that only move the boot flash switch or LEDs other than the    *)
(* fault LED.                                                              *)
LEMMA OrderStill ==
  ASSUME TypeOK, OrderInv, UNCHANGED << PowerStage, TimerPower_Counter, i2c, clocked >>,
         pio \ BootSpi \subseteq pio', pio' \subseteq pio \cup BootSpi,
         "LED_PGOOD" \in GPIO_Val' => "LED_PGOOD" \in GPIO_Val \/ PowerStage = "ATX_FAIL"
  PROVE  OrderInv'
  BY DEF TypeOK, BoardTypes, OrderInv, Running, Rails, Clocks, Resets, BootSpi

LEMMA OrderInit ==
  ASSUME "LED_PGOOD" \notin InitVal
  PROVE  Init => OrderInv
  BY DEF Init, Link!Init, OrderInv, Running, Resets

LEMMA OrderTick == TypeOK /\ OrderInv /\ Tick => OrderInv'
<1> SUFFICES ASSUME TypeOK, OrderInv, Tick PROVE OrderInv'
  OBVIOUS
<1>1. /\ UNCHANGED << PowerStage, i2c, pio, GPIO_Val >>
      /\ TimerPower_Counter' = CountDown(TimerPower_Counter)
      /\ clocked' = IF Clocks \subseteq pio THEN Age(clocked, TIME_1_SEC) ELSE clocked
  BY DEF Tick, gpio
<1>2. clocked \in 0 .. TIME_1_SEC /\ TimerPower_Counter \in 0 .. TIME_1_SEC
  BY DEF TypeOK, BoardTypes
<1>3. ASSUME PowerStage = "S3", ~i2c PROVE clocked' + TimerPower_Counter' >= TIME_1_SEC
  <2>1. clocked' = Age(clocked, TIME_1_SEC)
    BY <1>1, <1>3 DEF OrderInv
  <2>2. clocked + TimerPower_Counter >= TIME_1_SEC
    BY <1>3 DEF OrderInv
  <2> QED
    BY <1>1, <1>2, <2>1, <2>2, TimesAssumption DEF Age, CountDown
<1>4. ASSUME PowerStage = "S4" PROVE clocked' = TIME_1_SEC
  BY <1>1, <1>2, <1>4, TimesAssumption DEF OrderInv, Age
<1> QED
  BY <1>1, <1>3, <1>4 DEF OrderInv

LEMMA OrderNext ==
  ASSUME "LED_PGOOD" \notin InitVal, TypeOK, OrderInv, [Next]_vars
  PROVE  OrderInv'
<1> USE DEF Running, Rails, Clocks, Resets, BootSpi
<1>1. CASE StageInit
  BY <1>1 DEF StageInit, OrderInv, gpio
<1>2. CASE StageS0
  BY <1>2 DEF StageS0, GpioWrite, OrderInv
<1>3. CASE StageS1Good
  BY <1>3 DEF StageS1Good, SetPIO, OrderInv, gpio
<1>4. CASE StageS1Fail
  BY <1>4 DEF StageS1Fail, OrderInv, gpio
<1>5. CASE StageAtxFail
  BY <1>5 DEF StageAtxFail, GpioWrite, machine, OrderInv
<1>6. CASE StageS2
  BY <1>6 DEF StageS2, OrderInv, gpio
<1>7. CASE StageS2Clocks
  <2>1. /\ PowerStage = "S3" /\ PowerStage' = "S3" /\ i2c' = FALSE
        /\ clocked' = 0 /\ TimerPower_Counter' = TIME_1_SEC
        /\ pio' = (pio \cup Clocks \cup {"BOOT_CFG_1", "TEST_F14"}) \ BootSpi
        /\ "LED_PGOOD" \in GPIO_Val' => "LED_PGOOD" \in GPIO_Val
    BY <1>7 DEF StageS2Clocks, SetTimer, GpioWrite, OrderInv
  <2>2. clocked' + TimerPower_Counter' >= TIME_1_SEC
    BY <2>1, TimesAssumption
  <2> QED
    BY <2>1, <2>2 DEF OrderInv
<1>8. CASE StageS3
  <2>1. /\ PowerStage = "S3" /\ i2c = FALSE /\ TimerPower_Counter = 0
        /\ PowerStage' = "S4" /\ pio' = pio \cup Resets
        /\ UNCHANGED << i2c, GPIO_Val, clocked >>
    BY <1>8 DEF StageS3, Free, SetPIO, gpio, TypeOK, BoardTypes
  <2>2. clocked = TIME_1_SEC
    BY <2>1, TimesAssumption DEF OrderInv, TypeOK, BoardTypes
  <2> QED
    BY <2>1, <2>2 DEF OrderInv
<1>9. CASE StageS4
  <2>1. PowerStage = "S4" /\ UNCHANGED << PowerStage, TimerPower_Counter, i2c, clocked >>
    BY <1>9 DEF StageS4, machine
  <2>2. pio \ {"CPU_RESET", "TEST_F14"} \subseteq pio'
    BY <1>9 DEF StageS4
  <2>3. PICK modedef \in BOOLEAN, rx_los \in BOOLEAN : SfpLed(modedef, rx_los)
    BY <1>9 DEF StageS4
  <2>4. "LED_PGOOD" \in GPIO_Val' => "LED_PGOOD" \in GPIO_Val
    <3>1. \/ GpioWrite({}, {"LED_2_G", "LED_2_R"})
          \/ GpioWrite({"LED_2_R"}, {"LED_2_G"})
          \/ GpioWrite({"LED_2_G"}, {"LED_2_R"})
      BY <2>3 DEF SfpLed
    <3> QED
      BY <3>1 DEF GpioWrite
  <2> QED
    BY <2>1, <2>2, <2>4 DEF OrderInv
<1>10. CASE MashLED
  <2>1. "LED_PGOOD" \in GPIO_Val' => "LED_PGOOD" \in GPIO_Val \/ PowerStage = "ATX_FAIL"
    BY <1>10 DEF MashLED, GpioWrite
  <2> QED
    BY <1>10, <2>1, OrderStill DEF MashLED, machine
<1>11. CASE Switch_BootSpi2BMC
  BY <1>11, OrderStill DEF Switch_BootSpi2BMC, SetPIO, GpioWrite, machine
<1>12. CASE Switch_BootSpi2CPU
  BY <1>12, OrderStill DEF Switch_BootSpi2CPU, ClrPIO, GpioWrite, machine
<1>13. CASE SPI_GPIO_Mash
  BY <1>13, OrderStill DEF SPI_GPIO_Mash, Link!Flush, machine
<1>14. CASE Deliver
  BY <1>14, OrderStill DEF Deliver, Link!Deliver, machine
<1>15. CASE Tick
  BY <1>15, OrderTick
<1>16. CASE SupplyGood \/ SupplyFails \/ Button
  BY <1>16, OrderStill DEF SupplyGood, SupplyFails, Button, machine, gpio
<1>17. CASE Restart
  BY <1>17 DEF Restart, Link!Restart, OrderInv
<1>18. CASE PageWrite \/ PageWritten \/ SessionEnds
  BY <1>18, OrderStill DEF PageWrite, PageWritten, SessionEnds, machine, gpio
<1>19. CASE UNCHANGED vars
  BY <1>19, OrderStill DEF vars, machine, gpio
<1> QED
  BY <1>1, <1>2, <1>3, <1>4, <1>5, <1>6, <1>7, <1>8, <1>9, <1>10, <1>11, <1>12, <1>13,
     <1>14, <1>15, <1>16, <1>17, <1>18, <1>19 DEF Next, MachPower

LEMMA OrderAlways ==
  ASSUME "LED_PGOOD" \notin InitVal
  PROVE  Spec => [](TypeOK /\ OrderInv)
<1>1. Init => TypeOK /\ OrderInv
  BY TypeInit, OrderInit
<1>2. TypeOK /\ OrderInv /\ [Next]_vars => (TypeOK /\ OrderInv)'
  BY TypeNext, OrderNext
<1> QED
  BY <1>1, <1>2, PTL DEF Spec

(* The processor leaves reset after rails, clocks and the other resets     *)
(* (lines 305 to 370), whatever the handlers around MachPower do.          *)
THEOREM CpuIsLast ==
  ASSUME "LED_PGOOD" \notin InitVal
  PROVE  Spec => []CpuLast
<1>1. OrderInv => CpuLast
  BY DEF OrderInv, CpuLast, Running
<1> QED
  BY <1>1, OrderAlways, PTL

(* PERST and the system reset are released a second after the clocks. *)
THEOREM ResetsWait ==
  ASSUME "LED_PGOOD" \notin InitVal
  PROVE  Spec => []ResetsAfterClocks
<1>1. TypeOK /\ OrderInv => ResetsAfterClocks
  BY DEF OrderInv, TypeOK, BoardTypes, ResetsAfterClocks, Running, Free
<1> QED
  BY <1>1, OrderAlways, PTL

(* After a failure nothing is switched on and the fault LED means one. *)
THEOREM FailureIsFinal ==
  ASSUME "LED_PGOOD" \notin InitVal
  PROVE  Spec => []FailIsFinal
<1>1. OrderInv => FailIsFinal
  BY DEF OrderInv, FailIsFinal, Running
<1> QED
  BY <1>1, OrderAlways, PTL

(***************************************************************************)
(* RailsNeedSupply.  The pin's value travels from the shadow over the link *)
(* to the latch.  Before S1 only words that leave ATX_PSON high are on the *)
(* link; from S1 on the first word that makes it low is followed by none   *)
(* that makes it high.  In S0 the power timer outlasts a PGOOD that is     *)
(* left over from before a reset of the FPGA.                              *)
(***************************************************************************)
Pson == "ATX_PSON"
Writes(w) == w.reg = IF Pson \in PinsA THEN "GPIOA" ELSE "GPIOB"
Low(w)  == Pson \notin w.val
High(w) == Pson \in w.val <=> Writes(w)
Fits(w) == Pson \in w.val => Writes(w)

SupplyInv ==
  /\ \A i \in 1 .. Len(link) : Fits(link[i])
  /\ PowerStage \in {"INIT", "S0"} =>
       Pson \in GPIO_Val /\ \A i \in 1 .. Len(link) : High(link[i])
  /\ PowerStage = "INIT" =>
       \/ Pson \in olat
       \/ Len(link) = 4 /\ link[1].reg = "GPIOA" /\ link[2].reg = "GPIOB"
       \/ Len(link) = 3 /\ link[1].reg = "GPIOB" /\ Pson \notin PinsA
  /\ PowerStage = "S0" =>
       /\ Pson \in olat
       /\ pgood => \/ TimerPower_Counter = TIME_100_MS
                   \/ off < HoldUp /\ off + TimerPower_Counter >= TIME_100_MS
  /\ PowerStage \in {"S1", "S2", "S3", "S4"} =>
       /\ Pson \notin GPIO_Val
       /\ Pson \notin olat => \A i \in 1 .. Len(link) : Low(link[i])
       /\ \A i, j \in 1 .. Len(link) :
            i < j /\ Writes(link[i]) /\ Low(link[i]) => Low(link[j])
  /\ PowerStage = "S1" /\ pgood => PsonDriven
  /\ PowerStage \in Running => PsonDriven

LEMMA LatchPson ==
  ASSUME Pson \in Pins, NEW w \in Words, Fits(w), NEW l \in SUBSET Pins
  PROVE  Pson \in LatchAfter(l, w) <=> IF Writes(w) THEN Pson \in w.val ELSE Pson \in l
<1>1. w.reg \in Regs
  BY DEF Words
<1>2. CASE w.reg = "GPIOA"
  BY <1>2, PortsAssumption DEF LatchAfter, Writes, Fits, Pins
<1>3. CASE w.reg = "GPIOB"
  BY <1>3, PortsAssumption DEF LatchAfter, Writes, Fits, Pins
<1>4. CASE w.reg \in {"IODIRA", "IODIRB"}
  BY <1>4 DEF LatchAfter, Writes
<1> QED
  BY <1>1, <1>2, <1>3, <1>4 DEF Regs

LEMMA WordPson ==
  ASSUME Pson \in Pins, NEW v \in SUBSET Pins, NEW reg \in Regs
  PROVE  /\ Fits(Word(reg, v))
         /\ Pson \in v => High(Word(reg, v))
         /\ Pson \notin v => Low(Word(reg, v))
<1>1. CASE reg = "GPIOA"
  BY <1>1, PortsAssumption DEF Word, Fits, High, Low, Writes, Pins
<1>2. CASE reg = "GPIOB"
  BY <1>2, PortsAssumption DEF Word, Fits, High, Low, Writes, Pins
<1>3. CASE reg \in {"IODIRA", "IODIRB"}
  BY <1>3 DEF Word, Fits, High, Low, Writes
<1> QED
  BY <1>1, <1>2, <1>3 DEF Regs

LEMMA InitWordsHigh ==
  ASSUME Pson \in InitVal, NEW q, q = InitWords(InitVal)
  PROVE  /\ \A i \in 1 .. Len(q) : High(q[i]) /\ Fits(q[i])
         /\ Len(q) = 4 /\ q[1].reg = "GPIOA" /\ q[2].reg = "GPIOB"
<1>1. Pson \in Pins /\ InitVal \in SUBSET Pins
  BY InitValAssumption
<1>2. \A reg \in {"GPIOA", "GPIOB"} :
        High(Word(reg, InitVal)) /\ Fits(Word(reg, InitVal)) /\ Word(reg, InitVal).reg = reg
  BY <1>1, WordPson DEF Regs, Word
<1>3. \A reg \in {"IODIRA", "IODIRB"} : High(Word(reg, {})) /\ Fits(Word(reg, {}))
  BY DEF Word, High, Fits, Writes
<1>4. /\ Len(q) = 4
      /\ q[1] = Word("GPIOA", InitVal) /\ q[2] = Word("GPIOB", InitVal)
      /\ q[3] = Word("IODIRA", {}) /\ q[4] = Word("IODIRB", {})
  BY <1>1, InitWordsAre
<1>5. \A i \in 1 .. Len(q) : i = 1 \/ i = 2 \/ i = 3 \/ i = 4
  BY <1>4
<1>6. \A i \in 1 .. Len(q) : High(q[i]) /\ Fits(q[i])
  BY <1>2, <1>3, <1>4, <1>5
<1>7. q[1].reg = "GPIOA" /\ q[2].reg = "GPIOB"
  BY <1>2, <1>4
<1> QED
  BY <1>4, <1>6, <1>7

LEMMA SupplyInit ==
  ASSUME Pson \in InitVal, Init
  PROVE  SupplyInv
<1>1. /\ link = InitWords(InitVal) /\ GPIO_Val = InitVal
      /\ PowerStage = "INIT" /\ pgood = FALSE
  BY DEF Init, Link!Init, Link!InitWords, Link!FlushWords, Link!Word, InitWords, FlushWords,
     Word
<1> QED
  BY <1>1, InitWordsHigh DEF SupplyInv, Running

(* Handlers that leave the stage, the link and the pin as they are.        *)
LEMMA SupplyStill ==
  ASSUME SupplyInv, Pson \in GPIO_Val' <=> Pson \in GPIO_Val,
         UNCHANGED << PowerStage, TimerPower_Counter, link, olat, outputs, psu >>
  PROVE  SupplyInv'
<1>1. PsonDriven' <=> PsonDriven
  BY DEF PsonDriven
<1> QED
  BY <1>1 DEF SupplyInv, psu

(* While the pin is to be high it is so as soon as the processor is free.  *)
LEMMA LatchHigh ==
  ASSUME SupplyInv, PowerStage \in {"INIT", "S0"}, Len(link) <= 2
  PROVE  Pson \in olat
<1>1. Pson \in olat \/ Len(link) = 4 \/ Len(link) = 3
  <2>1. PowerStage = "INIT" => Pson \in olat \/ Len(link) = 4 \/ Len(link) = 3
    BY DEF SupplyInv
  <2>2. PowerStage = "S0" => Pson \in olat
    BY DEF SupplyInv
  <2> QED
    BY <2>1, <2>2
<1> QED
  BY <1>1

(* The steps of MachPower that move the pin.                               *)
LEMMA SupplyStages ==
  ASSUME Pson \in Pins, TypeOK, SupplyInv,
         StageInit \/ StageS0 \/ StageS1Good \/ StageS1Fail
  PROVE  SupplyInv'
<1> USE DEF Running
<1>0. UNCHANGED << link, olat, outputs, psu >>
  BY DEF StageInit, StageS0, StageS1Good, StageS1Fail, board
<1>1. PsonDriven' <=> PsonDriven
  BY <1>0 DEF PsonDriven
<1>2. CASE StageInit
  <2>1. /\ PowerStage = "INIT" /\ PowerStage' = "S0" /\ Len(link) <= 2
        /\ TimerPower_Counter' = TIME_100_MS /\ GPIO_Val' = GPIO_Val
    BY <1>2 DEF StageInit, Free, SetTimer, gpio
  <2>2. Pson \in olat
    BY <2>1, LatchHigh
  <2> QED
    BY <1>0, <2>1, <2>2 DEF SupplyInv
<1>3. CASE StageS0
  <2>1. /\ PowerStage = "S0" /\ PowerStage' = "S1" /\ TimerPower_Counter = 0
        /\ Pson \notin GPIO_Val'
    BY <1>3 DEF StageS0, GpioWrite, SetTimer, Pson
  <2>2. Pson \in olat /\ ~pgood
    BY <2>1, TimesAssumption DEF SupplyInv, TypeOK, BoardTypes
  <2>3. \A i \in 1 .. Len(link) : Writes(link[i]) => ~Low(link[i])
    BY <2>1 DEF SupplyInv, High, Low
  <2>4. /\ \A i \in 1 .. Len(link) : Fits(link[i])
    BY DEF SupplyInv
  <2>5. /\ \A i \in 1 .. Len(link) : Writes(link[i])' => ~Low(link[i])'
        /\ \A i \in 1 .. Len(link) : Fits(link[i])'
    BY <1>0, <2>3, <2>4 DEF Writes, Low, Fits
  <2>6. ~pgood' /\ Pson \in olat' /\ link' = link
    BY <1>0, <2>2 DEF psu
  <2> QED
    BY <2>1, <2>5, <2>6 DEF SupplyInv
<1>4. CASE StageS1Good
  <2>1. PowerStage = "S1" /\ PowerStage' = "S2" /\ pgood /\ GPIO_Val' = GPIO_Val
    BY <1>4 DEF StageS1Good, gpio
  <2> QED
    BY <1>0, <1>1, <2>1 DEF SupplyInv
<1>5. CASE StageS1Fail
  <2>1. PowerStage' = "ATX_FAIL"
    BY <1>5 DEF StageS1Fail
  <2> QED
    BY <1>0, <2>1 DEF SupplyInv
<1> QED
  BY <1>2, <1>3, <1>4, <1>5

LEMMA SupplyFlush ==
  ASSUME Pson \in Pins, TypeOK, SupplyInv, SPI_GPIO_Mash
  PROVE  SupplyInv'
<1> DEFINE f == FlushWords(GPIO_Val)
           n == Len(link)
<1>1. /\ link' = link \o f /\ n <= 2
      /\ UNCHANGED << PowerStage, TimerPower_Counter, GPIO_Val, olat, outputs, pgood, off >>
  BY DEF SPI_GPIO_Mash, Free, machine, psu, Link!Flush, Link!FlushWords, Link!Word, FlushWords,
     Word
<1>2. link \in Seq(Words) /\ n \in Nat /\ GPIO_Val \in SUBSET Pins
  BY DEF TypeOK, BoardTypes
<1>3. /\ f \in Seq(Words) /\ Len(f) = 2
      /\ f[1] = Word("GPIOA", GPIO_Val) /\ f[2] = Word("GPIOB", GPIO_Val)
  BY <1>2, FlushType
<1>4. /\ \A i \in {1, 2} : Fits(f[i])
      /\ Pson \in GPIO_Val => \A i \in {1, 2} : High(f[i])
      /\ Pson \notin GPIO_Val => \A i \in {1, 2} : Low(f[i])
  BY <1>2, <1>3, WordPson DEF Regs
<1> HIDE DEF f
<1>5. /\ Len(link') = n + 2
      /\ \A i \in 1 .. n : link'[i] = link[i]
      /\ \A i \in 1 .. n + 2 : i \notin 1 .. n => i - n \in {1, 2} /\ link'[i] = f[i - n]
  <2>1. /\ Len(link \o f) = n + 2
        /\ \A i \in 1 .. n + 2 : (link \o f)[i] = IF i <= n THEN link[i] ELSE f[i - n]
    <3>1. link \in Seq(Words) /\ f \in Seq(Words)
      BY <1>2, <1>3
    <3>2. /\ Len(link \o f) = Len(link) + Len(f)
          /\ \A i \in 1 .. Len(link) + Len(f) :
               (link \o f)[i] = IF i <= Len(link) THEN link[i] ELSE f[i - Len(link)]
      BY <3>1, ConcatProperties, Zenon
    <3>3. Len(link \o f) = n + 2
      BY <1>3, <3>2, Zenon
    <3> QED
      BY <1>3, <3>2, <3>3, Zenon
  <2>2. /\ Len(link') = n + 2
        /\ \A i \in 1 .. n + 2 : link'[i] = IF i <= n THEN link[i] ELSE f[i - n]
    BY <1>1, <2>1, Zenon
  <2> HIDE DEF n
  <2> QED
    BY <1>2, <2>2
<1>6. PsonDriven' <=> PsonDriven
  BY <1>1 DEF PsonDriven
<1>7. \A i \in 1 .. Len(link') : Fits(link'[i])
  BY <1>4, <1>5 DEF SupplyInv
<1>8. ASSUME PowerStage \in {"INIT", "S0"}
      PROVE  /\ Pson \in GPIO_Val /\ Pson \in olat
             /\ \A i \in 1 .. Len(link') : High(link'[i])
  <2>1. Pson \in GPIO_Val /\ \A i \in 1 .. n : High(link[i])
    BY <1>8 DEF SupplyInv
  <2>2. Pson \in olat
    BY <1>1, <1>8, LatchHigh
  <2> QED
    BY <1>4, <1>5, <2>1, <2>2
<1>9. ASSUME PowerStage \in {"S1", "S2", "S3", "S4"}
      PROVE  /\ Pson \notin GPIO_Val
             /\ Pson \notin olat => \A i \in 1 .. Len(link') : Low(link'[i])
             /\ \A i, j \in 1 .. Len(link') :
                  i < j /\ Writes(link'[i]) /\ Low(link'[i]) => Low(link'[j])
  <2>1. /\ Pson \notin GPIO_Val
        /\ Pson \notin olat => \A i \in 1 .. n : Low(link[i])
        /\ \A i, j \in 1 .. n : i < j /\ Writes(link[i]) /\ Low(link[i]) => Low(link[j])
    BY <1>9 DEF SupplyInv
  <2>2. \A i \in 1 .. n + 2 : i \notin 1 .. n => Low(link'[i])
    BY <1>4, <1>5, <2>1
  <2>3. ASSUME NEW i \in 1 .. n + 2, NEW j \in 1 .. n + 2, i < j, Writes(link'[i]), Low(link'[i])
        PROVE  Low(link'[j])
    <3>1. CASE j \in 1 .. n
      <4>1. i \in 1 .. n
        BY <1>2, <2>3, <3>1
      <4> QED
        BY <1>5, <2>1, <2>3, <3>1, <4>1
    <3> QED
      BY <2>2, <3>1
  <2>4. Pson \notin olat => \A i \in 1 .. n + 2 : Low(link'[i])
    BY <1>5, <2>1, <2>2
  <2> QED
    BY <1>5, <2>1, <2>3, <2>4
<1>10. (\A i \in 1 .. Len(link) : Fits(link[i]))'
  BY <1>7 DEF Fits, Writes
<1>11. (PowerStage \in {"INIT", "S0"} =>
          Pson \in GPIO_Val /\ \A i \in 1 .. Len(link) : High(link[i]))'
  BY <1>1, <1>8 DEF High, Writes
<1>12. (PowerStage \in {"S1", "S2", "S3", "S4"} =>
          /\ Pson \notin GPIO_Val
          /\ Pson \notin olat => \A i \in 1 .. Len(link) : Low(link[i])
          /\ \A i, j \in 1 .. Len(link) :
               i < j /\ Writes(link[i]) /\ Low(link[i]) => Low(link[j]))'
  BY <1>1, <1>9 DEF Low, Writes
<1> QED
  BY <1>1, <1>6, <1>8, <1>10, <1>11, <1>12 DEF SupplyInv

LEMMA SupplyDeliver ==
  ASSUME Pson \in Pins, TypeOK, SupplyInv, Deliver
  PROVE  SupplyInv'
<1> DEFINE n == Len(link)
<1>1. /\ link # << >> /\ link' = Tail(link)
      /\ olat' = LatchAfter(olat, Head(link)) /\ outputs' = OutputsAfter(outputs, Head(link))
      /\ UNCHANGED << PowerStage, TimerPower_Counter, GPIO_Val, pgood, off >>
  BY DEF Deliver, machine, psu, Link!Deliver, Link!LatchAfter, Link!OutputsAfter, LatchAfter,
     OutputsAfter
<1>2. link \in Seq(Words) /\ n \in Nat \ {0} /\ olat \in SUBSET Pins
  BY <1>1, EmptySeq DEF TypeOK, BoardTypes
<1>3. /\ Head(link) = link[1] /\ link[1] \in Words
      /\ Len(link') = n - 1
      /\ \A i \in 1 .. n - 1 : i + 1 \in 1 .. n /\ link'[i] = link[i + 1]
  BY <1>1, <1>2, HeadTailProperties
<1>4. \A i \in 1 .. n : Fits(link[i])
  BY DEF SupplyInv
<1>5. Pson \in olat' <=> IF Writes(link[1]) THEN Pson \in link[1].val ELSE Pson \in olat
  BY <1>1, <1>2, <1>3, <1>4, LatchPson
<1>6. Pson \in outputs => Pson \in outputs'
  BY <1>1 DEF OutputsAfter
<1>7. \A i \in 1 .. Len(link') : Fits(link'[i])
  BY <1>3, <1>4
<1>8. ASSUME PowerStage \in {"INIT", "S0"}
      PROVE  /\ Pson \in GPIO_Val
             /\ \A i \in 1 .. Len(link') : High(link'[i])
             /\ Pson \in olat => Pson \in olat'
  <2>1. Pson \in GPIO_Val /\ \A i \in 1 .. n : High(link[i])
    BY <1>8 DEF SupplyInv
  <2>2. High(link[1])
    BY <1>2, <2>1
  <2> QED
    BY <1>3, <1>5, <2>1, <2>2 DEF High
<1>9. ASSUME PowerStage = "INIT"
      PROVE  \/ Pson \in olat'
             \/ Len(link') = 4 /\ link'[1].reg = "GPIOA" /\ link'[2].reg = "GPIOB"
             \/ Len(link') = 3 /\ link'[1].reg = "GPIOB" /\ Pson \notin PinsA
  <2>1. /\ High(link[1])
        /\ \/ Pson \in olat
           \/ n = 4 /\ link[1].reg = "GPIOA" /\ link[2].reg = "GPIOB"
           \/ n = 3 /\ link[1].reg = "GPIOB" /\ Pson \notin PinsA
    BY <1>2, <1>9 DEF SupplyInv
  <2>2. CASE Pson \in olat
    BY <1>8, <1>9, <2>2
  <2>3. CASE n = 4 /\ link[1].reg = "GPIOA" /\ link[2].reg = "GPIOB"
    <3>1. Len(link') = 3 /\ link'[1].reg = "GPIOB"
      BY <1>3, <2>3
    <3>2. Pson \in PinsA => Pson \in olat'
      BY <1>5, <2>1, <2>3 DEF High, Writes
    <3> QED
      BY <3>1, <3>2
  <2>4. CASE n = 3 /\ link[1].reg = "GPIOB" /\ Pson \notin PinsA
    BY <1>5, <2>1, <2>4 DEF High, Writes
  <2> QED
    BY <2>1, <2>2, <2>3, <2>4
<1>10. ASSUME PowerStage \in {"S1", "S2", "S3", "S4"}
       PROVE  /\ Pson \notin GPIO_Val
              /\ Pson \notin olat' => \A i \in 1 .. Len(link') : Low(link'[i])
              /\ \A i, j \in 1 .. Len(link') :
                   i < j /\ Writes(link'[i]) /\ Low(link'[i]) => Low(link'[j])
              /\ Pson \notin olat => Pson \notin olat'
  <2>1. /\ Pson \notin GPIO_Val
        /\ Pson \notin olat => \A i \in 1 .. n : Low(link[i])
        /\ \A i, j \in 1 .. n : i < j /\ Writes(link[i]) /\ Low(link[i]) => Low(link[j])
    BY <1>10 DEF SupplyInv
  <2>2. \A i, j \in 1 .. Len(link') :
          i < j /\ Writes(link'[i]) /\ Low(link'[i]) => Low(link'[j])
    <3> SUFFICES ASSUME NEW i \in 1 .. n - 1, NEW j \in 1 .. n - 1,
                        i < j, Writes(link'[i]), Low(link'[i])
                 PROVE  Low(link'[j])
      BY <1>3
    <3>1. /\ i + 1 \in 1 .. n /\ link'[i] = link[i + 1]
          /\ j + 1 \in 1 .. n /\ link'[j] = link[j + 1] /\ i + 1 < j + 1
      BY <1>3
    <3> QED
      BY <2>1, <3>1
  <2>3. ASSUME Pson \notin olat PROVE Pson \notin olat' /\ \A i \in 1 .. n - 1 : Low(link'[i])
    <3>1. \A i \in 1 .. n : Low(link[i])
      BY <2>1, <2>3
    <3>2. Low(link[1])
      BY <1>2, <3>1
    <3> QED
      BY <1>3, <1>5, <2>3, <3>1, <3>2 DEF Low
  <2>4. ASSUME Pson \in olat, Pson \notin olat'
        PROVE  \A i \in 1 .. n - 1 : Low(link'[i])
    <3>1. Writes(link[1]) /\ Low(link[1])
      BY <1>5, <2>4 DEF Low
    <3>2. \A i \in 1 .. n - 1 : i + 1 \in 1 .. n /\ 1 \in 1 .. n /\ 1 < i + 1
      BY <1>2
    <3> QED
      BY <1>3, <2>1, <3>1, <3>2
  <2> QED
    BY <1>3, <2>1, <2>2, <2>3, <2>4
<1>11. PowerStage \in {"S1", "S2", "S3", "S4"} => (PsonDriven => PsonDriven')
  BY <1>6, <1>10 DEF PsonDriven, Pson
<1>12. (\A i \in 1 .. Len(link) : Fits(link[i]))'
  BY <1>7 DEF Fits, Writes
<1>13. (PowerStage \in {"INIT", "S0"} =>
          Pson \in GPIO_Val /\ \A i \in 1 .. Len(link) : High(link[i]))'
  BY <1>1, <1>8 DEF High, Writes
<1>14. (PowerStage = "INIT" =>
          \/ Pson \in olat
          \/ Len(link) = 4 /\ link[1].reg = "GPIOA" /\ link[2].reg = "GPIOB"
          \/ Len(link) = 3 /\ link[1].reg = "GPIOB" /\ Pson \notin PinsA)'
  BY <1>1, <1>9
<1>15. (PowerStage \in {"S1", "S2", "S3", "S4"} =>
          /\ Pson \notin GPIO_Val
          /\ Pson \notin olat => \A i \in 1 .. Len(link) : Low(link[i])
          /\ \A i, j \in 1 .. Len(link) :
               i < j /\ Writes(link[i]) /\ Low(link[i]) => Low(link[j]))'
  BY <1>1, <1>10 DEF Low, Writes
<1>16. (PowerStage = "S0" =>
          /\ Pson \in olat
          /\ pgood => \/ TimerPower_Counter = TIME_100_MS
                      \/ off < HoldUp /\ off + TimerPower_Counter >= TIME_100_MS)'
  BY <1>1, <1>8 DEF SupplyInv
<1>17. (PowerStage = "S1" /\ pgood => PsonDriven)' /\ (PowerStage \in Running => PsonDriven)'
  BY <1>1, <1>11 DEF SupplyInv, Running
<1> QED
  BY <1>12, <1>13, <1>14, <1>15, <1>16, <1>17 DEF SupplyInv

LEMMA SupplyTick ==
  ASSUME TypeOK, SupplyInv, Tick
  PROVE  SupplyInv'
<1>1. /\ UNCHANGED << PowerStage, GPIO_Val, link, olat, outputs >>
      /\ TimerPower_Counter' = CountDown(TimerPower_Counter)
      /\ off' = IF PsonDriven THEN 0 ELSE Age(off, HoldUp)
      /\ pgood' = (pgood /\ (PsonDriven \/ off' < HoldUp))
  BY DEF Tick, gpio
<1>2. PsonDriven' <=> PsonDriven
  BY <1>1 DEF PsonDriven
<1>3. ASSUME PowerStage = "S0", pgood'
      PROVE  off' < HoldUp /\ off' + TimerPower_Counter' >= TIME_100_MS
  <2>1. /\ pgood /\ ~PsonDriven
        /\ \/ TimerPower_Counter = TIME_100_MS
           \/ off < HoldUp /\ off + TimerPower_Counter >= TIME_100_MS
    BY <1>1, <1>3 DEF SupplyInv, PsonDriven, Pson
  <2>2. off' = Age(off, HoldUp) /\ off' < HoldUp
    BY <1>1, <1>3, <2>1
  <2>3. off \in 0 .. HoldUp /\ TimerPower_Counter \in 0 .. TIME_1_SEC
    BY DEF TypeOK, BoardTypes
  <2> QED
    BY <1>1, <2>1, <2>2, <2>3, TimesAssumption DEF Age, CountDown
<1>4. pgood' => pgood
  BY <1>1
<1> QED
  BY <1>1, <1>2, <1>3, <1>4 DEF SupplyInv

LEMMA SupplyNext ==
  ASSUME Pson \in InitVal, TypeOK, OrderInv, SupplyInv, [Next]_vars
  PROVE  SupplyInv'
<1>0. Pson \in Pins
  BY InitValAssumption
<1>1. CASE StageInit \/ StageS0 \/ StageS1Good \/ StageS1Fail
  BY <1>0, <1>1, SupplyStages
<1>2. CASE StageAtxFail
  <2>1. PowerStage' = "ATX_FAIL" /\ UNCHANGED << link, olat, outputs, psu >>
    BY <1>2 DEF StageAtxFail, machine, board
  <2> QED
    BY <2>1 DEF SupplyInv, Running
<1>3. CASE StageS2
  <2>1. /\ PowerStage = "S2" /\ PowerStage' = "S3"
        /\ UNCHANGED << GPIO_Val, link, olat, outputs, psu >>
    BY <1>3 DEF StageS2, gpio, board
  <2>2. PsonDriven' <=> PsonDriven
    BY <2>1 DEF PsonDriven
  <2> QED
    BY <2>1, <2>2 DEF SupplyInv, Running
<1>4. CASE StageS2Clocks \/ StageS3
  <2>1. /\ PowerStage = "S3" /\ PowerStage' \in {"S3", "S4"}
        /\ Pson \in GPIO_Val' <=> Pson \in GPIO_Val
        /\ UNCHANGED << link, olat, outputs, psu >>
    BY <1>4 DEF StageS2Clocks, StageS3, GpioWrite, OrderInv, gpio, board, Pson
  <2>2. PsonDriven' <=> PsonDriven
    BY <2>1 DEF PsonDriven
  <2> QED
    BY <2>1, <2>2 DEF SupplyInv, Running
<1>5. CASE StageS4
  <2>1. PICK modedef \in BOOLEAN, rx_los \in BOOLEAN : SfpLed(modedef, rx_los)
    BY <1>5 DEF StageS4
  <2>2. \/ GpioWrite({}, {"LED_2_G", "LED_2_R"})
        \/ GpioWrite({"LED_2_R"}, {"LED_2_G"})
        \/ GpioWrite({"LED_2_G"}, {"LED_2_R"})
    BY <2>1 DEF SfpLed
  <2>3. Pson \in GPIO_Val' <=> Pson \in GPIO_Val
    BY <2>2 DEF GpioWrite, Pson
  <2> QED
    BY <1>5, <2>3, SupplyStill DEF StageS4, machine, board
<1>6. CASE MashLED
  <2>1. Pson \in GPIO_Val' <=> Pson \in GPIO_Val
    BY <1>6 DEF MashLED, GpioWrite, Pson
  <2> QED
    BY <1>6, <2>1, SupplyStill DEF MashLED, machine, board
<1>7. CASE Switch_BootSpi2BMC \/ Switch_BootSpi2CPU
  <2>1. Pson \in GPIO_Val' <=> Pson \in GPIO_Val
    BY <1>7 DEF Switch_BootSpi2BMC, Switch_BootSpi2CPU, GpioWrite, Pson
  <2> QED
    BY <1>7, <2>1, SupplyStill DEF Switch_BootSpi2BMC, Switch_BootSpi2CPU, machine, board
<1>8. CASE SPI_GPIO_Mash
  BY <1>0, <1>8, SupplyFlush
<1>9. CASE Deliver
  BY <1>0, <1>9, SupplyDeliver
<1>10. CASE Tick
  BY <1>10, SupplyTick
<1>11. CASE SupplyGood
  <2>1. /\ PsonDriven
        /\ UNCHANGED << PowerStage, TimerPower_Counter, GPIO_Val, link, olat, outputs, off >>
    BY <1>11 DEF SupplyGood, machine, gpio, board
  <2>2. PsonDriven' /\ PowerStage # "S0"
    BY <2>1 DEF PsonDriven, SupplyInv, Pson
  <2> QED
    BY <2>1, <2>2 DEF SupplyInv
<1>12. CASE SupplyFails
  <2>1. /\ ~pgood'
        /\ UNCHANGED << PowerStage, TimerPower_Counter, GPIO_Val, link, olat, outputs, off >>
    BY <1>12 DEF SupplyFails, machine, gpio, board
  <2>2. PsonDriven' <=> PsonDriven
    BY <2>1 DEF PsonDriven
  <2> QED
    BY <2>1, <2>2 DEF SupplyInv
<1>13. CASE Button \/ PageWrite \/ PageWritten \/ SessionEnds \/ UNCHANGED vars
  BY <1>13, SupplyStill
     DEF Button, PageWrite, PageWritten, SessionEnds, vars, machine, gpio, board
<1>14. CASE Restart
  <2>1. /\ link' = InitWords(InitVal) /\ GPIO_Val' = InitVal /\ PowerStage' = "INIT"
    BY <1>14 DEF Restart, Link!Restart, Link!InitWords, Link!FlushWords, Link!Word, InitWords,
       FlushWords, Word
  <2> DEFINE q == InitWords(InitVal)
  <2>2. /\ \A i \in 1 .. Len(q) : High(q[i]) /\ Fits(q[i])
        /\ Len(q) = 4 /\ q[1].reg = "GPIOA" /\ q[2].reg = "GPIOB"
    BY InitWordsHigh
  <2> HIDE DEF q
  <2>3. /\ (\A i \in 1 .. Len(link) : High(link[i]) /\ Fits(link[i]))'
        /\ Len(link') = 4 /\ link'[1].reg = "GPIOA" /\ link'[2].reg = "GPIOB"
    BY <2>1, <2>2 DEF q, High, Fits, Writes
  <2> QED
    BY <2>1, <2>3 DEF SupplyInv, Running
<1> QED
  BY <1>1, <1>2, <1>3, <1>4, <1>5, <1>6, <1>7, <1>8, <1>9, <1>10, <1>11, <1>12, <1>13, <1>14
     DEF Next, MachPower

(* The converters run only while the supply is switched on at the          *)
(* expander (lines 305 to 325), across any number of resets of the FPGA    *)
(* and for every supply whose PGOOD outlasts PSON by less than the 100 ms  *)
(* of S0.                                                                  *)
THEOREM RailsAreFed ==
  ASSUME "ATX_PSON" \in InitVal, "LED_PGOOD" \notin InitVal
  PROVE  Spec => []RailsNeedSupply
<1>1. Init => TypeOK /\ OrderInv /\ SupplyInv
  BY TypeInit, OrderInit, SupplyInit DEF Pson
<1>2. TypeOK /\ OrderInv /\ SupplyInv /\ [Next]_vars => (TypeOK /\ OrderInv /\ SupplyInv)'
  BY TypeNext, OrderNext, SupplyNext DEF Pson
<1>3. OrderInv /\ SupplyInv => RailsNeedSupply
  BY DEF OrderInv, SupplyInv, RailsNeedSupply, Rails, BootSpi
<1> QED
  BY <1>1, <1>2, <1>3, PTL DEF Spec

(***************************************************************************)
(* The handlers and the link.                                              *)
(***************************************************************************)
LEMMA WriteUpdates ==
  ASSUME TypeOK, NEW set, NEW clr, GpioWrite(set, clr),
         UNCHANGED << link, olat, outputs, restarts >>
  PROVE  Link!Update \/ UNCHANGED Link!vars
<1>1. GPIO_Val' \in SUBSET Link!Pins
  BY GpioWriteType DEF TypeOK, Link!Pins, Pins
<1>2. CASE GPIO_Val' = GPIO_Val
  BY <1>2 DEF GpioWrite, Link!vars, TypeOK, BoardTypes
<1>3. CASE GPIO_Val' # GPIO_Val
  <2>1. GPIO_Changed' = TRUE
    BY <1>3 DEF GpioWrite, TypeOK, BoardTypes
  <2> QED
    BY <1>1, <1>3, <2>1 DEF Link!Update
<1> QED
  BY <1>2, <1>3

LEMMA NextOnLink ==
  ASSUME TypeOK, [Next]_vars
  PROVE  [Link!Next]_(Link!vars)
<1>1. CASE StageInit \/ StageS1Good \/ StageS1Fail \/ StageS2 \/ StageS3
  BY <1>1 DEF StageInit, StageS1Good, StageS1Fail, StageS2, StageS3, gpio, board, Link!vars
<1>2. CASE StageS0 \/ StageAtxFail \/ StageS2Clocks
  BY <1>2, WriteUpdates DEF StageS0, StageAtxFail, StageS2Clocks, board, Link!Next
<1>3. CASE StageS4
  BY <1>3, WriteUpdates DEF StageS4, SfpLed, board, Link!Next
<1>4. CASE MashLED
  BY <1>4, WriteUpdates DEF MashLED, board, Link!Next
<1>5. CASE Switch_BootSpi2BMC \/ Switch_BootSpi2CPU
  BY <1>5, WriteUpdates DEF Switch_BootSpi2BMC, Switch_BootSpi2CPU, board, Link!Next
<1>6. CASE SPI_GPIO_Mash \/ Deliver \/ Restart
  BY <1>6 DEF SPI_GPIO_Mash, Deliver, Restart, Link!Next
<1>7. CASE Tick \/ SupplyGood \/ SupplyFails \/ Button
  BY <1>7 DEF Tick, SupplyGood, SupplyFails, Button, gpio, board, Link!vars
<1>8. CASE PageWrite \/ PageWritten \/ SessionEnds \/ UNCHANGED vars
  BY <1>8 DEF PageWrite, PageWritten, SessionEnds, vars, gpio, board, Link!vars
<1> QED
  BY <1>1, <1>2, <1>3, <1>4, <1>5, <1>6, <1>7, <1>8 DEF Next, MachPower

(* Every handler treats the shadow and the link the way GpioLink says, so  *)
(* that what SpiGpio is shown to implement is what MachPower is built on.  *)
THEOREM UsesLink == Spec => Link!Init /\ [][Link!Next]_(Link!vars)
<1>1. Init => Link!Init
  BY DEF Init
<1>2. TypeOK /\ [Next]_vars => [Link!Next]_(Link!vars)
  BY NextOnLink
<1> QED
  BY <1>1, <1>2, TypeCorrect, PTL DEF Spec

(***************************************************************************)
(* MuxAgrees.  The immediate half of the switch and the shadow go together *)
(* in every handler; the shadow and the latch agree once a flush has been  *)
(* delivered, which concerns the words on the link alone.                  *)
(***************************************************************************)
SettleInv ==
  /\ link \in Seq(Sent)
  /\ ~GPIO_Changed => \A p \in Pins : Reached(link, olat, GPIO_Val, p)

LEMMA SettleInit == Init => SettleInv
<1> SUFFICES ASSUME Init PROVE SettleInv
  OBVIOUS
<1>1. link = InitWords(InitVal) /\ GPIO_Val = InitVal
  BY DEF Init, Link!Init, Link!InitWords, Link!FlushWords, Link!Word, InitWords, FlushWords, Word
<1> QED
  BY <1>1, InitValAssumption, InitWordsAre, InitReaches DEF SettleInv

LEMMA SettleNext ==
  ASSUME TypeOK, SettleInv, [Next]_vars
  PROVE  SettleInv'
<1>1. CASE Link!Update
  BY <1>1 DEF Link!Update, SettleInv
<1>2. CASE Link!Flush
  <2>1. /\ link' = link \o FlushWords(GPIO_Val)
        /\ GPIO_Val' = GPIO_Val /\ olat' = olat /\ GPIO_Val \in SUBSET Pins
    BY <1>2 DEF Link!Flush, Link!FlushWords, Link!Word, FlushWords, Word, TypeOK, BoardTypes
  <2>2. FlushWords(GPIO_Val) \in Seq(Sent) /\ link \in Seq(Sent)
    BY <2>1, FlushWordsAre DEF SettleInv
  <2>3. link' \in Seq(Sent)
    BY <2>1, <2>2, ConcatProperties
  <2> QED
    BY <2>1, <2>2, <2>3, FlushReaches DEF SettleInv
<1>3. CASE Link!Deliver
  <2>1. /\ link # << >> /\ link' = Tail(link) /\ olat' = LatchAfter(olat, Head(link))
        /\ UNCHANGED << GPIO_Val, GPIO_Changed >>
        /\ link \in Seq(Sent) /\ olat \in SUBSET Pins
    BY <1>3 DEF Link!Deliver, Link!LatchAfter, LatchAfter, SettleInv, TypeOK, BoardTypes
  <2>2. link' \in Seq(Sent)
    BY <2>1, HeadTailProperties
  <2> QED
    BY <2>1, <2>2, DeliverReaches DEF SettleInv
<1>4. CASE Link!Restart
  <2>1. link' = InitWords(InitVal) /\ GPIO_Val' = InitVal
    BY <1>4 DEF Link!Restart, Link!InitWords, Link!FlushWords, Link!Word, InitWords, FlushWords,
       Word
  <2> QED
    BY <2>1, InitValAssumption, InitWordsAre, InitReaches DEF SettleInv
<1>5. CASE UNCHANGED Link!vars
  BY <1>5 DEF Link!vars, SettleInv
<1> QED
  BY <1>1, <1>2, <1>3, <1>4, <1>5, NextOnLink DEF Link!Next

Mux == "3V3_ENA_FET_MUX_SEL"
HalvesAgree == "ENA_BMC_SPI" \in pio <=> Mux \in GPIO_Val

LEMMA HalvesNext ==
  ASSUME Mux \in Pins, Mux \notin InitVal, HalvesAgree, [Next]_vars
  PROVE  HalvesAgree'
<1> USE DEF HalvesAgree, Mux
<1>1. CASE StageInit \/ StageS1Good \/ StageS1Fail \/ StageS2 \/ StageS3
  BY <1>1 DEF StageInit, StageS1Good, StageS1Fail, StageS2, StageS3, SetPIO, Rails, Resets, gpio
<1>2. CASE StageS0 \/ StageAtxFail
  BY <1>2 DEF StageS0, StageAtxFail, GpioWrite
<1>3. CASE StageS2Clocks
  BY <1>3 DEF StageS2Clocks, GpioWrite, BootSpi
<1>4. CASE StageS4
  <2>1. PICK modedef \in BOOLEAN, rx_los \in BOOLEAN : SfpLed(modedef, rx_los)
    BY <1>4 DEF StageS4
  <2>2. \/ GpioWrite({}, {"LED_2_G", "LED_2_R"})
        \/ GpioWrite({"LED_2_R"}, {"LED_2_G"})
        \/ GpioWrite({"LED_2_G"}, {"LED_2_R"})
    BY <2>1 DEF SfpLed
  <2>3. Mux \in GPIO_Val' <=> Mux \in GPIO_Val
    BY <2>2 DEF GpioWrite
  <2> QED
    BY <1>4, <2>3 DEF StageS4
<1>5. CASE MashLED
  BY <1>5 DEF MashLED, GpioWrite
<1>6. CASE Switch_BootSpi2BMC
  BY <1>6 DEF Switch_BootSpi2BMC, SetPIO, GpioWrite, BootSpi
<1>7. CASE Switch_BootSpi2CPU
  BY <1>7 DEF Switch_BootSpi2CPU, ClrPIO, GpioWrite, BootSpi
<1>8. CASE SPI_GPIO_Mash \/ Deliver
  BY <1>8 DEF SPI_GPIO_Mash, Deliver, Link!Flush, Link!Deliver
<1>9. CASE Tick \/ SupplyGood \/ SupplyFails \/ Button \/ UNCHANGED vars
  BY <1>9 DEF Tick, SupplyGood, SupplyFails, Button, vars, gpio
<1>10. CASE Restart
  BY <1>10 DEF Restart, Link!Restart
<1>11. CASE PageWrite \/ PageWritten \/ SessionEnds
  BY <1>11 DEF PageWrite, PageWritten, SessionEnds, gpio
<1> QED
  BY <1>1, <1>2, <1>3, <1>4, <1>5, <1>6, <1>7, <1>8, <1>9, <1>10, <1>11 DEF Next, MachPower

(* The FPGA drives the boot flash's bus exactly when the shadow enables    *)
(* the multiplexer, and, flushed and delivered, when its pin is on (lines  *)
(* 342 to 345 and 387 to 399): S2 and the console's commands in any order. *)
THEOREM MuxFollows ==
  ASSUME "3V3_ENA_FET_MUX_SEL" \in Pins, "3V3_ENA_FET_MUX_SEL" \notin InitVal
  PROVE  Spec => []MuxAgrees
<1>1. Init => TypeOK /\ SettleInv /\ HalvesAgree
  BY TypeInit, SettleInit DEF Init, Link!Init, HalvesAgree, Mux
<1>2. TypeOK /\ SettleInv /\ HalvesAgree /\ [Next]_vars
        => (TypeOK /\ SettleInv /\ HalvesAgree)'
  BY TypeNext, SettleNext, HalvesNext DEF Mux
<1>3. SettleInv /\ HalvesAgree => MuxAgrees
  <2> SUFFICES ASSUME SettleInv, HalvesAgree, ~GPIO_Changed, link = << >>
               PROVE  Mux \in olat <=> Mux \in GPIO_Val
    BY DEF HalvesAgree, MuxAgrees, Driving, Mux
  <2>1. Reached(link, olat, GPIO_Val, Mux)
    BY DEF SettleInv, Mux
  <2> QED
    BY <2>1 DEF Reached
<1> QED
  BY <1>1, <1>2, <1>3, PTL DEF Spec
=============================================================================
