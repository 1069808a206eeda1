------------------------------ MODULE PowerSeq ------------------------------
(***************************************************************************)
(* The power sequence: MachPower, the timer it waits with, the outputs it  *)
(* switches (the pio_out port, at once; the expander, through the shadow   *)
(* register and the link of SPI_GPIO.c), MashLED, the two switches of the  *)
(* boot flash, the console as far as it takes that flash and waits for it, *)
(* and the ATX supply on the other side of the pins.                       *)
(*                                                                         *)
(* The event loop calls one handler at a time, in any order here: which    *)
(* ticks a handler gets is MainLoop's subject, and what is shown here does *)
(* not depend on it.  The timer interrupt comes between any two handlers   *)
(* and, while MachPower writes the clock generator over I2C, within one.   *)
(*                                                                         *)
(* PinsA and PinsB are the pins of the expander a model observes.  Calls   *)
(* for other pins change nothing here but would raise GPIO_Changed: a      *)
(* model observes the pins its properties are about and one more, LED or   *)
(* other, that asks for flushes of its own.                                *)
(***************************************************************************)
EXTENDS Expander, Integers

CONSTANTS InitVal,        \* the argument of SPI_GPIOInit
          MaxRestarts,    \* bound: resets of the FPGA
          TIME_100_MS, TIME_1_SEC,   \* in ticks of the timer
          HoldUp          \* ticks PGOOD may outlast PSON by

ASSUME TimesAssumption ==
  /\ TIME_100_MS \in Nat /\ TIME_1_SEC \in Nat /\ HoldUp \in Nat
  /\ TIME_100_MS <= TIME_1_SEC
  /\ 0 < HoldUp /\ HoldUp < TIME_100_MS
ASSUME RestartsAssumption == MaxRestarts \in Nat
ASSUME InitValAssumption == InitVal \subseteq Pins

VARIABLES
  PowerStage,          \* SysCntrl.PowerStage
  PowerOK,             \* SysCntrl.PowerOK
  TimerPower_Counter,  \* SysCntrl.TimerPower_Counter
  i2c,                 \* MachPower is in TestI2C
  pio,                 \* the bits of pio_out that are 1
  GPIO_Val, GPIO_Changed, link, olat, outputs, restarts,   \* see GpioLink
  overdue,             \* a tick has come since the words in link were sent
  pgood,               \* ATX_PGOOD
  off,                 \* ticks since PSON was last driven, up to HoldUp
  rst_pin,             \* INPUT_GPIO_RST_PIN
  XmodemMode,          \* Uart_Cntrl.XmodemMode
  poll,                \* UART_Con_Mash is in a wait of the page writer for the flash
  clocked              \* history: ticks since the clocks were enabled, up to TIME_1_SEC

gpio  == << GPIO_Val, GPIO_Changed >>
board == << link, olat, outputs, restarts, overdue >>
psu   == << pgood, off >>
machine == << PowerStage, PowerOK, TimerPower_Counter, i2c >>
console == << XmodemMode, poll >>
vars  == << machine, pio, gpio, board, psu, rst_pin, console, clocked >>

Link == INSTANCE GpioLink

Stages == {"INIT", "S0", "S1", "S2", "S3", "S4", "ATX_FAIL"}

(***************************************************************************)
(* The bits of pio_out, named as in defines.h without the GPIO_ prefix.    *)
(***************************************************************************)
Rails  == {"ENABLE_1V5", "ENABLE_1V8", "ENABLE_0V95"}
Clocks == {"CLK_PWRGD", "OE_BLK_REFCLK", "OE_PEX_REFCLK",
           "OE_SLOT_0", "OE_SLOT_1", "OE_SLOT_2", "OE_SLOT_3"}
Resets == {"PEX_PERST", "SYS_RESET_N", "PEX_NT_PERST", "SLOT_PERST"}
BootSpi == {"ENA_BMC_SPI", "ENA_CPU_BOOT_SPI"}
PioBits == Rails \cup Clocks \cup Resets \cup BootSpi \cup {"BOOT_CFG_1", "TEST_F14", "CPU_RESET"}

BoardTypes ==
  /\ PowerStage \in Stages
  /\ PowerOK \in BOOLEAN
  /\ TimerPower_Counter \in 0 .. TIME_1_SEC
  /\ i2c \in BOOLEAN
  /\ pio \in SUBSET PioBits
  /\ GPIO_Val \in SUBSET Pins
  /\ GPIO_Changed \in BOOLEAN
  /\ link \in Seq(Words)
  /\ olat \in SUBSET Pins
  /\ outputs \in SUBSET Pins
  /\ restarts \in 0 .. MaxRestarts
  /\ overdue \in BOOLEAN
  /\ pgood \in BOOLEAN
  /\ off \in 0 .. HoldUp
  /\ rst_pin \in BOOLEAN
  /\ clocked \in 0 .. TIME_1_SEC
TypeOK == BoardTypes /\ XmodemMode \in BOOLEAN /\ poll \in BOOLEAN

(***************************************************************************)
(* main() up to the event loop: SysCntrl is zero but for PowerStage (lines *)
(* 177 to 179), pio_out is 0 after reset and CPU_RESET is cleared again    *)
(* (line 205), SPI_GPIOInit has put its four words on the link.            *)
(***************************************************************************)
Init ==
  /\ PowerStage = "INIT"
  /\ PowerOK = FALSE
  /\ TimerPower_Counter = 0
  /\ i2c = FALSE
  /\ pio = {}
  /\ Link!Init
  /\ overdue = FALSE
  /\ pgood = FALSE
  /\ off = HoldUp
  /\ rst_pin \in BOOLEAN
  /\ XmodemMode = FALSE
  /\ poll = FALSE
  /\ clocked = 0

(* SetPIO and ClrPIO write the set and clear registers of pio_out: other   *)
(* bits keep their value.                                                  *)
SetPIO(val) == pio' = pio \cup val
ClrPIO(val) == pio' = pio \ val

(* Mutant: the flag is not raised. *)
BugGpioWrite(set, clr) ==
  /\ GPIO_Val' = (GPIO_Val \ clr) \cup (set \cap Pins)
  /\ UNCHANGED GPIO_Changed

(* A handler's calls of SPI_GPIO_Set and SPI_GPIO_Clr, together: the pins  *)
(* in `set` end 1 and those in `clr` end 0.                                *)
GpioWrite(set, clr) ==
  LET v == (GPIO_Val \ clr) \cup (set \cap Pins)
  IN  /\ GPIO_Val' = v
      /\ GPIO_Changed' = (GPIO_Changed \/ v # GPIO_Val)

SetTimer(val) == TimerPower_Counter' = val

(* The processor is in the event loop, not spinning in SPI_TxData (at most *)
(* two words are left in the transmitter) and not in a long handler.       *)
Free == Len(link) <= 2 /\ ~i2c /\ ~poll

(***************************************************************************)
(* MachPower, one action per stage.                                        *)
(***************************************************************************)
StageInit ==
  /\ Free /\ PowerStage = "INIT"
  /\ PowerStage' = "S0"
  /\ SetTimer(TIME_100_MS)
  /\ UNCHANGED << PowerOK, i2c, pio, gpio, board, psu, rst_pin, console, clocked >>

(* Mutant: S0 does not wait. *)
BugStageS0 ==
  /\ Free /\ PowerStage = "S0"
  /\ GpioWrite({}, {"ATX_PSON"})
  /\ PowerStage' = "S1"
  /\ SetTimer(TIME_1_SEC)
  /\ UNCHANGED << PowerOK, i2c, pio, board, psu, rst_pin, console, clocked >>

(* The supply is switched on: PSON is active low. *)
StageS0 ==
  /\ Free /\ PowerStage = "S0"
  /\ TimerPower_Counter = 0
  /\ GpioWrite({}, {"ATX_PSON"})
  /\ PowerStage' = "S1"
  /\ SetTimer(TIME_1_SEC)
  /\ UNCHANGED << PowerOK, i2c, pio, board, psu, rst_pin, console, clocked >>

StageS1Good ==
  /\ Free /\ PowerStage = "S1"
  /\ pgood
  /\ PowerStage' = "S2"
  /\ SetTimer(TIME_100_MS)
  /\ SetPIO(Rails)
  /\ UNCHANGED << PowerOK, i2c, gpio, board, psu, rst_pin, console, clocked >>

StageS1Fail ==
  /\ Free /\ PowerStage = "S1"
  /\ ~pgood
  /\ TimerPower_Counter = 0
  /\ PowerStage' = "ATX_FAIL"
  /\ UNCHANGED << PowerOK, TimerPower_Counter, i2c, pio, gpio, board, psu, rst_pin, console,
                  clocked >>

(* Mutant: Clr for Set. *)
BugStageAtxFail ==
  /\ Free /\ PowerStage = "ATX_FAIL"
  /\ GpioWrite({}, {"ATX_PSON"})
  /\ UNCHANGED << machine, pio, board, psu, rst_pin, console, clocked >>

StageAtxFail ==
  /\ Free /\ PowerStage = "ATX_FAIL"
  /\ GpioWrite({"ATX_PSON"}, {})
  /\ UNCHANGED << machine, pio, board, psu, rst_pin, console, clocked >>

(* S2 does not look at its timer.  It writes the clock generator's table   *)
(* over I2C, which takes many ticks and whose errors it ignores...         *)
StageS2 ==
  /\ Free /\ PowerStage = "S2"
  /\ PowerOK' = TRUE
  /\ PowerStage' = "S3"
  /\ i2c' = TRUE
  /\ UNCHANGED << TimerPower_Counter, pio, gpio, board, psu, rst_pin, console, clocked >>

(* Mutants: the timer is left with what S1 put into it, and the processor  *)
(* is released with the clocks.                                            *)
BugStageS2ClocksNoTimer ==
  /\ i2c
  /\ i2c' = FALSE
  /\ pio' = (pio \cup Clocks \cup {"BOOT_CFG_1", "TEST_F14"}) \ BootSpi
  /\ GpioWrite({"3V3_MUX_SEL"}, {"3V3_ENA_FET_MUX_SEL"})
  /\ clocked' = 0
  /\ UNCHANGED << TimerPower_Counter, PowerStage, PowerOK, board, psu, rst_pin, console >>

BugStageS2ClocksCpu ==
  /\ i2c
  /\ i2c' = FALSE
  /\ pio' = (pio \cup Clocks \cup {"BOOT_CFG_1", "TEST_F14", "CPU_RESET"}) \ BootSpi
  /\ GpioWrite({"3V3_MUX_SEL"}, {"3V3_ENA_FET_MUX_SEL"})
  /\ SetTimer(TIME_1_SEC)
  /\ clocked' = 0
  /\ UNCHANGED << PowerStage, PowerOK, board, psu, rst_pin, console >>

(* ... and when TestI2C is back, enables the clocks, gives the boot flash  *)
(* to the processor and starts the second of PERST.  Switch_BootSpi2CPU is *)
(* the part that clears BootSpi and writes the two multiplexer pins.       *)
StageS2Clocks ==
  /\ i2c
  /\ i2c' = FALSE
  /\ pio' = (pio \cup Clocks \cup {"BOOT_CFG_1", "TEST_F14"}) \ BootSpi
  /\ GpioWrite({"3V3_MUX_SEL"}, {"3V3_ENA_FET_MUX_SEL"})
  /\ SetTimer(TIME_1_SEC)
  /\ clocked' = 0
  /\ UNCHANGED << PowerStage, PowerOK, board, psu, rst_pin, console >>

StageS3 ==
  /\ Free /\ PowerStage = "S3"
  /\ TimerPower_Counter = 0
  /\ SetPIO(Resets)
  /\ PowerStage' = "S4"
  /\ SetTimer(TIME_100_MS)
  /\ UNCHANGED << PowerOK, i2c, gpio, board, psu, rst_pin, console, clocked >>

(* The SFP LEDs after the reads of MODEDEF (no module) and RX_LOS: neither *)
(* LED, red or green.                                                      *)
SfpLed(modedef, rx_los) ==
  CASE modedef            -> GpioWrite({}, {"LED_2_G", "LED_2_R"})
    [] ~modedef /\ rx_los  -> GpioWrite({"LED_2_R"}, {"LED_2_G"})
    [] ~modedef /\ ~rx_los -> GpioWrite({"LED_2_G"}, {"LED_2_R"})

(* The steady state: CPU_RESET follows the pin (the bit is inverted on its *)
(* way to the processor, C10_BAIKAL.v line 205: 1 releases it).            *)
StageS4 ==
  /\ Free /\ PowerStage = "S4"
  /\ pio' = (IF rst_pin THEN pio \cup {"CPU_RESET"} ELSE pio \ {"CPU_RESET"})
            \ (IF TimerPower_Counter = 0 THEN {"TEST_F14"} ELSE {})
  /\ \E modedef, rx_los \in BOOLEAN : SfpLed(modedef, rx_los)
  /\ UNCHANGED << machine, board, psu, rst_pin, console, clocked >>

MachPower ==
  \/ StageInit \/ StageS0 \/ StageS1Good \/ StageS1Fail \/ StageAtxFail
  \/ StageS2 \/ StageS3 \/ StageS4

(***************************************************************************)
(* The other handlers of the event loop.                                   *)
(***************************************************************************)
(* The windows of MS_counter in which the LEDs are lit are any.            *)
MashLED ==
  /\ Free
  /\ \E fpga, fault \in BOOLEAN :
       LET Lit(on, pin) == IF on THEN {pin} ELSE {}
           leds == IF PowerStage = "ATX_FAIL" THEN {"FPGA_LED", "LED_PGOOD"} ELSE {"FPGA_LED"}
           lit  == (Lit(fpga, "FPGA_LED") \cup Lit(fault, "LED_PGOOD")) \cap leds
       IN  GpioWrite(lit, leds \ lit)
  /\ UNCHANGED << machine, pio, board, psu, rst_pin, console, clocked >>

(* The console commands "bmc" and "xmodem", which also begins a session... *)
Switch_BootSpi2BMC ==
  /\ Free /\ ~XmodemMode
  /\ SetPIO(BootSpi)
  /\ GpioWrite({"3V3_ENA_FET_MUX_SEL", "3V3_MUX_SEL"}, {})
  /\ XmodemMode' \in BOOLEAN
  /\ UNCHANGED << machine, board, psu, rst_pin, poll, clocked >>

(* Mutant: the multiplexer is left on. *)
BugSwitch_BootSpi2CPU ==
  /\ Free /\ ~XmodemMode
  /\ ClrPIO(BootSpi)
  /\ GpioWrite({"3V3_MUX_SEL"}, {})
  /\ UNCHANGED << machine, board, psu, rst_pin, console, clocked >>

(* ... and "cpu".  A session takes what is typed: there is no command in it. *)
Switch_BootSpi2CPU ==
  /\ Free /\ ~XmodemMode
  /\ ClrPIO(BootSpi)
  /\ GpioWrite({"3V3_MUX_SEL"}, {"3V3_ENA_FET_MUX_SEL"})
  /\ UNCHANGED << machine, board, psu, rst_pin, console, clocked >>

(* A session fills a page or ends (Console and Xmodem say when).           *)
PageWrite ==
  /\ Free /\ XmodemMode
  /\ poll' = TRUE
  /\ UNCHANGED << machine, pio, gpio, board, psu, rst_pin, XmodemMode, clocked >>

SessionEnds ==
  /\ Free /\ XmodemMode
  /\ XmodemMode' = FALSE
  /\ UNCHANGED << machine, pio, gpio, board, psu, rst_pin, poll, clocked >>

(* Flash_PageWrite comes back: the status it polls without a time-out said *)
(* ready, which a flash off the bus may say or not.                        *)
PageWritten ==
  /\ poll
  /\ poll' = FALSE
  /\ UNCHANGED << machine, pio, gpio, board, psu, rst_pin, XmodemMode, clocked >>

SPI_GPIO_Mash ==
  /\ Free
  /\ Link!Flush
  /\ overdue' = FALSE
  /\ UNCHANGED << machine, pio, psu, rst_pin, console, clocked >>

(***************************************************************************)
(* The hardware: the link, the timer interrupt, the supply, the button.    *)
(***************************************************************************)
Deliver ==
  /\ Link!Deliver
  /\ UNCHANGED << machine, pio, overdue, psu, rst_pin, console, clocked >>

(* ATX_PSON drives the supply when the expander's pin is an output at 0; a *)
(* pin that is an input is pulled up.                                      *)
PsonDriven == "ATX_PSON" \in outputs /\ "ATX_PSON" \notin olat

(* Mutants: no test for zero, and one that is off by one. *)
BugCountDownWraps(t) == t - 1
BugCountDownStuck(t) == IF t > 1 THEN t - 1 ELSE t

CountDown(t) == IF t > 0 THEN t - 1 ELSE t

Age(n, bound) == IF n < bound THEN n + 1 ELSE bound

(* handle_timer_interrupt.  A word takes five microseconds on the wire, so *)
(* that a word meets one tick at most; four words on the link are being    *)
(* sent by a processor that is spinning for microseconds.                  *)
Tick ==
  /\ Len(link) <= 2
  /\ link # << >> => ~overdue
  /\ overdue' = (link # << >>)
  /\ TimerPower_Counter' = CountDown(TimerPower_Counter)
  /\ off' = IF PsonDriven THEN 0 ELSE Age(off, HoldUp)
  /\ pgood' = (pgood /\ (PsonDriven \/ off' < HoldUp))
  /\ clocked' = IF Clocks \subseteq pio THEN Age(clocked, TIME_1_SEC) ELSE clocked
  /\ UNCHANGED << PowerStage, PowerOK, i2c, pio, gpio, link, olat, outputs, restarts, rst_pin,
                  console >>

(* The supply raises PGOOD at some time after it has been switched on, or  *)
(* never, and may drop it at any time.                                     *)
SupplyGood ==
  /\ PsonDriven /\ ~pgood
  /\ pgood' = TRUE
  /\ UNCHANGED << machine, pio, gpio, board, off, rst_pin, console, clocked >>

SupplyFails ==
  /\ pgood
  /\ pgood' = FALSE
  /\ UNCHANGED << machine, pio, gpio, board, off, rst_pin, console, clocked >>

Button ==
  /\ rst_pin' = ~rst_pin
  /\ UNCHANGED << machine, pio, gpio, board, psu, console, clocked >>

(* The FPGA is reset; the expander and the supply go on. *)
Restart ==
  /\ Link!Restart
  /\ PowerStage' = "INIT"
  /\ PowerOK' = FALSE
  /\ TimerPower_Counter' = 0
  /\ i2c' = FALSE
  /\ pio' = {}
  /\ overdue' = FALSE
  /\ XmodemMode' = FALSE
  /\ poll' = FALSE
  /\ clocked' = 0
  /\ UNCHANGED << psu, rst_pin >>

Next ==
  \/ MachPower \/ StageS2Clocks
  \/ MashLED \/ SPI_GPIO_Mash
  \/ Switch_BootSpi2BMC \/ Switch_BootSpi2CPU \/ PageWrite \/ PageWritten \/ SessionEnds
  \/ Deliver \/ Tick \/ SupplyGood \/ SupplyFails \/ Button \/ Restart

(* The FPGA drives the bus of the boot flash. *)
Driving == "ENA_BMC_SPI" \in pio

(* The timer goes on; words on the wire and I2C transfers end (TestI2C's   *)
(* loops are bounded by time-outs).  A wait for the flash ends while the   *)
(* FPGA has the flash: the multiplexer has followed by then, and the chip  *)
(* ends what it does (PagesArrive and PollEnds of Console).  Nothing is    *)
(* promised of a wait for a flash that S2 has taken away (line 345).       *)
(*                                                                         *)
(* MachPower and SPI_GPIO_Mash get their turn again and again as long as   *)
(* the loop does not stand in such a wait: the processor waits for room in *)
(* the link, and between two pages the session's other calls are back in   *)
(* time, so that their slots come.  Strong fairness: a wait may come       *)
(* between any two turns, and if it does not end, nothing is promised.     *)
Spec ==
  /\ Init /\ [][Next]_vars
  /\ SF_vars(Tick) /\ WF_vars(Deliver) /\ WF_vars(StageS2Clocks)
  /\ WF_vars(Driving /\ PageWritten)
  /\ SF_vars(MachPower) /\ SF_vars(SPI_GPIO_Mash)

-----------------------------------------------------------------------------
(* The 1.5 V, 1.8 V and 0.95 V converters run only while the ATX supply is *)
(* switched on at the expander.  After a reset of the FPGA PGOOD may still *)
(* be up from before although PSON has been taken back: the 100 ms of S0   *)
(* (line 312) are what keeps S1 from believing it.                         *)
RailsNeedSupply == Rails \cap pio # {} => PsonDriven

(* PCIe reset and the system reset are released a second or more after the *)
(* clocks were enabled (lines 336 to 355).                                 *)
ResetsAfterClocks ==
  Resets \cap pio # {} => Clocks \subseteq pio /\ clocked = TIME_1_SEC

(* The processor leaves reset last: rails, clocks and the other resets are *)
(* in place (lines 362 to 370).                                            *)
CpuLast == "CPU_RESET" \in pio => Rails \cup Clocks \cup Resets \subseteq pio

(* A supply that did not come up in time is given up for good: until the   *)
(* FPGA is reset, nothing but the boot flash switch is moved.              *)
FailIsFinal ==
  /\ PowerStage = "ATX_FAIL" => pio \subseteq BootSpi
  /\ GPIO_Val \cap {"LED_PGOOD"} # {} => PowerStage = "ATX_FAIL"

(* The two halves of the boot flash switch agree: the FPGA drives the SPI  *)
(* bus exactly when the shadow enables the multiplexer, and once a flush   *)
(* has gone out, when the multiplexer's pin is on.                         *)
MuxAgrees ==
  /\ Driving <=> ("3V3_ENA_FET_MUX_SEL" \in GPIO_Val)
  /\ ~GPIO_Changed /\ link = << >> =>
       (Driving <=> ("3V3_ENA_FET_MUX_SEL" \in olat))

(* The event loop stands in the page writer's wait for ever, for a flash   *)
(* that S2 has taken away.                                                 *)
LoopStands == <>[](poll /\ ~Driving)

(* The sequence ends: the board is up or the supply was given up.  Only a  *)
(* page being written when S2 hands the flash to the processor can keep it *)
(* from that: the loop may then stand in the page writer's wait for good   *)
(* (UART_Console.c lines 355 to 357 have no time-out), with the resets of  *)
(* S3 not released.                                                        *)
SequenceEnds ==
  \/ LoopStands
  \/ PowerStage = "INIT" ~> PowerStage \in {"S4", "ATX_FAIL"}

(* A supply that was given up for good is switched off at the expander.    *)
FailSwitchesOff == <>[](PowerStage = "ATX_FAIL") => <>[]~PsonDriven

(* Every handler uses the link the way GpioLink describes, so that what is *)
(* shown of SpiGpio holds under this module's traffic: its safety always,  *)
(* its liveness unless the loop stands still.                              *)
KeepsLink == Link!Init /\ [][Link!Next]_(Link!vars) /\ (LoopStands \/ Link!Fair)
=============================================================================
