# C10_BAIKAL: models of the board manager

The repository is the FPGA board manager of a Baikal-T1 board. A Nios II system
(`src/sopc_top.qsys`, generated under `src/sopc_top/`) runs bare-metal firmware
(`src/software/stest/`) that powers the board up, drives a port expander and
status LEDs, and loads the boot flash over XMODEM. A small piece of hand-written
Verilog (`src/C10_BAIKAL.v`, `src/I2C_to_GPIO.v`) ties the pins together and
offers an I2C slave of its own.

This directory holds TLA+ models of that system, the TLC configurations that
check them and the proofs, checked by TLAPS, of what matters most. Paths below
are relative to the repository; `stest/` is `src/software/stest/`, `drivers/` is
`src/software/stest_bsp/drivers/src/`.

## The system

| Component | Code | State | Operations | Talks to |
|---|---|---|---|---|
| Event loop and timer interrupt | `stest/hello_world_small.c` 170-253, 417-443; `timer_0` | `TimerTick`, `MS_counter` | the interrupt each millisecond; test the flag, clear it, call the handler of `MS_counter % 10` | calls every handler; the interrupt also counts the power timer down |
| Power sequence and front panel | `stest/hello_world_small.c` 294-415, `stest/defines.h`, `pio_out` | `PowerStage`, `PowerOK`, `TimerPower_Counter`, the bits of `pio_out` | `MachPower` (INIT, S0..S4, ATX_FAIL), `MashLED`, `Switch_BootSpi2BMC`, `Switch_BootSpi2CPU`, `SetPIO`, `ClrPIO` | `pio_out` at once, the expander through the shadow register, the clock generator over I2C, the ATX supply and the reset button through `pio_in` |
| Port expander link | `stest/SPI_GPIO.c`, `spi_0` (`sopc_top_spi_0.v`) | shadow `GPIO_Val`, `GPIO_Changed`; the core's holding and shift registers; the MCP23S17's latches and directions | `SPI_GPIOInit`, `SPI_GPIO_Set`, `SPI_GPIO_Clr`, `SPI_GPIO_Mash`, `SPI_TxData` | called by the power sequence and the console; SPI words to the chip |
| XMODEM loader and flash writer | `stest/UART_Console.c` 234-407 | session state, counters, packet and page buffers, address | `Xmodem_Init`, `Xmodem_SPI`, `Flash_PageWrite`, `Flash_SectorErase`, `Flash_WriteEnable` | the 16550's FIFOs, the flash chip over `spi_1` |
| Console line editor and commands | `stest/UART_Console.c` 99-132, 410-484 | line buffer and index | `UART_Con_Mash`, `ReadUartNonBlock`, `UART_SendByte`; xmodem, the two boot flash switches, help, flash, dump | the loader, the boot flash switch |
| SPI command driver | `drivers/altera_avalon_spi.c` | none between calls | `alt_avalon_spi_command` | `spi_1`, the flash chip |
| I2C master driver | `drivers/altera_avalon_i2c.c` | the device record: interrupt transaction, callback | `alt_avalon_i2c_master_tx`, `_rx`, `_tx_rx`, their interrupt forms, the status function, speed and configuration | `i2c_0` and its FIFOs, the clock generator; called by S2 through `TestI2C` and `WriteCFG` |
| I2C slave expander | `src/I2C_to_GPIO.v` | start and stop detectors, bit counter, shift registers, outputs, interrupt | address match, read, write, interrupt on a change | masters on the board's bus, board pins |
| Board pins | `src/C10_BAIKAL.v` | none | polarities, tri-states | everything |

The hard behaviours are the interrupt between any two statements of the loop;
handlers that outlast ticks; two halves of one switch of which one is immediate
and one waits in a shadow register; a transmitter that runs beside the
processor; a reset of the FPGA that leaves the expander and the supply as they
were; a supply that answers late, never, or is still answering for an earlier
life of the firmware; a serial line that loses bytes, a sender that repeats
packets, and a flash chip that silently ignores what it cannot do; an I2C bus
that refuses, jams for longer than a call and is lost to another master, while
command and receive FIFOs outlive the calls that filled them; masters that end a
transaction anywhere; polls without a time-out. `PROJECT.json` lists these
hazards, each at its line.

What makes each component correct:

- *link*: no update of the shadow is lost, no word is dropped, a pin is never
  driven to a value nobody asked for, a settled shadow reaches the pins;
- *event loop*: no tick is left unanswered, slots run in order, an overrun
  leaves no lasting damage;
- *power sequence*: the order and the delays of supply, converters, clocks,
  resets and processor; a failed supply is given up and switched off; the two
  halves of the boot flash switch agree;
- *loader*: what was acknowledged is what the flash holds, commands to the chip
  come in an order it obeys, a file sent over a clean line arrives;
- *console*: what is executed is what was typed, however it came in; a session's
  pages reach the flash, and nothing but S2 can take it away in one;
- *SPI command*: the answers are kept in their places, none is lost, the wait
  without a time-out ends;
- *I2C driver*: what SUCCESS means, whose bytes a read returns, that calls given
  up do not mix with later ones, that every call returns and leaves the core
  disabled;
- *I2C slave*: it holds SDA where it is addressed and nowhere else, keeps what
  was written, signals every change, and never leaves the bus stuck.

## The modules

| Module | Models | Builds on |
|---|---|---|
| `Expander` | the registers and words of the MCP23S17 (`SPI_GPIO.c` 37-82) and what a word does to the chip | |
| `GpioLink` | abstract: a shadow, an atomic flush, an ordered link | `Expander` |
| `SpiGpio` | `SPI_GPIO.c` over the `spi_0` transmitter, register by register | `Expander`; implements `GpioLink` |
| `MainLoop` | the loop of `main` and `handle_timer_interrupt` | |
| `PowerSeq` | `MachPower`, `MashLED`, the boot flash switch, `pio_out`, the console's session as far as it holds the loop up, the supply | `Expander`, `GpioLink` |
| `Xmodem` | the loader, the flash writer, the FIFO, the host, the chip | |
| `Console` | the line editor, the commands that take or give the flash, the page writer's waits, S2, and the rotation of their slots | |
| `SpiCommand` | `alt_avalon_spi_command` over the `spi_1` core | |
| `I2cDriver` | the polled and the interrupt transfers, their retries, the core and the bus | |
| `I2cConfig` | speed computation and configuration registers under the driver | `I2cDriver` |
| `I2cSlave` | `I2C_to_GPIO.v`, edge by edge, and the masters | |
| `MCConsole`, `MCSpiCommand`, `MCI2c`, `MCI2cSlave` | instances: keys and words, commands, calls and speeds, address and inputs | the module they are named after (`MCI2c`: `I2cConfig`) |
| `SpiGpioProofs`, `MainLoopProofs`, `PowerSeqProofs`, `XmodemProofs`, `ConsoleProofs`, `SpiCommandProofs`, `I2cDriverProofs`, `I2cSlaveProofs` | theorems | the module they are named after (`I2cDriverProofs`: `I2cConfig`) |

`PROJECT.json` maps every definition to its lines. Operators whose name begins
with `Bug` are deliberate faults used to see that a property can fail; no
specification uses them.

### Expander, GpioLink, SpiGpio

A register value is the set of the pins whose bit is 1, so `|` is union and
`& ~` is difference. `PinsA` and `PinsB` are the pins of the two 8-bit ports
that a model observes. Pins meet each other only in `GPIO_Changed`, which any of
them raises and which makes a flush send all of them: a model observes the pins
its properties are about and at least one that asks for flushes of its own.

`SpiGpio` has one action per call (`SPI_GPIO_Set`, `SPI_GPIO_Clr`,
`SPI_GPIO_Mash`), two for each `SPI_TxData` (`PollStatus`, the loop on line 33;
`WriteTx`, line 34) and two for the core (`LoadShift`, `Complete`). `at` is the
register whose word is written next; `init` says that `SPI_GPIOInit` is
running. The core drops a word written while both of its registers are full and
records it in `TOE` (`sopc_top_spi_0.v` 329 and 373). `Restart` is a reset of
the FPGA: main runs again, the chip keeps its registers.

`GpioLink` says the same without registers: `Update`, `Flush`, `Deliver`,
`Restart`. `SpiGpio` refines it with
`link <- shifting, holding, words still to write`. `PowerSeq` is built on
`GpioLink`, with the processor kept from doing anything else while more than two
words are on the way: `SPI_TxData` spins until they fit.

### MainLoop

`pc` is at the test of the flag (line 209), its clearing (210), the switch (222)
or in a handler; the interrupt may come at any of them. Time is not counted.
What is kept of it is `room`: a pass that starts on the tick the loop was
waiting for is over before the next one, a pass that starts late meets one more
tick at most, and a handler in `Slow` lasts up to `MaxOverrun` ticks. `TimerTick`
is a bit of a byte, so clearing it is a load, a mask and a store; a tick between
the load and the store is lost in the same way as one before them, and one
action is enough.

### PowerSeq

One action per stage of `MachPower` and branch of it. `StageS2` and
`StageS2Clocks` are the two halves of S2, with the I2C transfer, and so timer
ticks, between them. `Tick` is the interrupt together with what a millisecond
means to the supply. The supply raises PGOOD when it likes or never, drops it
when it likes, and holds it for fewer than `HoldUp` ticks after PSON is gone;
`HoldUp < TIME_100_MS` is an assumption on the supply that the 100 ms of S0 rest
on. The handlers come in any order: the order the loop gives them is
`MainLoop`'s subject and none of the properties needs it. `clocked` is a history
variable: ticks since the clocks were enabled.

A session of the loader is here what it is to the power sequence: it begins with
the switch of the flash (`XmodemMode`), takes the commands' place, ends some time or
never, and now and then stands in the page writer's wait for the flash (`poll`,
from `PageWrite` to `PageWritten`), during which no other handler runs. S2 may
take the flash away between two pages; the next wait may then never end, and with
it the power sequence (`LoopStands`).

`CPU_RESET` is inverted on its way to the processor (`src/C10_BAIKAL.v` 205):
1 releases it.

### Xmodem

Bytes are grouped into tokens: SOH, block number, data and check of a packet,
and the control codes. The state machine reads the rest of a packet by count
(line 259), so one lost token shifts all that follow, as a lost byte does in the
code. A byte read as a control code out of the middle of a packet may be any
code (`Codes`). A page is two packets. `pc` is where the processor is in
`Flash_PageWrite`, between two commands; while it is there the FIFO fills, and a
token that finds it full is lost. The chip ignores what it cannot do and says so
in the history variable `ignored`; programming a page that was not erased spoils
it. The host and the chip are modelled from what the firmware expects of them. A
flash command is one step: `SpiCommand` is about what is inside it.

### Console

`UART_Con_Mash` is three actions: `Enter`, `ReadByte` (the loop of lines 108 to
122, with bytes arriving between two reads) and `Execute`, which looks for a
command when nothing is left to read. The buffer is kept as it is in the code,
bytes of older lines behind the new one and an index that starts over after the
last place, because what is executed is the string at its beginning. Keys are
model values of which the commands are made.

The loop's part is `turn`, whose slot is next among those of `MachPower` (0), the
console (3) and the flush (9). A handler that is back within its tick passes the
turn on. One that outlasts it leaves it to anyone, its own slot included (`late`),
and after it one slot may come twice, which is what `MainLoop` shows of overruns
(`AtMostTwice`, `InOrder`). S2, the call that executes a command and the calls that
wait for the flash are taken to outlast their ticks; the other calls move some bytes
between registers.

The session is what it is to the console: calls that take what the UART has, a page
in every fourth of them at the earliest (a packet is an SOH, read by one call, and the
131 bytes behind it, read by the next ones: `fill`), an end between two packets or
never. Nothing keeps a page from being written before the flush that switches the
multiplexer: whether one can be is what `PagesArrive` asks. The page writer's two waits
(`pc` "ready" and "erased") read a status that is the chip's only while both halves of
the switch lead to it (`Reaches`); with the flash off the bus any status may be read.
`MachPowerS2` is the one action of another component that gives the flash away, and
`SPI_GPIO_Mash` the one that makes the deferred half real.

### SpiCommand

One action for the entry of the function, one for its wait, one each for the
half of the loop that sends and the half that receives, one for its end; two for
the core. The status word is read in `Poll` and used in `Send` and `Receive`,
with the core going on in between. `credits`, with its -1024, is the code's
variable. Bytes are told apart by their place in the frame, the time the slave
is selected; an answer is the place it was exchanged at, so that a shifted,
doubled or left-over byte shows.

### I2cDriver, I2cConfig

One action for each function the code calls in a transfer: `Enable`, `WriteCmd`
and its time-out, `Check` (NACK, then ARBLOST), `Fetch` (`rx_read`), `Finish`
(the wait for idle and the disabling), the three ways on from there (`Retry`,
`Proceed`, `Return`), and for the interrupt forms `Arm`, `Isr`, `IsrEnd`,
`TransactionStatus` and `Abort`. `AfterCommand` is the choice among the four
transfer functions; `StartPc` and `Segments` are the wrappers. A time-out is
thousands of polls long: it expires only where the core will do nothing more by
itself (`Quiet`: the bus is jammed, idle, or held for a command that does not
come).

The core is modelled from its HDL (`altera_avalon_i2c_mstfsm.v` and its FIFOs,
under `src/sopc_top/`): while an error is set both FIFOs are held empty, the
enable bit matters only to a machine at rest, and commands left in the FIFO by a
call that gave up start a transaction of their own, or, behind a byte without a
stop, go into the one on the bus. Each command carries the number of its call,
and so does each byte received: `bus`, `done`, `stale`, `late` and `cut` are
histories made from them.

`I2cConfig` adds the arithmetic of `alt_avalon_i2c_master_config_speed_set` in
its 32 and 16 bits, and the read-modify-writes of the four fields of CTRL, two of
which are `I2cDriver`'s `en` and `thd`. They are single steps, taken between two
transfers: a program that configures the core while an interrupt transfer is on its
way is not looked at (this firmware only polls).

### I2cSlave

Every `always` block of `I2C_to_GPIO.v` is one operator: `Start` and `Stop` are
the two on SDA, `Take` the one on the rising edge of the clock, `Track`, `Count`
and `Send` those on the falling edge, which all read the registers as they were
before it. The masters change SDA while the clock is low (`Data`) and start and
stop while it is high, in any clock of a transaction but its first, where the
slave's detectors are held in reset and would not see it. The history variables
follow the lines, never the slave: `seen` counts clocks, `mine` compares the
address, `byte` collects what is written. `Unlock` and `Release` are the PLL's
lock, which is the module's `rst_n`.

## The runs

| Run | Module, cfg | Bounds | Shows |
|---|---|---|---|
| `spi_gpio` | `SpiGpio` | one pin on port A, two on port B, one restart | `TypeOK`, `ShadowMirrored`, `NoUnaskedLow`; every pin follows its shadow (`PinsFollowShadow`); refinement of `GpioLink` with its fairness (`ImplementsLink`), which a dropped word would break |
| `loop` | `MainLoop`, `Loop` | the code's 10 slots, `MS_WRAP` 20; slots 0 and 3 slow, up to 12 ticks | `CaughtUp`, `AtMostTwice`, `BackInStep`, `InOrder`, also where `MS_counter` wraps |
| `loop_comment` | `MainLoop`, `LoopComment` | the same, slot 3 slow | the comments "Tick every 10 ms" (`CommentedTicks`) do not hold: see below |
| `power` | `PowerSeq`, `Power` | `FPGA_LED` on port A; `ATX_PSON` and the multiplexer's enable on port B; delays 3 and 4 ticks, `HoldUp` 2, one restart | `TypeOK`, `RailsNeedSupply`, `ResetsAfterClocks`, `CpuLast`, `MuxAgrees`; the sequence ends unless the loop stands (`SequenceEnds`), a failed supply is switched off (`FailSwitchesOff`), the handlers keep to `GpioLink` (`KeepsLink`) |
| `xmodem` | `Xmodem` | three packets; FIFO of 7 tokens; two tries; one token lost, one packet sent again, any number of sessions | `TypeOK`, `CleanInOrder`, `FlashHoldsAccepted`, `AcceptedAccounted`, `ChipObeys`; a file over a clean line arrives (`CleanCompletes`) |
| `console` | `MCConsole` | two keys and the return key, seven of them typed; buffer of 4, FIFO of 3; pages and overruns without bound | `ExecutesTyped`, `PagesArrive`, `PollEnds` |
| `spi_command` | `MCSpiCommand` | six commands, one for each kind the console uses, a merged and a toggled one with them; three calls | `AnswersInPlace`, `CommandReturns` |
| `i2c` | `MCI2c`, `I2c` | two calls out of six (write, read, write and read of one or two bytes; polled and by interrupt), FIFOs of 7, two attempts, two jams, a second master; 22 speeds on both sides of every limit | `SuccessIsWhole`, `NeverMixed`, `FreshBytes`, `DisabledBetween`, `InterruptsOwned`, `ConfigurationHolds`; `CallReturns`, `WriteReported` |
| `i2c_done` | `MCI2c`, `I2cDone` | one polled write, no jam | SUCCESS does not mean transmitted (`SuccessMeansDone`): see below |
| `i2c_speed` | `MCI2c`, `I2cSpeed` | the same, the 22 speeds at 100 MHz | a slower speed asked for is not always a slower clock (`BestMatches`): see below |
| `i2c_slave` | `MCI2cSlave`, `I2cSlave` | three bits to a byte, two values of the inputs, one loss of the lock | `AnswersAsAddressed`, `OutputAsWritten`, `ChangeSignalled`; the bus is given back (`BusFreed`) |
| `i2c_restart` | `MCI2cSlave`, `I2cRestart` | the same, masters that end nothing in the middle of a byte | a repeated start does not reset everything (`RestartResets`): see below |

Why the bounds are enough. A restart at every point of one life of the firmware,
followed by a full life, is one restart; what is left over from more of them is in
`RailsAreFed` and `MuxFollows`, which hold for any number. The transmitter holds two words and the longest burst is four: both are exact. The
two ports are different words, so a pin on each and one more on one of them
gives every order in which two updates can be split by a flush. In `loop` the
handlers may last longer than a whole round of ten slots, and two rounds are
enough to see a wrap (the proofs cover the 1000 of the code). The delays of the
power sequence are only compared with zero and with each other; the runs keep
their order (`HoldUp` < 100 ms < 1 s). Three packets are a full page and a half,
and a fourth, sent again, completes the second one; the FIFO holds less than two
packets, so that it overflows when a repeated packet meets a busy chip. The run
stays inside one sector; the step from one sector to the next is covered by
`NeverRefused` and `FlashIsAccepted`, which hold for sectors of every size.

Seven keys are a line longer than the buffer and a command behind it, or three
commands one after another, a session between them. A credit is one byte, so
commands of three bytes show everything the loop can do, and the third call
starts in whatever frame two others have left. An I2C call that leaves
something behind and one that meets it are two calls, each with a jam of its own
(the last exemption of `SuccessIsWhole` needs both; with three calls the safety
properties were checked too, in 3.5 minutes, and the proofs are for any number);
seven commands is room for two transfers of three and the beginning of the next,
which is what a full FIFO needs in order to cut one in half. With three bits to a byte
an address has two, one transaction in four is the slave's, and a second byte
follows a first; every comparison in the code is with 0, with the top bit or with
the acknowledge value.

Deadlock is checked in every run but `i2c`, `i2c_done` and `spi_command`, whose
number of calls is bounded: when all have been made the program has nothing left
to do.

### Fairness

- The timer interrupts for ever (`WF` of `handle_timer_interrupt`, `Tick`), bytes
  and words that are on a wire arrive (`Deliver`, `LoadShift`, `Complete`,
  `Arrive`, `Core` of `SpiCommand`): hardware.
- The loop calls its handlers for ever (`Loop`, `Xmodem_SPI`) and a handler that has
  begun goes on (`PollStatus`, `WriteTx`, `Flash_PageWrite`, `Processor` of
  `SpiCommand`, `Driver` of `I2cDriver`): the processor does not stop, and `loop`
  shows that every slot comes up again once handlers end in time. `SpiGpio` assumes of
  its caller that it goes on calling `SPI_GPIO_Mash`: `PinsFollowShadow` says nothing of
  a loop that stands in a wait for the flash. `MainLoop` leaves such a loop out.
- `MachPower`, `SPI_GPIO_Mash` and `Tick` have strong fairness in `PowerSeq`. The
  first two get their turns again and again as long as the loop comes round, also
  where pages of a session come in between and where LEDs that blink fill the link
  again and again: the processor spins for microseconds until there is room, and after
  a page the session's next calls, three at least before the next page, are back in
  time, so that the rotation goes on. When the loop stands in a wait that does not end
  they are disabled and nothing is promised of them. A wait for the flash is promised
  to end only while the FPGA has the flash (`Driving /\ PageWritten`), which is what
  `PagesArrive` and `PollEnds` of `Console` show: after S2 has taken the flash it may
  stand for ever, and `SequenceEnds` and the fairness half of `KeepsLink` name that
  case (`LoopStands`).
- `StageS2Clocks`: the loops of the I2C driver are bounded by time-outs;
  `CallReturns` is that fact, and `PowerSeq` rests on it.
- An interrupt that is raised is taken (`Callback`), and the I2C core goes on
  where the bus lets it (`Core`). Nobody promises that a jam ends, or a call.
- `FlashDone` and `HostAnswers`: the chip finishes what it began and a host that
  is running answers. In `Console` the poll is fair only while the flash is on
  the bus: a status read without it may say "busy" for ever.
- `Clock` of `I2cSlave`: a master goes on clocking a transaction that is on;
  `Release`: the PLL locks.
- Losses, repetitions, cancelling, restarts, the button, the supply's changes,
  jams, refusals, the second master and what the user types have no fairness.

## What does not hold

Four statements of the repository about itself are refuted by a run.

- `stest/hello_world_small.c` 227 and 246 say of the handlers of slots 1 and 9
  "Tick every 10 ms". The flag cannot count: ticks that come while the console
  waits for the flash (`stest/UART_Console.c` 355-357, 404-406), or while S2
  writes the clock generator, become one, the switch takes its slot from the
  current `MS_counter`, and the slots in between are skipped (`loop_comment`).
  `BackInStep` is what does hold: when the overruns end, the ten milliseconds are
  kept again.
- `altera_avalon_i2c.h` 651-652 says that a write that loses the bus "will be
  retried". After the wait for the core to be idle the code looks at NACK only
  (`altera_avalon_i2c.c` 683): a bus lost after the last command was queued, and
  commands are queued much faster than they are sent, gives SUCCESS
  (`i2c_done`). `SuccessIsWhole` is what does hold, with its three exceptions
  named.
- `altera_avalon_i2c.h` 288 has 1 Hz as the slowest speed of the core, and 378-380
  has `speed_set` compute what "best matches the speed requested". The counts are
  computed in 32 bits and stored in 16 without a test (`altera_avalon_i2c.c` 315-317):
  with a clock of 100 MHz every speed below 764 Hz gets a clock that is faster than
  asked, 762 Hz one of 625 kHz, above the 400 kHz of the fast mode (`i2c_speed`).
  `SpeedMatches` is what does hold, for the speeds whose counts fit. This firmware
  leaves the core at the 100 kHz of its initialization.
- `src/I2C_to_GPIO.v` 23 says of `repeat_start` "to reset everything if repeat
  start is detected". The sending block still runs with the old registers at the
  falling edge behind the start: after an address with the read bit and no byte
  read, SDA is pulled low in the first address bit of the next transaction
  (`i2c_restart`).

Seen on the way, stated in no run of their own:

- The I2C interrupt handler clears both error flags (`altera_avalon_i2c.c` 108),
  so the status function reports SUCCESS for a write by interrupts that was
  refused; the header (1154) has it return the error. This is the second
  exception of `SuccessIsWhole`.
- A command that finds the FIFO full for too long is dropped and the call returns
  TIMEOUT, with the commands before it still queued: only such a call leaves a
  transaction without an end (`cut`, the exception of `NeverMixed`). The
  threshold that a write by interrupts sets to "empty" (line 775) stays set, and
  makes "full" out of one command.
- The I2C slave refuses the first transaction after the FPGA comes up; it
  acknowledges every byte of a write and keeps the first; the second byte of a
  read is all ones; an address with the write bit and nothing behind it, which is
  how a bus is probed, changes the top bit of the outputs: the clock in which the
  master stops is taken for the first bit of a byte; a read of another device takes the inputs as seen (line 177)
  and so withdraws a change that nobody has read; a loss of the lock while it
  holds SDA can leave it held until the next transaction for it.
- `alt_avalon_spi_command` with nothing to write and nothing to read never
  returns. No caller has such a command.

## The proofs

All theorems hold for every value of the constants that satisfies the named
assumptions of the modules; those of `PowerSeqProofs` beyond types also assume
that the first value of the shadow register is the one line 188 of
`hello_world_small.c` makes: the fault LED off and, for `RailsAreFed`, PSON high,
for `MuxFollows`, the multiplexer off.

| Theorem | States | Argument |
|---|---|---|
| `SpiGpioProofs!TypeCorrect` | `TypeOK` | inductive |
| `SpiGpioProofs!Mirrored` | `ShadowMirrored` | `MirrorInv`: the property with, in addition, what the registers hold while a handler is running, one lemma for each step of the transmitter |
| `SpiGpioProofs!NeverOverrun` | `NoOverrun` | a status that was read as ready stays so: only the processor fills the registers |
| `SpiGpioProofs!NeverUnaskedLow` | `NoUnaskedLow` | `PortSafe` for each port: the pins are inputs, or the latch is safe, or a safe word for it is ahead of the word that makes them outputs |
| `SpiGpioProofs!Implements` | the safety part of `ImplementsLink` | each step is mapped to a step of `GpioLink` or to none; the words in the two registers and those still to be written are one sequence, and lemmas about concatenation say what a step does to it |
| `MainLoopProofs!TypeCorrect`, `NeverBehind`, `NoThirdTime` | `TypeOK`, `CaughtUp`, `AtMostTwice` | `AnswerInv`: what the flag and the counters may be at each `pc` |
| `MainLoopProofs!SlotsInOrder` | `InOrder` | `OrderInv`: while the last tick found the loop waiting, the counter is one ahead of the slot last run, whatever overruns came before |
| `PowerSeqProofs!TypeCorrect` | `TypeOK` | inductive |
| `PowerSeqProofs!CpuIsLast`, `ResetsWait`, `FailureIsFinal` | `CpuLast`, `ResetsAfterClocks`, `FailIsFinal` | `OrderInv`: what each stage has switched on, and that the ticks since the clocks and those left on the timer make a second |
| `PowerSeqProofs!RailsAreFed` | `RailsNeedSupply` | `SupplyInv`, below |
| `PowerSeqProofs!MuxFollows` | `MuxAgrees` | `SettleInv`: for each pin the last word on the link that writes it, or the latch when none does, carries the shadow's value, or the shadow is dirty (lemmas on what a sequence of words leaves on each pin); `HalvesAgree`: the FPGA's half and the shadow change in one handler |
| `PowerSeqProofs!UsesLink` | the safety part of `KeepsLink` | every handler is an `Update`, a `Flush` or a stutter of the link |
| `XmodemProofs!TypeCorrect` | `TypeOK` | `BudgetInv`: a packet takes four tokens from the line, whichever they are, so the address stays on the chip |
| `XmodemProofs!AllAccounted` | `AcceptedAccounted` | `SessionInv`: state, packet, page buffer and `pc` together |
| `XmodemProofs!NeverRefused` | `ChipObeys` | `ChipInv`: the chip at each command of the page writer, and that the rest of the sector is erased (`Fresh`) |
| `XmodemProofs!FlashIsAccepted` | `FlashHoldsAccepted` | `DataInv` on top of these: an erasure is of a sector the session has no page in |
| `XmodemProofs!CleanFile` | `CleanInOrder` | `CleanInv`, below |
| `ConsoleProofs!Types` | `TypeOK` | the types of the two invariants below |
| `ConsoleProofs!Editor` | `ExecutesTyped` | `EditorInv`, below |
| `ConsoleProofs!Arrive` | `PagesArrive` | `FlashInv`, with `Unswitched` and `Paced`, below |
| `SpiCommandProofs!Types`, `Answers` | `TypeOK`, `AnswersInPlace` | `IInv`: one credit is one byte at most on its way, in the holding register, the shift register or as an answer (`Credited`); from that, where the frame is and which answers are kept (`Placed`, `Kept`) |
| `I2cDriverProofs!Disabled` | `DisabledBetween` | `EnableInv`: who has the core enabled, at each `pc` and state of the callback |
| `I2cDriverProofs!Owned` | `InterruptsOwned` | the same, with the transaction the callback serves |
| `I2cDriverProofs!Unmixed` | `NeverMixed` | `StreamInv`, below |
| `I2cDriverProofs!Whole`, `Fresh` | `SuccessIsWhole`, `FreshBytes` | `Counting`, below |
| `I2cDriverProofs!Configured` | `ConfigurationHolds` | lemmas about `\div` and `%`: the counts of a speed that fit are two naturals whose sum is the quotient of clock and speed to two ticks; `IORMW` of one field leaves the other three. Slower speeds are not in the claim |
| `I2cSlaveProofs!TypeCorrect` | `TypeOK` | the invariants below: `count` runs down from where the last byte left it |
| `I2cSlaveProofs!AnswersCorrect`, `OutputCorrect`, `ChangeCorrect` | `AnswersAsAddressed`, `OutputAsWritten`, `ChangeSignalled` | `TrackInv`, below, and on top of it `SendInv`, `OutputInv`, `ReadInv` |

`RailsNeedSupply` is about a pin of the chip and a bit of `pio_out`, with the
deferred flush between them, and is far from inductive. `SupplyInv` adds:
before S1 every word on the link that writes PSON's port leaves it high, and
after a restart the first such word is ahead of anything the processor can do
next, because INIT is left only with two words or fewer on the way; in S0 a
PGOOD that is still up has been without PSON for as long as the timer has been
running, so that it is gone, by `HoldUp < TIME_100_MS`, when the timer is at
zero; from S1 on the first word that makes PSON low is followed by none that
makes it high, so that a PGOOD that is seen was raised under PSON and PSON
stays. `SupplyInv`, `OrderInv` and the three layers of `XmodemProofs` were also
checked with TLC.

`ExecutesTyped` is about a string at the beginning of a buffer that holds
remains of older lines. What is inductive is that, as long as the line has not
outgrown the buffer, the buffer begins with the line (a return stored as the end
of a string) and the index is the line's length; the string then ends at the
line's first return. The case in between, a line of exactly the buffer's length,
has the index back at 0 with all of the buffer written.

`PagesArrive` needs the flush before the first page, and nothing in the code tests for
it. What the proof adds is the pace of both. While a session waits for its flush
(`Unswitched`: S2 has not taken the flash in it, and the multiplexer does not select it
yet), no wait for the flash is on and `Paced` bounds the reads made so far by what the
rotation allows: the call with the command may leave the turn to anyone, the console
itself included, and then come once more because it started late; from there the turn
passes to the flush before it comes back. So at most two calls of the session come
before the flush, and a page takes four. S2 is the one handler that could shift the rotation
again, and with it the session is `taken`.

`StreamInv` takes the command on the bus and those in the FIFO as one stream and
says that the number of the call changes only behind a stop, unless a call was
cut: a call leaves its commands either complete, to the stop, or not at all,
because an error empties the FIFO and time-outs before the last command are what
`cut` records. The write that continues a transfer, after a first segment without
a stop, is the one place where a stream may be left open, and there the call is
still the same. TLC checks `StreamInv` on the instance of `i2c` as well.

`Counting` follows one call's row of commands (`Nth`: the address and the bytes of
one segment or two) over the command FIFO, the bus, the byte FIFO and the buffer.
What has been written of the row waits behind the commands of others, is on the bus
with the next command `Place` in the row, is through, or was taken back by an error
(`Waiting`, `Running`, `Through`, `Lost`); in each case `Arrived` bounds the bytes of
the call that are in the FIFO or the buffer by the reads the core has completed. A
polled transfer, or one by interrupts, whose buffer is full with its own bytes can
then only be `Through`, which is what its end (`EndInv`) needs. Around that stand
`CoreInv` (no call's number is ahead of `tag`, an idle core has an empty FIFO),
`StatusInv` (what a status says at each `pc`: a retry that follows an error finds
the core held in reset), `IrqInv` (bytes read and bytes still expected make the
call's) and `StreamInv`. The row and its end are only followed while no call was
`cut`; one that was has timed out. The attempt to prove `SuccessIsWhole` showed that an earlier form
of it was false: with two jams a read by interrupts whose buffer was filled by late
bytes of an earlier call returns SUCCESS without having ended, because
`optional_irq_callback` drops the time-out of its wait
(`drivers/src/altera_avalon_i2c.c` 78-84). It is now named as an exemption, and the
run has the second jam that it takes. The parts of `Counting` were also checked with
TLC, with three calls.

`I2cSlave` has about twenty registers, set at four kinds of edges. `TrackInv` ties
them to one number, the clock of the transaction that the slave is in or is about
to see rise (`Bit`): `count` is a function of it, and so is each flag, given
whether the address is the slave's and which direction it has. A start in the
middle of a transaction leaves the registers where they were until the next edge;
what they may be then, and between transactions, is `RestInv`. `SendInv` says where
the shift register is and when SDA is low, `OutputInv` how much of the byte being
written is in the outputs, `ReadInv` what the comparison register holds.

`CleanInOrder` is about a state machine that takes the rest of a packet by count,
whatever it is, so it says nothing unless what the host sent and the loader has not
taken is known as a whole. `CleanInv` says what that is: the FIFO and the wire
together are one packet, or the rest of one behind what `SPI_rxbuf` has of it, with
a CAN behind it if the host has cancelled, or control codes that end a session; and
an ACK is on its way to the host only when all of it has been taken, once. It is an
invariant only if no token finds the FIFO full, for the model does not count such a
token as lost on the line: the theorem assumes that the FIFO holds a packet and a
control code (`RX_FIFO >= 5`). A packet is 133 bytes, the FIFO 256
(`stest_bsp/system.h` 189). TLC checks `CleanInv` on the instance of `xmodem`
without losses and repetitions as well.

`XmodemProofs` rests on one assumption about the host: its file and the packets it
repeats do not fill more than the chip (`SizesAssumption`). The code has no test
of the address; a longer file is the hazard at `stest/UART_Console.c` 365.

Only model-checked: every property with fairness (`PinsFollowShadow`,
`BackInStep`, `SequenceEnds`, `FailSwitchesOff`, `CleanCompletes`, `PollEnds`,
`CommandReturns`, `CallReturns`, `WriteReported`, `BusFreed` and the fairness
halves of `ImplementsLink` and `KeepsLink`), which is out of the prover's reach.

## What is not modelled

- The 16550 beyond its receive FIFO: the transmitter's FIFO, which the code fills
  without waiting (`stest/UART_Console.c` 469), loses text of help and dump,
  never a state. The receive half, the interrupt and the control register of
  `spi_0`, which the firmware does not use.
- The bytes and addresses of a flash command: `SPI_address` is a page number, its
  truncation to 24 bits is listed as a hazard.
- 10-bit addresses and reads without a stop of the I2C driver, which no wrapper
  asks for; more bytes in a read by interrupts than the receive FIFO holds,
  which is listed as a hazard.
- `sda_ack` of the I2C slave, which nothing reads; a start or a stop in the first
  clock of a transaction, which its detectors, held in reset, do not see.
- The composition of the loader's states with the console's switch: `Console` has
  the session as its pages and its end, `Xmodem` has the flash on the bus.
- `src/C10_BAIKAL.v` beyond the polarity of CPU_RESET and the flash's bus
  drivers: combinational wiring of fan, DIP switches and the PMIC's tri-states,
  without state.
- What the board does with a supply that fails after S1: no code looks at it.
- Drivers the board support package brings and the firmware does not use. Those of
  the 16550 and the Avalon UART are not compiled (`stest_bsp/Makefile` 216-257): the
  firmware reads and writes the 16550's registers itself. The JTAG UART's is
  compiled with `ALT_USE_SMALL_DRIVERS` (`public.mk` 230), which leaves out its
  interrupt and its buffers; stdin, stdout and stderr are `/dev/null`
  (`system.h` 167-178), so that nothing reaches it. There is no system clock, so the
  timer driver and the alarms of the HAL stay idle: the firmware runs `timer_0`
  itself. Start-up and interrupt dispatch are used through the calls the models
  name.
- Generated HDL and interconnect, third-party cores, and the Quartus project data.
  They are most of the repository's lines.

## The plan

1. *Done*: the modules above, their runs, and their theorems.
2. `Board`: `Xmodem`'s page writer inside `Console`'s session, under the order of
   `MainLoop`: which of the bytes of a session that S2 interrupts reach the flash.
3. Theorems about `Board`: that the two levels agree on whose flash it is.
