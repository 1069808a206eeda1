------------------------------ MODULE I2cSlave ------------------------------
(***************************************************************************)
(* I2C_to_GPIO.v, the port expander the processor reads the cage's pins    *)
(* from, edge by edge of its two lines: its registers take their values    *)
(* from those before the edge.  Registers are 0 and SDA released when the  *)
(* FPGA comes up (sda_out is an enable, fit.rpt).  sda_ack, which nothing  *)
(* reads, is left out; a byte has BITS bits.                               *)
(*                                                                         *)
(* The masters begin, begin again and stop anywhere from the second clock  *)
(* of a transaction on.  What they may expect is kept in history variables *)
(* that follow the lines only.                                             *)
(***************************************************************************)
EXTENDS Integers, Sequences

CONSTANTS
  BITS,           \* 8 in the code
  slave_address,  \* its bits, the last to be sent at 0
  Inputs,         \* values of the input pins that occur
  WholeBytes,     \* masters end nothing but behind an acknowledge bit
  MaxResets       \* bound: losses of the PLL's lock

BIT == {0, 1}
Byte == [0 .. BITS - 1 -> BIT]
ACK == 15         \* count's value in the acknowledge bit

ASSUME BitsAssumption == BITS \in 2 .. 12 /\ WholeBytes \in BOOLEAN /\ MaxResets \in Nat
ASSUME ByteAssumption ==
  slave_address \in [0 .. BITS - 2 -> BIT] /\ Inputs \subseteq Byte /\ Inputs # {}

VARIABLES
  sclk, bus,      \* the clock; what the other devices make of SDA
  rst_n, resets, GPIO_input,
  start, stop, start_stop, repeat_start, reset, some_other_device,
  count, data_or_address, add_is_matching, read_oper, write_flag, done,
  low,            \* sda_out is 0, not Z
  GPIO_output, GPIO_input_reg, GPIO_interrupt_reg,
  \* history: a transaction is on, its clocks, whether its address is the
  \* slave's so far, its direction, the first byte behind the address
  on, seen, mine, reading, byte,
  sound,          \* history: rst_n was high from the start on
  begun,          \* history: a start since the FPGA came up
  written,        \* history: the last byte written in full, or NoByte
  shown,          \* history: the inputs when the last read of the slave was
                  \* acknowledged, or NoByte
  elsewhere       \* history: since then another device was read, a read broken off
                  \* in the bit of its direction, or rst_n low

tracking == <<start, stop, start_stop, repeat_start, reset>>
taking == <<some_other_device, data_or_address, add_is_matching, read_oper, write_flag, done,
            GPIO_output>>
sending == <<low, GPIO_input_reg, GPIO_interrupt_reg>>
pins == <<rst_n, resets, GPIO_input>>
transaction == <<on, seen, mine, reading, byte>>
results == <<written, shown, elsewhere>>
vars == <<sclk, bus, pins, tracking, count, taking, sending, transaction, sound, begun, results>>

NoByte == <<>>
Zero == [i \in 0 .. BITS - 1 |-> 0]
sda == IF bus = 0 \/ low THEN 0 ELSE 1
sda_is_ack == count = ACK

Init ==
  /\ sclk = TRUE /\ bus = 1
  /\ rst_n = FALSE /\ resets = 0 /\ GPIO_input \in Inputs
  /\ start = FALSE /\ stop = FALSE /\ start_stop = FALSE /\ repeat_start = FALSE
  /\ reset = FALSE /\ some_other_device = FALSE
  /\ count = 0 /\ data_or_address = FALSE /\ add_is_matching = FALSE
  /\ read_oper = FALSE /\ write_flag = FALSE /\ done = FALSE
  /\ low = FALSE /\ GPIO_output = Zero /\ GPIO_input_reg = Zero /\ GPIO_interrupt_reg = Zero
  /\ on = FALSE /\ seen = 0 /\ mine = FALSE /\ reading = FALSE /\ byte = <<>>
  /\ sound = FALSE /\ begun = FALSE
  /\ written = NoByte /\ shown = NoByte /\ elsewhere = FALSE
----------------------------------------------------------------------------
(* The rest of the bus *)

\* With the clock low SDA may change; the slave does not look.
Data ==
  /\ ~sclk /\ bus' \in BIT \ {bus}
  /\ UNCHANGED <<sclk, pins, tracking, count, taking, sending, transaction, sound, begun, results>>

MayEnd == seen >= 2 /\ (WholeBytes => seen % (BITS + 1) = 1)
BrokenOff == elsewhere' = (elsewhere \/ (on /\ reading /\ seen = BITS))

\* With the clock high it makes a start or a stop.  The slave's two registers
\* are held at 0 while reset is high: that is the first clock.
Start ==
  /\ sclk /\ sda = 1 /\ (on => MayEnd)
  /\ bus' = 0 /\ start' = ~reset
  /\ on' = TRUE /\ seen' = 0 /\ mine' = begun /\ byte' = <<>>
  /\ begun' = TRUE /\ sound' = rst_n
  /\ BrokenOff
  /\ UNCHANGED <<sclk, pins, stop, start_stop, repeat_start, reset, count, taking, sending,
                 reading, written, shown>>
Stop ==
  /\ sclk /\ bus = 0 /\ ~low /\ on /\ MayEnd
  /\ bus' = 1 /\ stop' = ~reset
  /\ on' = FALSE
  /\ BrokenOff
  /\ UNCHANGED <<sclk, pins, start, start_stop, repeat_start, reset, count, taking, sending,
                 seen, mine, reading, byte, sound, begun, written, shown>>
----------------------------------------------------------------------------
(* The rising edge of the clock: the slave takes a bit *)

BugNextMatch == add_is_matching /\ (count > 0 => sda = slave_address[count - 1])
NextMatch ==
  (add_is_matching \/ repeat_start) /\ (count > 0 => sda = slave_address[count - 1])

TakeAddressBit ==
  /\ add_is_matching' = NextMatch
  /\ data_or_address' = (count = 0 \/ (data_or_address /\ ~repeat_start))
  /\ read_oper' = IF count = 0 THEN sda = 1 ELSE read_oper
  /\ some_other_device' = (some_other_device /\ ~repeat_start)
  /\ write_flag' = (write_flag /\ ~repeat_start)
  /\ done' = (done /\ ~repeat_start)
  /\ UNCHANGED GPIO_output

BugTakeDataBit ==
  /\ GPIO_output' = IF read_oper THEN GPIO_output ELSE [GPIO_output EXCEPT ![count] = sda]
  /\ done' = (done \/ count = 0)
  /\ UNCHANGED <<add_is_matching, data_or_address, read_oper, some_other_device, write_flag>>

\* Only the first byte of a write is kept, bit by bit as it comes.
TakeDataBit ==
  /\ GPIO_output' = IF read_oper \/ done THEN GPIO_output
                    ELSE [GPIO_output EXCEPT ![count] = sda]
  /\ done' = (done \/ count = 0)
  /\ UNCHANGED <<add_is_matching, data_or_address, read_oper, some_other_device, write_flag>>

TakeAck ==
  /\ write_flag' = (write_flag \/ (add_is_matching /\ read_oper))
  /\ data_or_address' = (data_or_address /\ add_is_matching)
  /\ some_other_device' = (some_other_device \/ ~add_is_matching)
  /\ UNCHANGED <<add_is_matching, read_oper, done, GPIO_output>>

TakeNothing ==
  /\ add_is_matching' = TRUE /\ data_or_address' = FALSE /\ some_other_device' = FALSE
  /\ write_flag' = FALSE /\ done' = FALSE
  /\ UNCHANGED <<read_oper, GPIO_output>>

Take ==
  \/ start_stop /\ sda_is_ack /\ TakeAck
  \/ start_stop /\ ~sda_is_ack /\ (~data_or_address \/ repeat_start) /\ TakeAddressBit
  \/ start_stop /\ ~sda_is_ack /\ data_or_address /\ ~repeat_start /\ TakeDataBit
  \/ ~start_stop /\ TakeNothing

\* What the lines say: clocks are counted modulo a byte behind the second one.
Follow ==
  /\ seen' = IF seen = 3 * (BITS + 1) THEN 2 * (BITS + 1) + 1 ELSE seen + 1
  /\ mine' = (mine /\ (seen' < BITS => sda = slave_address[BITS - 1 - seen']))
  /\ reading' = IF seen' = BITS THEN sda = 1 ELSE reading
  /\ byte' = IF seen' \in BITS + 2 .. 2 * BITS + 1 /\ mine /\ ~reading THEN Append(byte, sda)
             ELSE byte
  /\ written' = IF Len(byte') = BITS THEN [i \in 0 .. BITS - 1 |-> byte'[BITS - i]]
                ELSE IF byte' # <<>> THEN NoByte ELSE written

Rise ==
  /\ ~sclk /\ sclk' = TRUE
  /\ Take /\ Follow
  /\ UNCHANGED <<bus, pins, tracking, count, sending, on, sound, begun, shown, elsewhere>>
----------------------------------------------------------------------------
(* The falling edge: the slave keeps track, counts and sends *)

BugTrack ==
  \/ /\ start /\ start_stop' = TRUE /\ repeat_start' = FALSE /\ reset' = TRUE
  \/ /\ stop /\ ~start /\ start_stop' = FALSE /\ repeat_start' = FALSE /\ reset' = TRUE
  \/ /\ ~start /\ ~stop /\ some_other_device
     /\ start_stop' = FALSE /\ repeat_start' = TRUE /\ UNCHANGED reset
  \/ /\ ~start /\ ~stop /\ ~some_other_device
     /\ repeat_start' = FALSE /\ reset' = FALSE /\ UNCHANGED start_stop

\* Lines 59 to 77; reset clears start and stop.
Track ==
  \/ /\ start /\ start_stop' = TRUE /\ repeat_start' = start_stop /\ reset' = TRUE
  \/ /\ stop /\ ~start /\ start_stop' = FALSE /\ repeat_start' = FALSE /\ reset' = TRUE
  \/ /\ ~start /\ ~stop /\ some_other_device
     /\ start_stop' = FALSE /\ repeat_start' = TRUE /\ UNCHANGED reset
  \/ /\ ~start /\ ~stop /\ ~some_other_device
     /\ repeat_start' = FALSE /\ reset' = FALSE /\ UNCHANGED start_stop

Count == IF start \/ (start_stop /\ sda_is_ack) THEN BITS - 1
         ELSE IF ~start_stop THEN count
         ELSE IF count = 0 THEN ACK ELSE count - 1

Shift(v) == [i \in 0 .. BITS - 1 |-> IF i = 0 THEN 0 ELSE v[i - 1]]

BugSend ==
  \/ /\ rst_n /\ start_stop /\ count = 0
     /\ low' = (add_is_matching /\ ~write_flag)
     /\ IF read_oper THEN GPIO_input_reg' = GPIO_input /\ GPIO_interrupt_reg' = GPIO_input
        ELSE UNCHANGED <<GPIO_input_reg, GPIO_interrupt_reg>>
  \/ /\ rst_n /\ start_stop /\ count # 0 /\ read_oper /\ data_or_address /\ ~done
     /\ low' = (GPIO_input_reg[BITS - 1] = 0)
     /\ GPIO_input_reg' = Shift(GPIO_input_reg) /\ UNCHANGED GPIO_interrupt_reg
  \/ /\ rst_n /\ start_stop /\ count # 0 /\ ~(read_oper /\ data_or_address /\ ~done)
     /\ low' = FALSE /\ UNCHANGED <<GPIO_input_reg, GPIO_interrupt_reg>>
  \/ /\ rst_n /\ ~start_stop /\ UNCHANGED sending
  \/ /\ ~rst_n /\ GPIO_interrupt_reg' = GPIO_input /\ UNCHANGED <<low, GPIO_input_reg>>
BugSendKeepsLow ==
  \/ /\ rst_n /\ start_stop /\ count = 0
     /\ low' = (add_is_matching /\ ~write_flag)
     /\ IF read_oper /\ ~done
        THEN GPIO_input_reg' = GPIO_input /\ GPIO_interrupt_reg' = GPIO_input
        ELSE UNCHANGED <<GPIO_input_reg, GPIO_interrupt_reg>>
  \/ /\ rst_n /\ start_stop /\ count # 0 /\ read_oper /\ data_or_address /\ ~done
     /\ low' = (GPIO_input_reg[BITS - 1] = 0)
     /\ GPIO_input_reg' = Shift(GPIO_input_reg) /\ UNCHANGED GPIO_interrupt_reg
  \/ /\ rst_n /\ start_stop /\ count # 0 /\ ~(read_oper /\ data_or_address /\ ~done)
     /\ UNCHANGED sending
  \/ /\ rst_n /\ ~start_stop /\ UNCHANGED sending
  \/ /\ ~rst_n /\ GPIO_interrupt_reg' = GPIO_input /\ UNCHANGED <<low, GPIO_input_reg>>

\* Lines 167 to 194.
Send ==
  \/ /\ rst_n /\ start_stop /\ count = 0
     /\ low' = (add_is_matching /\ ~write_flag)
     /\ IF read_oper /\ ~done
        THEN GPIO_input_reg' = GPIO_input /\ GPIO_interrupt_reg' = GPIO_input
        ELSE UNCHANGED <<GPIO_input_reg, GPIO_interrupt_reg>>
  \/ /\ rst_n /\ start_stop /\ count # 0 /\ read_oper /\ data_or_address /\ ~done
     /\ low' = (GPIO_input_reg[BITS - 1] = 0)
     /\ GPIO_input_reg' = Shift(GPIO_input_reg) /\ UNCHANGED GPIO_interrupt_reg
  \/ /\ rst_n /\ start_stop /\ count # 0 /\ ~(read_oper /\ data_or_address /\ ~done)
     /\ low' = FALSE /\ UNCHANGED <<GPIO_input_reg, GPIO_interrupt_reg>>
  \/ /\ rst_n /\ ~start_stop /\ UNCHANGED sending
  \/ /\ ~rst_n /\ GPIO_interrupt_reg' = GPIO_input /\ UNCHANGED <<low, GPIO_input_reg>>

Fall ==
  /\ sclk /\ on /\ sclk' = FALSE
  /\ Track /\ count' = Count /\ Send
  /\ start' = (start /\ ~reset') /\ stop' = (stop /\ ~reset')
  /\ IF sound /\ mine /\ reading /\ seen = BITS
     THEN shown' = GPIO_input /\ elsewhere' = FALSE
     ELSE elsewhere' = (elsewhere \/ ~rst_n \/ (reading /\ seen = BITS)) /\ UNCHANGED shown
  /\ UNCHANGED <<bus, pins, taking, transaction, sound, begun, written>>
----------------------------------------------------------------------------
Change ==
  /\ GPIO_input' \in Inputs \ {GPIO_input}
  /\ UNCHANGED <<sclk, bus, rst_n, resets, tracking, count, taking, sending, transaction, sound,
                 begun, results>>
Release ==
  /\ ~rst_n /\ rst_n' = TRUE
  /\ UNCHANGED <<sclk, bus, resets, GPIO_input, tracking, count, taking, sending, transaction,
                 sound, begun, results>>
Unlock ==
  /\ rst_n /\ resets < MaxResets /\ rst_n' = FALSE /\ resets' = resets + 1 /\ sound' = FALSE
  /\ UNCHANGED <<sclk, bus, GPIO_input, tracking, count, taking, sending, transaction, begun,
                 results>>

Clock == Rise \/ Fall
Next == Data \/ Start \/ Stop \/ Clock \/ Change \/ Release \/ Unlock

\* A master whose transaction is on goes on clocking; the PLL locks.
Spec == Init /\ [][Next]_vars /\ WF_vars(Clock) /\ WF_vars(Release)
----------------------------------------------------------------------------
\* From the second clock of a transaction on the slave holds SDA low where the
\* master expects it and nowhere else: in the acknowledge bit of its address
\* and of every byte of a write, and in the 0s of the byte that a read gives,
\* the inputs when the address was acknowledged; whoever aborted what before,
\* but for the first transaction after the FPGA came up, which is refused.
AnswersAsAddressed ==
  sclk /\ on /\ sound /\ seen >= 2 =>
    (low <=> /\ mine /\ seen > BITS
             /\ \/ seen = BITS + 1
                \/ ~reading /\ seen % (BITS + 1) = 0
                \/ reading /\ seen \in BITS + 2 .. 2 * BITS + 1
                           /\ shown[2 * BITS + 1 - seen] = 0)

\* The outputs hold the byte last written in full, whatever else goes by on the
\* bus, until a next write to the slave begins.
OutputAsWritten == written # NoByte => GPIO_output = written

\* int is low whenever the inputs differ from what the last read of the slave
\* gave, a change during that read too, unless another device was read since, or
\* a read broken off in the bit of its direction: both take the inputs as seen.
ChangeSignalled ==
  shown # NoByte /\ ~elsewhere => (GPIO_interrupt_reg = GPIO_input <=> shown = GPIO_input)

\* Wherever a transaction was broken off, a master that goes on clocking gets SDA
\* back.  (Not after a reset: sda_out keeps its value then, and for ever if the
\* address bits it falsifies are another device's.)
BusFreed == low ~> ~low \/ resets > 0

\* In the first clock of a transaction SDA is the master's: "to reset everything
\* if repeat start is detected" (line 23).
RestartResets == sclk /\ on /\ seen = 1 => ~low
=============================================================================
