----------------------------- MODULE I2cDriver -----------------------------
(***************************************************************************)
(* altera_avalon_i2c.c over the Avalon I2C core i2c_0: the retrying        *)
(* wrappers alt_avalon_i2c_master_tx, _rx and _tx_rx, polled and with the  *)
(* optional interrupt callback, and the core they drive.                   *)
(*                                                                         *)
(* A transfer is one segment or two (a write, then a read behind a         *)
(* restart).  A segment is an address and its bytes, written one command   *)
(* at a time into the command FIFO.  Bytes are not told apart but by the   *)
(* call they belong to.  Processor, core and bus run at their own pace; a  *)
(* time-out expires only where the core will do nothing more by itself: in *)
(* the code it is thousands of polls long.                                 *)
(*                                                                         *)
(* The slave may refuse any byte.  The bus may jam (a slave that stretches *)
(* the clock) and come back, and a jam may outlast any number of calls.    *)
(***************************************************************************)
EXTENDS Integers, Sequences, FiniteSets

CONSTANTS
  Calls,        \* the calls the program makes: [tx, rx: sizes, irq: BOOLEAN]
  MaxCalls,     \* bound: calls made
  FIFO_DEPTH,   \* commands, and bytes, the core's FIFOs hold
  Retries,      \* attempts of a wrapper (10000 in the code)
  MaxJams,      \* bound: times the bus jams
  ArbLoss       \* whether the core may lose the bus to another master

ASSUME CallsAssumption ==
  /\ \A c \in Calls : /\ c.tx \in Nat /\ c.rx \in Nat /\ c.irq \in BOOLEAN
                      /\ c.tx + c.rx > 0
ASSUME SizesAssumption ==
  /\ {MaxCalls, FIFO_DEPTH, Retries} \subseteq Nat \ {0}
  /\ MaxJams \in Nat /\ ArbLoss \in BOOLEAN

VARIABLES
  en, thd,           \* CTRL: enable, command FIFO threshold
  ien,               \* ISER: the interrupts enabled
  nack, arblost,     \* ISR: the two errors; while one is set both FIFOs are empty
  txfifo, rxfifo,
  fsm, cur, rw,      \* the core's state machine, its command, its direction
  jams, jam,         \* jams so far; the bus is jammed
  cut,               \* history: a call's commands stopped halfway, for want of room
  pc, isr,           \* the program; the interrupt callback
  call, tag,         \* the call in progress and its number
  seg, left, got,    \* segment, commands still to write, bytes read
  status, retry,
  irq_busy, irq_size,
  pending,           \* an interrupt transaction whose end was not reported
  bus,               \* history: the transaction on the bus
  done,              \* history: calls whose transfer was acknowledged whole
  stale, late        \* history: read a byte of another call; a call timed out

hw  == <<en, thd, ien, nack, arblost, txfifo, rxfifo, fsm, cur, rw>>
env == <<jams, jam, cut>>
sw  == <<pc, call, tag, seg, left, got, status, retry, pending>>
irq == <<isr, irq_busy, irq_size>>
ghost == <<bus, done, stale, late>>
vars == <<hw, env, sw, irq, ghost>>
----------------------------------------------------------------------------
(* Calls and segments *)

NoCall == [tx |-> 0, rx |-> 0, irq |-> FALSE]
W(n, stop)    == [rw |-> "W", size |-> n, restart |-> FALSE, stop |-> stop]
R(n, restart) == [rw |-> "R", size |-> n, restart |-> restart, stop |-> TRUE]

\* The segments of alt_avalon_i2c_master_tx, _rx and _tx_rx.
master_tx(c)    == <<W(c.tx, TRUE)>>
master_rx(c)    == <<R(c.rx, FALSE)>>
master_tx_rx(c) == <<W(c.tx, FALSE), R(c.rx, TRUE)>>
Segments(c) == IF c.rx = 0 THEN master_tx(c)
               ELSE IF c.tx = 0 THEN master_rx(c) ELSE master_tx_rx(c)
Seg == Segments(call)[seg]

\* A restart is written behind what is in the FIFO, a start enables the core.
StartPc(s) == IF s.restart THEN "write" ELSE "enable"

\* The next command: the address comes first, the last byte may end in a stop.
send_address == [sta |-> Seg.restart, stop |-> FALSE, rw |-> Seg.rw]
BugSendByte == [sta |-> FALSE, stop |-> left = 0 /\ Seg.stop, rw |-> Seg.rw]
send_byte    == [sta |-> FALSE, stop |-> left = 1 /\ Seg.stop, rw |-> Seg.rw]
Command == LET c == IF left = Seg.size + 1 THEN send_address ELSE send_byte
           IN  [sta |-> c.sta, stop |-> c.stop, rw |-> c.rw,
                tag |-> tag, whole |-> call.tx + call.rx]
----------------------------------------------------------------------------
(* The core, as the driver sees it *)

Flush == nack \/ arblost
Busy == fsm \notin {"IDLE", "PRE_IDLE"}
\* Nothing more will happen on the bus by itself.
Quiet == \/ jam \/ ~Busy
         \/ fsm = "HOLD" /\ txfifo = <<>>
         \/ fsm = "PRE_START" /\ (txfifo = <<>> \/ Flush)
TxReady == en /\ Len(txfifo) <= IF thd = "EMPTY" THEN 0 ELSE FIFO_DEPTH - 1
RxReady == rxfifo # <<>>
Irq == ("tx" \in ien /\ TxReady) \/ ("rx" \in ien /\ RxReady)

BugDisable == en' = en /\ fsm' = fsm
\* Clearing the enable bit brings an idle machine back to IDLE.
disable ==
  /\ en' = FALSE
  /\ fsm' = IF fsm = "PRE_IDLE" THEN "IDLE" ELSE fsm
int_clear == nack' = FALSE /\ arblost' = FALSE

\* Reading every byte there is; a byte of another call is remembered.
read_available(n) ==
  /\ rxfifo' = SubSeq(rxfifo, n + 1, Len(rxfifo))
  /\ got' = got + n
  /\ stale' = (stale \/ \E k \in 1..n : rxfifo[k] # tag)
----------------------------------------------------------------------------
(* The program *)

Program == isr = "off"

Begin(c) ==
  /\ call' = c /\ seg' = 1 /\ retry' = Retries
  /\ left' = Segments(c)[1].size + 1 /\ got' = 0
  /\ pc' = StartPc(Segments(c)[1])

\* The program calls a wrapper (WriteCFG does, for each clock register, and
\* TestI2C does not look at what came of it).
Call(c) ==
  /\ Program /\ pc = "idle" /\ ~pending /\ tag < MaxCalls
  /\ Begin(c)
  /\ tag' = tag + 1
  /\ status' = "SUCCESS" /\ stale' = FALSE
  /\ UNCHANGED <<hw, env, irq, pending, bus, done, late>>

\* alt_avalon_i2c_enable, and the error flags cleared behind it.
Enable ==
  /\ Program /\ pc = "enable"
  /\ IF en THEN /\ status' = "BUSY" /\ pc' = "retry"
                /\ UNCHANGED <<hw, irq_busy>>
           ELSE /\ en' = TRUE /\ irq_busy' = 0 /\ int_clear
                /\ fsm' = IF fsm = "IDLE" THEN "PRE_START" ELSE fsm
                /\ status' = "SUCCESS" /\ pc' = "write"
                /\ UNCHANGED <<thd, ien, txfifo, rxfifo, cur, rw>>
  /\ UNCHANGED <<env, call, tag, seg, left, got, retry, pending, isr, irq_size, ghost>>

\* alt_avalon_i2c_cmd_write: waits for room, writes; a FIFO held in reset
\* by an error takes nothing, a machine in PRE_IDLE starts on the next clock.
WriteCmd ==
  /\ Program /\ pc = "write" /\ TxReady
  /\ txfifo' = IF Flush THEN <<>> ELSE Append(txfifo, Command)
  /\ fsm' = IF fsm = "PRE_IDLE" /\ ~Flush THEN "PRE_START" ELSE fsm
  /\ left' = left - 1 /\ pc' = "check"
  /\ UNCHANGED <<en, thd, ien, nack, arblost, rxfifo, cur, rw, env, call, tag,
                 seg, got, status, retry, pending, irq, ghost>>

BugWriteTimeout == FALSE
WriteTimeout ==
  /\ Program /\ pc = "write" /\ ~TxReady /\ (Quiet \/ ~en)
  /\ status' = "TIMEOUT" /\ pc' = "wait"
  /\ cut' = (cut \/ seg > 1 \/ left <= Seg.size)
  /\ UNCHANGED <<hw, jams, jam, call, tag, seg, left, got, retry, pending, irq, ghost>>

\* The four functions behind the enabling: address and bytes while there is no
\* error (st), then the end of the segment.  "wait" stands for the end of a
\* transaction and for that of every error, "arm" for the handing over to the
\* callback, "fetch" for the bytes still to be read.
master_transmit(st) ==
  IF st # "SUCCESS" THEN "wait" ELSE IF left > 0 THEN "write"
  ELSE IF Seg.stop THEN "wait" ELSE "segment"
master_transmit_using_interrupts(st) ==
  IF st # "SUCCESS" THEN "wait" ELSE IF left > 0 THEN "write"
  ELSE IF Seg.stop THEN "arm" ELSE "segment"
BugReceive(st) ==
  IF st # "SUCCESS" THEN "wait" ELSE IF left > 0 THEN "write" ELSE "wait"
master_receive(st) ==
  IF st # "SUCCESS" THEN "wait" ELSE IF left > 0 THEN "write" ELSE "fetch"
master_receive_using_interrupts(st) ==
  IF st # "SUCCESS" THEN "wait" ELSE IF left > 0 THEN "write" ELSE "arm"
AfterCommand(st) ==
  IF call.irq
  THEN IF Seg.rw = "W" THEN master_transmit_using_interrupts(st)
       ELSE master_receive_using_interrupts(st)
  ELSE IF Seg.rw = "W" THEN master_transmit(st) ELSE master_receive(st)

\* alt_avalon_i2c_check_nack, then alt_avalon_i2c_check_arblost.
Checked == IF arblost THEN "ARB_LOST_ERR" ELSE IF nack THEN "NACK_ERR" ELSE "SUCCESS"

\* The errors are looked at after each command; a polled read then takes the
\* bytes that are there.
Check ==
  /\ Program /\ pc = "check"
  /\ status' = Checked
  /\ pc' = AfterCommand(Checked)
  /\ IF Checked = "SUCCESS" /\ ~call.irq /\ Seg.rw = "R" /\ left \in 1 .. Seg.size - 1
     THEN read_available(Len(rxfifo))
     ELSE UNCHANGED <<rxfifo, got, stale>>
  /\ UNCHANGED <<en, thd, ien, nack, arblost, txfifo, fsm, cur, rw, env, call, tag,
                 seg, left, retry, pending, irq, bus, done, late>>

\* alt_avalon_i2c_rx_read: a byte, or the end of its patience.
Fetch ==
  /\ Program /\ pc = "fetch"
  /\ IF got >= Seg.size THEN pc' = "wait" /\ UNCHANGED <<rxfifo, got, stale, status>>
     ELSE IF RxReady THEN read_available(1) /\ UNCHANGED <<pc, status>>
     ELSE /\ Quiet
          /\ status' = "TIMEOUT" /\ pc' = "wait"
          /\ UNCHANGED <<rxfifo, got, stale>>
  /\ UNCHANGED <<en, thd, ien, nack, arblost, txfifo, fsm, cur, rw, env, call, tag,
                 seg, left, retry, pending, irq, bus, done, late>>

BugFinish ==
  /\ Program /\ pc = "wait" /\ Quiet
  /\ status' = IF Busy THEN "TIMEOUT" ELSE status
  /\ disable
  /\ late' = (late \/ Busy \/ status = "TIMEOUT")
  /\ pc' = "retry"
  /\ UNCHANGED <<thd, ien, nack, arblost, txfifo, rxfifo, cur, rw, env, call, tag, seg,
                 left, got, retry, pending, irq, bus, done, stale>>

\* The end of a transaction: wait until the core is idle, or for so long;
\* disable it.  The polled functions look at NACK once more.
Finish ==
  /\ Program /\ pc = "wait" /\ Quiet
  /\ status' = IF nack /\ ~call.irq THEN "NACK_ERR" ELSE IF Busy THEN "TIMEOUT" ELSE status
  /\ disable
  /\ late' = (late \/ Busy \/ status = "TIMEOUT")
  /\ pc' = "retry"
  /\ UNCHANGED <<thd, ien, nack, arblost, txfifo, rxfifo, cur, rw, env, call, tag, seg,
                 left, got, retry, pending, irq, bus, done, stale>>

\* The wrappers: an error that a retry may mend starts the transfer over, any
\* other status goes on to the next segment or ends the call.
NextSegment == pc = "segment" \/ (pc = "retry" /\ status \in {"SUCCESS", "TIMEOUT"})
Mendable == {"ARB_LOST_ERR", "NACK_ERR", "BUSY"}
Retry ==
  /\ Program /\ pc = "retry" /\ status \in Mendable /\ retry > 1
  /\ retry' = retry - 1 /\ seg' = 1 /\ got' = 0
  /\ left' = Segments(call)[1].size + 1 /\ pc' = StartPc(Segments(call)[1])
  /\ UNCHANGED <<hw, env, call, tag, status, pending, irq, ghost>>
Proceed ==
  /\ Program /\ NextSegment /\ seg < Len(Segments(call))
  /\ seg' = seg + 1 /\ got' = 0 /\ status' = "SUCCESS"
  /\ left' = Segments(call)[seg + 1].size + 1 /\ pc' = StartPc(Segments(call)[seg + 1])
  /\ UNCHANGED <<hw, env, call, tag, retry, pending, irq, ghost>>
Return ==
  /\ Program
  /\ \/ pc = "retry" /\ status \in Mendable /\ retry = 1
     \/ NextSegment /\ seg = Len(Segments(call))
  /\ pc' = "idle"
  /\ UNCHANGED <<hw, env, call, tag, seg, left, got, status, retry, pending, irq, ghost>>

BugArm ==
  /\ Program /\ pc = "arm" /\ int_clear
  /\ irq_busy' = 1 /\ pending' = TRUE /\ pc' = "idle"
  /\ UNCHANGED <<en, thd, ien, irq_size, txfifo, rxfifo, fsm, cur, rw, env, call, tag, seg,
                 left, got, status, retry, isr, ghost>>

BugArmShort ==
  /\ Program /\ pc = "arm" /\ int_clear
  /\ irq_busy' = 2 /\ irq_size' = Seg.size - 1 /\ ien' = {"rx"} /\ UNCHANGED thd
  /\ pending' = TRUE /\ pc' = "idle"
  /\ UNCHANGED <<en, txfifo, rxfifo, fsm, cur, rw, env, call, tag, seg, left, got,
                 status, retry, isr, ghost>>

\* The end of the two functions that use interrupts.
Arm ==
  /\ Program /\ pc = "arm"
  /\ int_clear
  /\ IF Seg.rw = "W" THEN thd' = "EMPTY" /\ irq_busy' = 1 /\ ien' = {"tx"} /\ UNCHANGED irq_size
     ELSE irq_busy' = 2 /\ irq_size' = Seg.size /\ ien' = {"rx"} /\ UNCHANGED thd
  /\ pending' = TRUE /\ pc' = "idle"
  /\ UNCHANGED <<en, txfifo, rxfifo, fsm, cur, rw, env, call, tag, seg, left, got,
                 status, retry, isr, ghost>>
----------------------------------------------------------------------------
(* alt_avalon_i2c_irq and optional_irq_callback *)

BugIsrUnmasked ==
  /\ Program /\ Irq /\ int_clear /\ isr' = "wait"
  /\ UNCHANGED <<en, thd, ien, txfifo, rxfifo, fsm, cur, rw, env, sw, irq_busy, irq_size, ghost>>

Isr ==
  /\ Program /\ Irq
  /\ int_clear
  /\ LET n == IF irq_busy = 2 THEN IF Len(rxfifo) < irq_size THEN Len(rxfifo) ELSE irq_size
              ELSE 0
     IN /\ read_available(n)
        /\ irq_size' = irq_size - n
        /\ IF irq_busy = 2 /\ irq_size > n THEN ien' = {"rx"} /\ isr' = "off"
                                            ELSE ien' = {} /\ isr' = "wait"
  /\ UNCHANGED <<en, thd, txfifo, fsm, cur, rw, env, pc, call, tag, seg, left, status,
                 retry, pending, irq_busy, bus, done, late>>

IsrEnd ==
  /\ isr = "wait" /\ Quiet
  /\ disable /\ irq_busy' = 0 /\ isr' = "off"
  /\ UNCHANGED <<thd, ien, nack, arblost, txfifo, rxfifo, cur, rw, env, sw, irq_size, ghost>>

\* alt_avalon_i2c_interrupt_transaction_status, asked until it says something
\* else than BUSY (a BUSY answer leaves everything as it was).
TransactionStatus ==
  /\ Program /\ pc = "idle" /\ pending
  /\ \/ nack /\ irq_busy # 0 /\ pc' = "abort" /\ UNCHANGED pending
     \/ (nack \/ irq_busy = 0) /\ ~(nack /\ irq_busy # 0) /\ pending' = FALSE /\ UNCHANGED pc
  /\ ien' = {}
  /\ status' = IF nack THEN "NACK_ERR" ELSE "SUCCESS"
  /\ UNCHANGED <<en, thd, nack, arblost, txfifo, rxfifo, fsm, cur, rw, env, call, tag, seg,
                 left, got, retry, irq, ghost>>

Abort ==
  /\ Program /\ pc = "abort" /\ Quiet
  /\ status' = IF Busy THEN "TIMEOUT" ELSE status
  /\ rxfifo' = <<>> /\ disable /\ irq_busy' = 0
  /\ pending' = FALSE /\ pc' = "idle"
  /\ late' = (late \/ Busy)
  /\ UNCHANGED <<thd, ien, nack, arblost, txfifo, cur, rw, env, call, tag, seg, left, got,
                 retry, isr, irq_size, bus, done, stale>>
----------------------------------------------------------------------------
(* The core's state machine (altera_avalon_i2c_mstfsm.v) and the bus *)

Rest == IF en THEN "PRE_IDLE" ELSE "IDLE"
Aborted == txfifo' = <<>> /\ rxfifo' = <<>>

CoreStart ==
  /\ fsm = "PRE_START" /\ ~Flush /\ txfifo # <<>> /\ ~jam
  /\ cur' = Head(txfifo) /\ txfifo' = Tail(txfifo) /\ fsm' = "ADDR"
  /\ bus' = [tag |-> Head(txfifo).tag, n |-> 0, mixed |-> FALSE]
  /\ UNCHANGED <<en, thd, ien, nack, arblost, rxfifo, rw, env, sw, irq, done, stale, late>>

\* BUS_HOLD, POP_TX_FIFO: without a restart the command is a byte of the
\* transaction on the bus, whoever wrote it.
CorePop ==
  /\ fsm = "HOLD" /\ txfifo # <<>>
  /\ cur' = Head(txfifo) /\ txfifo' = Tail(txfifo)
  /\ fsm' = IF cur'.sta THEN "ADDR" ELSE IF rw = "W" THEN "TX_BYTE" ELSE "RX_BYTE"
  /\ bus' = [bus EXCEPT !.mixed = @ \/ cur'.tag # bus.tag]
  /\ UNCHANGED <<en, thd, ien, nack, arblost, rxfifo, rw, env, sw, irq, done, stale, late>>

\* A byte of the write side of the bus, the address among them, is
\* acknowledged, refused, or lost to another master.
Acknowledge ==
  /\ fsm' = IF cur.stop THEN "GEN_STOP" ELSE "HOLD"
  /\ UNCHANGED <<nack, arblost, txfifo>>
Refuse ==
  /\ fsm' = "GEN_STOP" /\ nack' = TRUE /\ Aborted /\ UNCHANGED arblost
Lose ==
  /\ ArbLoss
  /\ fsm' = Rest /\ arblost' = TRUE /\ Aborted /\ UNCHANGED nack

\* A byte of the transaction has arrived: the whole of it has, if it is the last.
Count ==
  /\ bus' = [bus EXCEPT !.n = @ + 1]
  /\ done' = IF cur.stop /\ ~bus.mixed /\ bus.n + 1 = cur.whole
             THEN done \union {bus.tag} ELSE done

CoreAddr ==
  /\ fsm = "ADDR" /\ ~jam
  /\ \/ Acknowledge /\ rw' = cur.rw /\ UNCHANGED rxfifo
     \/ (Refuse \/ Lose) /\ UNCHANGED rw
  /\ UNCHANGED <<en, thd, ien, cur, env, sw, irq, ghost>>

CoreTx ==
  /\ fsm = "TX_BYTE" /\ ~jam
  /\ \/ Acknowledge /\ Count /\ UNCHANGED rxfifo
     \/ (Refuse \/ Lose) /\ UNCHANGED <<bus, done>>
  /\ UNCHANGED <<en, thd, ien, cur, rw, env, sw, irq, stale, late>>

CoreRx ==
  /\ fsm = "RX_BYTE" /\ ~jam
  /\ \/ /\ Acknowledge /\ Count
        /\ rxfifo' = IF Len(rxfifo) < FIFO_DEPTH /\ ~Flush THEN Append(rxfifo, cur.tag)
                     ELSE rxfifo
     \/ Lose /\ UNCHANGED <<bus, done>>
  /\ UNCHANGED <<en, thd, ien, cur, rw, env, sw, irq, stale, late>>

\* GEN_STOP: commands left in the FIFO start a transaction of their
\* own, enabled or not.
CoreStop ==
  /\ fsm = "GEN_STOP" /\ ~jam
  /\ fsm' = IF txfifo # <<>> THEN "PRE_START" ELSE Rest
  /\ UNCHANGED <<en, thd, ien, nack, arblost, txfifo, rxfifo, cur, rw, env, sw, irq, ghost>>

Jam ==
  /\ ~jam /\ jams < MaxJams
  /\ jam' = TRUE /\ jams' = jams + 1
  /\ UNCHANGED <<hw, cut, sw, irq, ghost>>
Unjam ==
  /\ jam /\ jam' = FALSE
  /\ UNCHANGED <<hw, jams, cut, sw, irq, ghost>>
----------------------------------------------------------------------------
NoCommand == [sta |-> FALSE, stop |-> FALSE, rw |-> "W", tag |-> 0, whole |-> 0]

\* alt_avalon_i2c_init, and the optional callback registered.
Init ==
  /\ en = FALSE /\ thd = "NOT_FULL" /\ ien = {} /\ nack = FALSE /\ arblost = FALSE
  /\ txfifo = <<>> /\ rxfifo = <<>> /\ fsm = "IDLE" /\ cur = NoCommand /\ rw = "W"
  /\ jams = 0 /\ jam = FALSE /\ cut = FALSE
  /\ pc = "idle" /\ isr = "off" /\ call = NoCall /\ tag = 0
  /\ seg = 1 /\ left = 0 /\ got = 0 /\ status = "NONE" /\ retry = 0
  /\ irq_busy = 0 /\ irq_size = 0 /\ pending = FALSE
  /\ bus = [tag |-> 0, n |-> 0, mixed |-> FALSE] /\ done = {}
  /\ stale = FALSE /\ late = FALSE

Driver == Enable \/ WriteCmd \/ WriteTimeout \/ Check \/ Fetch \/ Finish
            \/ Retry \/ Proceed \/ Return \/ Arm \/ TransactionStatus \/ Abort
Callback == Isr \/ IsrEnd
Core == CoreStart \/ CorePop \/ CoreAddr \/ CoreTx \/ CoreRx \/ CoreStop
Next == (\E c \in Calls : Call(c)) \/ Driver \/ Callback \/ Core \/ Jam \/ Unjam

Spec == Init /\ [][Next]_vars
(***************************************************************************)
(* The processor goes on with what it has begun, an interrupt that is      *)
(* raised is taken, the core works where the bus lets it.  Nobody promises *)
(* a call, or the end of a jam.                                            *)
(***************************************************************************)
FairSpec == Spec /\ WF_vars(Driver) /\ WF_vars(Callback) /\ WF_vars(Core)
----------------------------------------------------------------------------
(* Properties *)

Reported == pc = "idle" /\ ~pending /\ tag > 0

\* altera_avalon_i2c.h 634-642, 1154: a call that reports SUCCESS has
\* transmitted its bytes, to a slave that acknowledged them all.
SuccessMeansDone == Reported /\ status = "SUCCESS" => tag \in done

\* What the code keeps of it: refusals, retries, a jam and the leftovers of an
\* earlier call do not make SUCCESS of a transfer that was not acknowledged to
\* its last byte, by one transaction of its own.  Three things can: commands
\* of a call that stopped halfway; a write that loses the bus after its
\* last check (arblost is still set then, and line 683 looks at NACK only), or
\* a read whose buffer the late bytes of another have filled by then; a write
\* by interrupts, whose errors the handler clears before its status is asked
\* for (line 108), or a read by interrupts that late bytes have filled, whose
\* wait for the core then ends in a time-out that the handler drops (line 82).
SuccessIsWhole ==
  \/ SuccessMeansDone
  \/ cut
  \/ call.irq /\ (call.rx = 0 \/ stale)
  \/ arblost /\ (call.rx = 0 \/ late)

\* Commands of two calls never share a transaction: a call that gave up in
\* the middle leaves its commands in the FIFO, and the next call's must not be
\* taken for their bytes.  Only a call that stopped halfway, for want of room,
\* leaves a transaction without an end: 64 commands (a jam that lasts 22 calls
\* of WriteCFG, whose results TestI2C drops, gets there), or one, when an
\* earlier write by interrupts has left the threshold at "empty" (line 775).
NeverMixed == bus.mixed => cut

\* A read that reports SUCCESS has filled its buffer with bytes of its own
\* transfer, and no more than its buffer, unless an earlier attempt timed out:
\* bytes that arrive after all stay in the FIFO and are read with the next
\* call's (line 343 reads them all, whatever the buffer holds).
FreshBytes == Reported /\ status = "SUCCESS" /\ (stale \/ got # call.rx) => late

\* Between calls the core is disabled, whatever the call met: a call that left
\* it enabled would make every later one BUSY (line 216).
DisabledBetween == Reported => ~en

\* An interrupt is enabled only for a transaction that waits for it: a late one
\* would disable the core under the next call.
InterruptsOwned == ien # {} => irq_busy # 0 /\ en /\ pending

\* Every call comes back, on a jammed bus too (the time-outs).
CallReturns == (pc # "idle") ~> (pc = "idle")

\* A write by interrupts comes to an end that its status reports, unless the
\* bus jams: here nothing times out (a read may wait for ever on a free bus:
\* an error cleared when it was armed leaves nothing that would end it).
WriteReported == (pending /\ call.rx = 0) ~> (~pending \/ jam)
=============================================================================
