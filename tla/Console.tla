------------------------------ MODULE Console ------------------------------
(***************************************************************************)
(* The console of UART_Console.c between the user, the XMODEM session and  *)
(* the boot flash switch: the line editor of UART_Con_Mash, the commands   *)
(* that take the flash, the waits of the page writer, and stage S2 of      *)
(* MachPower, which gives the flash to the processor.                      *)
(*                                                                         *)
(* The event loop runs the slots of three handlers in turn: MachPower (0), *)
(* UART_Con_Mash (3) and SPI_GPIO_Mash (9).  A handler that outlasts its   *)
(* tick shifts the rotation: whose slot comes next is then anyone's, its   *)
(* own included, and one slot may be run twice (AtMostTwice of MainLoop).  *)
(* Two handlers are that long: stage S2, which writes the clock generator  *)
(* over I2C, and the console while it waits for the flash; the call that   *)
(* executes a command is taken to be.  All others move a few bytes between *)
(* registers, which takes a small part of a tick.                          *)
(*                                                                         *)
(* A session is what it is to the console: it takes the bytes of the UART, *)
(* writes a page behind every second packet, and ends some time or never   *)
(* (its states are Xmodem's).  What its sender sends is read as it comes;  *)
(* rx holds what the user types.                                           *)
(*                                                                         *)
(* The flash answers where both halves of the switch lead to it: the       *)
(* FPGA's drivers (pio_out, at once) and the multiplexer (the expander,    *)
(* with the next flush).  A status read without it may give anything.      *)
(***************************************************************************)
EXTENDS Integers, Sequences, SequencesExt

CONSTANTS
  Keys,            \* what the user types, but for the return key
  Words,           \* the commands: name to sequence of keys
  UART_BUF_SIZE,   \* 64 in the code
  RX_FIFO,         \* bytes the UART holds
  MaxKeys          \* bound: bytes typed

CONSTANT CR        \* the return key
CONSTANT NUL       \* the end of a string

ASSUME KeysAssumption ==
  /\ CR \notin Keys /\ NUL \notin Keys \cup {CR}
  /\ {"xmodem", "bmc", "cpu"} \subseteq DOMAIN Words
  /\ \A w \in DOMAIN Words : Words[w] \in Seq(Keys) /\ Len(Words[w]) < UART_BUF_SIZE
  /\ \A v, w \in DOMAIN Words : Words[v] = Words[w] => v = w
ASSUME BoundsAssumption == {UART_BUF_SIZE, RX_FIFO, MaxKeys} \subseteq Nat \ {0}

VARIABLES
  rx, keys,        \* the UART's FIFO; bytes typed so far
  buf, idx,        \* Uart_Cntrl.buf and .idx
  cmd_flag,        \* a local of UART_Con_Mash
  XmodemMode,
  pc,              \* "loop": the event loop; "read": in the loop of lines 108 to 122;
                   \* "ready", "erased": in a wait for the flash
  driving, select, \* pio_out's half of the switch; the shadow's multiplexer bit
  mux,             \* the multiplexer
  turn, late,      \* whose slot is next; the handler before outlasted its tick
  fill,            \* reads of the session towards a full page
  wip,             \* the chip is busy
  S2,              \* MachPower is past S2
  line,            \* history: the bytes read since idx was last set to 0
  taken,           \* history: S2 came in this session
  missed           \* history: a command did not get to the chip, and S2 was not why

editor == <<buf, idx, cmd_flag, line>>
uart == <<rx, keys>>
switch == <<driving, select, mux, S2>>
slots == <<turn, late>>
session == <<XmodemMode, fill, taken>>
vars == <<uart, editor, session, pc, slots, switch, wip, missed>>

Turns == {"power", "console", "flush"}

BufferTypes ==
  /\ rx \in Seq(Keys \cup {CR}) /\ Len(rx) <= RX_FIFO /\ keys \in 0 .. MaxKeys
  /\ buf \in [0 .. UART_BUF_SIZE - 1 -> Keys \cup {NUL}]
  /\ idx \in 0 .. UART_BUF_SIZE - 1
  /\ line \in Seq(Keys \cup {CR})
FlagTypes ==
  /\ pc \in {"loop", "read", "ready", "erased"}
  /\ cmd_flag \in BOOLEAN /\ XmodemMode \in BOOLEAN
  /\ driving \in BOOLEAN /\ select \in BOOLEAN /\ mux \in BOOLEAN
  /\ turn \in Turns /\ late \in BOOLEAN /\ fill \in 0 .. 3
  /\ wip \in BOOLEAN /\ S2 \in BOOLEAN /\ taken \in BOOLEAN /\ missed \in BOOLEAN
TypeOK == BufferTypes /\ FlagTypes

\* Uart_Con_Init, SPI_GPIOInit (the multiplexer's bit is 0 in its argument).  The
\* first tick makes MS_counter 1.
Init ==
  /\ rx = <<>> /\ keys = 0
  /\ buf = [i \in 0 .. UART_BUF_SIZE - 1 |-> NUL] /\ idx = 0 /\ cmd_flag = FALSE /\ line = <<>>
  /\ XmodemMode = FALSE /\ fill = 0 /\ pc = "loop" /\ turn = "console" /\ late = FALSE
  /\ driving = FALSE /\ select = FALSE /\ mux = FALSE /\ S2 = FALSE
  /\ wip = FALSE /\ taken = FALSE /\ missed = FALSE

Type(k) ==
  /\ keys < MaxKeys /\ keys' = keys + 1
  /\ rx' = IF Len(rx) < RX_FIFO THEN Append(rx, k) ELSE rx
  /\ UNCHANGED <<editor, session, pc, slots, switch, wip, missed>>

\* The event loop calls the handler of slot t.
Turn(t) == pc = "loop" /\ turn = t
\* The handler is back within its tick: the next slot's turn, or the same one's
\* again where a tick came between the clearing of the flag and the switch, which
\* takes a pass that started late.
NextTurn(t) == CASE t = "power" -> "console" [] t = "console" -> "flush" [] t = "flush" -> "power"
InTime == late' = FALSE /\ turn' \in {NextTurn(turn)} \cup (IF late THEN {turn} ELSE {})
\* The handler lasts any number of ticks.
Overruns == late' = TRUE /\ turn' \in Turns
----------------------------------------------------------------------------
(* UART_Con_Mash: reads while there is something to read, then looks for a *)
(* command.  More may arrive between two reads.                            *)

\* With nothing to read the function returns at once.
NothingTyped ==
  /\ Turn("console") /\ ~XmodemMode /\ rx = <<>>
  /\ InTime
  /\ UNCHANGED <<uart, editor, session, pc, switch, wip, missed>>

Enter ==
  /\ Turn("console") /\ ~XmodemMode /\ rx # <<>>
  /\ pc' = "read" /\ cmd_flag' = FALSE
  /\ UNCHANGED <<uart, buf, idx, line, session, slots, switch, wip, missed>>

BugNextIdx(i) == IF i + 2 >= UART_BUF_SIZE THEN 0 ELSE i + 1
NextIdx(i) == IF i + 1 >= UART_BUF_SIZE THEN 0 ELSE i + 1

ReadByte ==
  /\ pc = "read" /\ rx # <<>>
  /\ rx' = Tail(rx)
  /\ buf' = [buf EXCEPT ![idx] = IF Head(rx) = CR THEN NUL ELSE Head(rx)]
  /\ cmd_flag' = (cmd_flag \/ Head(rx) = CR)
  /\ idx' = NextIdx(idx)
  /\ line' = Append(line, Head(rx))
  /\ UNCHANGED <<keys, session, pc, slots, switch, wip, missed>>

\* The string in buf.  Where the buffer has gone round over its last NUL, the
\* string ends behind it: idx, which has just been set to 0, is the next byte.
Text ==
  LET bytes == [i \in 1 .. UART_BUF_SIZE |-> buf[i - 1]]
      ends == {i \in 1 .. UART_BUF_SIZE : bytes[i] = NUL}
  IN  IF ends = {} THEN bytes ELSE SubSeq(bytes, 1, Min(ends) - 1)
Is(word) == Text = Words[word]

SetBMC == driving' = TRUE /\ select' = TRUE
SetCPU == driving' = FALSE /\ select' = FALSE
Switch_BootSpi2BMC == SetBMC /\ UNCHANGED session
Switch_BootSpi2CPU == SetCPU /\ UNCHANGED session
BugXmodem_Init ==
  /\ XmodemMode' = TRUE /\ fill' = 0 /\ taken' = FALSE
  /\ UNCHANGED <<driving, select>>
Xmodem_Init == XmodemMode' = TRUE /\ fill' = 0 /\ taken' = FALSE /\ SetBMC

\* Nothing more to read: the first string in the buffer is looked up, and idx
\* set to 0, if a return was read in this call; else the line goes on later.
\* The other commands only answer.
Execute ==
  /\ pc = "read" /\ rx = <<>> /\ pc' = "loop" /\ Overruns
  /\ IF ~cmd_flag THEN UNCHANGED <<idx, line, session, driving, select>>
     ELSE /\ idx' = 0 /\ line' = <<>>
          /\ IF Is("xmodem") THEN Xmodem_Init
             ELSE IF Is("bmc") THEN Switch_BootSpi2BMC
             ELSE IF Is("cpu") THEN Switch_BootSpi2CPU
             ELSE UNCHANGED <<session, driving, select>>
  /\ UNCHANGED <<uart, buf, cmd_flag, mux, S2, wip, missed>>

UART_Con_Mash == NothingTyped \/ Enter \/ ReadByte \/ Execute
----------------------------------------------------------------------------
(* The session: Xmodem_SPI in the console's slot                           *)

SessionTurn == Turn("console") /\ XmodemMode
Takes == \E n \in 0 .. Len(rx) : rx' = SubSeq(rx, n + 1, Len(rx))

\* A page is two packets, and a packet two reads in two calls at least: SOH, then
\* the 131 bytes behind it, in one or in several.  Mutant: a page for every packet.
BugPageFull(reads) == reads >= 2
PageFull(reads) == reads >= 4

\* A call reads what there is, nothing or a part of a packet or more of it; what is
\* neither leaves the page as it is.
SessionReads ==
  /\ SessionTurn /\ Takes
  /\ fill' \in {n \in {fill, fill + 1} : ~PageFull(n)}
  /\ InTime
  /\ UNCHANGED <<keys, editor, XmodemMode, taken, pc, switch, wip, missed>>

\* ETB or CAN between two packets, or the last invitation.
SessionEnds ==
  /\ SessionTurn /\ Takes /\ fill \in {0, 2}
  /\ XmodemMode' = FALSE /\ fill' = 0
  /\ InTime
  /\ UNCHANGED <<keys, editor, taken, pc, switch, wip, missed>>

\* The read that fills the page: Flash_PageWrite begins with its first wait.
PageWrite ==
  /\ SessionTurn /\ Takes /\ PageFull(fill + 1)
  /\ fill' = 0 /\ pc' = "ready"
  /\ UNCHANGED <<keys, editor, XmodemMode, taken, slots, switch, wip, missed>>

Reaches == driving /\ mux
\* What the chip makes of an erase or program command.
Command ==
  /\ wip' = (wip \/ Reaches)
  /\ missed' = (missed \/ ~(Reaches \/ taken))
\* A status read says that the chip is not busy.
StatusIdle == ~Reaches \/ ~wip

\* Lines 355 to 360: the wait before a page, then the erase command or the page.
StatusReady ==
  /\ pc = "ready" /\ StatusIdle /\ Command
  /\ \/ pc' = "erased" /\ UNCHANGED slots
     \/ pc' = "loop" /\ Overruns
  /\ UNCHANGED <<uart, editor, session, switch>>
\* Lines 404 to 406 and 362 to 383: the wait behind the erasure, then the page.
StatusErased ==
  /\ pc = "erased" /\ StatusIdle /\ Command
  /\ pc' = "loop" /\ Overruns
  /\ UNCHANGED <<uart, editor, session, switch>>

FlashDone ==
  /\ wip /\ wip' = FALSE
  /\ UNCHANGED <<uart, editor, session, pc, slots, switch, missed>>
----------------------------------------------------------------------------
(* The other handlers *)

\* Stage S2 comes once, whatever the console is at.
MachPowerS2 ==
  /\ Turn("power") /\ ~S2
  /\ S2' = TRUE /\ SetCPU /\ Overruns
  /\ taken' = (taken \/ XmodemMode)
  /\ UNCHANGED <<uart, editor, XmodemMode, fill, pc, mux, wip, missed>>
\* The stages before and after it.
MachPowerOther ==
  /\ Turn("power") /\ InTime
  /\ UNCHANGED <<uart, editor, session, pc, switch, wip, missed>>

\* The words are out some microseconds later (SpiGpio).
SPI_GPIO_Mash ==
  /\ Turn("flush") /\ InTime
  /\ mux' = select
  /\ UNCHANGED <<uart, editor, session, pc, driving, select, S2, wip, missed>>

Poll == StatusReady \/ StatusErased
Next ==
  \/ \E k \in Keys \cup {CR} : Type(k)
  \/ UART_Con_Mash \/ SessionReads \/ SessionEnds \/ PageWrite \/ Poll \/ FlashDone
  \/ MachPowerS2 \/ MachPowerOther \/ SPI_GPIO_Mash

\* A chip that answers ends what it does, and a status that is ready is read.
\* Nothing is promised of a status read that does not get to the chip.
Spec == Init /\ [][Next]_vars /\ WF_vars(Reaches /\ Poll) /\ WF_vars(FlashDone)
----------------------------------------------------------------------------
\* What is executed is the first line typed since the last command, to the
\* letter, however it came in over the calls: while no more than the buffer
\* holds was read.  A second line in the same call, and what is behind it, is
\* dropped (lines 122 to 124).
ExecutesTyped ==
  pc = "read" /\ rx = <<>> /\ cmd_flag /\ Len(line) <= UART_BUF_SIZE =>
    Text = SubSeq(line, 1, Min({i \in DOMAIN line : line[i] = CR}) - 1)

\* The page writer's commands get to the flash, from the first page of a
\* session to its last, unless S2 took the flash away in it.  No command typed
\* meanwhile can; and the deferred half of the switch, which Xmodem_Init only
\* asks for, goes out before the fourth call of the session, the first that can
\* fill a page, also where the call with the command shifted the loop's rotation.
PagesArrive == ~missed

\* The event loop does not stand still in a wait for the flash, which has no
\* time-out, unless S2 took the flash away in the session.
PollEnds == (pc \in {"ready", "erased"}) ~> (pc \notin {"ready", "erased"} \/ taken)
=============================================================================
