------------------------------- MODULE Xmodem -------------------------------
(***************************************************************************)
(* An XMODEM session of the console: Xmodem_Init and Xmodem_SPI of         *)
(* UART_Console.c, the page writer that programs the boot flash, the       *)
(* 16550's receive FIFO, a host that sends a file of FILE packets, and the *)
(* flash chip.                                                             *)
(*                                                                         *)
(* Bytes are grouped into tokens: a packet is SOH, its two block number    *)
(* bytes, its 128 data bytes and its two check bytes.  The state machine   *)
(* reads a byte at a time where it looks for a control code and the rest   *)
(* of a packet by count, whatever the bytes are: a lost token shifts all   *)
(* that follow.  The page buffer holds two packets.                        *)
(*                                                                         *)
(* The host and the chip are outside src/.  The host is an XMODEM sender:  *)
(* it starts on "C", sends a packet at a time and waits for ACK, sends a   *)
(* packet again when it has waited too long, may cancel, and ends with     *)
(* EOT and, if its user makes it, ETB.  The chip ignores what it cannot do *)
(* (any command but a status read while it is busy, a program or erase     *)
(* without write enable), and erases a sector to be programmed.            *)
(***************************************************************************)
EXTENDS Integers, Sequences

CONSTANTS
  FILE,               \* packets of the host's file
  RX_FIFO,            \* capacity of the receive FIFO, in tokens
  SECTOR,             \* pages of a sector
  PAGES,              \* pages of the chip
  XMODEM_TIME_1SEC,   \* calls of Xmodem_SPI between two invitations
  TRIES,              \* invitations: TryCounter starts at 100
  MaxLosses,          \* bound: tokens the line loses
  MaxResends          \* bound: packets the host sends again

ASSUME SizesAssumption ==
  /\ {FILE, RX_FIFO, SECTOR, PAGES, XMODEM_TIME_1SEC, TRIES} \subseteq Nat \ {0}
  /\ {MaxLosses, MaxResends} \subseteq Nat
  /\ FILE + MaxResends < 2 * PAGES + 2

VARIABLES
  XmodemMode, XmodemState, TimerCnt, TryCounter,  \* Uart_Cntrl
  bt_count,       \* tokens of the packet still to come
  SPI_rxbuf,      \* the packet so far
  SPI_page,       \* the data of the page so far: its length is SPI_page_idx
  SPI_address,    \* the page to write next
  pc,             \* where the processor is in Flash_PageWrite, "loop" outside
  rx, tx,         \* the receive FIFO; the answers on their way to the host
  wire,           \* what the host has sent and has not arrived
  host, block,    \* the host's state and the packet it is at
  flash,          \* the chip: wip, wel, the operation in progress
  mem,            \* the contents of the chip's pages
  accepted,       \* history: the data of the packets acknowledged
  ignored,        \* history: the chip ignored a command or spoilt a page
  losses, resends

fsm   == << XmodemMode, XmodemState, TimerCnt, TryCounter >>
packet == << bt_count, SPI_rxbuf >>
page  == << SPI_page, SPI_address, pc >>
line  == << rx, wire, losses >>
hosts == << host, block, resends >>
chip  == << flash, mem, ignored >>
vars  == << fsm, packet, page, line, tx, hosts, chip, accepted >>

(***************************************************************************)
(* Tokens.  PacketRest is what follows SOH; line 259 counts its bytes.     *)
(***************************************************************************)
Control == {"SOH", "EOT", "ETB", "CAN"}
Tok(kind, n) == [kind |-> kind, n |-> n]
Ctl(kind) == Tok(kind, 0)
Packet(n) == << Ctl("SOH"), Tok("blk", n), Tok("data", n), Tok("crc", n) >>
BugPacketRest == 4   \* mutant: a byte too many
PacketRest == 3
BugDataAt == 1       \* mutant: the block number is not skipped
DataAt == 2          \* SPI_rxbuf[i+2]: behind the two block number bytes

Tokens == [kind : Control \cup {"blk", "data", "crc"}, n : 0 .. FILE]

(* What a token does to a state machine that reads it as control codes:    *)
(* a byte of a block number, of data or of a check may be any code.        *)
Codes(tok) == IF tok.kind \in Control THEN {tok.kind} ELSE Control \cup {"other"}

Erased == << >>
Spoilt == << "spoilt" >>
Contents == {Erased, Spoilt} \cup [1 .. 2 -> Tokens]
Idle == [wip |-> FALSE, wel |-> FALSE, op |-> "none", page |-> 0, data |-> Erased]

TypeOK ==
  /\ XmodemMode \in BOOLEAN
  /\ XmodemState \in {"INIT", "S0", "S1"}
  /\ TimerCnt \in 0 .. XMODEM_TIME_1SEC
  /\ TryCounter \in 0 .. TRIES
  /\ bt_count \in 0 .. PacketRest
  /\ SPI_rxbuf \in Seq(Tokens) /\ Len(SPI_rxbuf) <= PacketRest
  /\ SPI_page \in Seq(Tokens) /\ Len(SPI_page) <= 2
  /\ SPI_address \in 0 .. PAGES
  /\ pc \in {"loop", "ready", "wren_e", "erase", "erased", "wren_p", "program"}
  /\ rx \in Seq(Tokens) /\ Len(rx) <= RX_FIFO
  /\ tx \in Seq({"C", "ACK"})
  /\ wire \in Seq(Tokens)
  /\ host \in {"off", "waitC", "sent", "eot", "done", "cancelled"}
  /\ block \in 1 .. FILE
  /\ flash \in [wip : BOOLEAN, wel : BOOLEAN, op : {"none", "erase", "program"},
                page : 0 .. PAGES, data : Contents]
  /\ mem \in [0 .. (PAGES - 1) -> Contents]
  /\ accepted \in Seq(Tokens)
  /\ ignored \in BOOLEAN

Init ==
  /\ XmodemMode = FALSE /\ XmodemState = "INIT"
  /\ TimerCnt = 0 /\ TryCounter = 0
  /\ bt_count = 0 /\ SPI_rxbuf = << >>
  /\ SPI_page = << >> /\ SPI_address = 0 /\ pc = "loop"
  /\ rx = << >> /\ tx = << >> /\ wire = << >> /\ losses = 0
  /\ host = "off" /\ block = 1 /\ resends = 0
  /\ flash = Idle /\ ignored = FALSE
  /\ mem = [p \in 0 .. (PAGES - 1) |-> << Tok("crc", 0), Tok("crc", 0) >>]
  /\ accepted = << >>

(***************************************************************************)
(* The "xmodem" command, typed on the line the host will use: the console  *)
(* has read everything before it.                                          *)
(***************************************************************************)
Xmodem_Init ==
  /\ ~XmodemMode /\ pc = "loop"
  /\ wire = << >>
  /\ XmodemMode' = TRUE
  /\ XmodemState' = "INIT"
  /\ TryCounter' = TRIES
  /\ TimerCnt' = XMODEM_TIME_1SEC
  /\ SPI_address' = 0
  /\ tx' = << "C" >>                  \* the host reads from here on
  /\ rx' = << >>
  /\ host' \in {"off", "waitC"}       \* the user starts the host, or does not
  /\ block' = 1
  /\ accepted' = << >>
  /\ UNCHANGED << packet, SPI_page, pc, wire, losses, resends, chip >>

(* Without a session UART_Con_Mash reads what there is and takes it for a  *)
(* command line.                                                           *)
ConsoleReads ==
  /\ ~XmodemMode
  /\ rx # << >>
  /\ rx' = << >>
  /\ UNCHANGED << fsm, packet, page, wire, losses, tx, hosts, chip, accepted >>

(***************************************************************************)
(* Xmodem_SPI, an action for each state and each branch.  Every call of it *)
(* counts TimerCnt down.                                                   *)
(***************************************************************************)
Call(state) ==
  /\ XmodemMode /\ pc = "loop"
  /\ XmodemState = state

BugCountDown(t) == t - 1     \* mutant: no test for zero
CountDown(t) == IF t > 0 THEN t - 1 ELSE 0

(* ReadUartNonBlock of one byte: the byte is taken, `code` is one of the   *)
(* codes it may be.                                                        *)
ReadCode(code) ==
  /\ rx # << >>
  /\ code \in Codes(Head(rx))
  /\ rx' = Tail(rx)

(* States INIT and S1 leave for S0 when they see SOH; only INIT starts the *)
(* page buffer over.                                                       *)
StartPacket ==
  /\ XmodemState' = "S0"
  /\ SPI_rxbuf' = << >>
  /\ bt_count' = PacketRest

(* Mutant: the page buffer is not started over. *)
BugInitRead ==
  /\ Call("INIT")
  /\ TimerCnt' = CountDown(TimerCnt)
  /\ \E code \in Control \cup {"other"} :
       /\ ReadCode(code)
       /\ IF code = "SOH" THEN StartPacket ELSE UNCHANGED << XmodemState, packet >>
  /\ UNCHANGED << SPI_page, XmodemMode, TryCounter, SPI_address, pc, wire, losses, tx, hosts,
                  chip, accepted >>

InitRead ==
  /\ Call("INIT")
  /\ TimerCnt' = CountDown(TimerCnt)
  /\ \E code \in Control \cup {"other"} :
       /\ ReadCode(code)
       /\ IF code = "SOH"
            THEN StartPacket /\ SPI_page' = << >>
            ELSE UNCHANGED << XmodemState, packet, SPI_page >>
  /\ UNCHANGED << XmodemMode, TryCounter, SPI_address, pc, wire, losses, tx, hosts, chip,
                  accepted >>

(* Nothing to read: count down, invite again or give up. *)
InitWait ==
  /\ Call("INIT")
  /\ rx = << >>
  /\ IF CountDown(TimerCnt) # 0
       THEN /\ TimerCnt' = CountDown(TimerCnt)
            /\ UNCHANGED << XmodemMode, TryCounter, tx >>
       ELSE /\ TryCounter' = TryCounter - 1
            /\ IF TryCounter - 1 = 0
                 THEN /\ XmodemMode' = FALSE
                      /\ TimerCnt' = 0
                      /\ UNCHANGED tx
                 ELSE /\ TimerCnt' = XMODEM_TIME_1SEC
                      /\ tx' = Append(tx, "C")
                      /\ UNCHANGED XmodemMode
  /\ UNCHANGED << XmodemState, packet, page, line, hosts, chip, accepted >>

(* The rest of a packet, as much of it as there is. *)
Taken == LET n == IF Len(rx) < bt_count THEN Len(rx) ELSE bt_count IN SubSeq(rx, 1, n)

S0Part ==
  /\ Call("S0")
  /\ Len(Taken) < bt_count
  /\ TimerCnt' = CountDown(TimerCnt)
  /\ SPI_rxbuf' = SPI_rxbuf \o Taken
  /\ bt_count' = bt_count - Len(Taken)
  /\ rx' = << >>
  /\ UNCHANGED << XmodemMode, XmodemState, TryCounter, page, wire, losses, tx, hosts, chip,
                  accepted >>

(* The last byte of a packet: it is acknowledged, its data go to the page  *)
(* buffer, and a full page is written before the function returns.         *)
S0Packet ==
  /\ Call("S0")
  /\ Len(Taken) = bt_count
  /\ TimerCnt' = CountDown(TimerCnt)
  /\ LET buf == SPI_rxbuf \o Taken
     IN  /\ SPI_rxbuf' = buf
         /\ SPI_page' = Append(SPI_page, buf[DataAt])
         /\ accepted' = Append(accepted, buf[DataAt])
  /\ bt_count' = 0
  /\ rx' = SubSeq(rx, bt_count + 1, Len(rx))
  /\ tx' = Append(tx, "ACK")
  /\ XmodemState' = "S1"
  /\ pc' = IF Len(SPI_page) + 1 = 2 THEN "ready" ELSE "loop"
  /\ UNCHANGED << XmodemMode, TryCounter, SPI_address, wire, losses, hosts, chip >>

S1Read ==
  /\ Call("S1")
  /\ TimerCnt' = CountDown(TimerCnt)
  /\ \E code \in Control \cup {"other"} :
       /\ ReadCode(code)
       /\ CASE code = "SOH" ->
                 StartPacket /\ UNCHANGED << XmodemMode, tx >>
            [] code = "EOT" ->
                 tx' = Append(tx, "ACK") /\ UNCHANGED << XmodemMode, XmodemState, packet >>
            [] code = "ETB" ->
                 /\ tx' = Append(tx, "ACK")
                 /\ XmodemState' = "INIT" /\ XmodemMode' = FALSE
                 /\ UNCHANGED packet
            [] code = "CAN" ->
                 /\ tx' = tx \o << "ACK", "ACK" >>
                 /\ XmodemState' = "INIT" /\ XmodemMode' = FALSE
                 /\ UNCHANGED packet
            [] code = "other" ->
                 UNCHANGED << XmodemMode, XmodemState, packet, tx >>
  /\ UNCHANGED << TryCounter, page, wire, losses, hosts, chip, accepted >>

S1Wait ==
  /\ Call("S1")
  /\ rx = << >>
  /\ TimerCnt' = CountDown(TimerCnt)
  /\ UNCHANGED << XmodemMode, XmodemState, TryCounter, packet, page, line, tx, hosts, chip,
                  accepted >>

Xmodem_SPI == InitRead \/ InitWait \/ S0Part \/ S0Packet \/ S1Read \/ S1Wait

(***************************************************************************)
(* The chip's side of a command.                                           *)
(***************************************************************************)
WriteEnable ==
  IF flash.wip
    THEN ignored' = TRUE /\ UNCHANGED << flash, mem >>
    ELSE flash' = [flash EXCEPT !.wel = TRUE] /\ UNCHANGED << mem, ignored >>

Start(op, p, data) ==
  IF flash.wip \/ ~flash.wel
    THEN ignored' = TRUE /\ UNCHANGED << flash, mem >>
    ELSE /\ flash' = [wip |-> TRUE, wel |-> TRUE, op |-> op, page |-> p, data |-> data]
         /\ UNCHANGED << mem, ignored >>

SectorOf(p) == p \div SECTOR

(* The chip has done what it was told.  A page that was not erased keeps   *)
(* the zeros it had.                                                       *)
FlashDone ==
  /\ flash.wip
  /\ flash' = Idle
  /\ mem' = CASE flash.op = "erase" ->
                   [p \in DOMAIN mem |->
                      IF SectorOf(p) = SectorOf(flash.page) THEN Erased ELSE mem[p]]
              [] flash.op = "program" ->
                   [mem EXCEPT ![flash.page] = IF @ = Erased THEN flash.data ELSE Spoilt]
  /\ UNCHANGED << fsm, packet, page, line, tx, hosts, ignored, accepted >>

(***************************************************************************)
(* Flash_PageWrite and Flash_SectorErase, a command at a time: the chip    *)
(* goes on between them.                                                   *)
(***************************************************************************)
PageStep(from, to) == pc = from /\ pc' = to
PageRest == UNCHANGED << fsm, packet, line, tx, hosts, accepted >>

(* Mutant: the sector is erased before every page. *)
BugStatusReady ==
  /\ ~flash.wip
  /\ PageStep("ready", "wren_e")
  /\ UNCHANGED << SPI_page, SPI_address, chip >>
  /\ PageRest

StatusReady ==
  /\ ~flash.wip
  /\ PageStep("ready", IF SPI_address % SECTOR = 0 THEN "wren_e" ELSE "wren_p")
  /\ UNCHANGED << SPI_page, SPI_address, chip >>
  /\ PageRest

EraseEnable ==
  /\ PageStep("wren_e", "erase")
  /\ WriteEnable
  /\ UNCHANGED << SPI_page, SPI_address >> /\ PageRest

Flash_SectorErase ==
  /\ PageStep("erase", "erased")
  /\ Start("erase", SPI_address, Erased)
  /\ UNCHANGED << SPI_page, SPI_address >> /\ PageRest

(* Mutant: the end of the erasure is not waited for. *)
BugStatusErased ==
  /\ PageStep("erased", "wren_p")
  /\ UNCHANGED << SPI_page, SPI_address, chip >>
  /\ PageRest

StatusErased ==
  /\ ~flash.wip
  /\ PageStep("erased", "wren_p")
  /\ UNCHANGED << SPI_page, SPI_address, chip >>
  /\ PageRest

ProgramEnable ==
  /\ PageStep("wren_p", "program")
  /\ WriteEnable
  /\ UNCHANGED << SPI_page, SPI_address >> /\ PageRest

Program ==
  /\ PageStep("program", "loop")
  /\ Start("program", SPI_address, SPI_page)
  /\ SPI_address' = SPI_address + 1
  /\ SPI_page' = << >>
  /\ PageRest

Flash_PageWrite ==
  \/ StatusReady \/ EraseEnable \/ Flash_SectorErase \/ StatusErased
  \/ ProgramEnable \/ Program

(***************************************************************************)
(* The line.  A token that finds the FIFO full is lost.                    *)
(***************************************************************************)
FwRest == UNCHANGED << fsm, packet, page, chip, accepted >>

Arrive ==
  /\ wire # << >>
  /\ wire' = Tail(wire)
  /\ rx' = IF Len(rx) < RX_FIFO THEN Append(rx, Head(wire)) ELSE rx
  /\ UNCHANGED << losses, tx, hosts >> /\ FwRest

Lose ==
  /\ wire # << >> /\ losses < MaxLosses
  /\ losses' = losses + 1
  /\ wire' = Tail(wire)
  /\ UNCHANGED << rx, tx, hosts >> /\ FwRest

(***************************************************************************)
(* The host.                                                               *)
(***************************************************************************)
Send(toks) == wire' = wire \o toks

HostRest == UNCHANGED << rx, losses, resends >> /\ FwRest

(* The host throws away an answer it does not wait for. *)
HostSkip ==
  /\ tx # << >>
  /\ \/ host = "waitC" /\ Head(tx) # "C"
     \/ host \in {"sent", "eot"} /\ Head(tx) # "ACK"
     \/ host \in {"off", "done", "cancelled"}
  /\ tx' = Tail(tx)
  /\ UNCHANGED << wire, host, block >> /\ HostRest

HostStart ==
  /\ host = "waitC" /\ tx # << >> /\ Head(tx) = "C"
  /\ tx' = Tail(tx)
  /\ host' = "sent"
  /\ Send(Packet(1))
  /\ UNCHANGED block /\ HostRest

HostNext ==
  /\ host = "sent" /\ tx # << >> /\ Head(tx) = "ACK"
  /\ tx' = Tail(tx)
  /\ IF block < FILE
       THEN /\ block' = block + 1
            /\ Send(Packet(block + 1))
            /\ UNCHANGED host
       ELSE /\ host' = "eot"
            /\ Send(<< Ctl("EOT") >>)
            /\ UNCHANGED block
  /\ HostRest

HostEnd ==
  /\ host = "eot" /\ tx # << >> /\ Head(tx) = "ACK"
  /\ tx' = Tail(tx)
  /\ host' = "done"
  /\ \E etb \in BOOLEAN : Send(IF etb THEN << Ctl("ETB") >> ELSE << >>)
  /\ UNCHANGED block /\ HostRest

HostResend ==
  /\ host = "sent" /\ wire = << >> /\ resends < MaxResends
  /\ resends' = resends + 1
  /\ Send(Packet(block))
  /\ UNCHANGED << rx, losses, tx, host, block >> /\ FwRest

HostCancel ==
  /\ host \in {"sent", "eot"} /\ wire = << >>
  /\ host' = "cancelled"
  /\ Send(<< Ctl("CAN") >>)
  /\ UNCHANGED << tx, block >> /\ HostRest

HostAnswers == HostSkip \/ HostStart \/ HostNext \/ HostEnd

Next ==
  \/ Xmodem_Init \/ ConsoleReads \/ Xmodem_SPI \/ Flash_PageWrite \/ FlashDone
  \/ Arrive \/ Lose
  \/ HostAnswers \/ HostResend \/ HostCancel

(* The event loop calls Xmodem_SPI for ever, Flash_PageWrite goes on, the  *)
(* chip finishes what it begins, bytes arrive and a host answers.          *)
Spec ==
  /\ Init /\ [][Next]_vars
  /\ WF_vars(Xmodem_SPI) /\ WF_vars(Flash_PageWrite) /\ WF_vars(FlashDone)
  /\ WF_vars(Arrive) /\ WF_vars(HostAnswers)

-----------------------------------------------------------------------------
(* A page as it is, or will be when the chip has done what it is at. *)
Effective(p) ==
  IF flash.wip /\ flash.op = "program" /\ flash.page = p THEN flash.data ELSE mem[p]

(* The pages written so far hold the data of the packets acknowledged so   *)
(* far, two to a page and in order, whatever was lost or sent twice on the *)
(* line and however long the chip was busy (lines 275 to 295, 350 to 383). *)
FlashHoldsAccepted ==
  \A p \in 0 .. (SPI_address - 1) :
    Effective(p) = << accepted[2 * p + 1], accepted[2 * p + 2] >>

(* Every packet acknowledged in this session is in a page written or in    *)
(* the page buffer, also when the session before ended on half a page.     *)
AcceptedAccounted ==
  XmodemMode /\ XmodemState # "INIT" => Len(accepted) = 2 * SPI_address + Len(SPI_page)

(* The chip never gets a command it ignores, nor a page to program that is *)
(* not erased: the status is polled, write enable is sent and the sector   *)
(* erased when they have to be (lines 355 to 362, 390, 404 to 406).        *)
ChipObeys == ~ignored /\ \A p \in DOMAIN mem : mem[p] # Spoilt

(* On a line that loses nothing, to a host that sends nothing twice, what  *)
(* is acknowledged is the file from its beginning.                         *)
CleanInOrder ==
  losses = 0 /\ resends = 0 => \A i \in DOMAIN accepted : accepted[i] = Tok("data", i)

(* ... and, once the first packet has begun before the session is given    *)
(* up, the whole of it, unless the host cancels.                           *)
CleanCompletes ==
  XmodemState = "S0" ~> \/ host = "cancelled" \/ losses + resends > 0
                        \/ host = "done" /\ Len(accepted) = FILE
=============================================================================
