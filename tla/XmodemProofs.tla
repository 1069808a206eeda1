---------------------------- MODULE XmodemProofs ----------------------------
(***************************************************************************)
(* The safety of the loader: what was acknowledged is in the flash.        *)
(*                                                                         *)
(* The invariant is in three layers, each proved with the ones before it:  *)
(* SafeInv, of the state machine and of how many packets there can be;     *)
(* ChipInv, of the chip and the commands of the page writer; DataInv, of   *)
(* the contents.  CleanInv, of the order of the packets, is beside them.   *)
(***************************************************************************)
EXTENDS Xmodem, SequenceTheorems, TLAPS

(* How far the packet being read has come, in tokens. *)
Consumed == IF XmodemState = "S0" THEN PacketRest + 1 - bt_count ELSE 0

(* What the host has sent at most, repetitions aside. *)
SentByHost ==
  IF host \in {"off", "waitC"} THEN 0
  ELSE IF host = "sent" THEN 4 * block
  ELSE IF host = "eot" THEN 4 * FILE + 1
  ELSE 4 * FILE + 2

(* A packet takes four tokens from the line, whichever they are: so many   *)
(* packets can be acknowledged, so many pages written.                     *)
BudgetInv ==
  /\ resends \in 0 .. MaxResends
  /\ 4 * Len(accepted) + Consumed + Len(rx) + Len(wire) <= SentByHost + 4 * resends

(* The state machine, the page buffer and the page writer. *)
SessionInv ==
  /\ XmodemState # "INIT" => XmodemMode
  /\ XmodemMode /\ XmodemState = "INIT"
       => SPI_address = 0 /\ accepted = << >> /\ TryCounter >= 1
  /\ XmodemState # "INIT" => Len(accepted) = 2 * SPI_address + Len(SPI_page)
  /\ XmodemState = "S0" => bt_count >= 1 /\ Len(SPI_rxbuf) + bt_count = PacketRest
  /\ IF pc = "loop"
       THEN XmodemState # "INIT" => Len(SPI_page) < 2
       ELSE XmodemState = "S1" /\ Len(SPI_page) = 2

(* The pages of the sector from the next one on are erased. *)
Fresh ==
  \A p \in 0 .. (PAGES - 1) :
    p >= SPI_address /\ SectorOf(p) = SectorOf(SPI_address)
      => /\ mem[p] = Erased
         /\ ~(flash.wip /\ flash.op = "program" /\ flash.page = p)

(* The chip and the page writer. *)
ChipInv ==
  /\ ~ignored
  /\ \A p \in 0 .. (PAGES - 1) : mem[p] # Spoilt
  /\ pc \in {"wren_e", "erase", "wren_p", "program"} => ~flash.wip
  /\ pc \in {"erase", "program"} => flash.wel
  /\ pc \in {"wren_e", "erase", "erased"} => SPI_address % SECTOR = 0
  /\ flash.wip =>
       \/ flash.op = "erase" /\ pc = "erased" /\ flash.page = SPI_address
       \/ /\ flash.op = "program" /\ pc \in {"loop", "ready"}
          /\ flash.page \in 0 .. (PAGES - 1) /\ mem[flash.page] = Erased
          /\ flash.data \in [1 .. 2 -> Tokens]
  /\ \/ pc \in {"wren_p", "program"}
     \/ pc = "erased" /\ ~flash.wip
     \/ pc \in {"loop", "ready"} /\ SPI_address % SECTOR # 0
     => Fresh

(* The page buffer holds what comes behind the pages written. *)
DataInv ==
  /\ FlashHoldsAccepted
  /\ 2 * SPI_address <= Len(accepted)
  /\ XmodemState # "INIT" =>
       \A i \in 1 .. Len(SPI_page) : SPI_page[i] = accepted[2 * SPI_address + i]

SafeInv == TypeOK /\ BudgetInv /\ SessionInv

(* The type invariant by parts: an action disturbs two or three of them. *)
FsmType ==
  /\ XmodemMode \in BOOLEAN
  /\ XmodemState \in {"INIT", "S0", "S1"}
  /\ TimerCnt \in 0 .. XMODEM_TIME_1SEC
  /\ TryCounter \in 0 .. TRIES
PacketType ==
  /\ bt_count \in 0 .. PacketRest
  /\ SPI_rxbuf \in Seq(Tokens) /\ Len(SPI_rxbuf) <= PacketRest
PageType ==
  /\ SPI_page \in Seq(Tokens) /\ Len(SPI_page) <= 2
  /\ SPI_address \in 0 .. PAGES
  /\ pc \in {"loop", "ready", "wren_e", "erase", "erased", "wren_p", "program"}
  /\ accepted \in Seq(Tokens)
LineType ==
  /\ rx \in Seq(Tokens) /\ Len(rx) <= RX_FIFO
  /\ tx \in Seq({"C", "ACK"})
  /\ wire \in Seq(Tokens)
HostType ==
  /\ host \in {"off", "waitC", "sent", "eot", "done", "cancelled"}
  /\ block \in 1 .. FILE
FlashType ==
  flash \in [wip : BOOLEAN, wel : BOOLEAN, op : {"none", "erase", "program"},
             page : 0 .. PAGES, data : Contents]
ChipType ==
  /\ FlashType
  /\ mem \in [0 .. (PAGES - 1) -> Contents]
  /\ ignored \in BOOLEAN

LEMMA TypeParts ==
  /\ TypeOK <=> FsmType /\ PacketType /\ PageType /\ LineType /\ HostType /\ ChipType
  /\ TypeOK' <=>
       FsmType' /\ PacketType' /\ PageType' /\ LineType' /\ HostType' /\ ChipType'
BY DEF TypeOK, FsmType, PacketType, PageType, LineType, HostType, FlashType, ChipType

-----------------------------------------------------------------------------
LEMMA Sizes ==
  /\ FILE \in Nat /\ FILE >= 1 /\ RX_FIFO \in Nat /\ RX_FIFO >= 1
  /\ SECTOR \in Nat \ {0} /\ PAGES \in Nat /\ PAGES >= 1
  /\ XMODEM_TIME_1SEC \in Nat /\ XMODEM_TIME_1SEC >= 1
  /\ TRIES \in Nat /\ TRIES >= 1 /\ MaxResends \in Nat
  /\ FILE + MaxResends < 2 * PAGES + 2
BY SizesAssumption

(* Tokens and sequences of them. *)
LEMMA TokenFacts ==
  /\ \A n \in 1 .. FILE : Packet(n) \in Seq(Tokens) /\ Len(Packet(n)) = 4
  /\ \A kind \in Control : << Ctl(kind) >> \in Seq(Tokens)
<1>1. ASSUME NEW n \in 0 .. FILE, NEW kind \in Control \cup {"blk", "data", "crc"}
      PROVE  Tok(kind, n) \in Tokens
  BY <1>1 DEF Tok, Tokens
<1>2. 0 \in 0 .. FILE /\ 1 .. FILE \subseteq 0 .. FILE
  BY SizesAssumption
<1>3. \A kind \in Control : Ctl(kind) \in Tokens
  BY <1>1, <1>2 DEF Ctl
<1>4. ASSUME NEW n \in 1 .. FILE
      PROVE  Packet(n) \in Seq(Tokens) /\ Len(Packet(n)) = 4
  <2>1. /\ Ctl("SOH") \in Tokens /\ Tok("blk", n) \in Tokens
        /\ Tok("data", n) \in Tokens /\ Tok("crc", n) \in Tokens
    BY <1>1, <1>2, <1>3, <1>4 DEF Control
  <2> QED
    BY <2>1 DEF Packet
<1> QED
  BY <1>3, <1>4

LEMMA TailFacts ==
  ASSUME NEW S, NEW q \in Seq(S), q # << >>
  PROVE  Tail(q) \in Seq(S) /\ Len(q) \in Nat /\ Len(Tail(q)) = Len(q) - 1 /\ Len(q) >= 1
BY HeadTailProperties, EmptySeq, LenProperties

LEMMA EmptyFacts ==
  /\ << >> \in Seq(Tokens) /\ << >> \in Seq({"C", "ACK"}) /\ << "C" >> \in Seq({"C", "ACK"})
  /\ Len(<< >>) = 0
BY EmptySeq

LEMMA Lengths ==
  ASSUME TypeOK
  PROVE  /\ Len(rx) \in Nat /\ Len(wire) \in Nat /\ Len(accepted) \in Nat
         /\ Len(SPI_rxbuf) \in Nat /\ Len(SPI_page) \in Nat
         /\ Consumed \in Nat /\ SentByHost \in Nat
<1>1. Consumed \in Nat /\ SentByHost \in Nat
  BY Sizes DEF TypeOK, Consumed, SentByHost, PacketRest
<1> QED
  BY <1>1, LenProperties DEF TypeOK

(* What is taken from the budget; an action that takes no more than it     *)
(* gives back keeps it.                                                    *)
Demand == 4 * Len(accepted) + Consumed + Len(rx) + Len(wire)

LEMMA BudgetKept ==
  ASSUME SafeInv, UNCHANGED resends, SentByHost' = SentByHost,
         Demand' \in Int, Demand' <= Demand
  PROVE  BudgetInv'
<1>1. /\ resends \in 0 .. MaxResends /\ Demand <= SentByHost + 4 * resends
      /\ SentByHost \in Nat /\ MaxResends \in Nat
  BY Lengths, Sizes DEF SafeInv, BudgetInv, Demand
<1>2. Demand \in Int
  BY Lengths DEF SafeInv, Demand
<1>3. resends' \in 0 .. MaxResends /\ Demand' <= SentByHost' + 4 * resends'
  BY <1>1, <1>2
<1> QED
  BY <1>3 DEF BudgetInv, Demand

LEMMA InitSafe == Init => SafeInv
<1> SUFFICES ASSUME Init PROVE SafeInv
  OBVIOUS
<1>1. 0 \in 0 .. FILE /\ 1 \in 1 .. FILE
  BY Sizes
<1>2. Tok("crc", 0) \in Tokens
  BY <1>1 DEF Tok, Tokens
<1>3. << Tok("crc", 0), Tok("crc", 0) >> \in Contents
  BY <1>2 DEF Contents
<1>4. mem \in [0 .. (PAGES - 1) -> Contents]
  BY <1>3 DEF Init
<1>5. flash \in [wip : BOOLEAN, wel : BOOLEAN, op : {"none", "erase", "program"},
                page : 0 .. PAGES, data : Contents]
  <2>1. Erased \in Contents /\ 0 \in 0 .. PAGES
    BY Sizes DEF Contents
  <2>2. flash = [wip |-> FALSE, wel |-> FALSE, op |-> "none", page |-> 0, data |-> Erased]
    BY DEF Init, Idle
  <2> QED
    BY <2>1, <2>2
<1>6. TypeOK
  <2>1. /\ XmodemMode \in BOOLEAN /\ XmodemState \in {"INIT", "S0", "S1"}
        /\ TimerCnt \in 0 .. XMODEM_TIME_1SEC /\ TryCounter \in 0 .. TRIES
        /\ bt_count \in 0 .. PacketRest /\ SPI_address \in 0 .. PAGES
        /\ pc = "loop" /\ host = "off" /\ block \in 1 .. FILE /\ ignored \in BOOLEAN
    BY <1>1, Sizes DEF Init, PacketRest
  <2>2. /\ SPI_rxbuf \in Seq(Tokens) /\ Len(SPI_rxbuf) <= PacketRest
        /\ SPI_page \in Seq(Tokens) /\ Len(SPI_page) <= 2
        /\ rx \in Seq(Tokens) /\ Len(rx) <= RX_FIFO
        /\ tx \in Seq({"C", "ACK"}) /\ wire \in Seq(Tokens) /\ accepted \in Seq(Tokens)
    BY Sizes, EmptyFacts DEF Init, PacketRest
  <2> QED
    BY <1>4, <1>5, <2>1, <2>2 DEF TypeOK
<1>7. BudgetInv /\ SessionInv
  BY <1>1, Sizes, EmptyFacts DEF Init, BudgetInv, SessionInv, SentByHost, Consumed
<1> QED
  BY <1>6, <1>7 DEF SafeInv

-----------------------------------------------------------------------------
(* The state machine. *)
LEMMA SafeXmodem_Init ==
  ASSUME SafeInv, Xmodem_Init
  PROVE  SafeInv'
<1> USE DEF packet, chip
<1>1. TypeOK'
  BY Sizes, EmptyFacts DEF SafeInv, TypeOK, Xmodem_Init
<1>2. BudgetInv'
  BY EmptyFacts DEF SafeInv, BudgetInv, Xmodem_Init, SentByHost, Consumed
<1>3. SessionInv'
  BY Sizes DEF SafeInv, SessionInv, TypeOK, Xmodem_Init, packet
<1> QED
  BY <1>1, <1>2, <1>3 DEF SafeInv

LEMMA SafeConsoleReads ==
  ASSUME SafeInv, ConsoleReads
  PROVE  SafeInv'
<1> USE DEF ConsoleReads, fsm, packet, page, hosts, chip
<1>1. TypeOK'
  BY Sizes, EmptyFacts DEF SafeInv, TypeOK
<1>2. BudgetInv'
  <2>1. Consumed' = Consumed /\ SentByHost' = SentByHost
    BY DEF Consumed, SentByHost
  <2>2. Demand' \in Int /\ Demand' <= Demand
    BY <2>1, Lengths, EmptyFacts DEF SafeInv, Demand
  <2> QED
    BY <2>1, <2>2, BudgetKept
<1>3. SessionInv'
  BY DEF SafeInv, SessionInv
<1> QED
  BY <1>1, <1>2, <1>3 DEF SafeInv

(* What is common to the calls of Xmodem_SPI. *)
LEMMA TimerFacts ==
  ASSUME TypeOK
  PROVE  CountDown(TimerCnt) \in 0 .. XMODEM_TIME_1SEC
BY Sizes DEF TypeOK, CountDown

LEMMA AnswerFacts ==
  ASSUME TypeOK
  PROVE  /\ Append(tx, "C") \in Seq({"C", "ACK"}) /\ Append(tx, "ACK") \in Seq({"C", "ACK"})
         /\ tx \o << "ACK", "ACK" >> \in Seq({"C", "ACK"})
<1>1. << "ACK", "ACK" >> \in Seq({"C", "ACK"})
  OBVIOUS
<1> QED
  BY <1>1, AppendProperties, ConcatProperties DEF TypeOK

LEMMA SafeInitRead ==
  ASSUME SafeInv, InitRead
  PROVE  SafeInv'
<1>1. /\ XmodemMode /\ pc = "loop" /\ XmodemState = "INIT" /\ rx # << >> /\ rx' = Tail(rx)
      /\ TimerCnt' = CountDown(TimerCnt)
      /\ \/ UNCHANGED << XmodemState, packet, SPI_page >>
         \/ StartPacket /\ SPI_page' = << >>
      /\ UNCHANGED << XmodemMode, TryCounter, SPI_address, pc, wire, losses, tx, hosts, chip,
                      accepted >>
  BY DEF InitRead, Call, ReadCode
<1>2. rx' \in Seq(Tokens) /\ Len(rx') = Len(rx) - 1
  BY <1>1, TailFacts DEF SafeInv, TypeOK
<1>3. TypeOK'
  <2>1. FsmType' /\ PacketType'
    <3>1. /\ XmodemMode' \in BOOLEAN /\ XmodemState' \in {"INIT", "S0", "S1"}
          /\ TryCounter' \in 0 .. TRIES
      BY <1>1 DEF SafeInv, TypeOK, StartPacket
    <3>2. TimerCnt' \in 0 .. XMODEM_TIME_1SEC
      BY <1>1, TimerFacts DEF SafeInv
    <3>3. PacketType'
      <4>1. CASE UNCHANGED packet
        BY <4>1, TypeParts DEF SafeInv, PacketType, packet
      <4>2. CASE StartPacket
        BY <4>2, EmptyFacts DEF StartPacket, PacketType, PacketRest
      <4> QED
        BY <1>1, <4>1, <4>2
    <3> QED
      BY <3>1, <3>2, <3>3 DEF FsmType
  <2>2. PageType' /\ LineType'
    <3>1. SPI_page' \in Seq(Tokens) /\ Len(SPI_page') <= 2
      <4>1. CASE SPI_page' = << >>
        BY <4>1, EmptyFacts
      <4> QED
        BY <1>1, <4>1 DEF SafeInv, TypeOK
    <3>2. Len(rx') <= RX_FIFO
      BY <1>2, Sizes, Lengths DEF SafeInv, TypeOK
    <3> QED
      BY <1>1, <1>2, <3>1, <3>2 DEF SafeInv, TypeOK, PageType, LineType
  <2>3. HostType' /\ ChipType'
    BY <1>1, TypeParts DEF SafeInv, HostType, FlashType, ChipType, hosts, chip
  <2> QED
    BY <2>1, <2>2, <2>3, TypeParts
<1>4. BudgetInv'
  <2>1. Consumed = 0 /\ Consumed' \in {0, 1} /\ SentByHost' = SentByHost
    BY <1>1 DEF Consumed, SentByHost, StartPacket, packet, hosts, PacketRest
  <2>2. Demand' \in Int /\ Demand' <= Demand
    BY <1>1, <1>2, <2>1, Lengths DEF SafeInv, Demand
  <2> QED
    BY <1>1, <2>1, <2>2, BudgetKept DEF hosts
<1>5. SessionInv'
  BY <1>1, EmptyFacts DEF SafeInv, SessionInv, StartPacket, packet, PacketRest
<1> QED
  BY <1>3, <1>4, <1>5 DEF SafeInv

LEMMA SafeInitWait ==
  ASSUME SafeInv, InitWait
  PROVE  SafeInv'
<1>1. /\ XmodemMode /\ pc = "loop" /\ XmodemState = "INIT"
      /\ UNCHANGED << XmodemState, packet, page, line, hosts, chip, accepted >>
  BY DEF InitWait, Call
<1>2. /\ TimerCnt' \in {0, CountDown(TimerCnt), XMODEM_TIME_1SEC}
      /\ \/ tx' = tx
         \/ tx' = Append(tx, "C")
      /\ XmodemMode' \in {XmodemMode, FALSE}
      /\ \/ TryCounter' = TryCounter
         \/ (TryCounter' = TryCounter - 1 /\ (XmodemMode' => TryCounter - 1 # 0))
  BY DEF InitWait
<1>3. tx' \in Seq({"C", "ACK"})
  BY <1>2, AnswerFacts DEF SafeInv, TypeOK
<1>4. TryCounter >= 1 /\ TryCounter \in 0 .. TRIES /\ TRIES \in Nat
  BY <1>1, Sizes DEF SafeInv, SessionInv, TypeOK
<1>5. TypeOK'
  <2>1. FsmType' /\ PacketType'
    <3>1. TimerCnt' \in 0 .. XMODEM_TIME_1SEC
      BY <1>2, TimerFacts, Sizes DEF SafeInv
    <3>2. TryCounter' \in 0 .. TRIES
      BY <1>2, <1>4
    <3> QED
      BY <1>1, <1>2, <3>1, <3>2 DEF SafeInv, TypeOK, FsmType, PacketType, packet
  <2>2. PageType' /\ LineType'
    BY <1>1, <1>3, TypeParts DEF SafeInv, PageType, LineType, page, line
  <2>3. HostType' /\ ChipType'
    BY <1>1, TypeParts DEF SafeInv, HostType, FlashType, ChipType, hosts, chip
  <2> QED
    BY <2>1, <2>2, <2>3, TypeParts
<1>6. BudgetInv'
  BY <1>1 DEF SafeInv, BudgetInv, SentByHost, Consumed, packet, line, hosts
<1>7. SessionInv'
  BY <1>1, <1>2, <1>4 DEF SafeInv, SessionInv, packet, page
<1> QED
  BY <1>5, <1>6, <1>7 DEF SafeInv

LEMMA TakenFacts ==
  ASSUME TypeOK
  PROVE  /\ Taken \in Seq(Tokens)
         /\ Len(Taken) = IF Len(rx) < bt_count THEN Len(rx) ELSE bt_count
<1>1. /\ rx \in Seq(Tokens) /\ Len(rx) \in Nat /\ bt_count \in Nat
      /\ \A i \in 1 .. Len(rx) : rx[i] \in Tokens
  BY Lengths, ElementOfSeq DEF TypeOK, PacketRest
<1> DEFINE n == IF Len(rx) < bt_count THEN Len(rx) ELSE bt_count
<1>2. n \in Nat /\ n <= Len(rx)
  BY <1>1
<1>3. \A i \in 1 .. n : rx[i] \in Tokens
  BY <1>1, <1>2
<1>4. SubSeq(rx, 1, n) \in Seq(Tokens) /\ Len(SubSeq(rx, 1, n)) = n
  BY <1>2, <1>3, SubSeqProperties, 1 \in Int, n \in Int
<1> QED
  BY <1>4 DEF Taken

(* The state machine in S0: how much of a packet is there. *)
LEMMA PartFacts ==
  ASSUME SafeInv, XmodemState = "S0"
  PROVE  /\ bt_count \in 1 .. PacketRest /\ Len(SPI_rxbuf) + bt_count = PacketRest
         /\ Len(SPI_rxbuf) \in Nat /\ Len(rx) \in Nat /\ Len(Taken) \in Nat
         /\ Taken \in Seq(Tokens) /\ SPI_rxbuf \in Seq(Tokens)
         /\ SPI_rxbuf \o Taken \in Seq(Tokens)
         /\ Len(SPI_rxbuf \o Taken) = Len(SPI_rxbuf) + Len(Taken)
<1>1. bt_count \in 0 .. PacketRest /\ SPI_rxbuf \in Seq(Tokens)
  BY DEF SafeInv, TypeOK
<1>2. bt_count >= 1 /\ Len(SPI_rxbuf) + bt_count = PacketRest
  BY DEF SafeInv, SessionInv
<1>3. bt_count \in 1 .. PacketRest
  BY <1>1, <1>2 DEF PacketRest
<1>4. Taken \in Seq(Tokens) /\ Len(Taken) \in Nat
  BY TakenFacts, LenProperties DEF SafeInv
<1>5. Len(SPI_rxbuf) \in Nat /\ Len(rx) \in Nat
  BY Lengths DEF SafeInv
<1> QED
  BY <1>1, <1>2, <1>3, <1>4, <1>5, ConcatProperties

LEMMA SafeS0Part ==
  ASSUME SafeInv, S0Part
  PROVE  SafeInv'
<1>1. /\ XmodemState = "S0" /\ Len(Taken) < bt_count
      /\ TimerCnt' = CountDown(TimerCnt)
      /\ SPI_rxbuf' = SPI_rxbuf \o Taken
      /\ bt_count' = bt_count - Len(Taken) /\ rx' = << >>
      /\ UNCHANGED << XmodemMode, XmodemState, TryCounter, page, wire, losses, tx, hosts, chip,
                      accepted >>
  BY DEF S0Part, Call
<1>2. /\ Taken \in Seq(Tokens) /\ Len(Taken) = Len(rx) /\ Len(rx) \in Nat
      /\ bt_count \in 1 .. PacketRest /\ Len(SPI_rxbuf) + bt_count = PacketRest
      /\ Len(SPI_rxbuf) \in Nat
  <2>1. Len(Taken) = IF Len(rx) < bt_count THEN Len(rx) ELSE bt_count
    BY TakenFacts DEF SafeInv
  <2> QED
    BY <1>1, <2>1, PartFacts DEF PacketRest
<1>3. /\ SPI_rxbuf' \in Seq(Tokens) /\ Len(SPI_rxbuf') = Len(SPI_rxbuf) + Len(rx)
      /\ bt_count' = bt_count - Len(rx) /\ bt_count' \in 1 .. PacketRest
  BY <1>1, <1>2, PartFacts DEF PacketRest
<1>4. TypeOK'
  <2>1. FsmType'
    BY <1>1, TimerFacts DEF SafeInv, TypeOK, FsmType
  <2>2. PacketType'
    BY <1>2, <1>3 DEF PacketType, PacketRest
  <2>3. PageType'
    BY <1>1, TypeParts DEF SafeInv, PageType, page
  <2>4. LineType'
    BY <1>1, EmptyFacts, Sizes DEF SafeInv, TypeOK, LineType
  <2>5. HostType' /\ ChipType'
    BY <1>1, TypeParts DEF SafeInv, HostType, FlashType, ChipType, hosts, chip
  <2> QED
    BY <2>1, <2>2, <2>3, <2>4, <2>5, TypeParts
<1>5. BudgetInv'
  <2>1. Consumed' = Consumed + Len(rx) /\ SentByHost' = SentByHost
    BY <1>1, <1>2, <1>3 DEF Consumed, SentByHost, hosts, PacketRest
  <2>2. Len(accepted) \in Nat /\ Len(rx) \in Nat /\ Len(wire) \in Nat /\ Consumed \in Nat
    BY Lengths DEF SafeInv
  <2>3. accepted' = accepted /\ Len(rx') = 0 /\ wire' = wire
    BY <1>1, EmptyFacts
  <2>4. Demand' \in Int /\ Demand' <= Demand
    BY <2>1, <2>2, <2>3 DEF Demand
  <2> QED
    BY <1>1, <2>1, <2>4, BudgetKept DEF hosts
<1>6. SessionInv'
  BY <1>1, <1>2, <1>3 DEF SafeInv, SessionInv, page, PacketRest
<1> QED
  BY <1>4, <1>5, <1>6 DEF SafeInv

(* The packet is whole, and there is room for its data. *)
LEMMA PacketFacts ==
  ASSUME SafeInv, S0Packet
  PROVE  /\ XmodemMode /\ XmodemState = "S0" /\ pc = "loop"
         /\ \E item \in Tokens :
              SPI_page' = Append(SPI_page, item) /\ accepted' = Append(accepted, item)
         /\ SPI_page' \in Seq(Tokens) /\ Len(SPI_page') = Len(SPI_page) + 1
         /\ accepted' \in Seq(Tokens) /\ Len(accepted') = Len(accepted) + 1
         /\ SPI_rxbuf' \in Seq(Tokens) /\ Len(SPI_rxbuf') = PacketRest
         /\ rx' \in Seq(Tokens) /\ Len(rx') = Len(rx) - bt_count
         /\ bt_count \in 1 .. PacketRest /\ Len(SPI_page) < 2
<1>1. XmodemMode /\ XmodemState = "S0" /\ pc = "loop" /\ Len(Taken) = bt_count
  BY DEF S0Packet, Call
<1>2. /\ Taken \in Seq(Tokens) /\ bt_count \in 1 .. PacketRest /\ bt_count <= Len(rx)
      /\ Len(SPI_rxbuf) + bt_count = PacketRest
      /\ SPI_rxbuf \in Seq(Tokens) /\ SPI_page \in Seq(Tokens) /\ accepted \in Seq(Tokens)
      /\ Len(SPI_page) < 2 /\ Len(SPI_rxbuf) \in Nat /\ Len(rx) \in Nat
      /\ rx \in Seq(Tokens)
  <2>1. Len(Taken) = IF Len(rx) < bt_count THEN Len(rx) ELSE bt_count
    BY TakenFacts DEF SafeInv
  <2>2. /\ SPI_page \in Seq(Tokens) /\ accepted \in Seq(Tokens) /\ rx \in Seq(Tokens)
        /\ Len(SPI_page) < 2
    BY <1>1 DEF SafeInv, TypeOK, SessionInv
  <2> QED
    BY <1>1, <2>1, <2>2, PartFacts DEF PacketRest
<1>3. /\ SPI_rxbuf \o Taken \in Seq(Tokens)
      /\ Len(SPI_rxbuf \o Taken) = PacketRest
  BY <1>1, <1>2, ConcatProperties DEF PacketRest
<1>4. (SPI_rxbuf \o Taken)[DataAt] \in Tokens
  BY <1>3, ElementOfSeq DEF PacketRest, DataAt
<1>5. /\ SPI_rxbuf' = SPI_rxbuf \o Taken
      /\ SPI_page' = Append(SPI_page, (SPI_rxbuf \o Taken)[DataAt])
      /\ accepted' = Append(accepted, (SPI_rxbuf \o Taken)[DataAt])
      /\ rx' = SubSeq(rx, bt_count + 1, Len(rx))
  BY DEF S0Packet
<1>6. /\ SPI_page' \in Seq(Tokens) /\ Len(SPI_page') = Len(SPI_page) + 1
      /\ accepted' \in Seq(Tokens) /\ Len(accepted') = Len(accepted) + 1
  BY <1>2, <1>4, <1>5, AppendProperties
<1>7. rx' \in Seq(Tokens) /\ Len(rx') = Len(rx) - bt_count
  <2>1. bt_count + 1 \in Int /\ Len(rx) \in Int
    BY <1>2
  <2>2. \A i \in (bt_count + 1) .. Len(rx) : rx[i] \in Tokens
    BY <1>2, ElementOfSeq DEF PacketRest
  <2>3. /\ SubSeq(rx, bt_count + 1, Len(rx)) \in Seq(Tokens)
        /\ Len(SubSeq(rx, bt_count + 1, Len(rx)))
             = IF bt_count + 1 <= Len(rx) THEN Len(rx) - (bt_count + 1) + 1 ELSE 0
    BY <2>1, <2>2, SubSeqProperties
  <2> QED
    BY <1>2, <1>5, <2>3 DEF PacketRest
<1> QED
  BY <1>1, <1>2, <1>3, <1>4, <1>5, <1>6, <1>7

LEMMA SafeS0Packet ==
  ASSUME SafeInv, S0Packet
  PROVE  SafeInv'
<1>1. /\ TimerCnt' = CountDown(TimerCnt) /\ bt_count' = 0
      /\ tx' = Append(tx, "ACK") /\ XmodemState' = "S1"
      /\ pc' = IF Len(SPI_page) + 1 = 2 THEN "ready" ELSE "loop"
      /\ UNCHANGED << XmodemMode, TryCounter, SPI_address, wire, losses, hosts, chip >>
  BY DEF S0Packet
<1>2. bt_count \in Nat /\ Len(SPI_page) \in Nat /\ Len(rx) \in Nat /\ Len(accepted) \in Nat
  BY PacketFacts, Lengths DEF SafeInv, PacketRest
<1>3. TypeOK'
  <2>1. FsmType'
    BY <1>1, TimerFacts DEF SafeInv, TypeOK, FsmType
  <2>2. PacketType'
    <3>1. SPI_rxbuf' \in Seq(Tokens) /\ Len(SPI_rxbuf') = PacketRest
      BY PacketFacts
    <3> QED
      BY <1>1, <3>1 DEF PacketType, PacketRest
  <2>3. PageType'
    <3>1. Len(SPI_page') <= 2
      BY <1>2, PacketFacts
    <3> QED
      BY <1>1, <3>1, PacketFacts DEF SafeInv, TypeOK, PageType
  <2>4. LineType'
    <3>1. Len(rx') <= RX_FIFO
      BY <1>2, PacketFacts, Sizes DEF SafeInv, TypeOK
    <3> QED
      BY <1>1, <3>1, PacketFacts, AnswerFacts DEF SafeInv, TypeOK, LineType
  <2>5. HostType' /\ ChipType'
    BY <1>1, TypeParts DEF SafeInv, HostType, FlashType, ChipType, hosts, chip
  <2> QED
    BY <2>1, <2>2, <2>3, <2>4, <2>5, TypeParts
<1>4. BudgetInv'
  <2>1. Consumed' = 0 /\ Consumed = 4 - bt_count /\ SentByHost' = SentByHost
    BY <1>1, PacketFacts DEF Consumed, SentByHost, hosts, PacketRest
  <2>2. Len(accepted') = Len(accepted) + 1 /\ Len(rx') = Len(rx) - bt_count
    BY PacketFacts
  <2>3. Demand' \in Int /\ Demand' <= Demand
    BY <1>1, <1>2, <2>1, <2>2, Lengths DEF SafeInv, Demand
  <2> QED
    BY <1>1, <2>1, <2>3, BudgetKept DEF hosts
<1>5. SessionInv'
  <2>1. Len(accepted) = 2 * SPI_address + Len(SPI_page) /\ XmodemMode /\ SPI_address \in Nat
    BY PacketFacts DEF SafeInv, SessionInv, TypeOK
  <2>2. Len(accepted') = 2 * SPI_address' + Len(SPI_page')
    <3>1. Len(accepted') = Len(accepted) + 1 /\ Len(SPI_page') = Len(SPI_page) + 1
      BY PacketFacts
    <3> QED
      BY <1>1, <1>2, <2>1, <3>1
  <2>3. IF pc' = "loop" THEN Len(SPI_page') < 2 ELSE Len(SPI_page') = 2
    BY <1>1, <1>2, PacketFacts
  <2> QED
    BY <1>1, <2>1, <2>2, <2>3 DEF SessionInv
<1> QED
  BY <1>3, <1>4, <1>5 DEF SafeInv

LEMMA SafeS1Read ==
  ASSUME SafeInv, S1Read
  PROVE  SafeInv'
<1>1. /\ XmodemMode /\ pc = "loop" /\ XmodemState = "S1" /\ rx # << >> /\ rx' = Tail(rx)
      /\ TimerCnt' = CountDown(TimerCnt)
      /\ UNCHANGED << TryCounter, page, wire, losses, hosts, chip, accepted >>
  BY DEF S1Read, Call, ReadCode
<1>2. /\ \/ StartPacket /\ UNCHANGED XmodemMode
         \/ UNCHANGED << XmodemMode, XmodemState, packet >>
         \/ XmodemState' = "INIT" /\ XmodemMode' = FALSE /\ UNCHANGED packet
      /\ \/ UNCHANGED tx
         \/ tx' = Append(tx, "ACK")
         \/ tx' = tx \o << "ACK", "ACK" >>
  BY DEF S1Read, Control
<1>3. rx' \in Seq(Tokens) /\ Len(rx') = Len(rx) - 1
  BY <1>1, TailFacts DEF SafeInv, TypeOK
<1>4. tx' \in Seq({"C", "ACK"})
  BY <1>2, AnswerFacts DEF SafeInv, TypeOK
<1>5. TypeOK'
  <2>1. FsmType'
    BY <1>1, <1>2, TimerFacts DEF SafeInv, TypeOK, FsmType, StartPacket
  <2>2. PacketType'
    <3>1. CASE UNCHANGED packet
      BY <3>1, TypeParts DEF SafeInv, PacketType, packet
    <3>2. CASE StartPacket
      BY <3>2, EmptyFacts DEF StartPacket, PacketType, PacketRest
    <3> QED
      BY <1>2, <3>1, <3>2
  <2>3. PageType'
    BY <1>1, TypeParts DEF SafeInv, PageType, page
  <2>4. LineType'
    <3>1. Len(rx') <= RX_FIFO
      BY <1>3, Sizes, Lengths DEF SafeInv, TypeOK
    <3> QED
      BY <1>1, <1>3, <1>4, <3>1 DEF SafeInv, TypeOK, LineType
  <2>5. HostType' /\ ChipType'
    BY <1>1, TypeParts DEF SafeInv, HostType, FlashType, ChipType, hosts, chip
  <2> QED
    BY <2>1, <2>2, <2>3, <2>4, <2>5, TypeParts
<1>6. BudgetInv'
  <2>1. Consumed = 0 /\ Consumed' \in {0, 1} /\ SentByHost' = SentByHost
    <3>1. XmodemState = "S1" /\ (XmodemState' = "S0" => bt_count' = PacketRest)
      BY <1>1, <1>2 DEF StartPacket
    <3> QED
      BY <1>1, <3>1 DEF Consumed, SentByHost, hosts, PacketRest
  <2>2. Demand' \in Int /\ Demand' <= Demand
    BY <1>1, <1>3, <2>1, Lengths DEF SafeInv, Demand
  <2> QED
    BY <1>1, <2>1, <2>2, BudgetKept DEF hosts
<1>7. SessionInv'
  <2>1. XmodemState' = "S0" => bt_count' = PacketRest /\ SPI_rxbuf' = << >>
    BY <1>1, <1>2 DEF StartPacket
  <2>2. XmodemState' # "INIT" => XmodemMode'
    BY <1>1, <1>2 DEF StartPacket
  <2>3. XmodemState' = "INIT" => ~XmodemMode'
    BY <1>1, <1>2 DEF StartPacket
  <2> QED
    BY <1>1, <2>1, <2>2, <2>3, EmptyFacts DEF SafeInv, SessionInv, page, PacketRest
<1> QED
  BY <1>5, <1>6, <1>7 DEF SafeInv

LEMMA SafeS1Wait ==
  ASSUME SafeInv, S1Wait
  PROVE  SafeInv'
<1>1. /\ TimerCnt' = CountDown(TimerCnt)
      /\ UNCHANGED << XmodemMode, XmodemState, TryCounter, packet, page, line, tx, hosts, chip,
                      accepted >>
  BY DEF S1Wait
<1>2. TypeOK'
  <2>1. FsmType'
    BY <1>1, TimerFacts DEF SafeInv, TypeOK, FsmType
  <2>2. PacketType' /\ PageType' /\ LineType'
    BY <1>1, TypeParts DEF SafeInv, PacketType, PageType, LineType, packet, page, line
  <2>3. HostType' /\ ChipType'
    BY <1>1, TypeParts DEF SafeInv, HostType, FlashType, ChipType, hosts, chip
  <2> QED
    BY <2>1, <2>2, <2>3, TypeParts
<1>3. BudgetInv' /\ SessionInv'
  BY <1>1 DEF SafeInv, BudgetInv, SessionInv, SentByHost, Consumed, packet, page, line, hosts
<1> QED
  BY <1>2, <1>3 DEF SafeInv

-----------------------------------------------------------------------------
(* The page writer and the chip. *)
LEMMA CommandType ==
  ASSUME TypeOK,
         \/ UNCHANGED chip
         \/ WriteEnable
         \/ \E op \in {"erase", "program"} : \E data \in Contents : Start(op, SPI_address, data)
  PROVE  ChipType'
<1>1. /\ FlashType /\ mem \in [0 .. (PAGES - 1) -> Contents] /\ ignored \in BOOLEAN
      /\ SPI_address \in 0 .. PAGES
  BY DEF TypeOK, FlashType
<1>2. FlashType'
  <2>1. CASE UNCHANGED flash
    BY <1>1, <2>1 DEF FlashType
  <2>2. CASE flash' = [flash EXCEPT !.wel = TRUE]
    BY <1>1, <2>2 DEF FlashType
  <2>3. ASSUME NEW op \in {"erase", "program"}, NEW data \in Contents,
               flash' = [wip |-> TRUE, wel |-> TRUE, op |-> op, page |-> SPI_address,
                         data |-> data]
        PROVE  FlashType'
    BY <1>1, <2>3 DEF FlashType
  <2> QED
    BY <2>1, <2>2, <2>3 DEF chip, WriteEnable, Start
<1>3. UNCHANGED mem /\ ignored' \in {ignored, TRUE}
  BY DEF chip, WriteEnable, Start
<1> QED
  BY <1>1, <1>2, <1>3 DEF ChipType

(* A full page is one the chip can hold, and not a spoilt one. *)
LEMMA PageContents ==
  ASSUME TypeOK, Len(SPI_page) = 2
  PROVE  SPI_page \in [1 .. 2 -> Tokens] /\ SPI_page \in Contents
<1>1. SPI_page \in [1 .. Len(SPI_page) -> Tokens]
  BY LenProperties DEF TypeOK
<1> QED
  BY <1>1 DEF Contents

LEMMA SafePageStep ==
  ASSUME SafeInv, ChipType', PageRest, UNCHANGED << SPI_page, SPI_address >>,
         pc # "loop", pc' \in {"ready", "wren_e", "erase", "erased", "wren_p", "program"}
  PROVE  SafeInv'
<1>1. TypeOK'
  <2>1. FsmType' /\ PacketType' /\ LineType' /\ HostType'
    BY TypeParts
       DEF SafeInv, PageRest, FsmType, PacketType, LineType, HostType, fsm, packet, line, hosts
  <2>2. PageType'
    BY TypeParts DEF SafeInv, PageRest, PageType
  <2> QED
    BY <2>1, <2>2, TypeParts
<1>2. BudgetInv'
  BY DEF SafeInv, PageRest, BudgetInv, SentByHost, Consumed, fsm, packet, line, hosts
<1>3. SessionInv'
  BY DEF SafeInv, PageRest, SessionInv, fsm, packet
<1> QED
  BY <1>1, <1>2, <1>3 DEF SafeInv

LEMMA SafeStatusReady ==
  ASSUME SafeInv, StatusReady
  PROVE  SafeInv'
<1>1. ChipType' /\ PageRest /\ UNCHANGED << SPI_page, SPI_address >>
  BY CommandType DEF SafeInv, StatusReady
<1>2. pc = "ready" /\ pc' \in {"wren_e", "wren_p"}
  BY DEF StatusReady, PageStep
<1> QED
  BY <1>1, <1>2, SafePageStep

LEMMA SafeEraseEnable ==
  ASSUME SafeInv, EraseEnable
  PROVE  SafeInv'
<1>1. ChipType' /\ PageRest /\ UNCHANGED << SPI_page, SPI_address >>
  BY CommandType DEF SafeInv, EraseEnable
<1>2. pc = "wren_e" /\ pc' = "erase"
  BY DEF EraseEnable, PageStep
<1> QED
  BY <1>1, <1>2, SafePageStep

LEMMA SafeSectorErase ==
  ASSUME SafeInv, Flash_SectorErase
  PROVE  SafeInv'
<1>1. Erased \in Contents
  BY DEF Contents
<1>2. ChipType' /\ PageRest /\ UNCHANGED << SPI_page, SPI_address >>
  BY <1>1, CommandType DEF SafeInv, Flash_SectorErase
<1>3. pc = "erase" /\ pc' = "erased"
  BY DEF Flash_SectorErase, PageStep
<1> QED
  BY <1>2, <1>3, SafePageStep

LEMMA SafeStatusErased ==
  ASSUME SafeInv, StatusErased
  PROVE  SafeInv'
<1>1. ChipType' /\ PageRest /\ UNCHANGED << SPI_page, SPI_address >>
  BY CommandType DEF SafeInv, StatusErased
<1>2. pc = "erased" /\ pc' = "wren_p"
  BY DEF StatusErased, PageStep
<1> QED
  BY <1>1, <1>2, SafePageStep

LEMMA SafeProgramEnable ==
  ASSUME SafeInv, ProgramEnable
  PROVE  SafeInv'
<1>1. ChipType' /\ PageRest /\ UNCHANGED << SPI_page, SPI_address >>
  BY CommandType DEF SafeInv, ProgramEnable
<1>2. pc = "wren_p" /\ pc' = "program"
  BY DEF ProgramEnable, PageStep
<1> QED
  BY <1>1, <1>2, SafePageStep

(* What the host can have sent does not fill more than the chip: this is   *)
(* where the size of the file matters.                                     *)
LEMMA PageFits ==
  ASSUME SafeInv, pc # "loop"
  PROVE  SPI_address \in 0 .. (PAGES - 1)
<1>1. Len(accepted) = 2 * SPI_address + 2 /\ SPI_address \in Nat /\ Consumed = 0
  <2>1. XmodemState = "S1" /\ Len(SPI_page) = 2
    BY DEF SafeInv, SessionInv
  <2> QED
    BY <2>1, Sizes DEF SafeInv, SessionInv, TypeOK, Consumed
<1>2. SentByHost <= 4 * FILE + 2 /\ SentByHost \in Nat
  BY Sizes DEF SafeInv, TypeOK, SentByHost
<1>3. /\ 4 * Len(accepted) + Consumed + Len(rx) + Len(wire) <= SentByHost + 4 * resends
      /\ resends \in Nat /\ resends <= MaxResends
  BY Sizes DEF SafeInv, BudgetInv
<1>4. 4 * Len(accepted) <= 4 * FILE + 2 + 4 * MaxResends
  BY <1>1, <1>2, <1>3, Sizes, Lengths DEF SafeInv
<1> QED
  BY <1>1, <1>4, Sizes

LEMMA SafeProgram ==
  ASSUME SafeInv, Program
  PROVE  SafeInv'
<1>1. /\ pc = "program" /\ pc' = "loop" /\ PageRest
      /\ Start("program", SPI_address, SPI_page)
      /\ SPI_address' = SPI_address + 1 /\ SPI_page' = << >>
  BY DEF Program, PageStep
<1>2. SPI_page \in Contents /\ Len(SPI_page) = 2 /\ SPI_address \in 0 .. (PAGES - 1)
  BY <1>1, PageContents, PageFits DEF SafeInv, SessionInv
<1>3. TypeOK'
  <2>1. FsmType' /\ PacketType' /\ LineType' /\ HostType'
    BY <1>1, TypeParts
       DEF SafeInv, PageRest, FsmType, PacketType, LineType, HostType, fsm, packet, line, hosts
  <2>2. PageType'
    BY <1>1, <1>2, Sizes, EmptyFacts DEF SafeInv, TypeOK, PageRest, PageType
  <2>3. ChipType'
    BY <1>1, <1>2, CommandType DEF SafeInv
  <2> QED
    BY <2>1, <2>2, <2>3, TypeParts
<1>4. BudgetInv'
  BY <1>1 DEF SafeInv, PageRest, BudgetInv, SentByHost, Consumed, fsm, packet, line, hosts
<1>5. SessionInv'
  <2>1. XmodemState = "S1" /\ Len(accepted) = 2 * SPI_address + 2
    BY <1>1, <1>2 DEF SafeInv, SessionInv
  <2>2. Len(accepted') = 2 * SPI_address' + Len(SPI_page') /\ Len(SPI_page') < 2
    BY <1>1, <1>2, <2>1, EmptyFacts DEF PageRest
  <2> QED
    BY <1>1, <2>1, <2>2 DEF SafeInv, SessionInv, PageRest, fsm, packet
<1> QED
  BY <1>3, <1>4, <1>5 DEF SafeInv

(* FlashDone needs that a busy chip is at something: ChipInv. *)
LEMMA SafeFlashDone ==
  ASSUME SafeInv, ChipInv, FlashDone
  PROVE  SafeInv'
<1>1. /\ UNCHANGED << fsm, packet, page, line, tx, hosts, ignored, accepted >>
      /\ flash' = Idle /\ flash.op \in {"erase", "program"}
  BY DEF FlashDone, ChipInv
<1>2. TypeOK'
  <2>1. FsmType' /\ PacketType' /\ LineType' /\ HostType'
    BY <1>1, TypeParts
       DEF SafeInv, FsmType, PacketType, LineType, HostType, fsm, packet, line, hosts
  <2>2. PageType'
    BY <1>1, TypeParts DEF SafeInv, PageType, page
  <2>3. FlashType'
    <3>1. Erased \in Contents /\ 0 \in 0 .. PAGES
      BY Sizes DEF Contents
    <3> QED
      BY <1>1, <3>1 DEF FlashType, Idle
  <2>4. mem' \in [0 .. (PAGES - 1) -> Contents]
    <3>1. /\ mem \in [0 .. (PAGES - 1) -> Contents] /\ flash.data \in Contents
          /\ Erased \in Contents /\ Spoilt \in Contents
      BY DEF SafeInv, TypeOK, Contents
    <3>2. CASE flash.op = "erase"
      <4>1. mem' = [p \in DOMAIN mem |->
                      IF SectorOf(p) = SectorOf(flash.page) THEN Erased ELSE mem[p]]
        BY <3>2 DEF FlashDone
      <4> QED
        BY <3>1, <4>1
    <3>3. CASE flash.op = "program"
      <4>1. mem' = [mem EXCEPT ![flash.page] =
                      IF mem[flash.page] = Erased THEN flash.data ELSE Spoilt]
        BY <3>3 DEF FlashDone
      <4> QED
        BY <3>1, <4>1
    <3> QED
      BY <1>1, <3>2, <3>3
  <2> QED
    BY <1>1, <2>1, <2>2, <2>3, <2>4, TypeParts DEF SafeInv, ChipType
<1>3. BudgetInv' /\ SessionInv'
  BY <1>1 DEF SafeInv, BudgetInv, SessionInv, SentByHost, Consumed, fsm, packet, page, line, hosts
<1> QED
  BY <1>2, <1>3 DEF SafeInv

-----------------------------------------------------------------------------
(* The line and the host. *)
LEMMA SafeOutside ==
  ASSUME SafeInv, FwRest, LineType', HostType', BudgetInv'
  PROVE  SafeInv'
<1>1. FsmType' /\ PacketType' /\ PageType' /\ ChipType'
  BY TypeParts
     DEF SafeInv, FwRest, FsmType, PacketType, PageType, FlashType, ChipType, fsm, packet, page,
         chip
<1>2. SessionInv'
  BY DEF SafeInv, FwRest, SessionInv, fsm, packet, page
<1> QED
  BY <1>1, <1>2, TypeParts DEF SafeInv

LEMMA SentIsNat ==
  ASSUME HostType'
  PROVE  SentByHost' \in Nat
<1>1. block' \in Nat /\ FILE \in Nat
  BY Sizes DEF HostType
<1>2. SentByHost' = IF host' \in {"off", "waitC"} THEN 0
                    ELSE IF host' = "sent" THEN 4 * block'
                    ELSE IF host' = "eot" THEN 4 * FILE + 1
                    ELSE 4 * FILE + 2
  BY DEF SentByHost
<1>3. \A b \in Nat : 4 * b \in Nat /\ 4 * b + 1 \in Nat /\ 4 * b + 2 \in Nat
  OBVIOUS
<1>4. 0 \in Nat /\ 4 * block' \in Nat /\ 4 * FILE + 1 \in Nat /\ 4 * FILE + 2 \in Nat
  BY <1>1, <1>3, Zenon
<1> QED
  BY <1>2, <1>4, Zenon

(* The host takes an answer and sends no more than its new state allows. *)
LEMMA SafeHost ==
  ASSUME SafeInv, FwRest, UNCHANGED << rx, resends >>, tx' \in Seq({"C", "ACK"}), HostType',
         NEW toks \in Seq(Tokens), wire' = wire \o toks,
         SentByHost + Len(toks) <= SentByHost'
  PROVE  SafeInv'
<1>1. /\ wire' \in Seq(Tokens) /\ Len(wire') = Len(wire) + Len(toks) /\ Len(toks) \in Nat
  BY ConcatProperties, LenProperties DEF SafeInv, TypeOK
<1>2. LineType'
  BY <1>1 DEF SafeInv, TypeOK, LineType
<1>3. SentByHost' \in Nat
  BY SentIsNat
<1>4. Consumed' = Consumed
  BY DEF FwRest, Consumed, fsm, packet
<1>5. BudgetInv'
  <2>1. /\ 4 * Len(accepted) + Consumed + Len(rx) + Len(wire) <= SentByHost + 4 * resends
        /\ resends \in 0 .. MaxResends
    BY DEF SafeInv, BudgetInv
  <2>2. accepted' = accepted /\ rx' = rx /\ resends' = resends
    BY DEF FwRest
  <2>3. /\ Len(accepted) \in Nat /\ Consumed \in Nat /\ Len(rx) \in Nat /\ Len(wire) \in Nat
        /\ SentByHost \in Nat /\ resends \in Nat
    BY <2>1, Lengths, Sizes DEF SafeInv
  <2>4. 4 * Len(accepted) + Consumed + Len(rx) + Len(wire) + Len(toks)
          <= SentByHost' + 4 * resends
    BY <1>1, <1>3, <2>1, <2>3
  <2>5. 4 * Len(accepted) + Consumed + Len(rx) + Len(wire') <= SentByHost' + 4 * resends
    BY <1>1, <2>3, <2>4
  <2> QED
    BY <1>4, <2>1, <2>2, <2>5 DEF BudgetInv
<1> QED
  BY <1>2, <1>5, SafeOutside

LEMMA SafeArrive ==
  ASSUME SafeInv, Arrive \/ Lose
  PROVE  SafeInv'
<1>1. /\ wire # << >> /\ wire' = Tail(wire) /\ FwRest /\ UNCHANGED << tx, hosts >>
      /\ rx' = rx \/ (rx' = Append(rx, Head(wire)) /\ Len(rx) < RX_FIFO)
  BY DEF Arrive, Lose
<1>2. /\ wire' \in Seq(Tokens) /\ Len(wire') = Len(wire) - 1 /\ Head(wire) \in Tokens
  BY <1>1, HeadTailProperties DEF SafeInv, TypeOK
<1>3. /\ rx' \in Seq(Tokens) /\ Len(rx') \in {Len(rx), Len(rx) + 1} /\ Len(rx') <= RX_FIFO
  <2>1. CASE rx' = rx
    BY <2>1 DEF SafeInv, TypeOK
  <2>2. CASE rx' = Append(rx, Head(wire)) /\ Len(rx) < RX_FIFO
    <3>1. rx' \in Seq(Tokens) /\ Len(rx') = Len(rx) + 1
      BY <1>2, <2>2, AppendProperties DEF SafeInv, TypeOK
    <3> QED
      BY <2>2, <3>1, Sizes, Lengths DEF SafeInv
  <2> QED
    BY <1>1, <2>1, <2>2
<1>4. LineType' /\ HostType'
  BY <1>1, <1>2, <1>3 DEF SafeInv, TypeOK, LineType, HostType, hosts
<1>5. BudgetInv'
  <2>1. Consumed' = Consumed /\ SentByHost' = SentByHost
    BY <1>1 DEF FwRest, Consumed, SentByHost, fsm, packet, hosts
  <2>2. accepted' = accepted /\ resends' = resends
    BY <1>1 DEF FwRest, hosts
  <2>3. Len(accepted) \in Nat /\ Len(rx) \in Nat /\ Len(wire) \in Nat /\ Consumed \in Nat
    BY Lengths DEF SafeInv
  <2>4. Len(rx') \in {Len(rx), Len(rx) + 1} /\ Len(wire') = Len(wire) - 1
    BY <1>2, <1>3
  <2>5. Demand' \in Int /\ Demand' <= Demand
    BY <2>1, <2>2, <2>3, <2>4 DEF Demand
  <2> QED
    BY <2>1, <2>2, <2>5, BudgetKept
<1> QED
  BY <1>1, <1>4, <1>5, SafeOutside

LEMMA SafeHostSkip ==
  ASSUME SafeInv, HostSkip
  PROVE  SafeInv'
<1>1. /\ tx # << >> /\ tx' = Tail(tx) /\ FwRest
      /\ UNCHANGED << wire, host, block, rx, losses, resends >>
  BY DEF HostSkip, HostRest
<1>2. tx' \in Seq({"C", "ACK"})
  BY <1>1, TailFacts DEF SafeInv, TypeOK
<1>3. LineType' /\ HostType'
  BY <1>1, <1>2 DEF SafeInv, TypeOK, LineType, HostType
<1>4. BudgetInv'
  BY <1>1 DEF SafeInv, BudgetInv, SentByHost, Consumed, FwRest, fsm, packet
<1> QED
  BY <1>1, <1>3, <1>4, SafeOutside

LEMMA SafeHostStart ==
  ASSUME SafeInv, HostStart
  PROVE  SafeInv'
<1>1. /\ host = "waitC" /\ host' = "sent" /\ block' = block /\ block \in 1 .. FILE
      /\ tx # << >> /\ tx' = Tail(tx) /\ FwRest /\ UNCHANGED << rx, resends >>
      /\ wire' = wire \o Packet(1)
  BY DEF HostStart, HostRest, Send, SafeInv, TypeOK
<1>2. tx' \in Seq({"C", "ACK"})
  BY <1>1, TailFacts DEF SafeInv, TypeOK
<1>3. Packet(1) \in Seq(Tokens) /\ Len(Packet(1)) = 4
  BY TokenFacts, Sizes
<1>4. HostType' /\ SentByHost = 0 /\ SentByHost' = 4 * block
  BY <1>1 DEF HostType, SentByHost
<1>5. SentByHost + Len(Packet(1)) <= SentByHost'
  <2>1. SentByHost + 4 <= SentByHost'
    BY <1>1, <1>4, Sizes
  <2> QED
    BY <1>3, <2>1
<1> QED
  BY <1>1, <1>2, <1>3, <1>4, <1>5, SafeHost

LEMMA SafeHostNext ==
  ASSUME SafeInv, HostNext
  PROVE  SafeInv'
<1>1. /\ host = "sent" /\ block \in 1 .. FILE /\ FILE \in Nat
      /\ tx # << >> /\ tx' = Tail(tx) /\ FwRest /\ UNCHANGED << rx, resends >>
  BY Sizes DEF HostNext, HostRest, SafeInv, TypeOK
<1>2. tx' \in Seq({"C", "ACK"})
  BY <1>1, TailFacts DEF SafeInv, TypeOK
<1>3. SentByHost = 4 * block
  BY <1>1 DEF SentByHost
<1>4. CASE block < FILE
  <2>1. host' = "sent" /\ block' = block + 1 /\ wire' = wire \o Packet(block + 1)
    BY <1>1, <1>4 DEF HostNext, Send
  <2>2. block + 1 \in 1 .. FILE
    BY <1>1, <1>4
  <2>3. Packet(block + 1) \in Seq(Tokens) /\ Len(Packet(block + 1)) = 4
    BY <2>2, TokenFacts
  <2>4. HostType' /\ SentByHost' = 4 * (block + 1)
    BY <2>1, <2>2 DEF HostType, SentByHost
  <2>5. SentByHost + Len(Packet(block + 1)) <= SentByHost'
    <3>1. SentByHost + 4 <= SentByHost'
      BY <1>1, <1>3, <2>4
    <3> QED
      BY <2>3, <3>1
  <2> QED
    BY <1>1, <1>2, <2>1, <2>3, <2>4, <2>5, SafeHost
<1>5. CASE ~(block < FILE)
  <2>1. host' = "eot" /\ block' = block /\ wire' = wire \o << Ctl("EOT") >>
    BY <1>5 DEF HostNext, Send
  <2>2. << Ctl("EOT") >> \in Seq(Tokens) /\ Len(<< Ctl("EOT") >>) = 1
    BY TokenFacts DEF Control
  <2>3. HostType' /\ SentByHost' = 4 * FILE + 1
    BY <1>1, <2>1 DEF HostType, SentByHost
  <2>4. SentByHost + Len(<< Ctl("EOT") >>) <= SentByHost'
    <3>1. SentByHost + 1 <= SentByHost'
      BY <1>1, <1>3, <1>5, <2>3
    <3> QED
      BY <2>2, <3>1
  <2> QED
    BY <1>1, <1>2, <2>1, <2>2, <2>3, <2>4, SafeHost
<1> QED
  BY <1>4, <1>5

LEMMA SafeHostEnd ==
  ASSUME SafeInv, HostEnd
  PROVE  SafeInv'
<1>1. /\ host = "eot" /\ host' = "done" /\ block' = block /\ block \in 1 .. FILE /\ FILE \in Nat
      /\ tx # << >> /\ tx' = Tail(tx) /\ FwRest /\ UNCHANGED << rx, resends >>
  BY Sizes DEF HostEnd, HostRest, SafeInv, TypeOK
<1>2. tx' \in Seq({"C", "ACK"})
  BY <1>1, TailFacts DEF SafeInv, TypeOK
<1>3. PICK toks \in {<< Ctl("ETB") >>, << >>} : wire' = wire \o toks
  BY DEF HostEnd, Send
<1>4. toks \in Seq(Tokens) /\ Len(toks) \in {0, 1}
  BY <1>3, TokenFacts, EmptyFacts DEF Control
<1>5. HostType' /\ SentByHost = 4 * FILE + 1 /\ SentByHost' = 4 * FILE + 2
  BY <1>1 DEF HostType, SentByHost
<1>6. SentByHost + Len(toks) <= SentByHost'
  <2>1. SentByHost + 0 <= SentByHost' /\ SentByHost + 1 <= SentByHost'
    BY <1>1, <1>5
  <2> QED
    BY <1>4, <2>1
<1> QED
  BY <1>1, <1>2, <1>3, <1>4, <1>5, <1>6, SafeHost

LEMMA SafeHostCancel ==
  ASSUME SafeInv, HostCancel
  PROVE  SafeInv'
<1>1. /\ host \in {"sent", "eot"} /\ host' = "cancelled" /\ block' = block /\ block \in 1 .. FILE
      /\ FILE \in Nat /\ FwRest /\ UNCHANGED << rx, resends, tx >>
      /\ wire' = wire \o << Ctl("CAN") >>
  BY Sizes DEF HostCancel, HostRest, Send, SafeInv, TypeOK
<1>2. tx' \in Seq({"C", "ACK"})
  BY <1>1 DEF SafeInv, TypeOK
<1>3. << Ctl("CAN") >> \in Seq(Tokens) /\ Len(<< Ctl("CAN") >>) = 1
  BY TokenFacts DEF Control
<1>4. HostType' /\ SentByHost <= 4 * FILE + 1 /\ SentByHost' = 4 * FILE + 2 /\ SentByHost \in Nat
  BY <1>1 DEF HostType, SentByHost
<1>5. SentByHost + Len(<< Ctl("CAN") >>) <= SentByHost'
  <2>1. SentByHost + 1 <= SentByHost'
    BY <1>1, <1>4
  <2> QED
    BY <1>3, <2>1
<1> QED
  BY <1>1, <1>2, <1>3, <1>4, <1>5, SafeHost

LEMMA SafeHostResend ==
  ASSUME SafeInv, HostResend
  PROVE  SafeInv'
<1>1. /\ resends < MaxResends /\ resends' = resends + 1 /\ FwRest
      /\ wire' = wire \o Packet(block) /\ block \in 1 .. FILE
      /\ UNCHANGED << rx, tx, host, block >>
  BY DEF HostResend, Send, SafeInv, TypeOK
<1>2. Packet(block) \in Seq(Tokens) /\ Len(Packet(block)) = 4
  BY <1>1, TokenFacts
<1>3. wire' \in Seq(Tokens) /\ Len(wire') = Len(wire) + 4
  <2>1. wire \in Seq(Tokens)
    BY DEF SafeInv, TypeOK
  <2>2. /\ wire \o Packet(block) \in Seq(Tokens)
        /\ Len(wire \o Packet(block)) = Len(wire) + Len(Packet(block))
    BY <1>2, <2>1, ConcatProperties
  <2> QED
    BY <1>1, <1>2, <2>2
<1>4. LineType' /\ HostType'
  BY <1>1, <1>3 DEF SafeInv, TypeOK, LineType, HostType
<1>5. BudgetInv'
  <2>1. Consumed' = Consumed /\ SentByHost' = SentByHost
    BY <1>1 DEF FwRest, Consumed, SentByHost, fsm, packet
  <2>2. accepted' = accepted /\ rx' = rx /\ resends \in Nat
    BY <1>1 DEF FwRest, SafeInv, BudgetInv
  <2>3. /\ Len(accepted) \in Nat /\ Consumed \in Nat /\ SentByHost \in Nat
        /\ Len(rx) \in Nat /\ Len(wire) \in Nat /\ MaxResends \in Nat
    BY Lengths, Sizes DEF SafeInv
  <2>4. 4 * Len(accepted) + Consumed + Len(rx) + Len(wire) <= SentByHost + 4 * resends
    BY DEF SafeInv, BudgetInv
  <2>5. resends' \in 0 .. MaxResends
    BY <1>1, <2>2, <2>3
  <2>6. 4 * resends' = 4 * resends + 4
    BY <1>1, <2>2
  <2>7. /\ Len(accepted') = Len(accepted) /\ Len(rx') = Len(rx)
        /\ Consumed' = Consumed /\ SentByHost' = SentByHost
    BY <2>1, <2>2
  <2>8. /\ 4 * Len(accepted) + Consumed + Len(rx) + (Len(wire) + 4)
           <= SentByHost + (4 * resends + 4)
    BY <2>2, <2>3, <2>4
  <2>9. /\ 4 * Len(accepted') + Consumed' + Len(rx') + Len(wire')
           <= SentByHost' + 4 * resends'
    BY <1>3, <2>6, <2>7, <2>8
  <2> QED
    BY <2>5, <2>9 DEF BudgetInv
<1> QED
  BY <1>1, <1>4, <1>5, SafeOutside

-----------------------------------------------------------------------------
LEMMA SafeNext ==
  ASSUME SafeInv, ChipInv, [Next]_vars
  PROVE  SafeInv'
<1>1. CASE UNCHANGED vars
  <2>1. TypeOK'
    BY <1>1 DEF SafeInv, TypeOK, vars, fsm, packet, page, line, hosts, chip
  <2> QED
    BY <1>1, <2>1
       DEF SafeInv, BudgetInv, SessionInv, SentByHost, Consumed, vars, fsm, packet, page, line,
           hosts
<1>2. CASE Xmodem_Init \/ ConsoleReads
  BY <1>2, SafeXmodem_Init, SafeConsoleReads
<1>3. CASE Xmodem_SPI
  BY <1>3, SafeInitRead, SafeInitWait, SafeS0Part, SafeS0Packet, SafeS1Read, SafeS1Wait
     DEF Xmodem_SPI
<1>4. CASE Flash_PageWrite
  BY <1>4, SafeStatusReady, SafeEraseEnable, SafeSectorErase, SafeStatusErased,
     SafeProgramEnable, SafeProgram DEF Flash_PageWrite
<1>5. CASE FlashDone
  BY <1>5, SafeFlashDone
<1>6. CASE Arrive \/ Lose
  BY <1>6, SafeArrive
<1>7. CASE HostAnswers \/ HostResend \/ HostCancel
  BY <1>7, SafeHostSkip, SafeHostStart, SafeHostNext, SafeHostEnd, SafeHostResend,
     SafeHostCancel DEF HostAnswers
<1> QED
  BY <1>1, <1>2, <1>3, <1>4, <1>5, <1>6, <1>7 DEF Next

-----------------------------------------------------------------------------
(* Sectors. *)
LEMMA DivMod ==
  ASSUME NEW s \in Nat \ {0}, NEW a \in Nat
  PROVE  /\ a = s * (a \div s) + (a % s)
         /\ a % s \in 0 .. (s - 1) /\ a \div s \in Nat
BY SMTT(30)

(* A page before the first page of a sector is in another sector. *)
LEMMA SectorStart ==
  ASSUME NEW a \in Nat, a % SECTOR = 0, NEW p \in Nat, p < a
  PROVE  SectorOf(p) # SectorOf(a)
<1> DEFINE s == SECTOR
<1>1. s \in Nat \ {0}
  BY Sizes
<1> HIDE DEF s
<1>2. /\ p = s * (p \div s) + (p % s) /\ p % s \in 0 .. (s - 1) /\ p \div s \in Nat
      /\ a = s * (a \div s) + (a % s) /\ a \div s \in Nat
  BY <1>1, DivMod
<1>3. a % s = 0
  BY DEF s
<1>4. p \div s # a \div s
  BY <1>1, <1>2, <1>3, SMTT(30)
<1> QED
  BY <1>4 DEF SectorOf, s

(* A page that does not start a sector is in the sector of the one before. *)
LEMMA SameSector ==
  ASSUME NEW a \in Nat, (a + 1) % SECTOR # 0
  PROVE  SectorOf(a + 1) = SectorOf(a)
<1> DEFINE s == SECTOR
           b == a + 1
<1>1. s \in Nat \ {0} /\ b \in Nat /\ b = a + 1
  BY Sizes
<1>2. b % s # 0
  OBVIOUS
<1> HIDE DEF s, b
<1>3. /\ a = s * (a \div s) + (a % s) /\ a % s \in 0 .. (s - 1) /\ a \div s \in Nat
      /\ b = s * (b \div s) + (b % s) /\ b % s \in 0 .. (s - 1) /\ b \div s \in Nat
  BY <1>1, DivMod
<1>4. b \div s = a \div s
  BY <1>1, <1>2, <1>3, SMTT(30)
<1> QED
  BY <1>4 DEF SectorOf, s, b

LEMMA FirstSector == 0 % SECTOR = 0
<1> DEFINE s == SECTOR
<1>1. s \in Nat \ {0}
  BY Sizes
<1> HIDE DEF s
<1>2. 0 = s * (0 \div s) + (0 % s) /\ 0 % s \in 0 .. (s - 1) /\ 0 \div s \in Nat
  BY <1>1, DivMod
<1>3. 0 % s = 0
  BY <1>1, <1>2, SMTT(30)
<1> QED
  BY <1>3 DEF s

LEMMA NotSpoilt ==
  /\ \A data \in [1 .. 2 -> Tokens] : data # Spoilt /\ data # Erased
  /\ Erased # Spoilt
<1>1. ASSUME NEW data \in [1 .. 2 -> Tokens]
      PROVE  DOMAIN data = {1, 2}
  OBVIOUS
<1>2. DOMAIN Spoilt = {1} /\ DOMAIN Erased = {}
  BY DEF Spoilt, Erased
<1> QED
  BY <1>1, <1>2

-----------------------------------------------------------------------------
LEMMA InitChip == Init => ChipInv
<1> SUFFICES ASSUME Init PROVE ChipInv
  OBVIOUS
<1>1. /\ pc = "loop" /\ SPI_address = 0 /\ ~ignored /\ ~flash.wip
      /\ mem = [p \in 0 .. (PAGES - 1) |-> << Tok("crc", 0), Tok("crc", 0) >>]
  BY DEF Init, Idle
<1>2. << Tok("crc", 0), Tok("crc", 0) >> # Spoilt
  <2>1. DOMAIN << Tok("crc", 0), Tok("crc", 0) >> = {1, 2} /\ DOMAIN Spoilt = {1}
    BY DEF Spoilt
  <2> QED
    BY <2>1
<1> QED
  BY <1>1, <1>2, FirstSector DEF ChipInv

LEMMA ChipElsewhere ==
  ASSUME ChipInv, UNCHANGED << pc, SPI_address, chip >>
  PROVE  ChipInv'
BY DEF ChipInv, Fresh, chip

LEMMA ChipXmodem_Init ==
  ASSUME ChipInv, Xmodem_Init
  PROVE  ChipInv'
BY FirstSector DEF ChipInv, Xmodem_Init, chip

LEMMA ChipS0Packet ==
  ASSUME ChipInv, S0Packet
  PROVE  ChipInv'
<1>1. pc = "loop" /\ pc' \in {"loop", "ready"} /\ UNCHANGED << SPI_address, chip >>
  BY DEF S0Packet, Call
<1> QED
  BY <1>1 DEF ChipInv, Fresh, chip

LEMMA ChipStatusReady ==
  ASSUME ChipInv, StatusReady
  PROVE  ChipInv'
<1>1. /\ pc = "ready" /\ ~flash.wip /\ UNCHANGED << SPI_address, chip >>
      /\ pc' = IF SPI_address % SECTOR = 0 THEN "wren_e" ELSE "wren_p"
  BY DEF StatusReady, PageStep
<1> QED
  BY <1>1 DEF ChipInv, Fresh, chip

LEMMA ChipEraseEnable ==
  ASSUME SafeInv, ChipInv, EraseEnable
  PROVE  ChipInv'
<1>1. /\ pc = "wren_e" /\ pc' = "erase" /\ ~flash.wip
      /\ flash' = [flash EXCEPT !.wel = TRUE] /\ UNCHANGED << mem, ignored, SPI_address >>
  BY DEF EraseEnable, PageStep, WriteEnable, ChipInv
<1>2. ~flash'.wip /\ flash'.wel
  BY <1>1 DEF SafeInv, TypeOK
<1> QED
  BY <1>1, <1>2 DEF ChipInv

LEMMA ChipSectorErase ==
  ASSUME ChipInv, Flash_SectorErase
  PROVE  ChipInv'
<1>1. /\ pc = "erase" /\ pc' = "erased" /\ UNCHANGED << mem, ignored, SPI_address >>
      /\ flash' = [wip |-> TRUE, wel |-> TRUE, op |-> "erase", page |-> SPI_address,
                   data |-> Erased]
  BY DEF Flash_SectorErase, PageStep, Start, ChipInv
<1>2. flash'.wip /\ flash'.op = "erase" /\ flash'.page = SPI_address
  BY <1>1
<1> QED
  BY <1>1, <1>2 DEF ChipInv

LEMMA ChipStatusErased ==
  ASSUME ChipInv, StatusErased
  PROVE  ChipInv'
<1>1. pc = "erased" /\ pc' = "wren_p" /\ ~flash.wip /\ UNCHANGED << SPI_address, chip >>
  BY DEF StatusErased, PageStep
<1> QED
  BY <1>1 DEF ChipInv, Fresh, chip

LEMMA ChipProgramEnable ==
  ASSUME SafeInv, ChipInv, ProgramEnable
  PROVE  ChipInv'
<1>1. /\ pc = "wren_p" /\ pc' = "program" /\ ~flash.wip
      /\ flash' = [flash EXCEPT !.wel = TRUE] /\ UNCHANGED << mem, ignored, SPI_address >>
  BY DEF ProgramEnable, PageStep, WriteEnable, ChipInv
<1>2. ~flash'.wip /\ flash'.wel
  BY <1>1 DEF SafeInv, TypeOK
<1>3. Fresh'
  BY <1>1, <1>2 DEF ChipInv, Fresh
<1> QED
  BY <1>1, <1>2, <1>3 DEF ChipInv

(* The next page is fresh, unless it starts a sector and will be erased. *)
LEMMA ChipProgram ==
  ASSUME SafeInv, ChipInv, Program
  PROVE  ChipInv'
<1>1. /\ pc = "program" /\ pc' = "loop" /\ UNCHANGED << mem, ignored >>
      /\ SPI_address' = SPI_address + 1
      /\ flash' = [wip |-> TRUE, wel |-> TRUE, op |-> "program", page |-> SPI_address,
                   data |-> SPI_page]
  BY DEF Program, PageStep, Start, ChipInv
<1>2. /\ flash'.wip /\ flash'.op = "program" /\ flash'.page = SPI_address
      /\ flash'.data = SPI_page
  BY <1>1
<1>3. SPI_page \in [1 .. 2 -> Tokens] /\ SPI_address \in 0 .. (PAGES - 1)
  BY <1>1, PageContents, PageFits DEF SafeInv, SessionInv
<1>4. Fresh
  BY <1>1 DEF ChipInv
<1>5. mem[SPI_address] = Erased
  BY <1>3, <1>4, Sizes DEF Fresh
<1>6. ASSUME SPI_address' % SECTOR # 0
      PROVE  Fresh'
  <2>1. SectorOf(SPI_address') = SectorOf(SPI_address)
    BY <1>1, <1>3, <1>6, SameSector, Sizes
  <2> QED
    BY <1>1, <1>2, <1>3, <1>4, <2>1, Sizes DEF Fresh, SectorOf
<1> QED
  BY <1>1, <1>2, <1>3, <1>5, <1>6 DEF ChipInv

LEMMA ChipFlashDone ==
  ASSUME SafeInv, ChipInv, FlashDone
  PROVE  ChipInv'
<1>1. /\ flash.wip /\ flash' = Idle /\ UNCHANGED << pc, SPI_address, ignored >>
      /\ mem \in [0 .. (PAGES - 1) -> Contents]
  BY DEF FlashDone, page, SafeInv, TypeOK
<1>2. ~flash'.wip
  BY <1>1 DEF Idle
<1>3. CASE flash.op = "erase"
  <2>1. pc = "erased" /\ flash.page = SPI_address
    BY <1>1, <1>3 DEF ChipInv
  <2>2. mem' = [p \in 0 .. (PAGES - 1) |->
                  IF SectorOf(p) = SectorOf(SPI_address) THEN Erased ELSE mem[p]]
    BY <1>1, <1>3, <2>1 DEF FlashDone
  <2>3. Fresh' /\ \A p \in 0 .. (PAGES - 1) : mem'[p] # Spoilt
    BY <1>1, <1>2, <2>2, NotSpoilt DEF Fresh, ChipInv, SectorOf
  <2> QED
    BY <1>1, <1>2, <2>1, <2>3 DEF ChipInv
<1>4. CASE flash.op = "program"
  <2>1. /\ pc \in {"loop", "ready"} /\ flash.page \in 0 .. (PAGES - 1)
        /\ mem[flash.page] = Erased /\ flash.data \in [1 .. 2 -> Tokens]
    BY <1>1, <1>4 DEF ChipInv
  <2>2. mem' = [mem EXCEPT ![flash.page] = flash.data]
    BY <1>1, <1>4, <2>1 DEF FlashDone
  <2>3. \A p \in 0 .. (PAGES - 1) : mem'[p] # Spoilt
    BY <1>1, <2>1, <2>2, NotSpoilt DEF ChipInv
  <2>4. Fresh => Fresh'
    BY <1>1, <1>2, <1>4, <2>1, <2>2 DEF Fresh, SectorOf
  <2> QED
    BY <1>1, <1>2, <2>1, <2>3, <2>4 DEF ChipInv
<1> QED
  BY <1>1, <1>3, <1>4 DEF ChipInv

LEMMA ChipNext ==
  ASSUME SafeInv, ChipInv, [Next]_vars
  PROVE  ChipInv'
<1>1. CASE Xmodem_SPI
  <2>1. CASE S0Packet
    BY <2>1, ChipS0Packet
  <2>2. CASE InitRead \/ InitWait \/ S0Part \/ S1Read \/ S1Wait
    <3>1. UNCHANGED << pc, SPI_address, chip >>
      BY <2>2 DEF InitRead, InitWait, S0Part, S1Read, S1Wait, page
    <3> QED
      BY <3>1, ChipElsewhere
  <2> QED
    BY <1>1, <2>1, <2>2 DEF Xmodem_SPI
<1>2. CASE Flash_PageWrite
  BY <1>2, ChipStatusReady, ChipEraseEnable, ChipSectorErase, ChipStatusErased,
     ChipProgramEnable, ChipProgram DEF Flash_PageWrite
<1>3. CASE \/ ConsoleReads \/ Arrive \/ Lose \/ HostAnswers \/ HostResend \/ HostCancel
           \/ UNCHANGED vars
  <2>1. UNCHANGED << pc, SPI_address, chip >>
    BY <1>3 DEF ConsoleReads, Arrive, Lose, HostAnswers, HostSkip, HostStart, HostNext, HostEnd,
                HostResend, HostCancel, HostRest, FwRest, vars, page
  <2> QED
    BY <2>1, ChipElsewhere
<1> QED
  BY <1>1, <1>2, <1>3, ChipXmodem_Init, ChipFlashDone DEF Next

-----------------------------------------------------------------------------
(* What is in the pages and in the page buffer. *)
LEMMA InitData == Init => DataInv
BY EmptyFacts DEF Init, DataInv, FlashHoldsAccepted

LEMMA DataElsewhere ==
  ASSUME DataInv, UNCHANGED << SPI_page, SPI_address, chip, accepted >>,
         XmodemState' # "INIT" => XmodemState # "INIT"
  PROVE  DataInv'
BY DEF DataInv, FlashHoldsAccepted, Effective, chip

LEMMA DataXmodem_Init ==
  ASSUME Xmodem_Init
  PROVE  DataInv'
BY EmptyFacts DEF Xmodem_Init, DataInv, FlashHoldsAccepted

LEMMA DataInitRead ==
  ASSUME SafeInv, DataInv, InitRead
  PROVE  DataInv'
<1>1. /\ UNCHANGED << SPI_address, chip, accepted >>
      /\ SPI_page' = << >> \/ UNCHANGED << XmodemState, SPI_page >>
  BY DEF InitRead
<1>2. CASE SPI_page' = << >>
  BY <1>1, <1>2, EmptyFacts DEF DataInv, FlashHoldsAccepted, Effective, chip
<1>3. CASE UNCHANGED << XmodemState, SPI_page >>
  BY <1>1, <1>3, DataElsewhere
<1> QED
  BY <1>1, <1>2, <1>3

LEMMA DataS0Packet ==
  ASSUME SafeInv, DataInv, S0Packet
  PROVE  DataInv'
<1>1. PICK item \in Tokens :
        SPI_page' = Append(SPI_page, item) /\ accepted' = Append(accepted, item)
  BY PacketFacts
<1>2. /\ Len(accepted) = 2 * SPI_address + Len(SPI_page)
      /\ Len(accepted) \in Nat /\ Len(SPI_page) \in Nat /\ SPI_address \in Nat
      /\ accepted \in Seq(Tokens) /\ SPI_page \in Seq(Tokens)
  <2>1. XmodemState = "S0"
    BY PacketFacts
  <2>2. Len(accepted) = 2 * SPI_address + Len(SPI_page)
    BY <2>1 DEF SafeInv, SessionInv
  <2>3. SPI_address \in Nat /\ accepted \in Seq(Tokens) /\ SPI_page \in Seq(Tokens)
    BY Sizes DEF SafeInv, TypeOK
  <2> QED
    BY <2>2, <2>3, Lengths DEF SafeInv
<1>3. /\ Len(SPI_page') = Len(SPI_page) + 1 /\ SPI_page'[Len(SPI_page) + 1] = item
      /\ \A i \in 1 .. Len(SPI_page) : SPI_page'[i] = SPI_page[i]
  BY <1>1, <1>2, AppendProperties
<1>4. /\ Len(accepted') = Len(accepted) + 1 /\ accepted'[Len(accepted) + 1] = item
      /\ \A i \in 1 .. Len(accepted) : accepted'[i] = accepted[i]
  <2> DEFINE longer == Append(accepted, item)
  <2>1. /\ Len(longer) = Len(accepted) + 1 /\ longer[Len(accepted) + 1] = item
        /\ \A i \in 1 .. Len(accepted) : longer[i] = accepted[i]
    BY <1>2, AppendProperties
  <2> QED
    BY <1>1, <2>1
<1>5. UNCHANGED << SPI_address, chip >> /\ XmodemState = "S0"
  BY DEF S0Packet, Call
<1>6. FlashHoldsAccepted'
  <2> SUFFICES ASSUME NEW p \in 0 .. (SPI_address - 1)
               PROVE  Effective(p)' = << accepted'[2 * p + 1], accepted'[2 * p + 2] >>
    BY <1>5 DEF FlashHoldsAccepted
  <2>1. 2 * p + 1 \in 1 .. Len(accepted) /\ 2 * p + 2 \in 1 .. Len(accepted)
    BY <1>2
  <2>2. Effective(p) = << accepted[2 * p + 1], accepted[2 * p + 2] >>
    BY DEF DataInv, FlashHoldsAccepted
  <2>3. Effective(p)' = Effective(p)
    BY <1>5 DEF Effective, chip
  <2> QED
    BY <1>4, <2>1, <2>2, <2>3
<1>7. ASSUME NEW i \in 1 .. Len(SPI_page')
      PROVE  SPI_page'[i] = accepted'[2 * SPI_address' + i]
  <2>1. CASE i = Len(SPI_page) + 1
    <3>1. 2 * SPI_address' + i = Len(accepted) + 1
      BY <1>2, <1>5, <2>1
    <3> QED
      BY <1>3, <1>4, <2>1, <3>1
  <2>2. CASE i \in 1 .. Len(SPI_page)
    <3>1. 2 * SPI_address' + i \in 1 .. Len(accepted) /\ SPI_address' = SPI_address
      BY <1>2, <1>5, <2>2
    <3>2. SPI_page[i] = accepted[2 * SPI_address + i]
      BY <1>5, <2>2 DEF DataInv
    <3> QED
      BY <1>3, <1>4, <2>2, <3>1, <3>2
  <2> QED
    BY <1>2, <1>3, <1>7, <2>1, <2>2
<1>8. 2 * SPI_address' <= Len(accepted')
  BY <1>2, <1>4, <1>5
<1> QED
  BY <1>6, <1>7, <1>8 DEF DataInv

(* A command that starts nothing in a page already written. *)
LEMMA DataCommand ==
  ASSUME SafeInv, ChipInv, DataInv, EraseEnable \/ ProgramEnable \/ Flash_SectorErase
  PROVE  DataInv'
<1>1. UNCHANGED << SPI_page, SPI_address, accepted, XmodemState, mem >>
  BY DEF EraseEnable, ProgramEnable, Flash_SectorErase, PageRest, WriteEnable, Start, fsm
<1>2. ~flash.wip
  BY DEF EraseEnable, ProgramEnable, Flash_SectorErase, PageStep, ChipInv
<1>3. ~flash'.wip \/ flash'.op = "erase"
  <2>1. \/ flash' = [flash EXCEPT !.wel = TRUE]
        \/ flash' = flash
        \/ flash' = [wip |-> TRUE, wel |-> TRUE, op |-> "erase", page |-> SPI_address,
                     data |-> Erased]
    BY DEF EraseEnable, ProgramEnable, Flash_SectorErase, WriteEnable, Start
  <2>2. CASE flash' = [flash EXCEPT !.wel = TRUE]
    BY <1>2, <2>2 DEF SafeInv, TypeOK
  <2> QED
    BY <1>2, <2>1, <2>2
<1>4. \A p : Effective(p)' = Effective(p)
  BY <1>1, <1>2, <1>3 DEF Effective
<1> QED
  BY <1>1, <1>4 DEF DataInv, FlashHoldsAccepted

LEMMA DataProgram ==
  ASSUME SafeInv, ChipInv, DataInv, Program
  PROVE  DataInv'
<1>1. /\ pc = "program" /\ ~flash.wip /\ UNCHANGED << mem, accepted >>
      /\ SPI_address' = SPI_address + 1 /\ SPI_page' = << >>
      /\ flash' = [wip |-> TRUE, wel |-> TRUE, op |-> "program", page |-> SPI_address,
                   data |-> SPI_page]
  BY DEF Program, PageStep, Start, ChipInv, PageRest
<1>2. /\ XmodemState = "S1" /\ Len(SPI_page) = 2 /\ SPI_address \in Nat
      /\ Len(accepted) = 2 * SPI_address + 2
  <2>1. XmodemState = "S1" /\ Len(SPI_page) = 2
    BY <1>1 DEF SafeInv, SessionInv
  <2> QED
    BY <2>1, Sizes DEF SafeInv, SessionInv, TypeOK
<1>3. SPI_page \in [1 .. 2 -> Tokens]
  BY <1>2, PageContents DEF SafeInv
<1>4. /\ SPI_page[1] = accepted[2 * SPI_address + 1]
      /\ SPI_page[2] = accepted[2 * SPI_address + 2]
  BY <1>2 DEF DataInv
<1>5. SPI_page = << accepted[2 * SPI_address + 1], accepted[2 * SPI_address + 2] >>
  BY <1>3, <1>4
<1>6. ASSUME NEW p \in 0 .. SPI_address
      PROVE  Effective(p)' = << accepted[2 * p + 1], accepted[2 * p + 2] >>
  <2>1. CASE p = SPI_address
    BY <1>1, <1>5, <2>1 DEF Effective
  <2>2. CASE p # SPI_address
    <3>1. p \in 0 .. (SPI_address - 1)
      BY <1>2, <2>2
    <3>2. Effective(p)' = Effective(p)
      BY <1>1, <2>2 DEF Effective
    <3> QED
      BY <3>1, <3>2 DEF DataInv, FlashHoldsAccepted
  <2> QED
    BY <2>1, <2>2
<1>7. FlashHoldsAccepted'
  <2>1. 0 .. (SPI_address' - 1) = 0 .. SPI_address
    BY <1>1, <1>2
  <2> QED
    BY <1>1, <1>6, <2>1 DEF FlashHoldsAccepted
<1> QED
  BY <1>1, <1>2, <1>7, EmptyFacts DEF DataInv

(* An erasure is of a sector no page of this session is in; what is        *)
(* programmed is what was said.                                            *)
LEMMA DataFlashDone ==
  ASSUME SafeInv, ChipInv, DataInv, FlashDone
  PROVE  DataInv'
<1>1. /\ flash.wip /\ flash' = Idle /\ UNCHANGED << XmodemState, page, accepted >>
      /\ mem \in [0 .. (PAGES - 1) -> Contents] /\ SPI_address \in 0 .. PAGES
  BY DEF FlashDone, SafeInv, TypeOK, fsm
<1>2. ~flash'.wip
  BY <1>1 DEF Idle
<1>3. ASSUME NEW p \in 0 .. (SPI_address - 1)
      PROVE  Effective(p)' = Effective(p)
  <2>1. p \in 0 .. (PAGES - 1) /\ p \in Nat /\ p < SPI_address /\ SPI_address \in Nat
    BY <1>1, Sizes
  <2>2. CASE flash.op = "erase"
    <3>1. flash.page = SPI_address /\ SPI_address % SECTOR = 0
      BY <1>1, <2>2 DEF ChipInv
    <3>2. SectorOf(p) # SectorOf(flash.page)
      BY <2>1, <3>1, SectorStart
    <3>3. mem'[p] = mem[p]
      BY <1>1, <2>1, <2>2, <3>2 DEF FlashDone
    <3> QED
      BY <1>2, <2>2, <3>3 DEF Effective
  <2>3. CASE flash.op = "program"
    <3>1. mem' = [mem EXCEPT ![flash.page] = flash.data] /\ flash.page \in 0 .. (PAGES - 1)
      BY <1>1, <2>3 DEF FlashDone, ChipInv
    <3> QED
      BY <1>1, <1>2, <2>1, <2>3, <3>1 DEF Effective
  <2> QED
    BY <1>1, <2>2, <2>3 DEF ChipInv
<1> QED
  BY <1>1, <1>3 DEF DataInv, FlashHoldsAccepted, page

LEMMA DataNext ==
  ASSUME SafeInv, ChipInv, DataInv, [Next]_vars
  PROVE  DataInv'
<1>1. CASE Xmodem_SPI
  <2>1. CASE InitWait \/ S0Part \/ S1Read \/ S1Wait
    <3>1. /\ UNCHANGED << SPI_page, SPI_address, chip, accepted >>
          /\ XmodemState' # "INIT" => XmodemState # "INIT"
      BY <2>1 DEF InitWait, S0Part, S1Read, S1Wait, Call, page
    <3> QED
      BY <3>1, DataElsewhere
  <2> QED
    BY <1>1, <2>1, DataInitRead, DataS0Packet DEF Xmodem_SPI
<1>2. CASE Flash_PageWrite
  <2>1. CASE StatusReady \/ StatusErased
    <3>1. UNCHANGED << SPI_page, SPI_address, chip, accepted, XmodemState >>
      BY <2>1 DEF StatusReady, StatusErased, PageRest, fsm
    <3> QED
      BY <3>1, DataElsewhere
  <2> QED
    BY <1>2, <2>1, DataCommand, DataProgram DEF Flash_PageWrite
<1>3. CASE \/ ConsoleReads \/ Arrive \/ Lose \/ HostAnswers \/ HostResend \/ HostCancel
           \/ UNCHANGED vars
  <2>1. UNCHANGED << SPI_page, SPI_address, chip, accepted, XmodemState >>
    BY <1>3 DEF ConsoleReads, Arrive, Lose, HostAnswers, HostSkip, HostStart, HostNext, HostEnd,
                HostResend, HostCancel, HostRest, FwRest, vars, page, fsm
  <2> QED
    BY <2>1, DataElsewhere
<1> QED
  BY <1>1, <1>2, <1>3, DataXmodem_Init, DataFlashDone DEF Next

-----------------------------------------------------------------------------
LEMMA Invariant == Spec => [](SafeInv /\ ChipInv /\ DataInv)
<1>1. Init => SafeInv /\ ChipInv /\ DataInv
  BY InitSafe, InitChip, InitData
<1>2. SafeInv /\ ChipInv /\ DataInv /\ [Next]_vars => (SafeInv /\ ChipInv /\ DataInv)'
  BY SafeNext, ChipNext, DataNext
<1> QED
  BY <1>1, <1>2, PTL DEF Spec

(* The type invariant, for a file of any size that fits in the chip; that  *)
(* the address stays on the chip is the part that is not obvious.          *)
THEOREM TypeCorrect == Spec => []TypeOK
<1>1. SafeInv /\ ChipInv /\ DataInv => TypeOK
  BY DEF SafeInv
<1> QED
  BY <1>1, Invariant, PTL

(* Every packet that was acknowledged is in a page written or in the page  *)
(* buffer (lines 275 to 295 of UART_Console.c).                            *)
THEOREM AllAccounted == Spec => []AcceptedAccounted
<1>1. SafeInv /\ ChipInv /\ DataInv => AcceptedAccounted
  BY DEF SafeInv, SessionInv, AcceptedAccounted
<1> QED
  BY <1>1, Invariant, PTL

(* The chip ignores no command and no page is programmed that is not       *)
(* erased, whatever the size of a sector (lines 350 to 407).               *)
THEOREM NeverRefused == Spec => []ChipObeys
<1>1. SafeInv /\ ChipInv /\ DataInv => ChipObeys
  BY DEF SafeInv, TypeOK, ChipInv, ChipObeys
<1> QED
  BY <1>1, Invariant, PTL

(* The flash holds what was acknowledged, in order, over any losses on the *)
(* line, repetitions, cancelled sessions and delays of the chip.           *)
THEOREM FlashIsAccepted == Spec => []FlashHoldsAccepted
<1>1. SafeInv /\ ChipInv /\ DataInv => FlashHoldsAccepted
  BY DEF DataInv
<1> QED
  BY <1>1, Invariant, PTL

-----------------------------------------------------------------------------
(***************************************************************************)
(* The order of the packets over a clean line.                             *)
(*                                                                         *)
(* What has been sent and not yet taken from the line is, at any time, the *)
(* rest of one packet and perhaps a CAN: the session goes through phases,  *)
(* and only Answered leaves the host something to go on with.              *)
(***************************************************************************)
Clean == losses = 0 /\ resends = 0
(* What follows SOH, what is in the FIFO and on the wire, what a host that *)
(* has cancelled sends last.                                               *)
Rest(n) == << Tok("blk", n), Tok("data", n), Tok("crc", n) >>
Stream == rx \o wire
End == IF host = "cancelled" THEN << Ctl("CAN") >> ELSE << >>
(* The answers on their way to the host. *)
NoAck == \A i \in 1 .. Len(tx) : tx[i] # "ACK"
OneAck == \A i, j \in 1 .. Len(tx) : tx[i] = "ACK" /\ tx[j] = "ACK" => i = j
Ends == {"EOT", "ETB", "CAN"}
OnlyEnds(q) == \A i \in 1 .. Len(q) : q[i].kind \in Ends

(* No packet has been sent. *)
Inviting ==
  /\ XmodemState = "INIT" /\ host \in {"off", "waitC"} /\ block = 1
  /\ rx = << >> /\ wire = << >> /\ NoAck
Sent ==
  /\ host \in {"sent", "cancelled"} /\ Len(accepted) = block - 1
  /\ host = "sent" => NoAck
(* A packet has been sent, and nothing of it read; its SOH has been read.  *)
Coming == XmodemState \in {"INIT", "S1"} /\ Sent /\ Stream = Packet(block) \o End
Within == XmodemState = "S0" /\ Sent /\ SPI_rxbuf \o Stream = Rest(block) \o End
(* It has been acknowledged; there will be no other. *)
Answered ==
  /\ XmodemState = "S1" /\ host = "sent" /\ Len(accepted) = block
  /\ rx = << >> /\ wire = << >> /\ OneAck
Ending ==
  /\ XmodemState = "S1" /\ host \in {"eot", "done", "cancelled"}
  /\ OnlyEnds(rx) /\ OnlyEnds(wire)
Phases == Inviting \/ Coming \/ Within \/ Answered \/ Ending

(* The invariant. *)
InOrder == \A i \in 1 .. Len(accepted) : accepted[i] = Tok("data", i)
CleanInv ==
  /\ losses \in Nat /\ resends \in Nat
  /\ Clean => InOrder /\ (XmodemMode => Phases)

LEMMA CleanTypes ==
  ASSUME TypeOK
  PROVE  /\ rx \in Seq(Tokens) /\ wire \in Seq(Tokens) /\ SPI_rxbuf \in Seq(Tokens)
         /\ accepted \in Seq(Tokens) /\ tx \in Seq({"C", "ACK"})
         /\ Stream \in Seq(Tokens) /\ End \in Seq(Tokens)
         /\ Packet(block) \in Seq(Tokens) /\ Len(Packet(block)) = 4 /\ block \in Nat \ {0}
         /\ Len(Stream) = Len(rx) + Len(wire)
         /\ Len(rx) \in Nat /\ Len(wire) \in Nat /\ Len(tx) \in Nat /\ Len(accepted) \in Nat
<1>1. /\ rx \in Seq(Tokens) /\ wire \in Seq(Tokens) /\ SPI_rxbuf \in Seq(Tokens)
      /\ accepted \in Seq(Tokens) /\ tx \in Seq({"C", "ACK"}) /\ block \in 1 .. FILE
  BY DEF TypeOK
<1>2. block \in Nat \ {0}
  BY <1>1, Sizes
<1>3. End \in Seq(Tokens)
  BY TokenFacts, EmptyFacts DEF End, Control
<1>4. Packet(block) \in Seq(Tokens) /\ Len(Packet(block)) = 4
  BY <1>1, TokenFacts
<1>5. Stream \in Seq(Tokens) /\ Len(Stream) = Len(rx) + Len(wire)
  BY <1>1, ConcatProperties DEF Stream
<1>6. Len(rx) \in Nat /\ Len(wire) \in Nat /\ Len(tx) \in Nat /\ Len(accepted) \in Nat
  BY <1>1, LenProperties
<1> QED
  BY <1>1, <1>2, <1>3, <1>4, <1>5, <1>6

LEMMA ConcatAt ==
  ASSUME NEW a \in Seq(Tokens), NEW b \in Seq(Tokens), NEW k \in Nat, Len(a) = k
  PROVE  /\ a \o b \in Seq(Tokens) /\ Len(a \o b) = k + Len(b) /\ Len(b) \in Nat
         /\ \A i \in 1 .. k : (a \o b)[i] = a[i]
         /\ \A i \in 1 .. Len(b) : (a \o b)[k + i] = b[i]
<1>1. /\ a \o b \in Seq(Tokens) /\ Len(a \o b) = Len(a) + Len(b)
      /\ \A i \in 1 .. Len(a) + Len(b) :
           (a \o b)[i] = IF i <= Len(a) THEN a[i] ELSE b[i - Len(a)]
  BY ConcatProperties
<1>2. Len(b) \in Nat
  BY LenProperties
<1> DEFINE c == a \o b
<1>3. \A i \in 1 .. k + Len(b) : c[i] = IF i <= k THEN a[i] ELSE b[i - k]
  BY <1>1
<1> HIDE DEF c
<1>4. ASSUME NEW i \in 1 .. k PROVE c[i] = a[i]
  <2>1. i \in 1 .. k + Len(b) /\ i <= k
    BY <1>2
  <2> QED
    BY <2>1, <1>3
<1>5. ASSUME NEW i \in 1 .. Len(b) PROVE c[k + i] = b[i]
  <2>1. k + i \in 1 .. k + Len(b) /\ ~(k + i <= k) /\ (k + i) - k = i
    BY <1>2
  <2> QED
    BY <2>1, <1>3
<1> QED
  BY <1>1, <1>2, <1>4, <1>5 DEF c

(* What is read first, and what is left. *)
LEMMA PacketParts ==
  ASSUME NEW n \in 1 .. FILE, NEW e \in Seq(Tokens)
  PROVE  /\ Rest(n) \in Seq(Tokens) /\ Len(Rest(n)) = 3 /\ Rest(n)[2] = Tok("data", n)
         /\ Packet(n) \o e # << >> /\ Head(Packet(n) \o e) = Ctl("SOH")
         /\ Tail(Packet(n) \o e) = Rest(n) \o e
<1>1. /\ Packet(n) \in Seq(Tokens) /\ Len(Packet(n)) = 4
  BY TokenFacts
<1>2. /\ Packet(n)[1] = Ctl("SOH") /\ Packet(n)[2] = Tok("blk", n)
      /\ Packet(n)[3] = Tok("data", n) /\ Packet(n)[4] = Tok("crc", n)
  BY DEF Packet
<1>3. \A i \in 1 .. 4 : Packet(n)[i] \in Tokens
  BY <1>1, ElementOfSeq
<1>4. Tok("blk", n) \in Tokens /\ Tok("data", n) \in Tokens /\ Tok("crc", n) \in Tokens
  BY <1>2, <1>3
<1>5. /\ Rest(n) \in Seq(Tokens) /\ Len(Rest(n)) = 3
      /\ Rest(n)[1] = Tok("blk", n) /\ Rest(n)[2] = Tok("data", n) /\ Rest(n)[3] = Tok("crc", n)
  BY <1>4 DEF Rest
<1> DEFINE p == Packet(n) \o e  r == Rest(n) \o e
<1>6. /\ p \in Seq(Tokens) /\ Len(p) = 4 + Len(e) /\ Len(e) \in Nat
      /\ \A i \in 1 .. 4 : p[i] = Packet(n)[i]
      /\ \A i \in 1 .. Len(e) : p[4 + i] = e[i]
  BY <1>1, ConcatAt, 4 \in Nat
<1>7. /\ r \in Seq(Tokens) /\ Len(r) = 3 + Len(e)
      /\ \A i \in 1 .. 3 : r[i] = Rest(n)[i]
      /\ \A i \in 1 .. Len(e) : r[3 + i] = e[i]
  BY <1>5, ConcatAt, 3 \in Nat
<1> HIDE DEF p, r
<1>8. p # << >>
  BY <1>6, EmptySeq
<1>9. Head(p) = Ctl("SOH")
  <2>1. Head(p) = p[1]
    BY <1>6, <1>8
  <2> QED
    BY <2>1, <1>2, <1>6
<1>10. /\ Tail(p) \in Seq(Tokens) /\ Len(Tail(p)) = 3 + Len(e)
       /\ \A i \in 1 .. 3 + Len(e) : Tail(p)[i] = p[i + 1]
  BY <1>6, <1>8, HeadTailProperties
<1>11. \A i \in 1 .. 3 + Len(e) : Tail(p)[i] = r[i]
  <2> TAKE i \in 1 .. 3 + Len(e)
  <2>1. Tail(p)[i] = p[i + 1] /\ i + 1 \in 1 .. 4 + Len(e)
    BY <1>6, <1>10
  <2>2. CASE i \in 1 .. 3
    <3>1. p[2] = Packet(n)[2] /\ p[3] = Packet(n)[3] /\ p[4] = Packet(n)[4]
      BY <1>6
    <3>2. r[1] = Rest(n)[1] /\ r[2] = Rest(n)[2] /\ r[3] = Rest(n)[3]
      BY <1>7
    <3>3. p[2] = r[1] /\ p[3] = r[2] /\ p[4] = r[3]
      BY <3>1, <3>2, <1>2, <1>5
    <3>4. \/ i = 1 /\ i + 1 = 2
          \/ i = 2 /\ i + 1 = 3
          \/ i = 3 /\ i + 1 = 4
      BY <2>2
    <3> QED
      BY <2>1, <3>3, <3>4, Zenon
  <2>3. CASE ~(i \in 1 .. 3)
    <3>1. i - 3 \in 1 .. Len(e) /\ i = 3 + (i - 3) /\ i + 1 = 4 + (i - 3)
      BY <2>3, <1>6
    <3>2. p[4 + (i - 3)] = e[i - 3] /\ r[3 + (i - 3)] = e[i - 3]
      BY <3>1, <1>6, <1>7
    <3> QED
      BY <3>1, <3>2, <2>1
  <2> QED
    BY <2>2, <2>3
<1>12. Tail(p) = r
  BY <1>7, <1>10, <1>11, SeqEqual
<1> QED
  BY <1>5, <1>8, <1>9, <1>12 DEF p, r

(* A packet that is there whole. *)
LEMMA PacketWhole ==
  ASSUME NEW n \in 1 .. FILE, NEW e \in Seq(Tokens), NEW b \in Seq(Tokens),
         NEW s \in Seq(Tokens), Len(b) = 3
  PROVE  b \o s = Rest(n) \o e => b[2] = Tok("data", n) /\ s = e
<1>1. /\ Rest(n) \in Seq(Tokens) /\ Len(Rest(n)) = 3 /\ Rest(n)[2] = Tok("data", n)
  BY PacketParts
<1> DEFINE k == 3
<1>k. k \in Nat /\ Len(b) = k /\ Len(Rest(n)) = k /\ 2 \in 1 .. k
  BY <1>1
<1> HIDE DEF k
<1>2. /\ Len(b \o s) = k + Len(s) /\ Len(s) \in Nat
      /\ \A i \in 1 .. k : (b \o s)[i] = b[i]
      /\ \A i \in 1 .. Len(s) : (b \o s)[k + i] = s[i]
  BY <1>k, ConcatAt
<1>3. /\ Len(Rest(n) \o e) = k + Len(e) /\ Len(e) \in Nat
      /\ \A i \in 1 .. k : (Rest(n) \o e)[i] = Rest(n)[i]
      /\ \A i \in 1 .. Len(e) : (Rest(n) \o e)[k + i] = e[i]
  BY <1>1, <1>k, ConcatAt
<1> SUFFICES ASSUME b \o s = Rest(n) \o e PROVE b[2] = Tok("data", n) /\ s = e
  OBVIOUS
<1>4. Len(s) = Len(e)
  BY <1>k, <1>2, <1>3
<1>5. b[2] = Rest(n)[2]
  BY <1>k, <1>2, <1>3
<1>6. \A i \in 1 .. Len(s) : s[i] = e[i]
  BY <1>2, <1>3, <1>4
<1>7. s = e
  BY <1>4, <1>6, SeqEqual
<1> QED
  BY <1>1, <1>5, <1>7

LEMMA HeadAndTail ==
  ASSUME NEW q \in Seq(Tokens), q # << >>
  PROVE  /\ << Head(q) >> \in Seq(Tokens) /\ Tail(q) \in Seq(Tokens)
         /\ << Head(q) >> \o Tail(q) = q
<1>1. /\ Head(q) \in Tokens /\ Tail(q) \in Seq(Tokens) /\ Len(Tail(q)) = Len(q) - 1
      /\ \A i \in 1 .. Len(Tail(q)) : Tail(q)[i] = q[i + 1]
  BY HeadTailProperties
<1>2. Len(q) \in Nat /\ Len(q) >= 1 /\ Head(q) = q[1]
  BY EmptySeq, LenProperties
<1> DEFINE h == << Head(q) >>  t == h \o Tail(q)
<1>3. h \in Seq(Tokens) /\ Len(h) = 1 /\ h[1] = q[1]
  BY <1>1, <1>2
<1>4. /\ t \in Seq(Tokens) /\ Len(t) = 1 + Len(Tail(q))
      /\ \A i \in 1 .. 1 + Len(Tail(q)) : t[i] = IF i <= 1 THEN h[i] ELSE Tail(q)[i - 1]
  BY <1>1, <1>3, ConcatProperties
<1>5. ASSUME NEW i \in 1 .. Len(t) PROVE t[i] = q[i]
  <2>1. CASE i = 1
    BY <2>1, <1>1, <1>2, <1>3, <1>4
  <2>2. CASE i # 1
    <3>1. i - 1 \in 1 .. Len(Tail(q)) /\ ~(i <= 1) /\ (i - 1) + 1 = i
      BY <2>2, <1>1, <1>2, <1>4
    <3> QED
      BY <3>1, <1>1, <1>2, <1>4
  <2> QED
    BY <2>1, <2>2
<1>6. t = q
  BY <1>1, <1>2, <1>4, <1>5, SeqEqual
<1> QED
  BY <1>1, <1>3, <1>6

(* The stream, as it is read and as it arrives. *)
LEMMA StreamRead ==
  ASSUME TypeOK, rx # << >>
  PROVE  /\ Stream # << >> /\ Head(Stream) = Head(rx) /\ Tail(rx) \o wire = Tail(Stream)
<1>1. rx \in Seq(Tokens) /\ wire \in Seq(Tokens)
  BY CleanTypes
<1> DEFINE h == << Head(rx) >>  t == Tail(rx) \o wire
<1>2. h \in Seq(Tokens) /\ Tail(rx) \in Seq(Tokens) /\ h \o Tail(rx) = rx
  BY <1>1, HeadAndTail
<1>3. t \in Seq(Tokens)
  BY <1>1, <1>2, ConcatProperties
<1>4. Stream = h \o t
  BY <1>1, <1>2, ConcatAssociative DEF Stream
<1>5. /\ Len(h) = 1 /\ h[1] = Head(rx)
  OBVIOUS
<1> HIDE DEF h, t
<1>6. /\ Stream \in Seq(Tokens) /\ Len(Stream) = 1 + Len(t) /\ Len(t) \in Nat
      /\ \A i \in 1 .. 1 : Stream[i] = h[i]
      /\ \A i \in 1 .. Len(t) : Stream[1 + i] = t[i]
  BY <1>2, <1>3, <1>4, <1>5, ConcatAt, 1 \in Nat
<1>7. Stream # << >>
  BY <1>6, EmptySeq
<1>8. Head(Stream) = Stream[1]
  BY <1>6, <1>7
<1>9. /\ Tail(Stream) \in Seq(Tokens) /\ Len(Tail(Stream)) = Len(Stream) - 1
      /\ \A i \in 1 .. Len(Tail(Stream)) : Tail(Stream)[i] = Stream[i + 1]
  BY <1>6, <1>7, HeadTailProperties
<1>10. Len(Tail(Stream)) = Len(t)
  BY <1>6, <1>9
<1>11. \A i \in 1 .. Len(t) : t[i] = Tail(Stream)[i]
  <2> TAKE i \in 1 .. Len(t)
  <2>1. Stream[1 + i] = t[i] /\ Tail(Stream)[i] = Stream[i + 1]
    BY <1>6, <1>9, <1>10
  <2>2. 1 + i = i + 1
    BY <1>6
  <2> QED
    BY <2>1, <2>2
<1>12. t = Tail(Stream)
  BY <1>3, <1>9, <1>10, <1>11, SeqEqual
<1> QED
  BY <1>5, <1>6, <1>7, <1>8, <1>12 DEF t

LEMMA StreamArrives ==
  ASSUME TypeOK, wire # << >>
  PROVE  Append(rx, Head(wire)) \o Tail(wire) = Stream
<1>1. rx \in Seq(Tokens) /\ wire \in Seq(Tokens)
  BY CleanTypes
<1>2. /\ << Head(wire) >> \in Seq(Tokens) /\ Tail(wire) \in Seq(Tokens)
      /\ << Head(wire) >> \o Tail(wire) = wire
  BY <1>1, HeadAndTail
<1>3. Append(rx, Head(wire)) = rx \o << Head(wire) >>
  BY <1>1, <1>2
<1>4. (rx \o << Head(wire) >>) \o Tail(wire) = rx \o (<< Head(wire) >> \o Tail(wire))
  BY <1>1, <1>2, ConcatAssociative
<1> QED
  BY <1>2, <1>3, <1>4 DEF Stream

(* What an action does to the answers on their way to the host. *)
LEMMA AnswersTail ==
  ASSUME TypeOK, tx # << >>, tx' = Tail(tx)
  PROVE  /\ NoAck => NoAck'
         /\ OneAck => OneAck'
         /\ OneAck /\ Head(tx) = "ACK" => NoAck'
<1>1. tx \in Seq({"C", "ACK"})
  BY DEF TypeOK
<1>2. /\ Len(tx) \in Nat /\ Len(tx') = Len(tx) - 1 /\ Len(tx) >= 1 /\ Head(tx) = tx[1]
      /\ \A i \in 1 .. Len(tx') : tx'[i] = tx[i + 1]
  BY <1>1, TailFacts, HeadTailProperties
<1>3. \A i \in 1 .. Len(tx') : i + 1 \in 1 .. Len(tx) /\ i + 1 # 1
  BY <1>2
<1>4. 1 \in 1 .. Len(tx)
  BY <1>2
<1>5. NoAck => NoAck'
  BY <1>2, <1>3 DEF NoAck
<1>6. ASSUME OneAck PROVE OneAck'
  <2> SUFFICES ASSUME NEW i \in 1 .. Len(tx'), NEW j \in 1 .. Len(tx'),
                      tx'[i] = "ACK", tx'[j] = "ACK"
               PROVE  i = j
    BY DEF OneAck
  <2>1. tx[i + 1] = "ACK" /\ tx[j + 1] = "ACK"
    BY <1>2
  <2>2. i + 1 = j + 1
    BY <1>3, <1>6, <2>1 DEF OneAck
  <2> QED
    BY <2>2
<1>7. ASSUME OneAck, Head(tx) = "ACK" PROVE NoAck'
  <2> SUFFICES ASSUME NEW i \in 1 .. Len(tx'), tx'[i] = "ACK" PROVE FALSE
    BY DEF NoAck
  <2>1. tx[i + 1] = "ACK" /\ tx[1] = "ACK"
    BY <1>2, <1>7
  <2>2. i + 1 = 1
    BY <1>3, <1>4, <1>7, <2>1 DEF OneAck
  <2> QED
    BY <1>3, <2>2
<1> QED
  BY <1>5, <1>6, <1>7

LEMMA AnswersAppend ==
  ASSUME TypeOK, NoAck
  PROVE  /\ tx' = Append(tx, "C") => NoAck'
         /\ tx' = Append(tx, "ACK") => OneAck'
<1>1. tx \in Seq({"C", "ACK"}) /\ Len(tx) \in Nat
  BY LenProperties DEF TypeOK
<1>2. ASSUME NEW a \in {"C", "ACK"}, tx' = Append(tx, a)
      PROVE  /\ Len(tx') = Len(tx) + 1 /\ tx'[Len(tx) + 1] = a
             /\ \A i \in 1 .. Len(tx) : tx'[i] = tx[i]
  <2> DEFINE longer == Append(tx, a)
  <2>1. /\ Len(longer) = Len(tx) + 1 /\ longer[Len(tx) + 1] = a
        /\ \A i \in 1 .. Len(tx) : longer[i] = tx[i]
    BY <1>1, AppendProperties
  <2> QED
    BY <1>2, <2>1
<1>3. ASSUME tx' = Append(tx, "C") PROVE NoAck'
  <2>1. /\ Len(tx') = Len(tx) + 1 /\ tx'[Len(tx) + 1] = "C"
        /\ \A i \in 1 .. Len(tx) : tx'[i] = tx[i]
    BY <1>2, <1>3
  <2>2. \A i \in 1 .. Len(tx') : i \in 1 .. Len(tx) \/ i = Len(tx) + 1
    BY <1>1, <2>1
  <2>3. \A i \in 1 .. Len(tx') : tx'[i] # "ACK"
    BY <2>1, <2>2 DEF NoAck
  <2> QED
    BY <2>3 DEF NoAck
<1>4. ASSUME tx' = Append(tx, "ACK") PROVE OneAck'
  <2>1. /\ Len(tx') = Len(tx) + 1
        /\ \A i \in 1 .. Len(tx) : tx'[i] = tx[i]
    BY <1>2, <1>4
  <2>2. \A i \in 1 .. Len(tx') : i \in 1 .. Len(tx) \/ i = Len(tx) + 1
    BY <1>1, <2>1
  <2>3. \A i \in 1 .. Len(tx') : tx'[i] = "ACK" => i = Len(tx) + 1
    BY <2>1, <2>2 DEF NoAck
  <2>4. \A i, j \in 1 .. Len(tx') : tx'[i] = "ACK" /\ tx'[j] = "ACK" => i = j
    BY <2>3
  <2> QED
    BY <2>4 DEF OneAck
<1> QED
  BY <1>3, <1>4

LEMMA NoAckFirst ==
  ASSUME TypeOK, NoAck, tx # << >>
  PROVE  Head(tx) # "ACK"
<1>1. Len(tx) \in Nat /\ Len(tx) >= 1 /\ Head(tx) = tx[1]
  BY TailFacts DEF TypeOK
<1>2. 1 \in 1 .. Len(tx)
  BY <1>1
<1> QED
  BY <1>1, <1>2 DEF NoAck

(* Sequences of control codes that end a session. *)
LEMMA EndsFacts ==
  /\ OnlyEnds(<< >>)
  /\ \A e \in Ends : << Ctl(e) >> \in Seq(Tokens) /\ OnlyEnds(<< Ctl(e) >>)
<1>1. OnlyEnds(<< >>)
  BY EmptyFacts DEF OnlyEnds
<1>2. ASSUME NEW e \in Ends
      PROVE  << Ctl(e) >> \in Seq(Tokens) /\ OnlyEnds(<< Ctl(e) >>)
  <2>1. << Ctl(e) >> \in Seq(Tokens)
    BY TokenFacts DEF Ends, Control
  <2>2. Ctl(e).kind = e
    BY DEF Ctl, Tok
  <2> QED
    BY <2>1, <2>2 DEF OnlyEnds
<1> QED
  BY <1>1, <1>2

LEMMA EndsTail ==
  ASSUME NEW q \in Seq(Tokens), q # << >>, OnlyEnds(q)
  PROVE  /\ Tail(q) \in Seq(Tokens) /\ OnlyEnds(Tail(q))
         /\ Head(q) \in Tokens /\ Head(q).kind \in Ends
<1>1. /\ Len(q) \in Nat /\ Len(q) >= 1 /\ Len(Tail(q)) = Len(q) - 1
      /\ Tail(q) \in Seq(Tokens) /\ Head(q) \in Tokens /\ Head(q) = q[1]
      /\ \A i \in 1 .. Len(Tail(q)) : Tail(q)[i] = q[i + 1]
  BY TailFacts, HeadTailProperties
<1>2. 1 \in 1 .. Len(q)
  BY <1>1
<1>3. \A i \in 1 .. Len(Tail(q)) : i + 1 \in 1 .. Len(q)
  BY <1>1
<1> QED
  BY <1>1, <1>2, <1>3 DEF OnlyEnds

LEMMA EndsConcat ==
  ASSUME NEW p \in Seq(Tokens), NEW q \in Seq(Tokens), OnlyEnds(p), OnlyEnds(q)
  PROVE  p \o q \in Seq(Tokens) /\ OnlyEnds(p \o q)
<1>1. Len(p) \in Nat
  BY LenProperties
<1> DEFINE k == Len(p)  c == p \o q
<1>2. /\ c \in Seq(Tokens) /\ Len(c) = k + Len(q) /\ Len(q) \in Nat
      /\ \A i \in 1 .. k : c[i] = p[i]
      /\ \A i \in 1 .. Len(q) : c[k + i] = q[i]
  BY <1>1, ConcatAt
<1>3. ASSUME NEW i \in 1 .. Len(c)
      PROVE  c[i].kind \in Ends
  <2>1. CASE i \in 1 .. k
    BY <1>2, <2>1 DEF OnlyEnds
  <2>2. CASE i \notin 1 .. k
    <3>1. i - k \in 1 .. Len(q) /\ k + (i - k) = i
      BY <1>1, <1>2, <2>2
    <3>2. c[i] = q[i - k]
      BY <1>2, <3>1
    <3> QED
      BY <3>1, <3>2 DEF OnlyEnds
  <2> QED
    BY <2>1, <2>2
<1> HIDE DEF c
<1>4. OnlyEnds(c)
  BY <1>3 DEF OnlyEnds
<1> QED
  BY <1>2, <1>4 DEF c

(* The frame of an action that takes part in no packet. *)
LEMMA KeepClean ==
  ASSUME CleanInv, UNCHANGED << losses, resends >>,
         InOrder /\ (XmodemMode => Phases) => InOrder' /\ (XmodemMode' => Phases')
  PROVE  CleanInv'
BY DEF CleanInv, Clean

LEMMA CleanElsewhere ==
  ASSUME CleanInv, UNCHANGED << XmodemMode, XmodemState, SPI_rxbuf, rx, wire, host, block, tx,
                                accepted, losses, resends >>
  PROVE  CleanInv'
BY DEF CleanInv, Clean, InOrder, Phases, Inviting, Coming, Within, Answered, Ending, Sent,
       NoAck, OneAck, Stream, End

LEMMA EndsParts ==
  ASSUME NEW p \in Seq(Tokens), NEW q \in Seq(Tokens), OnlyEnds(p \o q)
  PROVE  OnlyEnds(p) /\ OnlyEnds(q)
<1>1. Len(p) \in Nat
  BY LenProperties
<1> DEFINE k == Len(p)  c == p \o q
<1>2. /\ c \in Seq(Tokens) /\ Len(c) = k + Len(q) /\ Len(q) \in Nat
      /\ \A i \in 1 .. k : c[i] = p[i]
      /\ \A i \in 1 .. Len(q) : c[k + i] = q[i]
  BY <1>1, ConcatAt
<1>3. OnlyEnds(c)
  OBVIOUS
<1> HIDE DEF c
<1>4. ASSUME NEW i \in 1 .. k PROVE p[i].kind \in Ends
  <2>1. i \in 1 .. Len(c)
    BY <1>1, <1>2
  <2> QED
    BY <1>2, <1>3, <2>1 DEF OnlyEnds
<1>5. ASSUME NEW i \in 1 .. Len(q) PROVE q[i].kind \in Ends
  <2>1. k + i \in 1 .. Len(c)
    BY <1>1, <1>2
  <2> QED
    BY <1>2, <1>3, <2>1 DEF OnlyEnds
<1> QED
  BY <1>4, <1>5 DEF OnlyEnds

(* Every step keeps the phase or takes it to the one that follows; there   *)
(* is room in the FIFO for a packet and a control code.                    *)
LEMMA CleanXmodem_Init ==
  ASSUME SafeInv, CleanInv, Xmodem_Init
  PROVE  CleanInv'
<1>1. /\ XmodemState' = "INIT" /\ host' \in {"off", "waitC"} /\ block' = 1
      /\ rx' = << >> /\ wire' = << >> /\ tx' = << "C" >> /\ accepted' = << >>
      /\ UNCHANGED << losses, resends >>
  BY DEF Xmodem_Init
<1>2. NoAck'
  BY <1>1 DEF NoAck
<1>3. InOrder'
  BY <1>1, EmptyFacts DEF InOrder
<1>4. Phases'
  BY <1>1, <1>2 DEF Phases, Inviting
<1> QED
  BY <1>1, <1>3, <1>4, KeepClean

(* An action of a step without a session. *)
LEMMA CleanNoSession ==
  ASSUME CleanInv, UNCHANGED << losses, resends, accepted >>, ~XmodemMode'
  PROVE  CleanInv'
BY DEF CleanInv, Clean, InOrder

LEMMA CleanInitRead ==
  ASSUME SafeInv, CleanInv, InitRead
  PROVE  CleanInv'
<1>1. /\ XmodemMode /\ XmodemState = "INIT" /\ rx # << >> /\ rx' = Tail(rx)
      /\ UNCHANGED << XmodemMode, wire, losses, resends, tx, host, block, accepted >>
  BY DEF InitRead, Call, ReadCode, hosts
<1>2. TypeOK
  BY DEF SafeInv
<1>3. ASSUME Phases
      PROVE  Phases'
  <2>1. Coming
    BY <1>1, <1>3 DEF Phases, Inviting, Within, Answered, Ending
  <2>2. /\ block \in 1 .. FILE /\ End \in Seq(Tokens)
    BY <1>2, CleanTypes DEF TypeOK
  <2>3. Head(rx) = Ctl("SOH") /\ Stream' = Rest(block) \o End
    <3>1. Head(Stream) = Ctl("SOH") /\ Tail(Stream) = Rest(block) \o End
      BY <2>1, <2>2, PacketParts DEF Coming
    <3>2. Head(Stream) = Head(rx) /\ Tail(rx) \o wire = Tail(Stream)
      BY <1>1, <1>2, StreamRead
    <3>3. Stream' = Tail(rx) \o wire
      BY <1>1 DEF Stream
    <3> QED
      BY <3>1, <3>2, <3>3
  <2>4. Codes(Head(rx)) = {"SOH"}
    BY <2>3 DEF Codes, Ctl, Tok, Control
  <2>5. XmodemState' = "S0" /\ SPI_rxbuf' = << >>
    BY <2>4 DEF InitRead, ReadCode, StartPacket
  <2>6. Sent'
    BY <1>1, <2>1 DEF Coming, Sent, NoAck
  <2>7. SPI_rxbuf' \o Stream' = Rest(block') \o End'
    <3>1. Stream' \in Seq(Tokens)
      BY <2>2, <2>3, PacketParts, ConcatProperties
    <3>2. << >> \o Stream' = Stream'
      BY <3>1, ConcatEmptySeq
    <3>3. block' = block /\ End' = End
      BY <1>1 DEF End
    <3> QED
      BY <2>3, <2>5, <3>2, <3>3
  <2> QED
    BY <2>5, <2>6, <2>7 DEF Phases, Within
<1> QED
  BY <1>1, <1>3, KeepClean DEF InOrder

LEMMA CleanInitWait ==
  ASSUME SafeInv, CleanInv, InitWait
  PROVE  CleanInv'
<1>1. /\ XmodemMode /\ XmodemState = "INIT" /\ TypeOK
      /\ UNCHANGED << XmodemState, rx, wire, losses, resends, host, block, accepted >>
      /\ tx' = tx \/ tx' = Append(tx, "C")
  BY DEF InitWait, Call, line, hosts, SafeInv
<1>2. NoAck => NoAck'
  BY <1>1, AnswersAppend DEF NoAck
<1>3. ASSUME Phases
      PROVE  Phases'
  <2>1. Inviting \/ Coming
    BY <1>1, <1>3 DEF Phases, Within, Answered, Ending
  <2>2. Inviting => Inviting'
    BY <1>1, <1>2 DEF Inviting
  <2>3. Coming => Coming'
    BY <1>1, <1>2 DEF Coming, Sent, Stream, End
  <2> QED
    BY <2>1, <2>2, <2>3 DEF Phases
<1> QED
  BY <1>1, <1>3, KeepClean DEF InOrder

LEMMA CleanS0Part ==
  ASSUME SafeInv, CleanInv, S0Part
  PROVE  CleanInv'
<1>1. /\ XmodemMode /\ XmodemState = "S0" /\ Len(Taken) < bt_count
      /\ SPI_rxbuf' = SPI_rxbuf \o Taken /\ rx' = << >>
      /\ UNCHANGED << XmodemMode, XmodemState, wire, losses, resends, tx, host, block,
                      accepted >>
  BY DEF S0Part, Call, hosts
<1>2. rx \in Seq(Tokens) /\ wire \in Seq(Tokens) /\ SPI_rxbuf \in Seq(Tokens)
  BY CleanTypes DEF SafeInv
<1>3. Taken = rx
  <2>1. /\ Len(Taken) = IF Len(rx) < bt_count THEN Len(rx) ELSE bt_count
        /\ Len(rx) \in Nat /\ Taken \in Seq(Tokens) /\ bt_count \in Nat
    BY <1>1, TakenFacts, Lengths, PartFacts DEF SafeInv, PacketRest
  <2>2. Len(Taken) = Len(rx) /\ Len(rx) < bt_count
    BY <1>1, <2>1
  <2>3. Taken = SubSeq(rx, 1, Len(rx))
    BY <2>2 DEF Taken
  <2> QED
    BY <1>2, <2>3, SubSeqFull
<1>4. SPI_rxbuf' \o Stream' = SPI_rxbuf \o Stream
  <2>1. Stream' = << >> \o wire
    BY <1>1 DEF Stream
  <2>2. << >> \o wire = wire
    BY <1>2, ConcatEmptySeq
  <2>3. (SPI_rxbuf \o rx) \o wire = SPI_rxbuf \o (rx \o wire)
    BY <1>2, ConcatAssociative
  <2> QED
    BY <1>1, <1>3, <2>1, <2>2, <2>3 DEF Stream
<1>5. ASSUME Phases
      PROVE  Phases'
  <2>1. Within
    BY <1>1, <1>5 DEF Phases, Inviting, Coming, Answered, Ending
  <2>2. Sent' /\ End' = End /\ block' = block
    BY <1>1, <2>1 DEF Within, Sent, NoAck, End
  <2>3. SPI_rxbuf' \o Stream' = Rest(block') \o End'
    BY <1>4, <2>1, <2>2 DEF Within
  <2> QED
    BY <1>1, <2>1, <2>2, <2>3 DEF Phases, Within
<1> QED
  BY <1>1, <1>5, KeepClean DEF InOrder

LEMMA CleanS0Packet ==
  ASSUME SafeInv, CleanInv, S0Packet
  PROVE  CleanInv'
<1> DEFINE buf == SPI_rxbuf \o Taken  left == SubSeq(rx, bt_count + 1, Len(rx))
           s == left \o wire
<1>1. /\ XmodemMode /\ XmodemState = "S0" /\ XmodemState' = "S1" /\ Len(Taken) = bt_count
      /\ accepted' = Append(accepted, buf[2]) /\ rx' = left /\ tx' = Append(tx, "ACK")
      /\ UNCHANGED << XmodemMode, wire, losses, resends, host, block >>
  BY DEF S0Packet, Call, hosts, DataAt
<1>2. /\ rx \in Seq(Tokens) /\ wire \in Seq(Tokens) /\ SPI_rxbuf \in Seq(Tokens)
      /\ accepted \in Seq(Tokens) /\ Len(accepted) \in Nat
      /\ block \in 1 .. FILE /\ End \in Seq(Tokens)
  BY CleanTypes DEF SafeInv, TypeOK
<1>3. /\ buf \in Seq(Tokens) /\ Len(buf) = 3
  <2>1. /\ buf \in Seq(Tokens) /\ Len(buf) = Len(SPI_rxbuf) + Len(Taken)
        /\ Len(SPI_rxbuf) + bt_count = PacketRest
    BY <1>1, PartFacts
  <2> QED
    BY <1>1, <2>1 DEF PacketRest
<1>4. left \in Seq(Tokens) /\ Taken \o left = rx /\ Taken \in Seq(Tokens)
  <2>1. /\ Len(Taken) = IF Len(rx) < bt_count THEN Len(rx) ELSE bt_count
        /\ Len(rx) \in Nat /\ Taken \in Seq(Tokens) /\ bt_count \in 1 .. PacketRest
    BY <1>1, TakenFacts, Lengths, PartFacts DEF SafeInv
  <2>2. bt_count \in Nat /\ bt_count <= Len(rx)
    BY <1>1, <2>1 DEF PacketRest
  <2>3. Taken = SubSeq(rx, 1, bt_count)
    <3>1. (IF Len(rx) < bt_count THEN Len(rx) ELSE bt_count) = bt_count
      BY <2>1, <2>2
    <3> QED
      BY <3>1 DEF Taken
  <2>4. SubSeq(rx, 1, bt_count) \o left = SubSeq(rx, 1, Len(rx))
    <3>1. /\ 1 \in 1 .. Len(rx) + 1 /\ bt_count \in 1 - 1 .. Len(rx)
          /\ Len(rx) \in bt_count .. Len(rx)
      BY <2>1, <2>2
    <3> QED
      BY <1>2, <3>1, ConcatAdjacentSubSeq
  <2>5. SubSeq(rx, 1, Len(rx)) = rx
    BY <1>2, SubSeqFull
  <2>6. left \in Seq(Tokens)
    <3>1. \A i \in bt_count + 1 .. Len(rx) : rx[i] \in Tokens
      <4> TAKE i \in bt_count + 1 .. Len(rx)
      <4>1. i \in 1 .. Len(rx)
        BY <2>1, <2>2
      <4> QED
        BY <1>2, <4>1, ElementOfSeq
    <3>2. bt_count + 1 \in Int /\ Len(rx) \in Int
      BY <2>1, <2>2
    <3> QED
      BY <3>1, <3>2, SubSeqProperties
  <2> QED
    BY <2>1, <2>3, <2>4, <2>5, <2>6
<1> DEFINE taken == Taken
<1> HIDE DEF left, taken, buf, s
<1>5. buf \o s = SPI_rxbuf \o Stream /\ s \in Seq(Tokens)
  <2>1. /\ taken \in Seq(Tokens) /\ left \in Seq(Tokens)
        /\ SPI_rxbuf \in Seq(Tokens) /\ wire \in Seq(Tokens)
    BY <1>2, <1>4 DEF taken
  <2>2. s \in Seq(Tokens)
    BY <2>1, ConcatProperties DEF s
  <2>3. (SPI_rxbuf \o taken) \o s = SPI_rxbuf \o (taken \o s)
    BY <2>1, <2>2, ConcatAssociative
  <2>4. taken \o (left \o wire) = (taken \o left) \o wire
    BY <2>1, ConcatAssociative
  <2>5. taken \o s = Stream
    BY <1>4, <2>4 DEF Stream, taken, s
  <2> QED
    BY <2>2, <2>3, <2>5 DEF buf, taken
<1>6. Stream' = s
  BY <1>1 DEF Stream, s
<1>7. ASSUME InOrder, Phases
      PROVE  InOrder' /\ Phases'
  <2>1. Within
    BY <1>1, <1>7 DEF Phases, Inviting, Coming, Answered, Ending
  <2>2. buf[2] = Tok("data", block) /\ s = End
    <3>1. buf \o s = Rest(block) \o End
      BY <1>5, <2>1 DEF Within
    <3> QED
      BY <1>2, <1>3, <1>5, <3>1, PacketWhole
  <2>3. Len(accepted) = block - 1 /\ host \in {"sent", "cancelled"} /\ (host = "sent" => NoAck)
    BY <2>1 DEF Within, Sent
  <2>4. buf[2] \in Tokens
    <3>1. 2 \in 1 .. Len(buf)
      BY <1>3
    <3> QED
      BY <1>3, <3>1, ElementOfSeq
  <2> DEFINE longer == Append(accepted, buf[2])
  <2>5. /\ Len(longer) = Len(accepted) + 1 /\ longer[Len(accepted) + 1] = buf[2]
        /\ \A i \in 1 .. Len(accepted) : longer[i] = accepted[i]
    BY <1>2, <2>4, AppendProperties
  <2>6. Len(accepted) + 1 = block
    BY <1>2, <2>3, Sizes
  <2> HIDE DEF longer
  <2>7. \A i \in 1 .. Len(longer) : i \in 1 .. Len(accepted) \/ i = block
    BY <1>2, <2>5, <2>6
  <2>8. \A i \in 1 .. Len(longer) : longer[i] = Tok("data", i)
    BY <1>7, <2>2, <2>5, <2>6, <2>7 DEF InOrder
  <2>9. accepted' = longer
    BY <1>1 DEF longer
  <2>10. InOrder'
    BY <2>8, <2>9 DEF InOrder
  <2>11. Len(accepted') = block'
    BY <1>1, <2>5, <2>6, <2>9
  <2>12. rx' \o wire' = End
    BY <1>6, <2>2 DEF Stream
  <2>13. rx' \in Seq(Tokens) /\ wire' \in Seq(Tokens)
    BY <1>1, <1>2, <1>4
  <2>14. CASE host = "sent"
    <3>1. rx' = << >> /\ wire' = << >>
      BY <2>12, <2>13, <2>14, ConcatEqualIffEmpty DEF End
    <3>2. OneAck'
      BY <1>1, <2>3, <2>14, AnswersAppend DEF SafeInv
    <3> QED
      BY <1>1, <2>10, <2>11, <2>14, <3>1, <3>2 DEF Phases, Answered
  <2>15. CASE host = "cancelled"
    <3>1. OnlyEnds(rx' \o wire')
      BY <2>12, <2>15, EndsFacts DEF End, Ends
    <3>2. OnlyEnds(rx') /\ OnlyEnds(wire')
      BY <2>13, <3>1, EndsParts
    <3> QED
      BY <1>1, <2>10, <2>15, <3>2 DEF Phases, Ending
  <2> QED
    BY <2>3, <2>14, <2>15
<1> QED
  BY <1>1, <1>7, KeepClean

LEMMA CleanS1Read ==
  ASSUME SafeInv, CleanInv, S1Read
  PROVE  CleanInv'
<1>1. /\ XmodemMode /\ XmodemState = "S1" /\ rx # << >> /\ rx' = Tail(rx)
      /\ UNCHANGED << wire, losses, resends, host, block, accepted >>
  BY DEF S1Read, Call, ReadCode, hosts
<1>2. TypeOK /\ rx \in Seq(Tokens)
  BY CleanTypes DEF SafeInv
<1>3. ASSUME Phases, XmodemMode'
      PROVE  Phases'
  <2>1. Coming \/ Ending
    BY <1>1, <1>3 DEF Phases, Inviting, Within, Answered
  <2>2. CASE Coming
    <3>1. /\ block \in 1 .. FILE /\ End \in Seq(Tokens)
      BY <1>2, CleanTypes DEF TypeOK
    <3>2. Head(rx) = Ctl("SOH") /\ Stream' = Rest(block) \o End
      <4>1. Head(Stream) = Ctl("SOH") /\ Tail(Stream) = Rest(block) \o End
        BY <2>2, <3>1, PacketParts DEF Coming
      <4>2. Head(Stream) = Head(rx) /\ Tail(rx) \o wire = Tail(Stream)
        BY <1>1, <1>2, StreamRead
      <4>3. Stream' = Tail(rx) \o wire
        BY <1>1 DEF Stream
      <4> QED
        BY <4>1, <4>2, <4>3
    <3>3. Codes(Head(rx)) = {"SOH"}
      BY <3>2 DEF Codes, Ctl, Tok, Control
    <3>4. XmodemState' = "S0" /\ SPI_rxbuf' = << >> /\ tx' = tx
      BY <3>3 DEF S1Read, ReadCode, StartPacket
    <3>5. Sent'
      BY <1>1, <2>2, <3>4 DEF Coming, Sent, NoAck
    <3>6. SPI_rxbuf' \o Stream' = Rest(block') \o End'
      <4>1. Stream' \in Seq(Tokens)
        BY <3>1, <3>2, PacketParts, ConcatProperties
      <4>2. << >> \o Stream' = Stream'
        BY <4>1, ConcatEmptySeq
      <4>3. block' = block /\ End' = End
        BY <1>1 DEF End
      <4> QED
        BY <3>2, <3>4, <4>2, <4>3
    <3> QED
      BY <3>4, <3>5, <3>6 DEF Phases, Within
  <2>3. CASE Ending
    <3>1. /\ Head(rx).kind \in Ends /\ OnlyEnds(rx') /\ OnlyEnds(wire')
      BY <1>1, <1>2, <2>3, EndsTail DEF Ending
    <3>2. Codes(Head(rx)) \subseteq Ends
      BY <3>1 DEF Codes, Ends, Control
    <3>3. PICK code \in Ends :
            \/ code = "EOT" /\ UNCHANGED << XmodemMode, XmodemState >>
            \/ XmodemMode' = FALSE
      BY <3>2 DEF S1Read, ReadCode, Ends
    <3>4. XmodemState' = "S1"
      BY <1>1, <1>3, <3>3
    <3> QED
      BY <1>1, <2>3, <3>1, <3>4 DEF Phases, Ending
  <2> QED
    BY <2>1, <2>2, <2>3
<1> QED
  BY <1>1, <1>3, KeepClean DEF InOrder

(* What has been sent and not read is a packet and a control code at most.  *)
LEMMA StreamShort ==
  ASSUME TypeOK
  PROVE  /\ Coming => Len(Stream) <= 5
         /\ Within => Len(Stream) <= 4
<1>1. /\ End \in Seq(Tokens) /\ block \in 1 .. FILE /\ SPI_rxbuf \in Seq(Tokens)
      /\ Stream \in Seq(Tokens) /\ Packet(block) \in Seq(Tokens) /\ Len(Packet(block)) = 4
  BY CleanTypes DEF TypeOK
<1>2. Len(End) \in Nat /\ Len(End) <= 1
  BY EmptyFacts DEF End
<1>3. Rest(block) \in Seq(Tokens) /\ Len(Rest(block)) = 3
  BY <1>1, PacketParts
<1>4. Len(Packet(block) \o End) <= 5
  <2>1. Len(Packet(block) \o End) = Len(Packet(block)) + Len(End)
    BY <1>1, ConcatProperties
  <2> QED
    BY <1>1, <1>2, <2>1
<1>5. Len(Rest(block) \o End) <= 4
  <2>1. Len(Rest(block) \o End) = Len(Rest(block)) + Len(End)
    BY <1>1, <1>3, ConcatProperties
  <2> QED
    BY <1>2, <1>3, <2>1
<1>6. /\ Len(SPI_rxbuf \o Stream) = Len(SPI_rxbuf) + Len(Stream)
      /\ Len(SPI_rxbuf) \in Nat /\ Len(Stream) \in Nat
  BY <1>1, ConcatProperties, LenProperties
<1>7. Coming => Len(Stream) <= 5
  BY <1>4 DEF Coming
<1>8. Within => Len(Stream) <= 4
  <2>1. Within => Len(SPI_rxbuf \o Stream) <= 4
    BY <1>5 DEF Within
  <2> QED
    BY <1>6, <2>1
<1> QED
  BY <1>7, <1>8

LEMMA CleanArrive ==
  ASSUME SafeInv, CleanInv, Arrive, RX_FIFO >= 5
  PROVE  CleanInv'
<1>1. /\ wire # << >> /\ wire' = Tail(wire)
      /\ rx' = IF Len(rx) < RX_FIFO THEN Append(rx, Head(wire)) ELSE rx
      /\ UNCHANGED << XmodemMode, XmodemState, SPI_rxbuf, losses, resends, tx, host, block,
                      accepted >>
  BY DEF Arrive, FwRest, hosts, fsm, packet
<1>2. TypeOK /\ rx \in Seq(Tokens) /\ wire \in Seq(Tokens)
  BY CleanTypes DEF SafeInv
<1>3. End' = End /\ (Sent => Sent')
  BY <1>1 DEF End, Sent, NoAck
<1>4. ASSUME Phases
      PROVE  Phases'
  <2>1. CASE Coming \/ Within
    <3>1. Len(Stream) <= 5
      <4>1. Len(Stream) \in Nat
        BY <1>2, CleanTypes, LenProperties
      <4> QED
        BY <1>2, <2>1, <4>1, StreamShort
    <3>2. Len(rx) < RX_FIFO
      <4>1. Len(wire) \in Nat /\ Len(wire) >= 1
        BY <1>1, <1>2, TailFacts
      <4>2. Len(rx) \in Nat /\ Len(Stream) = Len(rx) + Len(wire) /\ RX_FIFO \in Nat
        BY <1>2, CleanTypes, Sizes
      <4> QED
        BY <3>1, <4>1, <4>2
    <3>3. Stream' = Append(rx, Head(wire)) \o Tail(wire)
      BY <1>1, <3>2 DEF Stream
    <3>4. Stream' = Stream
      BY <1>1, <1>2, <3>3, StreamArrives
    <3> QED
      BY <1>1, <1>3, <2>1, <3>4 DEF Phases, Coming, Within
  <2>2. CASE Ending
    <3>1. OnlyEnds(wire') /\ Head(wire) \in Tokens /\ Head(wire).kind \in Ends
      BY <1>1, <1>2, <2>2, EndsTail DEF Ending
    <3>2. OnlyEnds(rx')
      <4>1. OnlyEnds(rx)
        BY <2>2 DEF Ending
      <4>2. << Head(wire) >> \in Seq(Tokens) /\ OnlyEnds(<< Head(wire) >>)
        BY <3>1 DEF OnlyEnds
      <4>3. Append(rx, Head(wire)) = rx \o << Head(wire) >>
        BY <1>2, <3>1
      <4>4. OnlyEnds(Append(rx, Head(wire)))
        BY <1>2, <4>1, <4>2, <4>3, EndsConcat
      <4> QED
        BY <1>1, <4>1, <4>4
    <3> QED
      BY <1>1, <2>2, <3>1, <3>2 DEF Phases, Ending
  <2> QED
    BY <1>1, <1>4, <2>1, <2>2 DEF Phases, Inviting, Answered
<1> QED
  BY <1>1, <1>4, KeepClean DEF InOrder

(* A loss or a packet sent again ends what is promised. *)
LEMMA CleanFaults ==
  ASSUME SafeInv, CleanInv, Lose \/ HostResend
  PROVE  CleanInv'
<1>1. /\ losses \in Nat /\ resends \in Nat
      /\ \/ losses' = losses + 1 /\ resends' = resends
         \/ losses' = losses /\ resends' = resends + 1
  BY DEF CleanInv, Lose, HostResend, hosts
<1>2. losses' \in Nat /\ resends' \in Nat /\ (losses' # 0 \/ resends' # 0)
  BY <1>1
<1> QED
  BY <1>2 DEF CleanInv, Clean

LEMMA CleanHostSkip ==
  ASSUME SafeInv, CleanInv, HostSkip
  PROVE  CleanInv'
<1>1. /\ tx # << >> /\ tx' = Tail(tx) /\ TypeOK
      /\ UNCHANGED << XmodemMode, XmodemState, SPI_rxbuf, rx, wire, losses, resends, host,
                      block, accepted >>
  BY DEF HostSkip, HostRest, FwRest, fsm, packet, SafeInv
<1>2. (NoAck => NoAck') /\ (OneAck => OneAck')
  BY <1>1, AnswersTail
<1>3. Phases => Phases'
  BY <1>1, <1>2 DEF Phases, Inviting, Coming, Within, Answered, Ending, Sent, Stream, End
<1> QED
  BY <1>1, <1>3, KeepClean DEF InOrder

(* A packet sent over an empty line. *)
LEMMA PacketSent ==
  ASSUME NEW n \in 1 .. FILE, rx' = << >>, wire' = << >> \o Packet(n), block' = n,
         host' = "sent"
  PROVE  Stream' = Packet(block') \o End'
<1>1. Packet(n) \in Seq(Tokens)
  BY TokenFacts
<1>2. << >> \o Packet(n) = Packet(n) /\ Packet(n) \o << >> = Packet(n)
  BY <1>1, ConcatEmptySeq
<1>3. Stream' = Packet(n)
  BY <1>2 DEF Stream
<1>4. End' = << >>
  BY DEF End
<1> QED
  BY <1>2, <1>3, <1>4

LEMMA CleanHostStart ==
  ASSUME SafeInv, CleanInv, HostStart
  PROVE  CleanInv'
<1>1. /\ host = "waitC" /\ host' = "sent" /\ tx # << >> /\ tx' = Tail(tx) /\ TypeOK
      /\ wire' = wire \o Packet(1)
      /\ UNCHANGED << XmodemMode, XmodemState, rx, losses, resends, block, accepted >>
  BY DEF HostStart, HostRest, FwRest, Send, fsm, SafeInv
<1>2. ASSUME Phases, XmodemMode
      PROVE  Phases'
  <2>1. Inviting
    BY <1>1, <1>2 DEF Phases, Coming, Within, Answered, Ending, Sent
  <2>2. NoAck'
    BY <1>1, <2>1, AnswersTail DEF Inviting
  <2>3. accepted = << >>
    BY <1>2, <2>1 DEF SafeInv, SessionInv, Inviting
  <2>4. Sent'
    BY <1>1, <2>1, <2>2, <2>3, EmptyFacts DEF Inviting, Sent
  <2>5. Stream' = Packet(block') \o End'
    <3>1. rx' = << >> /\ wire' = << >> \o Packet(1) /\ block' = 1
      BY <1>1, <2>1 DEF Inviting
    <3>2. 1 \in 1 .. FILE
      BY Sizes
    <3> QED
      BY <1>1, <3>1, <3>2, PacketSent
  <2> QED
    BY <1>1, <2>1, <2>4, <2>5 DEF Phases, Coming, Inviting
<1> QED
  BY <1>1, <1>2, KeepClean DEF InOrder

LEMMA CleanHostNext ==
  ASSUME SafeInv, CleanInv, HostNext
  PROVE  CleanInv'
<1>1. /\ host = "sent" /\ tx # << >> /\ tx' = Tail(tx) /\ Head(tx) = "ACK" /\ TypeOK
      /\ \/ /\ block < FILE /\ block' = block + 1 /\ wire' = wire \o Packet(block + 1)
            /\ host' = host
         \/ host' = "eot" /\ wire' = wire \o << Ctl("EOT") >>
      /\ UNCHANGED << XmodemMode, XmodemState, rx, losses, resends, accepted >>
  BY DEF HostNext, HostRest, FwRest, Send, fsm, SafeInv
<1>2. ASSUME Phases
      PROVE  Phases'
  <2>1. Answered
    <3>1. ~(Sent /\ host = "sent")
      BY <1>1, NoAckFirst DEF Sent
    <3> QED
      BY <1>1, <1>2, <3>1 DEF Phases, Coming, Within, Inviting, Ending
  <2>2. NoAck'
    BY <1>1, <2>1, AnswersTail DEF Answered
  <2>3. rx' = << >> /\ wire = << >> /\ XmodemState' = "S1" /\ Len(accepted') = block
    BY <1>1, <2>1 DEF Answered
  <2>4. CASE block < FILE /\ block' = block + 1 /\ wire' = wire \o Packet(block + 1)
             /\ host' = host
    <3>1. block \in 1 .. FILE
      BY <1>1 DEF TypeOK
    <3>2. block + 1 \in 1 .. FILE /\ block = (block + 1) - 1
      BY <2>4, <3>1, Sizes
    <3>3. Stream' = Packet(block') \o End'
      BY <1>1, <2>3, <2>4, <3>2, PacketSent
    <3>4. Sent'
      BY <1>1, <2>2, <2>3, <2>4, <3>2 DEF Sent
    <3> QED
      BY <2>3, <3>3, <3>4 DEF Phases, Coming
  <2>5. CASE host' = "eot" /\ wire' = wire \o << Ctl("EOT") >>
    <3>1. OnlyEnds(<< >>) /\ << >> \in Seq(Tokens)
      BY EndsFacts, EmptyFacts
    <3>2. << Ctl("EOT") >> \in Seq(Tokens) /\ OnlyEnds(<< Ctl("EOT") >>)
      BY EndsFacts DEF Ends
    <3>3. OnlyEnds(<< >> \o << Ctl("EOT") >>)
      BY <3>1, <3>2, EndsConcat
    <3> QED
      BY <2>3, <2>5, <3>1, <3>3 DEF Phases, Ending
  <2> QED
    BY <1>1, <2>4, <2>5
<1> QED
  BY <1>1, <1>2, KeepClean DEF InOrder

LEMMA CleanHostEnd ==
  ASSUME SafeInv, CleanInv, HostEnd
  PROVE  CleanInv'
<1>1. /\ host = "eot" /\ host' = "done" /\ TypeOK
      /\ wire' = wire \o << Ctl("ETB") >> \/ wire' = wire \o << >>
      /\ UNCHANGED << XmodemMode, XmodemState, rx, losses, resends, accepted >>
  BY DEF HostEnd, HostRest, FwRest, Send, fsm, SafeInv
<1>2. ASSUME Phases
      PROVE  Phases'
  <2>1. Ending
    BY <1>1, <1>2 DEF Phases, Coming, Within, Inviting, Answered, Sent
  <2>2. OnlyEnds(wire')
    <3>1. wire \in Seq(Tokens) /\ OnlyEnds(wire)
      BY <1>1, <2>1, CleanTypes DEF Ending
    <3>2. << Ctl("ETB") >> \in Seq(Tokens) /\ OnlyEnds(<< Ctl("ETB") >>)
      BY EndsFacts DEF Ends
    <3>3. << >> \in Seq(Tokens) /\ OnlyEnds(<< >>)
      BY EndsFacts, EmptyFacts
    <3>4. OnlyEnds(wire \o << Ctl("ETB") >>)
      BY <3>1, <3>2, EndsConcat
    <3>5. OnlyEnds(wire \o << >>)
      BY <3>1, <3>3, EndsConcat
    <3> QED
      BY <1>1, <3>4, <3>5
  <2> QED
    BY <1>1, <2>1, <2>2 DEF Phases, Ending, OnlyEnds
<1> QED
  BY <1>1, <1>2, KeepClean DEF InOrder

LEMMA CleanHostCancel ==
  ASSUME SafeInv, CleanInv, HostCancel
  PROVE  CleanInv'
<1> DEFINE can == << Ctl("CAN") >>
<1>1. /\ host \in {"sent", "eot"} /\ host' = "cancelled" /\ wire = << >> /\ TypeOK
      /\ wire' = wire \o can
      /\ UNCHANGED << XmodemMode, XmodemState, SPI_rxbuf, rx, losses, resends, block,
                      accepted >>
  BY DEF HostCancel, HostRest, FwRest, Send, fsm, packet, SafeInv
<1>2. can \in Seq(Tokens) /\ OnlyEnds(can) /\ End' = can
  BY <1>1, EndsFacts DEF Ends, End
<1>3. /\ rx \in Seq(Tokens) /\ Stream \in Seq(Tokens) /\ SPI_rxbuf \in Seq(Tokens)
      /\ Packet(block) \in Seq(Tokens) /\ block \in 1 .. FILE
  BY <1>1, CleanTypes DEF TypeOK
<1>4. wire' = can /\ Stream = rx /\ Stream' = Stream \o can
  <2>1. wire' = can
    BY <1>1, <1>2, ConcatEmptySeq
  <2>2. Stream = rx
    BY <1>1, <1>3, ConcatEmptySeq DEF Stream
  <2> QED
    BY <1>1, <2>1, <2>2 DEF Stream
<1> HIDE DEF can
<1>5. ASSUME Phases
      PROVE  Phases'
  <2>1. CASE Coming
    <3>1. host = "sent" /\ End = << >>
      BY <1>1, <2>1 DEF Coming, Sent, End
    <3>2. Stream = Packet(block)
      BY <1>3, <2>1, <3>1, ConcatEmptySeq DEF Coming
    <3>3. Stream' = Packet(block') \o End'
      BY <1>1, <1>2, <1>4, <3>2
    <3> QED
      BY <1>1, <2>1, <3>3 DEF Phases, Coming, Sent
  <2>2. CASE Within
    <3>1. host = "sent" /\ End = << >>
      BY <1>1, <2>2 DEF Within, Sent, End
    <3>2. Rest(block) \in Seq(Tokens)
      BY <1>2, <1>3, PacketParts
    <3>3. SPI_rxbuf \o Stream = Rest(block)
      BY <2>2, <3>1, <3>2, ConcatEmptySeq DEF Within
    <3>4. (SPI_rxbuf \o Stream) \o can = SPI_rxbuf \o (Stream \o can)
      <4>1. SPI_rxbuf \in Seq(Tokens) /\ Stream \in Seq(Tokens) /\ can \in Seq(Tokens)
        BY <1>2, <1>3
      <4> QED
        BY <4>1, ConcatAssociative
    <3>5. SPI_rxbuf' \o Stream' = Rest(block') \o End'
      BY <1>1, <1>2, <1>4, <3>3, <3>4
    <3> QED
      BY <1>1, <2>2, <3>5 DEF Phases, Within, Sent
  <2>3. CASE Answered \/ Ending
    <3>1. OnlyEnds(rx)
      BY <2>3, EndsFacts DEF Answered, Ending
    <3>2. OnlyEnds(rx') /\ OnlyEnds(wire')
      BY <1>1, <1>2, <1>4, <3>1
    <3> QED
      BY <1>1, <2>3, <3>2 DEF Phases, Answered, Ending
  <2> QED
    BY <1>1, <1>5, <2>1, <2>2, <2>3 DEF Phases, Inviting
<1> QED
  BY <1>1, <1>5, KeepClean DEF InOrder

LEMMA InitClean == Init => CleanInv
BY EmptyFacts DEF Init, CleanInv, InOrder

LEMMA CleanNext ==
  ASSUME SafeInv, CleanInv, [Next]_vars, RX_FIFO >= 5
  PROVE  CleanInv'
<1>1. CASE Xmodem_SPI
  <2>1. CASE S1Wait
    <3>1. UNCHANGED << XmodemMode, XmodemState, SPI_rxbuf, rx, wire, host, block, tx, accepted,
                       losses, resends >>
      BY <2>1 DEF S1Wait, packet, line, hosts
    <3> QED
      BY <3>1, CleanElsewhere
  <2> QED
    BY <1>1, <2>1, CleanInitRead, CleanInitWait, CleanS0Part, CleanS0Packet, CleanS1Read
       DEF Xmodem_SPI
<1>2. CASE Flash_PageWrite \/ FlashDone \/ UNCHANGED vars
  <2>1. UNCHANGED << XmodemMode, XmodemState, SPI_rxbuf, rx, wire, host, block, tx, accepted,
                     losses, resends >>
    BY <1>2 DEF Flash_PageWrite, StatusReady, EraseEnable, Flash_SectorErase, StatusErased,
                ProgramEnable, Program, PageRest, FlashDone, vars, fsm, packet, line, hosts
  <2> QED
    BY <2>1, CleanElsewhere
<1>3. CASE ConsoleReads
  <2>1. ~XmodemMode' /\ UNCHANGED << losses, resends, accepted >>
    BY <1>3 DEF ConsoleReads, fsm, hosts
  <2> QED
    BY <2>1, CleanNoSession
<1>4. CASE HostAnswers
  BY <1>4, CleanHostSkip, CleanHostStart, CleanHostNext, CleanHostEnd DEF HostAnswers
<1> QED
  BY <1>1, <1>2, <1>3, <1>4, CleanXmodem_Init, CleanArrive, CleanFaults, CleanHostCancel
     DEF Next

(* What is acknowledged over a clean line is the file from its beginning,  *)
(* if the receive FIFO (256 bytes in the board's 16550) holds a packet and *)
(* a control code (lines 275 to 289 of UART_Console.c).                    *)
THEOREM CleanFile ==
  ASSUME RX_FIFO >= 5
  PROVE  Spec => []CleanInOrder
<1>1. Init => CleanInv
  BY InitClean
<1>2. (SafeInv /\ ChipInv /\ DataInv) /\ CleanInv /\ [Next]_vars => CleanInv'
  BY CleanNext
<1>3. (SafeInv /\ ChipInv /\ DataInv) /\ CleanInv => CleanInOrder
  <2> SUFFICES ASSUME SafeInv, CleanInv PROVE CleanInOrder
    OBVIOUS
  <2>1. accepted \in Seq(Tokens)
    BY DEF SafeInv, TypeOK
  <2>2. DOMAIN accepted = 1 .. Len(accepted)
    BY <2>1, LenProperties
  <2> QED
    BY <2>2 DEF CleanInv, Clean, InOrder, CleanInOrder
<1> QED
  BY <1>1, <1>2, <1>3, Invariant, PTL DEF Spec
=============================================================================
