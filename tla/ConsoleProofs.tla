--------------------------- MODULE ConsoleProofs ---------------------------
(***************************************************************************)
(* Theorems about the console, for every set of keys and commands, and     *)
(* every size of the line buffer and the UART.                             *)
(***************************************************************************)
EXTENDS Console, SequenceTheorems, WellFoundedInduction, TLAPS

(***************************************************************************)
(* The line editor: the inductive invariant ties the buffer and its index  *)
(* to the line typed.                                                      *)
(***************************************************************************)
Stored(k) == IF k = CR THEN NUL ELSE k
Indexed ==
  Len(line) <= UART_BUF_SIZE =>
    /\ idx = IF Len(line) = UART_BUF_SIZE THEN 0 ELSE Len(line)
    /\ \A i \in 1 .. Len(line) : buf[i - 1] = Stored(line[i])
Ended == pc = "read" /\ cmd_flag => \E i \in 1 .. Len(line) : line[i] = CR
EditorInv == BufferTypes /\ Indexed /\ Ended

LEMMA EditorInit == Init => EditorInv
  BY BoundsAssumption, KeysAssumption
  DEF Init, EditorInv, BufferTypes, Indexed, Ended

LEMMA ReadByteEditor ==
  ASSUME EditorInv, ReadByte
  PROVE  EditorInv'
<1>1. /\ pc = "read" /\ pc' = "read" /\ rx # <<>> /\ rx' = Tail(rx) /\ keys' = keys
      /\ buf' = [buf EXCEPT ![idx] = Stored(Head(rx))]
      /\ cmd_flag' = (cmd_flag \/ Head(rx) = CR)
      /\ idx' = IF idx + 1 >= UART_BUF_SIZE THEN 0 ELSE idx + 1
      /\ line' = Append(line, Head(rx))
  BY DEF ReadByte, NextIdx, Stored
<1>2. /\ UART_BUF_SIZE \in Nat /\ UART_BUF_SIZE > 0 /\ RX_FIFO \in Nat
      /\ rx \in Seq(Keys \cup {CR}) /\ line \in Seq(Keys \cup {CR})
      /\ idx \in 0 .. UART_BUF_SIZE - 1 /\ Len(rx) <= RX_FIFO
      /\ buf \in [0 .. UART_BUF_SIZE - 1 -> Keys \cup {NUL}]
  BY BoundsAssumption DEF EditorInv, BufferTypes
<1>3. /\ Head(rx) \in Keys \cup {CR} /\ Tail(rx) \in Seq(Keys \cup {CR})
      /\ Len(Tail(rx)) <= RX_FIFO
  BY <1>1, <1>2, HeadTailProperties
<1>4. /\ line' \in Seq(Keys \cup {CR}) /\ Len(line') = Len(line) + 1 /\ Len(line) \in Nat
      /\ \A i \in 1 .. Len(line) : line'[i] = line[i]
      /\ line'[Len(line) + 1] = Head(rx)
  BY <1>1, <1>2, <1>3, AppendProperties
<1>5. Stored(Head(rx)) \in Keys \cup {NUL}
  BY <1>3 DEF Stored
<1>6. BufferTypes'
  BY <1>1, <1>2, <1>3, <1>4, <1>5 DEF EditorInv, BufferTypes
<1>7. Indexed'
  <2> SUFFICES ASSUME Len(line') <= UART_BUF_SIZE
               PROVE  /\ idx' = IF Len(line') = UART_BUF_SIZE THEN 0 ELSE Len(line')
                      /\ \A i \in 1 .. Len(line') : buf'[i - 1] = Stored(line'[i])
    BY DEF Indexed, Stored
  <2>1. idx = Len(line) /\ \A i \in 1 .. Len(line) : buf[i - 1] = Stored(line[i])
    BY <1>2, <1>4 DEF EditorInv, Indexed
  <2>2. idx' = IF Len(line') = UART_BUF_SIZE THEN 0 ELSE Len(line')
    BY <1>1, <1>2, <1>4, <2>1
  <2>3. ASSUME NEW i \in 1 .. Len(line')
        PROVE  buf'[i - 1] = Stored(line'[i])
    <3>1. CASE i = Len(line) + 1
      BY <1>1, <1>2, <1>4, <2>1, <3>1
    <3>2. CASE i \in 1 .. Len(line)
      BY <1>1, <1>2, <1>4, <2>1, <3>2
    <3> QED
      BY <1>4, <2>3, <3>1, <3>2
  <2> QED
    BY <2>2, <2>3
<1>8. Ended'
  <2>1. CASE Head(rx) = CR
    BY <1>4, <2>1 DEF Ended
  <2>2. CASE cmd_flag
    <3>1. PICK i \in 1 .. Len(line) : line[i] = CR
      BY <1>1, <2>2 DEF EditorInv, Ended
    <3> QED
      BY <1>4, <3>1 DEF Ended
  <2> QED
    BY <1>1, <2>1, <2>2 DEF Ended
<1> QED
  BY <1>6, <1>7, <1>8 DEF EditorInv

LEMMA ExecuteEditor ==
  ASSUME EditorInv, Execute
  PROVE  EditorInv'
<1>1. UNCHANGED <<rx, keys, buf>> /\ pc' = "loop"
  BY DEF Execute, uart
<1>2. CASE cmd_flag
  <2>1. idx' = 0 /\ line' = <<>>
    BY <1>2 DEF Execute
  <2> QED
    BY <1>1, <2>1, BoundsAssumption DEF EditorInv, BufferTypes, Indexed, Ended
<1>3. CASE ~cmd_flag
  <2>1. UNCHANGED <<idx, line>>
    BY <1>3 DEF Execute
  <2> QED
    BY <1>1, <2>1 DEF EditorInv, BufferTypes, Indexed, Ended, Stored
<1> QED
  BY <1>2, <1>3

LEMMA TypeEditor ==
  ASSUME EditorInv, NEW k \in Keys \cup {CR}, Type(k)
  PROVE  EditorInv'
<1>1. /\ keys < MaxKeys /\ keys' = keys + 1 /\ UNCHANGED <<buf, idx, line, cmd_flag, pc>>
      /\ rx' = IF Len(rx) < RX_FIFO THEN Append(rx, k) ELSE rx
  BY DEF Type, editor
<1>2. rx' \in Seq(Keys \cup {CR}) /\ Len(rx') <= RX_FIFO
  <2>1. rx \in Seq(Keys \cup {CR}) /\ Len(rx) <= RX_FIFO /\ RX_FIFO \in Nat
    BY BoundsAssumption DEF EditorInv, BufferTypes
  <2>2. Append(rx, k) \in Seq(Keys \cup {CR}) /\ Len(Append(rx, k)) = Len(rx) + 1
    BY <2>1, AppendProperties
  <2> QED
    BY <1>1, <2>1, <2>2
<1>3. BufferTypes'
  BY <1>1, <1>2, BoundsAssumption DEF EditorInv, BufferTypes
<1> QED
  BY <1>1, <1>3 DEF EditorInv, Indexed, Ended, Stored

\* The other steps leave the line, the buffer and cmd_flag alone, or begin a call.
LEMMA OtherEditor ==
  ASSUME EditorInv, UNCHANGED <<keys, buf, idx, line>>,
         rx' = rx \/ Takes,
         (pc' = "read" => ~cmd_flag') \/ UNCHANGED <<pc, cmd_flag>>
  PROVE  EditorInv'
<1>1. rx' \in Seq(Keys \cup {CR}) /\ Len(rx') <= RX_FIFO
  <2>1. rx \in Seq(Keys \cup {CR}) /\ Len(rx) <= RX_FIFO /\ RX_FIFO \in Nat
    BY BoundsAssumption DEF EditorInv, BufferTypes
  <2>2. CASE rx' = rx
    BY <2>1, <2>2
  <2>3. CASE Takes
    <3>1. PICK n \in 0 .. Len(rx) : rx' = SubSeq(rx, n + 1, Len(rx))
      BY <2>3 DEF Takes
    <3>2. Len(rx) \in Nat /\ n + 1 \in 1 .. Len(rx) + 1 /\ Len(rx) \in n .. Len(rx)
      BY <2>1, LenProperties
    <3>3. /\ SubSeq(rx, n + 1, Len(rx)) \in Seq(Keys \cup {CR})
          /\ Len(SubSeq(rx, n + 1, Len(rx))) = Len(rx) - n
      BY <2>1, <3>2, SubSeqProperties
    <3>4. Len(rx) - n <= RX_FIFO
      BY <2>1, <3>2
    <3> QED
      BY <3>1, <3>3, <3>4, Zenon
  <2> QED
    BY <2>2, <2>3
<1> QED
  BY <1>1 DEF EditorInv, BufferTypes, Indexed, Ended, Stored

LEMMA EditorStep == EditorInv /\ [Next]_vars => EditorInv'
<1> SUFFICES ASSUME EditorInv, [Next]_vars PROVE EditorInv'
  OBVIOUS
<1>1. CASE \E k \in Keys \cup {CR} : Type(k)
  BY <1>1, TypeEditor
<1>2. CASE Enter
  BY <1>2, OtherEditor DEF Enter, uart
<1>3. CASE ReadByte
  BY <1>3, ReadByteEditor
<1>4. CASE Execute
  BY <1>4, ExecuteEditor
<1>5. CASE SessionReads \/ SessionEnds
  BY <1>5, OtherEditor DEF SessionReads, SessionEnds, editor
<1>6. CASE NothingTyped
  BY <1>6, OtherEditor DEF NothingTyped, uart, editor
<1>7. CASE PageWrite
  BY <1>7, OtherEditor DEF PageWrite, editor
<1>8. CASE Poll
  BY <1>8, OtherEditor DEF Poll, StatusReady, StatusErased, uart, editor
<1>9. CASE FlashDone
  BY <1>9, OtherEditor DEF FlashDone, uart, editor
<1>10. CASE MachPowerS2 \/ MachPowerOther
  BY <1>10, OtherEditor DEF MachPowerS2, MachPowerOther, uart, editor
<1>11. CASE SPI_GPIO_Mash
  BY <1>11, OtherEditor DEF SPI_GPIO_Mash, uart, editor
<1>12. CASE UNCHANGED vars
  BY <1>12, OtherEditor DEF vars, uart, editor
<1> QED
  BY <1>1, <1>2, <1>3, <1>4, <1>5, <1>6, <1>7, <1>8, <1>9, <1>10, <1>11, <1>12
  DEF Next, UART_Con_Mash

LEMMA MinOfSet ==
  ASSUME NEW n \in Nat, NEW S \in SUBSET (1 .. n), S # {}
  PROVE  Min(S) \in S /\ \A x \in S : Min(S) <= x
<1>1. S \subseteq Nat
  OBVIOUS
<1>2. PICK m \in S : \A x \in S : <<x, m>> \notin OpToRel(<, Nat)
  BY <1>1, NatLessThanWellFounded, WFMin
<1>3. \A x \in S : m <= x
  <2> SUFFICES ASSUME NEW x \in S PROVE m <= x
    OBVIOUS
  <2>1. ~(x < m)
    BY <1>1, <1>2 DEF OpToRel
  <2> QED
    BY <1>1, <2>1
<1> QED
  BY <1>3 DEF Min

LEMMA EditorTyped == EditorInv => ExecutesTyped
<1> SUFFICES ASSUME EditorInv, pc = "read", cmd_flag, Len(line) <= UART_BUF_SIZE
             PROVE  Text = SubSeq(line, 1, Min({i \in DOMAIN line : line[i] = CR}) - 1)
  BY DEF ExecutesTyped
<1> DEFINE bytes == [i \in 1 .. UART_BUF_SIZE |-> buf[i - 1]]
           ends == {i \in 1 .. UART_BUF_SIZE : bytes[i] = NUL}
           returns == {i \in DOMAIN line : line[i] = CR}
           e == Min(ends)
           r == Min(returns)
<1>1. /\ UART_BUF_SIZE \in Nat /\ Len(line) \in Nat /\ DOMAIN line = 1 .. Len(line)
      /\ line \in Seq(Keys \cup {CR}) /\ buf \in [0 .. UART_BUF_SIZE - 1 -> Keys \cup {NUL}]
  BY BoundsAssumption DEF EditorInv, BufferTypes
<1>2. \A i \in 1 .. Len(line) : /\ bytes[i] = Stored(line[i])
                                /\ bytes[i] = NUL <=> line[i] = CR
  <2> SUFFICES ASSUME NEW i \in 1 .. Len(line)
               PROVE  bytes[i] = Stored(line[i]) /\ (bytes[i] = NUL <=> line[i] = CR)
    OBVIOUS
  <2>1. i \in 1 .. UART_BUF_SIZE /\ bytes[i] = buf[i - 1]
    BY <1>1
  <2>2. buf[i - 1] = Stored(line[i])
    BY DEF EditorInv, Indexed
  <2>3. line[i] \in Keys \cup {CR}
    BY <1>1
  <2> QED
    BY <2>1, <2>2, <2>3, KeysAssumption DEF Stored
<1>3. returns # {} /\ returns \subseteq 1 .. Len(line)
  BY <1>1 DEF EditorInv, Ended
<1>4. returns \subseteq ends
  <2> SUFFICES ASSUME NEW i \in returns PROVE i \in ends
    OBVIOUS
  <2>1. i \in 1 .. Len(line) /\ line[i] = CR
    BY <1>1
  <2>2. bytes[i] = NUL
    BY <1>2, <2>1
  <2> QED
    BY <1>1, <2>1, <2>2
<1> HIDE DEF bytes
<1>5. r \in returns /\ \A x \in returns : r <= x
  BY <1>1, <1>3, MinOfSet
<1>6. e \in ends /\ \A x \in ends : e <= x
  BY <1>1, <1>3, <1>4, MinOfSet
<1> HIDE DEF e, r
<1>7. e = r
  <2>1. e <= r /\ r \in 1 .. Len(line)
    BY <1>3, <1>4, <1>5, <1>6
  <2>2. e \in 1 .. Len(line) /\ bytes[e] = NUL
    BY <1>1, <1>6, <2>1
  <2>3. e \in returns
    BY <1>1, <1>2, <2>2
  <2> QED
    BY <1>1, <1>5, <2>1, <2>2, <2>3
<1>8. r - 1 \in 0 .. Len(line) /\ r \in Int
  BY <1>1, <1>3, <1>5
<1>9. \A i \in 1 .. r - 1 : bytes[i] \in Keys \cup {NUL} /\ bytes[i] = line[i]
  <2> SUFFICES ASSUME NEW i \in 1 .. r - 1
               PROVE  bytes[i] \in Keys \cup {NUL} /\ bytes[i] = line[i]
    OBVIOUS
  <2>1. i \in 1 .. Len(line) /\ i < r
    BY <1>1, <1>8
  <2>2. line[i] # CR
    BY <1>1, <1>5, <1>8, <2>1
  <2>3. bytes[i] = line[i] /\ line[i] \in Keys \cup {CR}
    BY <1>1, <1>2, <2>1, <2>2 DEF Stored
  <2> QED
    BY <2>2, <2>3
<1>10. SubSeq(bytes, 1, r - 1) = SubSeq(line, 1, r - 1)
  <2> DEFINE K == Keys \cup {NUL}
             s == SubSeq(bytes, 1, r - 1)
             t == SubSeq(line, 1, r - 1)
  <2>1. \A i \in 1 .. r - 1 : bytes[i] \in K /\ line[i] \in K /\ bytes[i] = line[i]
    BY <1>9
  <2>2. s \in Seq(K) /\ t \in Seq(K)
    BY <1>8, <2>1, SubSeqProperties
  <2>3. Len(s) = Len(t) /\ Len(s) = r - 1
    BY <1>3, <1>5, <1>8, <2>1, SubSeqProperties
  <2>4. \A i \in 1 .. r - 1 : s[i] = bytes[i] /\ t[i] = line[i]
    BY <1>8, <2>1, SubSeqProperties
  <2> HIDE DEF s, t, K
  <2>5. s = t
    BY <2>1, <2>2, <2>3, <2>4, SeqEqual
  <2> QED
    BY <2>5 DEF s, t
<1>11. Text = SubSeq(bytes, 1, e - 1)
  <2>1. ends # {}
    BY <1>3, <1>4
  <2> QED
    BY <2>1 DEF Text, bytes, e
<1> QED
  BY <1>7, <1>10, <1>11 DEF r

\* What is executed is the first line typed, as long as no more than the buffer
\* holds was read (UART_Con_Mash, lines 108 to 130).
THEOREM Editor == Spec => []ExecutesTyped
<1>1. EditorInv /\ [Next]_vars => EditorInv'
  BY EditorStep
<1> QED
  BY EditorInit, <1>1, EditorTyped, PTL DEF Spec

(***************************************************************************)
(* The boot flash: both halves of the switch lead to the FPGA in every     *)
(* wait of the page writer.  The invariant counts the session's reads for  *)
(* each place of the rotation while the multiplexer has still to follow:   *)
(* two at most, in the one or two calls before the slot of the flush.      *)
(***************************************************************************)
Halves == driving = select
SessionDrives == XmodemMode => pc # "read" /\ (driving \/ taken)
Unswitched == XmodemMode /\ ~taken /\ ~mux
Paced ==
  /\ Unswitched /\ (turn = "power" \/ (turn = "console" /\ late)) => fill = 0
  /\ Unswitched /\ turn = "console" => fill \in {0, 1}
  /\ Unswitched /\ turn = "flush" => fill \in {0, 1, 2}
Waits == pc \in {"ready", "erased"} => XmodemMode /\ ~Unswitched
FlashInv == Halves /\ SessionDrives /\ Paced /\ Waits /\ PagesArrive

LEMMA FlashInit == Init => FlagTypes /\ FlashInv
<1>1. ASSUME Init PROVE FlagTypes
  <2>1. pc \in {"loop", "read", "ready", "erased"} /\ turn \in Turns /\ fill \in 0 .. 3
    BY <1>1 DEF Init, Turns
  <2>2. /\ {cmd_flag, XmodemMode, driving, select, mux, late} \subseteq BOOLEAN
        /\ {wip, S2, taken, missed} \subseteq BOOLEAN
    BY <1>1 DEF Init
  <2> QED
    BY <2>1, <2>2 DEF FlagTypes
<1>2. Init => FlashInv
  BY DEF Init, FlashInv, Halves, SessionDrives, Unswitched, Paced, Waits, PagesArrive
<1> QED
  BY <1>1, <1>2

LEMMA InTimeTurns == ASSUME turn \in Turns, InTime PROVE turn' \in Turns /\ late' = FALSE
  BY DEF Turns, InTime, NextTurn

LEMMA FlagStep == FlagTypes /\ [Next]_vars => FlagTypes'
<1> SUFFICES ASSUME FlagTypes, [Next]_vars PROVE FlagTypes'
  OBVIOUS
<1> USE DEF FlagTypes, session, slots, switch
<1>1. CASE \E k \in Keys \cup {CR} : Type(k)
  BY <1>1 DEF Type, editor
<1>2. CASE Enter \/ NothingTyped
  BY <1>2, InTimeTurns DEF Enter, NothingTyped, editor
<1>3. CASE ReadByte
  BY <1>3 DEF ReadByte
<1>4. CASE Execute
  <2>1. /\ pc' = "loop" /\ late' = TRUE /\ turn' \in Turns
        /\ UNCHANGED <<mux, S2, wip, missed>> /\ cmd_flag' = cmd_flag
    BY <1>4 DEF Execute, Overruns
  <2>2. \/ UNCHANGED <<session, driving, select>>
        \/ Xmodem_Init \/ Switch_BootSpi2BMC \/ Switch_BootSpi2CPU
    BY <1>4 DEF Execute
  <2>3. fill' \in 0 .. 3
    BY <2>2 DEF Xmodem_Init, Switch_BootSpi2BMC, Switch_BootSpi2CPU
  <2>4. XmodemMode' \in BOOLEAN /\ taken' \in BOOLEAN
    BY <2>2 DEF Xmodem_Init, Switch_BootSpi2BMC, Switch_BootSpi2CPU
  <2>5. driving' \in BOOLEAN /\ select' \in BOOLEAN
    BY <2>2 DEF Xmodem_Init, Switch_BootSpi2BMC, Switch_BootSpi2CPU, SetBMC, SetCPU
  <2> QED
    BY <2>1, <2>3, <2>4, <2>5
<1>5. CASE SessionReads
  <2>1. fill' \in 0 .. 3
    BY <1>5 DEF SessionReads, PageFull
  <2>2. turn' \in Turns /\ late' \in BOOLEAN
    <3>1. turn' \in Turns /\ late' = FALSE
      BY <1>5, InTimeTurns DEF SessionReads
    <3> QED
      BY <3>1
  <2>3. UNCHANGED <<XmodemMode, taken, pc, cmd_flag, driving, select, mux, S2, wip, missed>>
    BY <1>5 DEF SessionReads, editor
  <2> QED
    BY <2>1, <2>2, <2>3
<1>6. CASE SessionEnds
  <2>1. turn' \in Turns /\ late' = FALSE /\ XmodemMode' = FALSE
    BY <1>6, InTimeTurns DEF SessionEnds
  <2>2. fill' \in 0 .. 3
    BY <1>6 DEF SessionEnds
  <2>3. UNCHANGED <<taken, pc, cmd_flag, driving, select, mux, S2, wip, missed>>
    BY <1>6 DEF SessionEnds, editor
  <2> QED
    BY <2>1, <2>2, <2>3
<1>7. CASE PageWrite
  BY <1>7 DEF PageWrite, editor
<1>8. CASE Poll
  BY <1>8 DEF Poll, StatusReady, StatusErased, Command, Reaches, Overruns, editor
<1>9. CASE FlashDone
  BY <1>9 DEF FlashDone, editor
<1>10. CASE MachPowerS2
  BY <1>10 DEF MachPowerS2, SetCPU, Overruns, editor
<1>11. CASE MachPowerOther
  BY <1>11, InTimeTurns DEF MachPowerOther, editor
<1>12. CASE SPI_GPIO_Mash
  BY <1>12, InTimeTurns DEF SPI_GPIO_Mash, editor
<1>13. CASE UNCHANGED vars
  BY <1>13 DEF vars, editor
<1> QED
  BY <1>1, <1>2, <1>3, <1>4, <1>5, <1>6, <1>7, <1>8, <1>9, <1>10, <1>11, <1>12, <1>13
  DEF Next, UART_Con_Mash

\* A call that is back in time keeps the pace: what the place of the rotation
\* allows grows by the read the call may make.
LEMMA PacedCall ==
  ASSUME Paced, turn \in Turns, InTime, Unswitched' => Unswitched,
         Unswitched => turn # "flush",
         fill' = 0 \/ fill' = fill \/ (turn = "console" /\ fill' = fill + 1)
  PROVE  Paced'
<1> SUFFICES ASSUME Unswitched PROVE Paced'
  BY DEF Paced
<1>1. turn = "power" \/ turn = "console"
  BY DEF Turns
<1>2. CASE turn = "power"
  <2>1. fill' = 0
    BY <1>2 DEF Paced
  <2> QED
    BY <2>1 DEF Paced
<1>3. CASE turn = "console" /\ late
  <2>1. fill' \in {0, 1} /\ turn' \in {"console", "flush"} /\ ~late'
    BY <1>3 DEF Paced, InTime, NextTurn
  <2> QED
    BY <2>1 DEF Paced
<1>4. CASE turn = "console" /\ ~late
  <2>1. fill' \in {0, 1, 2} /\ turn' = "flush"
    BY <1>4 DEF Paced, InTime, NextTurn
  <2> QED
    BY <2>1 DEF Paced
<1> QED
  BY <1>1, <1>2, <1>3, <1>4

LEMMA FlashStep == FlagTypes /\ FlashInv /\ [Next]_vars => FlashInv'
<1> SUFFICES ASSUME FlagTypes, FlashInv, [Next]_vars PROVE FlashInv'
  OBVIOUS
<1> USE DEF FlashInv, Halves, SessionDrives, Unswitched, Waits,
            PagesArrive, session, slots, switch
<1>0. turn \in Turns /\ Paced
  BY DEF FlagTypes
<1>1. CASE \E k \in Keys \cup {CR} : Type(k)
  BY <1>1 DEF Type, editor, Paced
<1>2. CASE Enter
  BY <1>2 DEF Enter, Turn, Paced
<1>3. CASE ReadByte
  BY <1>3 DEF ReadByte, Paced
<1>4. CASE Execute
  <2>1. /\ pc = "read" /\ pc' = "loop" /\ ~XmodemMode
        /\ UNCHANGED <<mux, S2, wip, missed>>
    BY <1>4 DEF Execute
  <2>2. \/ UNCHANGED <<session, driving, select>>
        \/ Xmodem_Init \/ Switch_BootSpi2BMC \/ Switch_BootSpi2CPU
    BY <1>4 DEF Execute
  <2>3. CASE UNCHANGED <<session, driving, select>>
    BY <2>1, <2>3 DEF Paced
  <2>4. CASE Xmodem_Init
    BY <2>1, <2>4 DEF Xmodem_Init, SetBMC, Paced
  <2>5. CASE Switch_BootSpi2BMC \/ Switch_BootSpi2CPU
    <3>1. UNCHANGED XmodemMode
      BY <2>5 DEF Switch_BootSpi2BMC, Switch_BootSpi2CPU
    <3>2. select' = driving'
      <4>1. CASE Switch_BootSpi2BMC
        BY <4>1 DEF Switch_BootSpi2BMC, SetBMC
      <4>2. CASE Switch_BootSpi2CPU
        BY <4>2 DEF Switch_BootSpi2CPU, SetCPU
      <4> QED
        BY <2>5, <4>1, <4>2
    <3> QED
      BY <2>1, <3>1, <3>2 DEF Paced
  <2> QED
    BY <2>2, <2>3, <2>4, <2>5
<1>5. CASE SessionReads
  <2>1. /\ turn = "console" /\ pc = "loop" /\ pc' = pc /\ fill' \in {fill, fill + 1} /\ InTime
        /\ UNCHANGED <<XmodemMode, taken, driving, select, mux, missed>>
    BY <1>5 DEF SessionReads, SessionTurn, Turn
  <2>2. Paced'
    BY <1>0, <2>1, PacedCall
  <2> QED
    BY <2>1, <2>2
<1>6. CASE SessionEnds \/ NothingTyped
  <2>1. /\ pc = "loop" /\ pc' = pc /\ XmodemMode' = FALSE
        /\ UNCHANGED <<taken, driving, select, mux, missed>>
    BY <1>6 DEF SessionEnds, SessionTurn, NothingTyped, Turn
  <2> QED
    BY <2>1 DEF Paced
<1>7. CASE PageWrite
  <2>1. /\ fill + 1 >= 4 /\ turn = "console" /\ XmodemMode
        /\ UNCHANGED <<XmodemMode, taken, driving, select, mux, missed>> /\ pc' = "ready"
    BY <1>7 DEF PageWrite, SessionTurn, Turn, PageFull
  <2>2. fill \notin {0, 1}
    BY <2>1
  <2>3. ~Unswitched /\ ~Unswitched'
    BY <1>0, <2>1, <2>2 DEF Paced
  <2> QED
    BY <2>1, <2>3 DEF Paced
<1>8. CASE Poll
  <2>1. /\ pc \in {"ready", "erased"} /\ pc' \in {"erased", "loop"}
        /\ missed' = (missed \/ ~(Reaches \/ taken))
        /\ UNCHANGED <<XmodemMode, taken, driving, select, mux>>
    BY <1>8 DEF Poll, StatusReady, StatusErased, Command
  <2> QED
    BY <2>1 DEF Reaches, Paced
<1>9. CASE FlashDone
  BY <1>9 DEF FlashDone, Paced
<1>10. CASE MachPowerS2
  BY <1>10 DEF MachPowerS2, Turn, SetCPU, Paced
<1>11. CASE MachPowerOther
  <2>1. /\ turn = "power" /\ pc' = pc /\ InTime /\ fill' = fill
        /\ UNCHANGED <<XmodemMode, taken, driving, select, mux, missed>>
    BY <1>11 DEF MachPowerOther, Turn
  <2>2. Paced'
    BY <1>0, <2>1, PacedCall
  <2> QED
    BY <2>1, <2>2
<1>12. CASE SPI_GPIO_Mash
  <2>1. /\ pc = "loop" /\ pc' = pc /\ mux' = select
        /\ UNCHANGED <<XmodemMode, taken, driving, select, missed>>
    BY <1>12 DEF SPI_GPIO_Mash, Turn
  <2> QED
    BY <2>1 DEF Paced
<1>13. CASE UNCHANGED vars
  BY <1>13 DEF vars, Paced
<1> QED
  BY <1>1, <1>2, <1>3, <1>4, <1>5, <1>6, <1>7, <1>8, <1>9, <1>10, <1>11, <1>12, <1>13
  DEF Next, UART_Con_Mash

\* The page writer's commands get to the flash unless stage S2 took it away in
\* the session, however commands, slots and sessions follow each other: the flush
\* is there before the first page because a page takes four of the console's calls
\* and the rotation lets two of them at most come before it.
THEOREM Arrive == Spec => []PagesArrive
<1>1. FlashInv => PagesArrive
  BY DEF FlashInv
<1> QED
  BY FlashInit, FlagStep, FlashStep, <1>1, PTL DEF Spec

\* The types of the console's variables, the buffer's index among them.
THEOREM Types == Spec => []TypeOK
<1>1. EditorInv /\ FlagTypes => TypeOK
  BY DEF EditorInv, TypeOK
<1> QED
  BY EditorInit, EditorStep, FlashInit, FlagStep, <1>1, PTL DEF Spec
=============================================================================
