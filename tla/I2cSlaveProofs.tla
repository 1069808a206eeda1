--------------------------- MODULE I2cSlaveProofs ---------------------------
(***************************************************************************)
(* Theorems about the I2C port expander, for every size of a byte that its *)
(* counter can count, every address, every set of inputs, whole and broken *)
(* transactions and any number of losses of the PLL's lock.                *)
(*                                                                         *)
(* The invariant follows a transaction clock by clock: Bit is the clock    *)
(* the slave is in, or is about to see rise, and every register is what    *)
(* the history makes of that clock.                                        *)
(***************************************************************************)
EXTENDS I2cSlave, SequenceTheorems, TLAPS

(***************************************************************************)
(* The clock of a transaction the slave is in, or is about to see rise,    *)
(* and the count it has for it.                                            *)
(***************************************************************************)
Whole == BITS + 1
NextSeen == IF seen = 3 * Whole THEN 2 * Whole + 1 ELSE seen + 1
Bit == IF sclk THEN seen ELSE NextSeen
CountAt(n) ==
  IF n \in {Whole, 2 * Whole, 3 * Whole} THEN ACK
  ELSE IF n < Whole THEN BITS - n
  ELSE IF n < 2 * Whole THEN 2 * BITS + 1 - n ELSE 3 * BITS + 2 - n

LineType ==
  /\ sclk \in BOOLEAN /\ bus \in BIT /\ rst_n \in BOOLEAN /\ resets \in Nat
  /\ GPIO_input \in Byte
TrackType ==
  /\ start \in BOOLEAN /\ stop \in BOOLEAN /\ start_stop \in BOOLEAN
  /\ repeat_start \in BOOLEAN /\ reset \in BOOLEAN /\ count \in (0 .. BITS - 1) \cup {ACK}
TakeType ==
  /\ some_other_device \in BOOLEAN /\ data_or_address \in BOOLEAN
  /\ add_is_matching \in BOOLEAN /\ read_oper \in BOOLEAN /\ write_flag \in BOOLEAN
  /\ done \in BOOLEAN /\ GPIO_output \in Byte
SendType ==
  low \in BOOLEAN /\ GPIO_input_reg \in Byte /\ GPIO_interrupt_reg \in Byte
HistoryType ==
  /\ on \in BOOLEAN /\ seen \in 0 .. 3 * Whole /\ mine \in BOOLEAN /\ reading \in BOOLEAN
  /\ byte \in Seq(BIT) /\ sound \in BOOLEAN /\ begun \in BOOLEAN
ResultType ==
  written \in Byte \cup {NoByte} /\ shown \in Byte \cup {NoByte} /\ elsewhere \in BOOLEAN
TypeOK == LineType /\ TrackType /\ TakeType /\ SendType /\ HistoryType /\ ResultType

(* The two lines, and what the slave makes of them before the clock falls. *)
LinesInv ==
  /\ ~sclk => on /\ ~start
  /\ on => begun
  /\ start => on /\ sclk /\ seen = 0
  /\ on /\ sclk /\ ~start => seen >= 1
  /\ on /\ ~start => ~stop
  /\ reset <=> on /\ ~start /\ (seen = 0 \/ (seen = 1 /\ sclk))
  /\ sound => rst_n

Clean == ~data_or_address /\ ~some_other_device /\ ~write_flag /\ ~done

(* Between transactions, and when one begins anew behind a start that the  *)
(* slave has not tracked yet.                                              *)
RestInv ==
  /\ sclk /\ ~start_stop => Clean /\ (add_is_matching <=> IF start THEN mine ELSE begun)
  /\ start /\ start_stop => mine
  /\ start_stop => begun
  /\ (start \/ ~on) /\ start_stop /\ count = 0 /\ read_oper /\ ~done => elsewhere

(* In a transaction: the slave follows it to the acknowledge bit of the    *)
(* address, and further if the address is its own.                         *)
FollowInv ==
  /\ start_stop <=> mine \/ Bit <= BITS + 1
  /\ start_stop => count = CountAt(Bit)
  /\ seen = 0 => /\ mine <=> add_is_matching \/ repeat_start
                 /\ ~repeat_start => Clean
  /\ start_stop /\ seen >= 1 =>
       /\ add_is_matching <=> mine
       /\ repeat_start => seen = 1 /\ sclk
       /\ data_or_address <=> seen = BITS \/ (seen > BITS /\ mine)
       /\ some_other_device <=> seen = BITS + 1 /\ ~mine
       /\ write_flag <=> mine /\ reading /\ seen > BITS
       /\ done <=> mine /\ seen > 2 * BITS
       /\ seen >= BITS => (read_oper <=> reading)
TrackInv == LinesInv /\ RestInv /\ (on /\ ~start => FollowInv)

(* What the slave must make of SDA in clock n. *)
Wanted(n) ==
  /\ mine /\ n > BITS
  /\ \/ n = BITS + 1
     \/ ~reading /\ n \in {2 * Whole, 3 * Whole}
     \/ reading /\ n \in BITS + 2 .. 2 * BITS + 1 /\ shown[2 * BITS + 1 - n] = 0
Sent == Bit - (BITS + 1)
SendInv ==
  sound /\ on /\ ~start /\ Bit >= 2 =>
    /\ low <=> Wanted(Bit)
    /\ mine /\ reading /\ Bit \in BITS + 1 .. 2 * BITS + 1 =>
         /\ shown # NoByte
         /\ \A i \in 0 .. BITS - 1 :
              GPIO_input_reg[i] = IF i < Sent THEN 0 ELSE shown[i - Sent]

(* The byte being written. *)
OutputInv ==
  /\ Len(byte) = IF ~mine \/ reading \/ seen <= BITS + 1 THEN 0
                 ELSE IF seen > 2 * BITS THEN BITS ELSE seen - (BITS + 1)
  /\ \A i \in 1 .. Len(byte) : byte[i] = GPIO_output[BITS - i]
  /\ Len(byte) \in 1 .. BITS - 1 => written = NoByte
  /\ OutputAsWritten

ReadInv == shown # NoByte /\ ~elsewhere => GPIO_interrupt_reg = shown
-----------------------------------------------------------------------------
LEMMA Sizes ==
  /\ BITS \in Nat /\ 2 <= BITS /\ BITS <= 12 /\ Whole = BITS + 1 /\ Whole \in Nat /\ ACK = 15
  /\ slave_address \in [0 .. BITS - 2 -> BIT] /\ Inputs \subseteq Byte
BY BitsAssumption, ByteAssumption DEF Whole, ACK

LEMMA BitIs ==
  ASSUME TypeOK
  PROVE  sda \in BIT
BY DEF sda, BIT

(* The counter, from clock to clock. *)
LEMMA Counting ==
  ASSUME NEW n \in 1 .. 3 * Whole
  PROVE  /\ CountAt(n) \in (0 .. BITS - 1) \cup {ACK}
         /\ CountAt(n) = ACK <=> n \in {Whole, 2 * Whole, 3 * Whole}
         /\ CountAt(n) = 0 <=> n \in {BITS, 2 * BITS + 1, 3 * BITS + 2}
         /\ n <= BITS => CountAt(n) = BITS - n
         /\ n \in Whole + 1 .. 2 * BITS + 1 => CountAt(n) = 2 * BITS + 1 - n
         /\ n < 3 * Whole => CountAt(n + 1) = IF CountAt(n) = ACK THEN BITS - 1
                                              ELSE IF CountAt(n) = 0 THEN ACK
                                              ELSE CountAt(n) - 1
         /\ n = 3 * Whole => CountAt(2 * Whole + 1) = BITS - 1
BY Sizes DEF CountAt

LEMMA SeenNext ==
  ASSUME TypeOK
  PROVE  NextSeen \in 1 .. 3 * Whole /\ Bit \in 0 .. 3 * Whole
BY Sizes DEF TypeOK, HistoryType, LineType, NextSeen, Bit

-----------------------------------------------------------------------------
(* Types *)

LEMMA ShiftType ==
  ASSUME NEW v \in Byte
  PROVE  Shift(v) \in Byte
<1>1. ASSUME NEW i \in 0 .. BITS - 1
      PROVE  (IF i = 0 THEN 0 ELSE v[i - 1]) \in BIT
  <2>1. i # 0 => i - 1 \in 0 .. BITS - 1
    BY Sizes
  <2>2. i # 0 => v[i - 1] \in BIT
    BY <2>1 DEF Byte
  <2> QED
    BY <2>2 DEF BIT
<1> QED
  BY <1>1 DEF Shift, Byte

LEMMA TypeInit == Init => TypeOK
<1> SUFFICES ASSUME Init PROVE TypeOK
  OBVIOUS
<1>1. Zero \in Byte
  BY DEF Zero, Byte, BIT
<1>2. GPIO_input \in Byte /\ 0 \in 0 .. 3 * Whole /\ 0 \in 0 .. BITS - 1
  BY Sizes DEF Init
<1>3. << >> \in Seq(BIT)
  BY EmptySeq
<1> QED
  BY <1>1, <1>2, <1>3 DEF Init, TypeOK, LineType, TrackType, TakeType, SendType, HistoryType,
     ResultType, BIT, NoByte

LEMMA TypeLine ==
  ASSUME TypeOK, Data \/ Start \/ Stop \/ Change \/ Release \/ Unlock
  PROVE  TypeOK'
<1> USE DEF TypeOK
<1>1. CASE Data \/ Change \/ Release \/ Unlock
  <2>1. LineType'
    <3>1. CASE Data
      BY <3>1 DEF Data, LineType, pins
    <3>2. CASE Change
      <4>1. GPIO_input' \in Byte
        BY <3>2, Sizes DEF Change
      <4> QED
        BY <3>2, <4>1 DEF Change, LineType
    <3>3. CASE Release
      BY <3>3 DEF Release, LineType
    <3>4. CASE Unlock
      <4>1. resets' \in Nat
        BY <3>4 DEF Unlock, LineType
      <4> QED
        BY <3>4, <4>1 DEF Unlock, LineType
    <3> QED
      BY <1>1, <3>1, <3>2, <3>3, <3>4
  <2>2. TrackType' /\ TakeType' /\ SendType' /\ ResultType'
    BY <1>1 DEF Data, Change, Release, Unlock, tracking, taking, sending, results,
                TrackType, TakeType, SendType, ResultType
  <2>3. HistoryType'
    <3>1. UNCHANGED <<transaction, begun>> /\ sound' \in {sound, FALSE}
      BY <1>1 DEF Data, Change, Release, Unlock
    <3> QED
      BY <3>1 DEF transaction, HistoryType, Whole
  <2> QED
    BY <2>1, <2>2, <2>3
<1>2. CASE Start
  <2>1. LineType' /\ TrackType' /\ TakeType' /\ SendType' /\ ResultType'
    BY <1>2 DEF Start, pins, taking, sending, BrokenOff, LineType, TrackType, TakeType,
                SendType, ResultType, BIT
  <2>2. HistoryType'
    BY <1>2, Sizes, EmptySeq DEF Start, LineType, HistoryType, Whole
  <2> QED
    BY <2>1, <2>2
<1>3. CASE Stop
  <2>1. LineType' /\ TrackType' /\ TakeType' /\ SendType' /\ ResultType'
    BY <1>3 DEF Stop, pins, taking, sending, BrokenOff, LineType, TrackType, TakeType,
                SendType, ResultType, BIT
  <2>2. HistoryType'
    BY <1>3 DEF Stop, HistoryType, Whole
  <2> QED
    BY <2>1, <2>2
<1> QED
  BY <1>1, <1>2, <1>3
LEMMA TypeRise ==
  ASSUME TypeOK, Rise
  PROVE  TypeOK'
<1> USE DEF TypeOK
<1>1. sda \in BIT
  BY BitIs
<1>2. LineType' /\ TrackType' /\ SendType'
  BY DEF Rise, pins, tracking, sending, LineType, TrackType, SendType
<1>3. TakeType'
  <2>1. ASSUME count \in 0 .. BITS - 1
        PROVE  [GPIO_output EXCEPT ![count] = sda] \in Byte
    BY <2>1, <1>1 DEF TakeType, Byte
  <2>2. CASE start_stop /\ sda_is_ack /\ TakeAck
    BY <2>2 DEF TakeAck, TakeType
  <2>3. CASE start_stop /\ ~sda_is_ack /\ TakeAddressBit
    BY <2>3 DEF TakeAddressBit, NextMatch, TakeType, TrackType
  <2>4. CASE start_stop /\ ~sda_is_ack /\ TakeDataBit
    <3>1. count \in 0 .. BITS - 1
      BY <2>4 DEF sda_is_ack, TrackType
    <3> QED
      BY <2>1, <2>4, <3>1 DEF TakeDataBit, TakeType
  <2>5. CASE TakeNothing
    BY <2>5 DEF TakeNothing, TakeType
  <2> QED
    BY <2>2, <2>3, <2>4, <2>5 DEF Rise, Take
<1>4. byte' \in Seq(BIT)
  <2>1. byte \in Seq(BIT)
    BY DEF HistoryType
  <2>2. Append(byte, sda) \in Seq(BIT)
    BY <1>1, <2>1, AppendProperties
  <2> QED
    BY <2>1, <2>2 DEF Rise, Follow
<1>5. seen' \in 0 .. 3 * Whole
  BY Sizes DEF Rise, Follow, HistoryType
<1>6. HistoryType'
  BY <1>4, <1>5 DEF Rise, Follow, HistoryType, Whole
<1>7. written' \in Byte \cup {NoByte}
  <2>1. ASSUME Len(byte') = BITS
        PROVE  [i \in 0 .. BITS - 1 |-> byte'[BITS - i]] \in Byte
    <3>1. ASSUME NEW i \in 0 .. BITS - 1
          PROVE  byte'[BITS - i] \in BIT
      <4>1. BITS - i \in 1 .. Len(byte')
        BY <2>1, Sizes
      <4> QED
        BY <1>4, <4>1, ElementOfSeq
    <3> QED
      BY <3>1 DEF Byte
  <2> QED
    BY <2>1 DEF Rise, Follow, ResultType
<1>8. ResultType'
  BY <1>7 DEF Rise, ResultType
<1> QED
  BY <1>2, <1>3, <1>6, <1>8

LEMMA TypeFall ==
  ASSUME TypeOK, Fall
  PROVE  TypeOK'
<1> USE DEF TypeOK
<1>1. LineType' /\ TakeType' /\ ResultType'
  BY DEF Fall, pins, taking, LineType, TakeType, ResultType
<1>2. count' \in (0 .. BITS - 1) \cup {ACK}
  BY Sizes DEF Fall, Count, TrackType, sda_is_ack
<1>3. /\ start_stop' \in BOOLEAN /\ repeat_start' \in BOOLEAN /\ reset' \in BOOLEAN
      /\ start' \in BOOLEAN /\ stop' \in BOOLEAN
  BY DEF Fall, Track, TrackType
<1>4. SendType'
  <2>1. Shift(GPIO_input_reg) \in Byte
    BY ShiftType DEF SendType
  <2> QED
    BY <2>1 DEF Fall, Send, sending, SendType, LineType
<1>5. HistoryType'
  BY DEF Fall, transaction, HistoryType, Whole
<1> QED
  BY <1>1, <1>2, <1>3, <1>4, <1>5 DEF TrackType

LEMMA TypeNext == TypeOK /\ [Next]_vars => TypeOK'
<1> SUFFICES ASSUME TypeOK, [Next]_vars PROVE TypeOK'
  OBVIOUS
<1>1. CASE UNCHANGED vars
  BY <1>1 DEF vars, pins, tracking, taking, sending, transaction, results, TypeOK, LineType,
              TrackType, TakeType, SendType, HistoryType, ResultType, Whole
<1> QED
  BY <1>1, TypeLine, TypeRise, TypeFall DEF Next, Clock
-----------------------------------------------------------------------------
(* The slave follows the lines *)

LEMMA TrackInit == Init => TrackInv
BY DEF Init, TrackInv, LinesInv, RestInv, Clean

(* What FollowInv, RestInv and LinesInv are about does not move with the   *)
(* pins, the reset and SDA.                                                *)
LEMMA TrackElsewhere ==
  ASSUME TrackInv,
         UNCHANGED <<sclk, tracking, count, taking, transaction, begun, elsewhere>>,
         sound' => rst_n'
  PROVE  TrackInv'
<1>1. UNCHANGED <<sclk, start, stop, start_stop, repeat_start, reset, count, some_other_device,
                  data_or_address, add_is_matching, read_oper, write_flag, done,
                  on, seen, mine, reading, begun, elsewhere>>
  BY DEF tracking, taking, transaction
<1>2. Bit' = Bit
  BY <1>1 DEF Bit, NextSeen, Whole
<1>3. CountAt(Bit)' = CountAt(Bit)
  BY <1>2 DEF CountAt, Whole, ACK
<1>4. LinesInv'
  BY <1>1 DEF TrackInv, LinesInv
<1>5. RestInv'
  BY <1>1 DEF TrackInv, RestInv, Clean
<1>6. FollowInv => FollowInv'
  BY <1>1, <1>2, <1>3 DEF FollowInv, Clean
<1> QED
  BY <1>1, <1>4, <1>5, <1>6 DEF TrackInv

(* A transaction that ends where masters may end it: the slave is out of   *)
(* the first clock, and has seen the direction only where the history says *)
(* that a read was broken off.                                             *)
LEMMA Ending ==
  ASSUME TypeOK, TrackInv, sclk, on, MayEnd
  PROVE  /\ ~start /\ ~reset
         /\ start_stop /\ count = 0 /\ read_oper /\ ~done => reading /\ seen = BITS
<1>1. seen >= 2 /\ seen \in 0 .. 3 * Whole
  BY DEF MayEnd, TypeOK, HistoryType
<1>2. ~start /\ ~reset
  BY <1>1 DEF TrackInv, LinesInv
<1>3. FollowInv /\ Bit = seen
  BY <1>2 DEF TrackInv, Bit
<1>4. ASSUME start_stop, count = 0, read_oper, ~done
      PROVE  reading /\ seen = BITS
  <2>1. seen \in 1 .. 3 * Whole /\ seen >= 1
    BY <1>1, Sizes
  <2>2. CountAt(seen) = 0
    BY <1>3, <1>4 DEF FollowInv
  <2>3. seen \in {BITS, 2 * BITS + 1, 3 * BITS + 2}
    BY <2>1, <2>2, Counting
  <2>4. seen # BITS => seen > 2 * BITS /\ ~(seen <= BITS + 1)
    BY <2>3, Sizes
  <2>5. seen = BITS => seen >= BITS
    BY Sizes
  <2> QED
    BY <1>3, <1>4, <2>1, <2>4, <2>5 DEF FollowInv
<1> QED
  BY <1>2, <1>4

LEMMA TrackStart ==
  ASSUME TypeOK, TrackInv, Start
  PROVE  TrackInv' /\ start'
<1>1. ~start /\ ~reset
  <2>1. on => ~start /\ ~reset
    BY Ending DEF Start
  <2> QED
    BY <2>1 DEF TrackInv, LinesInv
<1>2. start' /\ on' /\ sclk' /\ sclk
  BY <1>1 DEF Start
<1>3. LinesInv'
  BY <1>1, <1>2 DEF Start, LinesInv, pins
<1>4. UNCHANGED <<start_stop, count, read_oper, done, data_or_address, some_other_device,
                  write_flag, add_is_matching>>
  BY DEF Start, taking
<1>5. start_stop /\ count = 0 /\ read_oper /\ ~done => elsewhere'
  <2>1. CASE on
    BY <2>1, Ending DEF Start, BrokenOff
  <2>2. CASE ~on
    BY <2>2 DEF Start, BrokenOff, TrackInv, RestInv
  <2> QED
    BY <2>1, <2>2
<1>6. mine' = begun /\ begun'
  BY DEF Start
<1>7. RestInv'
  BY <1>1, <1>2, <1>4, <1>5, <1>6 DEF TrackInv, RestInv, Clean
<1> QED
  BY <1>2, <1>3, <1>7 DEF TrackInv

LEMMA TrackStop ==
  ASSUME TypeOK, TrackInv, Stop
  PROVE  TrackInv'
<1>1. ~start /\ ~reset
  BY Ending DEF Stop
<1>2. ~start' /\ ~on' /\ sclk' /\ sclk /\ ~reset'
  BY <1>1 DEF Stop
<1>3. LinesInv'
  BY <1>1, <1>2 DEF Stop, TrackInv, LinesInv, pins
<1>4. UNCHANGED <<start_stop, count, read_oper, done, data_or_address, some_other_device,
                  write_flag, add_is_matching, begun>>
  BY DEF Stop, taking
<1>5. start_stop /\ count = 0 /\ read_oper /\ ~done => elsewhere'
  BY Ending DEF Stop, BrokenOff
<1>6. RestInv'
  BY <1>1, <1>2, <1>4, <1>5 DEF TrackInv, RestInv, Clean
<1> QED
  BY <1>2, <1>3, <1>6 DEF TrackInv
(* The rising edge, by where the transaction is. *)
LEMMA RiseFacts ==
  ASSUME TypeOK, TrackInv, Rise
  PROVE  /\ on /\ ~start /\ FollowInv /\ begun /\ ~sclk /\ sclk'
         /\ UNCHANGED <<start, stop, start_stop, repeat_start, reset, count, on, begun, elsewhere,
                        sound, rst_n>>
         /\ seen' = Bit /\ Bit' = Bit /\ Bit \in 1 .. 3 * Whole
         /\ seen' = NextSeen /\ seen \in 0 .. 3 * Whole
<1>1. on /\ ~start /\ FollowInv /\ begun /\ ~sclk /\ sclk'
  BY DEF TrackInv, LinesInv, Rise
<1>2. UNCHANGED <<start, stop, start_stop, repeat_start, reset, count, on, begun, elsewhere,
                  sound, rst_n>>
  BY DEF Rise, tracking, pins
<1>3. seen' = NextSeen
  BY DEF Rise, Follow, NextSeen, Whole
<1>4. Bit = NextSeen /\ Bit' = seen'
  BY <1>1 DEF Bit
<1>5. NextSeen \in 1 .. 3 * Whole
  BY SeenNext
<1> QED
  BY <1>1, <1>2, <1>3, <1>4, <1>5 DEF TypeOK, HistoryType

(* What the slave takes from the bit, when it is in the transaction. *)
LEMMA RiseTakes ==
  ASSUME TypeOK, TrackInv, Rise, start_stop
  PROVE  /\ count = CountAt(Bit)
         /\ Bit \in {Whole, 2 * Whole, 3 * Whole} => TakeAck
         /\ Bit \in 1 .. BITS => TakeAddressBit
         /\ Bit \in Whole + 1 .. 3 * Whole /\ Bit \notin {2 * Whole, 3 * Whole} => TakeDataBit
         /\ Bit \in 1 .. BITS => ~(data_or_address /\ ~repeat_start)
         /\ Bit = 1 => (~repeat_start => Clean)
         /\ Bit > 1 => seen >= 1 /\ ~repeat_start
<1>1. count = CountAt(Bit) /\ Bit \in 1 .. 3 * Whole
  BY RiseFacts DEF FollowInv
<1>2. sda_is_ack <=> Bit \in {Whole, 2 * Whole, 3 * Whole}
  BY <1>1, Counting DEF sda_is_ack
<1>3. Bit = 1 <=> seen = 0
  BY RiseFacts, Sizes DEF NextSeen
<1>4. Bit = 1 => (~repeat_start => Clean)
  BY <1>3, RiseFacts DEF FollowInv
<1>5. Bit > 1 => seen >= 1 /\ ~repeat_start
  <2>1. Bit > 1 => seen >= 1
    BY <1>1, <1>3, RiseFacts, Sizes
  <2> QED
    BY <2>1, RiseFacts DEF FollowInv
<1>6. Bit \in 2 .. BITS => seen >= 1 /\ ~(seen >= BITS) /\ seen # BITS /\ ~(seen > BITS)
  BY RiseFacts, Sizes DEF NextSeen
<1>7. Bit \in 2 .. BITS => ~data_or_address
  BY <1>6, RiseFacts DEF FollowInv
<1>8. Bit \in 1 .. BITS => ~(data_or_address /\ ~repeat_start)
  <2>1. Bit \in 1 .. BITS => Bit = 1 \/ Bit \in 2 .. BITS
    BY Sizes
  <2> QED
    BY <1>4, <1>7, <2>1 DEF Clean
<1>9. Bit \in Whole + 1 .. 3 * Whole => data_or_address
  <2>1. Bit \in Whole + 1 .. 3 * Whole => seen >= 1 /\ seen > BITS /\ ~(Bit <= BITS + 1)
    BY RiseFacts, Sizes DEF NextSeen
  <2> QED
    BY <2>1, RiseFacts DEF FollowInv
<1>10. Bit \in {Whole, 2 * Whole, 3 * Whole} => TakeAck
  BY <1>2 DEF Rise, Take
<1>11. Bit \in 1 .. BITS => ~sda_is_ack
  BY <1>2, Sizes
<1>12. Bit \in 1 .. BITS => TakeAddressBit
  BY <1>8, <1>11 DEF Rise, Take
<1>13. Bit \in Whole + 1 .. 3 * Whole => Bit > 1 /\ Bit # Whole
  BY Sizes
<1>14. Bit \in Whole + 1 .. 3 * Whole /\ Bit \notin {2 * Whole, 3 * Whole} => TakeDataBit
  BY <1>2, <1>5, <1>9, <1>13 DEF Rise, Take
<1> QED
  BY <1>1, <1>4, <1>5, <1>8, <1>10, <1>12, <1>14

LEMMA MineRise ==
  ASSUME TypeOK, TrackInv, Rise
  PROVE  /\ Bit >= BITS => (mine' <=> mine)
         /\ Bit < BITS => (mine' <=> mine /\ sda = slave_address[BITS - 1 - Bit])
         /\ Bit # BITS => (reading' <=> reading)
         /\ Bit = BITS => (reading' <=> sda = 1)
<1>1. Bit \in 1 .. 3 * Whole /\ seen' = Bit
  BY RiseFacts
<1>2. /\ mine' = (mine /\ (Bit < BITS => sda = slave_address[BITS - 1 - Bit]))
      /\ reading' = IF Bit = BITS THEN sda = 1 ELSE reading
  BY <1>1 DEF Rise, Follow
<1>3. Bit >= BITS => ~(Bit < BITS)
  BY <1>1, Sizes
<1> QED
  BY <1>2, <1>3 DEF TypeOK, HistoryType
(* The registers behind a rising edge, as FollowInv has them. *)
Registers ==
  /\ add_is_matching <=> mine
  /\ data_or_address <=> seen = BITS \/ (seen > BITS /\ mine)
  /\ some_other_device <=> seen = BITS + 1 /\ ~mine
  /\ write_flag <=> mine /\ reading /\ seen > BITS
  /\ done <=> mine /\ seen > 2 * BITS
  /\ seen >= BITS => (read_oper <=> reading)

LEMMA RiseInAddress ==
  ASSUME TypeOK, TrackInv, Rise, start_stop, Bit \in 1 .. BITS
  PROVE  Registers'
<1>1. seen' = Bit /\ count = BITS - Bit /\ TakeAddressBit
  <2>1. Bit \in 1 .. 3 * Whole /\ Bit <= BITS
    BY RiseFacts, Sizes
  <2>2. CountAt(Bit) = BITS - Bit
    BY <2>1, Counting
  <2> QED
    BY <2>2, RiseTakes, RiseFacts
<1>2. /\ count = 0 <=> Bit = BITS
      /\ count > 0 <=> Bit < BITS
      /\ count - 1 = BITS - 1 - Bit
      /\ Bit >= BITS <=> Bit = BITS
      /\ ~(Bit > BITS) /\ ~(Bit > 2 * BITS) /\ Bit # BITS + 1
  BY <1>1, Sizes
<1>3. ~(data_or_address /\ ~repeat_start) /\ ~(some_other_device /\ ~repeat_start)
      /\ ~(write_flag /\ ~repeat_start) /\ ~(done /\ ~repeat_start)
      /\ (add_is_matching \/ repeat_start <=> mine)
  <2>1. CASE Bit = 1
    <3>1. seen = 0
      BY <2>1, RiseFacts, Sizes DEF NextSeen
    <3> QED
      BY <2>1, <3>1, RiseTakes, RiseFacts DEF FollowInv, Clean
  <2>2. CASE Bit # 1
    <3>1. Bit > 1
      BY <2>2, Sizes
    <3>2. /\ seen >= 1 /\ seen # BITS /\ ~(seen > BITS) /\ seen # BITS + 1 /\ ~(seen > 2 * BITS)
      BY <3>1, RiseFacts, Sizes DEF NextSeen
    <3>3. ~repeat_start
      BY <3>1, RiseTakes
    <3> QED
      BY <3>2, <3>3, RiseFacts DEF FollowInv
  <2> QED
    BY <2>1, <2>2
<1>4. add_is_matching' <=> mine'
  <2>1. add_is_matching' <=> mine /\ (Bit < BITS => sda = slave_address[BITS - 1 - Bit])
    BY <1>1, <1>2, <1>3 DEF TakeAddressBit, NextMatch
  <2>2. Bit >= BITS \/ Bit < BITS
    BY Sizes
  <2>3. Bit >= BITS => ~(Bit < BITS)
    BY Sizes
  <2> QED
    BY <2>1, <2>2, <2>3, MineRise
<1>5. /\ data_or_address' <=> Bit = BITS
      /\ ~some_other_device' /\ ~write_flag' /\ ~done'
      /\ Bit = BITS => (read_oper' <=> reading')
  BY <1>1, <1>2, <1>3, MineRise DEF TakeAddressBit
<1> QED
  BY <1>1, <1>2, <1>4, <1>5 DEF Registers

LEMMA RiseInAck ==
  ASSUME TypeOK, TrackInv, Rise, start_stop, Bit = BITS + 1
  PROVE  Registers'
<1>1. seen' = Bit /\ TakeAck
  BY RiseTakes, RiseFacts DEF Whole
<1>2. seen >= 1 /\ seen = BITS /\ seen >= BITS /\ ~(seen > BITS) /\ seen # BITS + 1
      /\ ~(seen > 2 * BITS)
  BY RiseFacts, Sizes DEF NextSeen
<1>3. /\ add_is_matching <=> mine
      /\ data_or_address /\ ~some_other_device /\ ~write_flag /\ ~done
      /\ read_oper <=> reading
  BY <1>2, RiseFacts DEF FollowInv
<1>4. Bit > BITS /\ ~(Bit > 2 * BITS) /\ Bit # BITS /\ Bit >= BITS
  BY Sizes
<1>5. (mine' <=> mine) /\ (reading' <=> reading)
  BY <1>4, MineRise
<1> QED
  BY <1>1, <1>3, <1>4, <1>5 DEF Registers, TakeAck

LEMMA RiseInData ==
  ASSUME TypeOK, TrackInv, Rise, start_stop, Bit > BITS + 1
  PROVE  Registers'
<1>1. seen' = Bit /\ Bit \in Whole + 1 .. 3 * Whole
  BY RiseFacts, Sizes
<1>2. seen >= 1 /\ seen > BITS /\ seen >= BITS /\ ~(Bit <= BITS + 1)
  BY <1>1, RiseFacts, Sizes DEF NextSeen
<1>3. Bit > BITS /\ Bit # BITS /\ Bit >= BITS /\ Bit # BITS + 1
  BY <1>1, Sizes
<1>4. mine /\ (mine' <=> mine) /\ (reading' <=> reading)
  BY <1>2, <1>3, MineRise, RiseFacts DEF FollowInv
<1>5. /\ add_is_matching /\ data_or_address /\ ~some_other_device
      /\ write_flag <=> reading
      /\ done <=> seen > 2 * BITS
      /\ read_oper <=> reading
  BY <1>2, <1>4, RiseFacts DEF FollowInv
<1>6. CASE Bit \in {2 * Whole, 3 * Whole}
  <2>1. TakeAck
    BY <1>6, RiseTakes
  <2>2. seen > 2 * BITS /\ Bit > 2 * BITS
    BY <1>6, RiseFacts, Sizes DEF NextSeen
  <2> QED
    BY <1>1, <1>3, <1>4, <1>5, <2>1, <2>2 DEF Registers, TakeAck
<1>7. CASE Bit \notin {2 * Whole, 3 * Whole}
  <2>1. TakeDataBit
    BY <1>1, <1>7, RiseTakes
  <2>2. count = 0 <=> Bit \in {2 * BITS + 1, 3 * BITS + 2}
    <3>1. count = CountAt(Bit) /\ Bit \in 1 .. 3 * Whole
      BY RiseTakes, RiseFacts
    <3> QED
      BY <1>1, <3>1, Counting, Sizes
  <2>3. (seen > 2 * BITS \/ Bit \in {2 * BITS + 1, 3 * BITS + 2}) <=> Bit > 2 * BITS
    BY <1>1, <1>7, RiseFacts, Sizes DEF NextSeen
  <2>4. done' <=> Bit > 2 * BITS
    BY <1>5, <2>1, <2>2, <2>3 DEF TakeDataBit
  <2>5. UNCHANGED <<add_is_matching, data_or_address, read_oper, some_other_device, write_flag>>
    BY <2>1 DEF TakeDataBit
  <2> QED
    BY <1>1, <1>3, <1>4, <1>5, <2>4, <2>5 DEF Registers
<1> QED
  BY <1>6, <1>7

LEMMA TrackRise ==
  ASSUME TypeOK, TrackInv, Rise
  PROVE  TrackInv'
<1>1. seen' = Bit /\ Bit' = Bit /\ Bit \in 1 .. 3 * Whole
  BY RiseFacts
<1>2. reset' <=> seen' = 1
  <2>1. reset <=> seen = 0
    BY RiseFacts DEF TrackInv, LinesInv
  <2>2. Bit = 1 <=> seen = 0
    BY RiseFacts, Sizes DEF NextSeen
  <2> QED
    BY <1>1, <2>1, <2>2, RiseFacts
<1>3. LinesInv'
  <2>1. seen' >= 1 /\ seen' # 0
    BY <1>1, Sizes
  <2> QED
    BY <1>2, <2>1, RiseFacts DEF TrackInv, LinesInv
<1>4. RestInv'
  <2>1. ~start_stop => TakeNothing
    BY DEF Rise, Take
  <2> QED
    BY <2>1, RiseFacts DEF TakeNothing, TrackInv, RestInv, Clean
<1>5. (start_stop <=> mine' \/ Bit <= BITS + 1)
  <2>1. ~(Bit <= BITS + 1) => Bit >= BITS
    BY <1>1, Sizes
  <2> QED
    BY <2>1, MineRise, RiseFacts DEF FollowInv
<1>6. start_stop => Registers'
  <2>1. Bit \in 1 .. BITS \/ Bit = BITS + 1 \/ Bit > BITS + 1
    BY <1>1, Sizes
  <2> QED
    BY <2>1, RiseInAddress, RiseInAck, RiseInData
<1>7. start_stop /\ repeat_start => seen' = 1
  <2>1. Bit > 1 \/ Bit = 1
    BY <1>1, Sizes
  <2> QED
    BY <1>1, <2>1, RiseTakes
<1>8. start_stop => count' = CountAt(Bit)'
  <2>1. CountAt(Bit)' = CountAt(Bit)
    BY <1>1 DEF CountAt, Whole, ACK
  <2> QED
    BY <2>1, RiseFacts DEF FollowInv
<1>9. FollowInv'
  <2>1. seen' # 0 /\ Bit' = Bit
    BY <1>1, Sizes
  <2> QED
    BY <1>5, <1>6, <1>7, <1>8, <2>1, RiseFacts DEF FollowInv, Registers
<1> QED
  BY <1>3, <1>4, <1>9 DEF TrackInv
(* The falling edge, behind a start and in a transaction. *)
LEMMA FallFacts ==
  ASSUME TypeOK, TrackInv, Fall
  PROVE  /\ sclk /\ ~sclk' /\ on /\ on' /\ begun /\ begun' /\ Bit' = NextSeen
         /\ UNCHANGED <<seen, mine, reading, byte, sound, rst_n, written, taking>>
         /\ ~start' /\ (start => seen = 0) /\ (sound => rst_n)
         /\ ~start => seen \in 1 .. 3 * Whole /\ Bit = seen /\ FollowInv
<1>1. sclk /\ ~sclk' /\ on /\ on' /\ begun /\ begun'
  BY DEF Fall, TrackInv, LinesInv, transaction
<1>2. UNCHANGED <<seen, mine, reading, byte, sound, rst_n, written, taking>>
  BY DEF Fall, transaction, pins
<1>3. Bit' = NextSeen
  BY <1>1, <1>2 DEF Bit, NextSeen, Whole
<1>4. start => ~start' /\ seen = 0
  <2>1. start => reset' = TRUE
    BY DEF Fall, Track
  <2> QED
    BY <2>1 DEF Fall, TrackInv, LinesInv
<1>5. ~start => ~start' /\ seen \in 1 .. 3 * Whole /\ Bit = seen /\ FollowInv
  <2>1. ~start => seen >= 1
    BY <1>1 DEF TrackInv, LinesInv
  <2>2. ~start => seen \in 1 .. 3 * Whole
    BY <2>1 DEF TypeOK, HistoryType
  <2> QED
    BY <1>1, <2>2 DEF TrackInv, LinesInv, Bit, Fall
<1>6. start \/ ~start
  BY DEF TypeOK, TrackType
<1>7. sound => rst_n
  BY DEF TrackInv, LinesInv
<1> QED
  BY <1>1, <1>2, <1>3, <1>4, <1>5, <1>6, <1>7

LEMMA FallBehindStart ==
  ASSUME TypeOK, TrackInv, Fall, start
  PROVE  TrackInv' /\ start_stop' /\ count' = BITS - 1 /\ NextSeen = 1
<1>1. seen = 0 /\ ~start' /\ NextSeen = 1
  BY FallFacts, Sizes DEF NextSeen
<1>2. /\ start_stop' = TRUE /\ repeat_start' = start_stop /\ reset' = TRUE
      /\ count' = BITS - 1 /\ stop' = FALSE
  BY DEF Fall, Track, Count
<1>3. LinesInv'
  BY <1>1, <1>2, FallFacts DEF LinesInv, TrackInv
<1>4. RestInv'
  BY <1>1, <1>2, FallFacts DEF RestInv, TrackInv
<1>5. CountAt(Bit)' = BITS - 1
  <2>1. CountAt(1) = BITS - 1
    BY Sizes, Counting
  <2>2. Bit' = 1
    BY <1>1, FallFacts
  <2>3. CountAt(Bit)' = CountAt(1)
    BY <2>2 DEF CountAt, Whole, ACK
  <2> QED
    BY <2>1, <2>3
<1>6. Bit' <= BITS + 1 /\ ~(seen >= 1)
  BY <1>1, FallFacts, Sizes
<1>7. /\ mine <=> add_is_matching \/ start_stop
      /\ ~start_stop => Clean
  BY FallFacts DEF TrackInv, RestInv
<1>8. UNCHANGED <<add_is_matching, data_or_address, some_other_device, write_flag, done>>
  BY FallFacts DEF taking
<1>9. FollowInv'
  BY <1>1, <1>2, <1>5, <1>6, <1>7, <1>8, FallFacts DEF FollowInv, Clean
<1> QED
  BY <1>1, <1>2, <1>3, <1>4, <1>9 DEF TrackInv

(* In a transaction the slave leaves it only behind the acknowledge bit of *)
(* an address that is another device's.                                    *)
LEMMA FallTracks ==
  ASSUME TypeOK, TrackInv, Fall, ~start
  PROVE  /\ some_other_device <=> seen = BITS + 1 /\ ~mine
         /\ some_other_device => start_stop /\ ~start_stop' /\ repeat_start' /\ ~reset'
         /\ ~some_other_device => ~repeat_start' /\ ~reset' /\ start_stop' = start_stop
         /\ ~stop' /\ ~start'
         /\ start_stop <=> mine \/ seen <= BITS + 1
         /\ start_stop => count = CountAt(seen)
         /\ start_stop => count' = IF CountAt(seen) = ACK THEN BITS - 1
                                   ELSE IF CountAt(seen) = 0 THEN ACK ELSE CountAt(seen) - 1
<1>1. FollowInv /\ Bit = seen /\ seen \in 1 .. 3 * Whole /\ seen >= 1 /\ ~start'
  BY FallFacts
<1>2. start_stop <=> mine \/ seen <= BITS + 1
  BY <1>1 DEF FollowInv
<1>3. start_stop => count = CountAt(seen)
  BY <1>1 DEF FollowInv
<1>4. some_other_device <=> seen = BITS + 1 /\ ~mine
  <2>1. ~start_stop => ~some_other_device /\ ~mine /\ ~(seen <= BITS + 1)
    BY <1>2, FallFacts DEF TrackInv, RestInv, Clean
  <2>2. seen = BITS + 1 => seen <= BITS + 1
    BY Sizes
  <2>3. start_stop => (some_other_device <=> seen = BITS + 1 /\ ~mine)
    BY <1>1 DEF FollowInv
  <2> QED
    BY <2>1, <2>2, <2>3
<1>5. ~stop /\ ~stop'
  BY FallFacts DEF Fall, TrackInv, LinesInv
<1>6. some_other_device => start_stop /\ ~start_stop' /\ repeat_start' /\ reset' = reset
  <2>1. seen = BITS + 1 => seen <= BITS + 1
    BY Sizes
  <2> QED
    BY <1>2, <1>4, <1>5, <2>1 DEF Fall, Track
<1>7. some_other_device => ~reset
  <2>1. seen = BITS + 1 => seen # 0 /\ seen # 1
    BY Sizes
  <2> QED
    BY <1>4, <2>1 DEF TrackInv, LinesInv
<1>8. ~some_other_device => ~repeat_start' /\ ~reset' /\ start_stop' = start_stop
  BY <1>5 DEF Fall, Track
<1>9. start_stop => count' = IF CountAt(seen) = ACK THEN BITS - 1
                             ELSE IF CountAt(seen) = 0 THEN ACK ELSE CountAt(seen) - 1
  BY <1>3 DEF Fall, Count, sda_is_ack
<1> QED
  BY <1>1, <1>2, <1>3, <1>4, <1>5, <1>6, <1>7, <1>8, <1>9

LEMMA TrackFall ==
  ASSUME TypeOK, TrackInv, Fall
  PROVE  TrackInv'
<1>1. CASE start
  BY <1>1, FallBehindStart
<1>2. CASE ~start
  <2>1. seen \in 1 .. 3 * Whole /\ seen >= 1 /\ seen # 0 /\ FollowInv
    BY <1>2, FallFacts, Sizes
  <2>2. LinesInv'
    BY <1>2, <2>1, FallFacts, FallTracks DEF LinesInv, TrackInv
  <2>3. RestInv'
    BY <1>2, FallFacts, FallTracks DEF RestInv, TrackInv
  <2>4. start_stop' <=> mine \/ NextSeen <= BITS + 1
    <3>1. NextSeen <= BITS + 1 <=> seen <= BITS + 1 /\ seen # BITS + 1
      BY <2>1, Sizes DEF NextSeen
    <3>2. seen = BITS + 1 => seen <= BITS + 1
      BY Sizes
    <3> QED
      BY <1>2, <3>1, <3>2, FallTracks
  <2>5. start_stop => count' = CountAt(NextSeen)
    <3>1. CASE seen = 3 * Whole
      <4>1. NextSeen = 2 * Whole + 1 /\ CountAt(seen) = ACK
        BY <2>1, <3>1, Counting DEF NextSeen
      <4> QED
        BY <1>2, <2>1, <3>1, <4>1, FallTracks, Counting
    <3>2. CASE seen # 3 * Whole
      <4>1. NextSeen = seen + 1 /\ seen < 3 * Whole
        BY <2>1, <3>2, Sizes DEF NextSeen
      <4> QED
        BY <1>2, <2>1, <4>1, FallTracks, Counting
    <3> QED
      BY <3>1, <3>2
  <2>6. start_stop' => start_stop
    BY <1>2, FallTracks DEF TypeOK, TrackType
  <2>7. CountAt(Bit)' = CountAt(NextSeen)
    BY FallFacts DEF CountAt, Whole, ACK
  <2>8. start_stop' => ~repeat_start'
    BY <1>2, FallTracks
  <2>9. UNCHANGED <<add_is_matching, data_or_address, some_other_device, write_flag, done,
                    read_oper>>
    BY FallFacts DEF taking
  <2>10. FollowInv'
    BY <2>1, <2>4, <2>5, <2>6, <2>7, <2>8, <2>9, FallFacts DEF FollowInv
  <2> QED
    BY <2>2, <2>3, <2>10 DEF TrackInv
<1> QED
  BY <1>1, <1>2 DEF TypeOK, TrackType

LEMMA TrackNext == TypeOK /\ TrackInv /\ [Next]_vars => TrackInv'
<1> SUFFICES ASSUME TypeOK, TrackInv, [Next]_vars PROVE TrackInv'
  OBVIOUS
<1>1. CASE Data \/ Change \/ Release \/ Unlock \/ UNCHANGED vars
  <2>1. UNCHANGED <<sclk, tracking, count, taking, transaction, begun, elsewhere>>
    BY <1>1 DEF Data, Change, Release, Unlock, vars, results
  <2>2. sound' => rst_n'
    BY <1>1 DEF Data, Change, Release, Unlock, vars, pins, TrackInv, LinesInv
  <2> QED
    BY <2>1, <2>2, TrackElsewhere
<1> QED
  BY <1>1, TrackStart, TrackStop, TrackRise, TrackFall DEF Next, Clock
-----------------------------------------------------------------------------
(* What a read has seen *)

LEMMA ReadInit == Init => ReadInv
BY DEF Init, ReadInv

(* In the falling edge behind the direction, the slave takes the inputs    *)
(* exactly when it has been asked to.                                      *)
LEMMA FallReads ==
  ASSUME TypeOK, TrackInv, Fall, ~start, start_stop
  PROVE  /\ count = 0 <=> seen \in {BITS, 2 * BITS + 1, 3 * BITS + 2}
         /\ seen >= 1
         /\ count = 0 /\ read_oper /\ ~done <=> seen = BITS /\ reading
<1>1. seen \in 1 .. 3 * Whole /\ seen >= 1 /\ FollowInv /\ count = CountAt(seen)
  BY FallFacts, FallTracks, Sizes
<1>2. count = 0 <=> seen \in {BITS, 2 * BITS + 1, 3 * BITS + 2}
  BY <1>1, Counting
<1>3. CASE seen = BITS
  <2>1. seen >= BITS /\ ~(seen > 2 * BITS)
    BY <1>3, Sizes
  <2> QED
    BY <1>1, <1>2, <1>3, <2>1 DEF FollowInv
<1>4. CASE seen \in {2 * BITS + 1, 3 * BITS + 2}
  <2>1. seen > 2 * BITS /\ seen # BITS /\ ~(seen <= BITS + 1)
    BY <1>4, Sizes
  <2>2. done
    BY <1>1, <2>1, FallTracks DEF FollowInv
  <2> QED
    BY <1>1, <1>2, <2>1, <2>2
<1> QED
  BY <1>1, <1>2, <1>3, <1>4

LEMMA ReadFall ==
  ASSUME TypeOK, TrackInv, ReadInv, Fall
  PROVE  ReadInv'
<1>1. CASE sound /\ mine /\ reading /\ seen = BITS
  <2>1. shown' = GPIO_input /\ rst_n
    BY <1>1, FallFacts DEF Fall
  <2>2. ~start
    BY <1>1, FallFacts, Sizes
  <2>3. start_stop
    BY <1>1, <2>2, FallTracks
  <2>4. count = 0 /\ read_oper /\ ~done
    BY <1>1, <2>2, <2>3, FallReads
  <2>5. GPIO_interrupt_reg' = GPIO_input
    BY <2>1, <2>3, <2>4 DEF Fall, Send
  <2> QED
    BY <2>1, <2>5 DEF ReadInv
<1>2. CASE ~(sound /\ mine /\ reading /\ seen = BITS)
  <2>1. /\ elsewhere' = (elsewhere \/ ~rst_n \/ (reading /\ seen = BITS))
        /\ shown' = shown
    BY <1>2 DEF Fall
  <2>2. ASSUME start_stop, count = 0, read_oper, ~done
        PROVE  elsewhere'
    <3>1. CASE start
      BY <2>1, <2>2, <3>1 DEF TrackInv, RestInv
    <3>2. CASE ~start
      BY <2>1, <2>2, <3>2, FallReads
    <3> QED
      BY <3>1, <3>2
  <2>3. ~elsewhere' => GPIO_interrupt_reg' = GPIO_interrupt_reg
    BY <2>1, <2>2 DEF Fall, Send, sending
  <2>4. ~elsewhere' => ~elsewhere
    BY <2>1
  <2> QED
    BY <2>1, <2>3, <2>4 DEF ReadInv
<1> QED
  BY <1>1, <1>2

LEMMA ReadNext == TypeOK /\ TrackInv /\ ReadInv /\ [Next]_vars => ReadInv'
<1> SUFFICES ASSUME TypeOK, TrackInv, ReadInv, [Next]_vars PROVE ReadInv'
  OBVIOUS
<1>1. CASE Data \/ Change \/ Release \/ Unlock \/ Rise \/ UNCHANGED vars
  <2>1. UNCHANGED <<shown, elsewhere, GPIO_interrupt_reg>>
    BY <1>1 DEF Data, Change, Release, Unlock, Rise, vars, sending, results
  <2> QED
    BY <2>1 DEF ReadInv
<1>2. CASE Start \/ Stop
  <2>1. UNCHANGED <<shown, GPIO_interrupt_reg>> /\ (~elsewhere' => ~elsewhere)
    BY <1>2 DEF Start, Stop, BrokenOff, sending
  <2> QED
    BY <2>1 DEF ReadInv
<1> QED
  BY <1>1, <1>2, ReadFall DEF Next, Clock
-----------------------------------------------------------------------------
(* What a write has left *)

LEMMA OutputInit == Init => OutputInv
<1> SUFFICES ASSUME Init PROVE OutputInv
  OBVIOUS
<1>1. byte = << >> /\ seen = 0 /\ ~mine /\ written = NoByte
  BY DEF Init
<1>2. Len(byte) = 0
  BY <1>1
<1> QED
  BY <1>1, <1>2 DEF OutputInv, OutputAsWritten

(* A bit goes into the outputs exactly when it goes into the byte. *)
Writing == mine /\ ~reading /\ Bit \in BITS + 2 .. 2 * BITS + 1

LEMMA RiseWrites ==
  ASSUME TypeOK, TrackInv, Rise
  PROVE  /\ Writing => /\ GPIO_output' = [GPIO_output EXCEPT ![2 * BITS + 1 - Bit] = sda]
                       /\ byte' = Append(byte, sda)
         /\ ~Writing => GPIO_output' = GPIO_output /\ byte' = byte
<1>1. Bit \in 1 .. 3 * Whole /\ seen' = Bit
  BY RiseFacts
<1>2. byte' = IF Writing THEN Append(byte, sda) ELSE byte
  BY <1>1 DEF Rise, Follow, Writing
<1>3. ASSUME start_stop, Bit \in Whole + 1 .. 3 * Whole, Bit \notin {2 * Whole, 3 * Whole}
      PROVE  /\ TakeDataBit
             /\ ~(read_oper \/ done) <=> Writing
  <2>1. TakeDataBit
    BY <1>3, RiseTakes
  <2>2. seen >= 1 /\ seen > BITS /\ seen >= BITS /\ ~(Bit <= BITS + 1)
    BY <1>3, RiseFacts, Sizes DEF NextSeen
  <2>3. /\ mine /\ (read_oper <=> reading) /\ (done <=> seen > 2 * BITS)
    BY <1>3, <2>2, RiseFacts DEF FollowInv
  <2>4. ~(seen > 2 * BITS) <=> Bit \in BITS + 2 .. 2 * BITS + 1
    BY <1>3, RiseFacts, Sizes DEF NextSeen
  <2> QED
    BY <2>1, <2>3, <2>4 DEF Writing
<1>4. CASE Writing
  <2>1. /\ Bit \in Whole + 1 .. 3 * Whole /\ Bit \notin {2 * Whole, 3 * Whole}
        /\ Bit \in Whole + 1 .. 2 * BITS + 1
    BY <1>4, Sizes DEF Writing
  <2>2. start_stop
    BY <1>4, RiseFacts DEF FollowInv, Writing
  <2>3. count = 2 * BITS + 1 - Bit
    BY <1>1, <2>1, <2>2, RiseTakes, Counting
  <2> QED
    BY <1>2, <1>3, <1>4, <2>1, <2>2, <2>3 DEF TakeDataBit
<1>5. CASE ~Writing
  <2>1. CASE ~start_stop
    BY <2>1, <1>2, <1>5 DEF Rise, Take, TakeNothing
  <2>2. CASE start_stop /\ Bit \in {Whole, 2 * Whole, 3 * Whole}
    BY <2>2, <1>2, <1>5, RiseTakes DEF TakeAck
  <2>3. CASE start_stop /\ Bit \in 1 .. BITS
    BY <2>3, <1>2, <1>5, RiseTakes DEF TakeAddressBit
  <2>4. CASE start_stop /\ Bit \in Whole + 1 .. 3 * Whole /\ Bit \notin {2 * Whole, 3 * Whole}
    BY <2>4, <1>2, <1>3, <1>5 DEF TakeDataBit
  <2>5. \/ Bit \in {Whole, 2 * Whole, 3 * Whole} \/ Bit \in 1 .. BITS
        \/ Bit \in Whole + 1 .. 3 * Whole /\ Bit \notin {2 * Whole, 3 * Whole}
    BY <1>1, Sizes
  <2> QED
    BY <2>1, <2>2, <2>3, <2>4, <2>5
<1> QED
  BY <1>4, <1>5

OutputLength ==
  IF ~mine \/ reading \/ seen <= BITS + 1 THEN 0
  ELSE IF seen > 2 * BITS THEN BITS ELSE seen - (BITS + 1)

LEMMA OutputRise ==
  ASSUME TypeOK, TrackInv, OutputInv, Rise
  PROVE  OutputInv'
<1>1. Bit \in 1 .. 3 * Whole /\ seen' = Bit /\ seen' = NextSeen /\ seen \in 0 .. 3 * Whole
  BY RiseFacts
<1>2. byte \in Seq(BIT) /\ sda \in BIT /\ byte' \in Seq(BIT) /\ GPIO_output \in Byte
  BY BitIs, TypeRise DEF TypeOK, HistoryType, TakeType
<1>3. Len(byte) = OutputLength /\ Len(byte) \in Nat
  BY <1>2, LenProperties DEF OutputInv, OutputLength
<1>4. Writing => Len(byte) = Bit - (BITS + 2)
  <2>1. Writing => mine /\ ~reading /\ Bit \in BITS + 2 .. 2 * BITS + 1
    BY DEF Writing
  <2>2. Bit \in BITS + 2 .. 2 * BITS + 1 =>
          /\ ~(seen > 2 * BITS) /\ (seen <= BITS + 1 => Bit = BITS + 2)
          /\ seen - (BITS + 1) = Bit - (BITS + 2)
    BY <1>1, Sizes DEF NextSeen
  <2>3. Bit = BITS + 2 => Bit - (BITS + 2) = 0
    BY Sizes
  <2> QED
    BY <1>3, <2>1, <2>2, <2>3 DEF OutputLength
<1>5. Len(byte') = IF Writing THEN Len(byte) + 1 ELSE Len(byte)
  BY <1>2, RiseWrites, AppendProperties
<1>6. Len(byte') = OutputLength'
  <2>1. CASE Writing
    <3>1. Len(byte') = Bit - (BITS + 1)
      BY <1>1, <1>3, <1>4, <1>5, <2>1, Sizes
    <3>2. mine' /\ ~reading'
      <4>1. Bit >= BITS /\ Bit # BITS
        BY <2>1, Sizes DEF Writing
      <4> QED
        BY <2>1, <4>1, MineRise DEF Writing
    <3>3. /\ ~(Bit <= BITS + 1)
          /\ Bit > 2 * BITS => Bit - (BITS + 1) = BITS
      BY <2>1, Sizes DEF Writing
    <3> QED
      BY <1>1, <3>1, <3>2, <3>3 DEF OutputLength
  <2>2. CASE ~Writing /\ Bit <= BITS + 1
    <3>1. seen <= BITS + 1
      BY <1>1, <2>2, Sizes DEF NextSeen
    <3> QED
      BY <1>1, <1>3, <1>5, <2>2, <3>1 DEF OutputLength
  <2>3. CASE ~Writing /\ ~(Bit <= BITS + 1)
    <3>1. (mine' <=> mine) /\ (reading' <=> reading)
      <4>1. Bit >= BITS /\ Bit # BITS
        BY <1>1, <2>3, Sizes
      <4> QED
        BY <4>1, MineRise
    <3>2. CASE ~mine \/ reading
      BY <1>3, <1>5, <2>3, <3>1, <3>2 DEF OutputLength
    <3>3. CASE mine /\ ~reading
      <4>1. ~(Bit \in BITS + 2 .. 2 * BITS + 1)
        BY <2>3, <3>3 DEF Writing
      <4>2. Bit > 2 * BITS /\ seen > 2 * BITS /\ ~(seen <= BITS + 1)
        BY <1>1, <2>3, <4>1, Sizes DEF NextSeen
      <4> QED
        BY <1>1, <1>3, <1>5, <2>3, <3>1, <3>3, <4>2 DEF OutputLength
    <3> QED
      BY <3>2, <3>3
  <2> QED
    BY <2>1, <2>2, <2>3
<1>7. \A i \in 1 .. Len(byte') : byte'[i] = GPIO_output'[BITS - i]
  <2>1. \A i \in 1 .. Len(byte) : byte[i] = GPIO_output[BITS - i]
    BY DEF OutputInv
  <2>2. CASE ~Writing
    BY <2>1, <2>2, RiseWrites
  <2>3. CASE Writing
    <3>1. /\ Len(byte') = Len(byte) + 1
          /\ byte'[Len(byte) + 1] = sda
          /\ \A i \in 1 .. Len(byte) : byte'[i] = byte[i]
      BY <1>2, <2>3, RiseWrites, AppendProperties
    <3>2. /\ 2 * BITS + 1 - Bit \in 0 .. BITS - 1
          /\ 2 * BITS + 1 - Bit = BITS - (Len(byte) + 1)
      BY <1>4, <2>3, Sizes DEF Writing
    <3>3. /\ GPIO_output'[BITS - (Len(byte) + 1)] = sda
          /\ \A j \in 0 .. BITS - 1 :
               j # BITS - (Len(byte) + 1) => GPIO_output'[j] = GPIO_output[j]
      BY <1>2, <2>3, <3>2, RiseWrites DEF Byte
    <3>4. ASSUME NEW i \in 1 .. Len(byte)
          PROVE  BITS - i \in 0 .. BITS - 1 /\ BITS - i # BITS - (Len(byte) + 1)
      BY <1>3, <1>4, <2>3, Sizes DEF Writing
    <3>5. ASSUME NEW i \in 1 .. Len(byte')
          PROVE  byte'[i] = GPIO_output'[BITS - i]
      <4>1. CASE i = Len(byte) + 1
        BY <3>1, <3>3, <4>1
      <4>2. CASE i # Len(byte) + 1
        <5>1. i \in 1 .. Len(byte)
          BY <1>3, <3>1, <4>2
        <5> QED
          BY <2>1, <3>1, <3>3, <3>4, <5>1
      <4> QED
        BY <4>1, <4>2
    <3> QED
      BY <3>5
  <2> QED
    BY <2>2, <2>3
<1>8. written' = IF Len(byte') = BITS THEN [i \in 0 .. BITS - 1 |-> byte'[BITS - i]]
                 ELSE IF byte' # << >> THEN NoByte ELSE written
  BY DEF Rise, Follow
<1>9. Len(byte') \in 1 .. BITS - 1 => written' = NoByte
  <2>1. Len(byte') \in 1 .. BITS - 1 => Len(byte') # BITS /\ Len(byte') # 0
    BY Sizes
  <2>2. Len(byte') # 0 => byte' # << >>
    BY EmptySeq
  <2> QED
    BY <1>8, <2>1, <2>2
<1>10. OutputAsWritten'
  <2>1. CASE Len(byte') = BITS
    <3>1. ASSUME NEW j \in 0 .. BITS - 1
          PROVE  GPIO_output'[j] = byte'[BITS - j]
      <4>1. BITS - j \in 1 .. Len(byte') /\ BITS - (BITS - j) = j
        BY <2>1, Sizes
      <4> QED
        BY <1>7, <4>1
    <3>2. GPIO_output' \in Byte
      BY TypeRise DEF TypeOK, TakeType
    <3>3. GPIO_output' = [i \in 0 .. BITS - 1 |-> byte'[BITS - i]]
      BY <3>1, <3>2 DEF Byte
    <3> QED
      BY <1>8, <2>1, <3>3 DEF OutputAsWritten
  <2>2. CASE Len(byte') # BITS /\ byte' # << >>
    BY <1>8, <2>2 DEF OutputAsWritten, NoByte
  <2>3. CASE Len(byte') # BITS /\ byte' = << >>
    <3>1. ~Writing
      <4>1. Len(byte') = 0
        BY <2>3, EmptySeq
      <4> QED
        BY <1>3, <1>5, <4>1
    <3>2. written' = written /\ GPIO_output' = GPIO_output
      BY <1>8, <2>3, <3>1, RiseWrites
    <3> QED
      BY <3>2 DEF OutputInv, OutputAsWritten, NoByte
  <2> QED
    BY <2>1, <2>2, <2>3
<1> QED
  BY <1>6, <1>7, <1>9, <1>10 DEF OutputInv, OutputLength

LEMMA OutputNext == TypeOK /\ TrackInv /\ OutputInv /\ [Next]_vars => OutputInv'
<1> SUFFICES ASSUME TypeOK, TrackInv, OutputInv, [Next]_vars PROVE OutputInv'
  OBVIOUS
<1>1. CASE Data \/ Stop \/ Fall \/ Change \/ Release \/ Unlock \/ UNCHANGED vars
  <2>1. UNCHANGED <<seen, mine, reading, byte, written, GPIO_output>>
    BY <1>1 DEF Data, Stop, Fall, Change, Release, Unlock, vars, transaction, taking, results
  <2> QED
    BY <2>1 DEF OutputInv, OutputAsWritten, NoByte
<1>2. CASE Start
  <2>1. byte' = << >> /\ seen' = 0 /\ UNCHANGED <<written, GPIO_output>>
    BY <1>2 DEF Start, taking
  <2>2. Len(byte') = 0
    BY <2>1
  <2>3. OutputAsWritten'
    BY <2>1 DEF OutputInv, OutputAsWritten, NoByte
  <2>4. seen' <= BITS + 1
    BY <2>1, Sizes
  <2> QED
    BY <2>2, <2>3, <2>4 DEF OutputInv
<1> QED
  BY <1>1, <1>2, OutputRise DEF Next, Clock
-----------------------------------------------------------------------------
(* What the slave answers *)

LEMMA SendInit == Init => SendInv
BY DEF Init, SendInv

LEMMA SendRise ==
  ASSUME TypeOK, TrackInv, SendInv, Rise
  PROVE  SendInv'
<1>1. /\ Bit' = Bit /\ Bit \in 1 .. 3 * Whole
      /\ UNCHANGED <<on, start, sound, low, GPIO_input_reg, shown>>
  BY RiseFacts DEF Rise, sending
<1>2. CASE Bit > BITS
  <2>1. (mine' <=> mine) /\ (reading' <=> reading)
    <3>1. Bit >= BITS /\ Bit # BITS
      BY <1>1, <1>2, Sizes
    <3> QED
      BY <3>1, MineRise
  <2>2. Wanted(Bit)' <=> Wanted(Bit)
    BY <1>1, <2>1 DEF Wanted, Whole
  <2>3. Sent' = Sent
    BY <1>1 DEF Sent
  <2> QED
    BY <1>1, <2>1, <2>2, <2>3 DEF SendInv
<1>3. CASE ~(Bit > BITS)
  <2>1. ~Wanted(Bit) /\ ~Wanted(Bit)'
    BY <1>1, <1>3 DEF Wanted
  <2>2. ~(Bit \in BITS + 1 .. 2 * BITS + 1)
    BY <1>1, <1>3, Sizes
  <2> QED
    BY <1>1, <2>1, <2>2 DEF SendInv
<1> QED
  BY <1>2, <1>3

(* The falling edges of a transaction that is the slave's: behind the      *)
(* address and every byte, in the byte it sends, and elsewhere.            *)
LEMMA SendAcknowledge ==
  ASSUME TypeOK, TrackInv, SendInv, Fall, ~start, sound, start_stop, count = 0
  PROVE  SendInv'
<1>1. seen \in 1 .. 3 * Whole /\ Bit' = NextSeen /\ rst_n /\ FollowInv /\ seen >= 1
      /\ UNCHANGED <<mine, reading, seen, sound>>
  BY FallFacts, FallReads
<1>2. seen \in {BITS, 2 * BITS + 1, 3 * BITS + 2}
  BY FallReads
<1>3. /\ low' = (add_is_matching /\ ~write_flag)
      /\ read_oper /\ ~done => GPIO_input_reg' = GPIO_input
  BY <1>1 DEF Fall, Send
<1>4. /\ add_is_matching <=> mine
      /\ write_flag <=> mine /\ reading /\ seen > BITS
  BY <1>1 DEF FollowInv
<1>5. low' <=> mine /\ ~(reading /\ seen > BITS)
  BY <1>3, <1>4 DEF TypeOK, HistoryType, TakeType
<1>6. CASE seen = BITS
  <2>1. /\ NextSeen = BITS + 1 /\ ~(seen > BITS) /\ NextSeen > BITS
        /\ ~(NextSeen \in {2 * Whole, 3 * Whole}) /\ ~(NextSeen \in BITS + 2 .. 2 * BITS + 1)
    BY <1>6, Sizes DEF NextSeen
  <2>2. Wanted(Bit)' <=> mine
    BY <1>1, <2>1 DEF Wanted, Whole
  <2>3. low' <=> Wanted(Bit)'
    BY <1>5, <2>1, <2>2
  <2>4. Sent' = 0
    BY <1>1, <2>1, Sizes DEF Sent
  <2>5. ASSUME mine, reading
        PROVE  /\ shown' = GPIO_input /\ shown' # NoByte /\ shown' \in Byte
               /\ GPIO_input_reg' = GPIO_input
    <3>1. read_oper /\ ~done
      BY <1>6, <2>5, FallReads
    <3>2. shown' = GPIO_input /\ GPIO_input_reg' = GPIO_input
      BY <1>3, <1>6, <2>5, <3>1 DEF Fall
    <3>3. GPIO_input \in Byte
      BY DEF TypeOK, LineType
    <3>4. GPIO_input # NoByte
      <4>1. 0 \in DOMAIN GPIO_input
        BY <3>3, Sizes DEF Byte
      <4>2. DOMAIN NoByte = {}
        BY DEF NoByte
      <4> QED
        BY <4>1, <4>2
    <3> QED
      BY <3>2, <3>3, <3>4
  <2>6. ASSUME mine, reading, NEW i \in 0 .. BITS - 1
        PROVE  GPIO_input_reg'[i] = IF i < Sent' THEN 0 ELSE shown'[i - Sent']
    <3>1. ~(i < Sent') /\ i - Sent' = i
      BY <2>4
    <3> QED
      BY <2>5, <2>6, <3>1
  <2> QED
    BY <1>1, <2>3, <2>5, <2>6 DEF SendInv
<1>7. CASE seen # BITS
  <2>1. /\ NextSeen \in {2 * Whole, 3 * Whole} /\ seen > BITS /\ NextSeen > BITS
        /\ NextSeen # BITS + 1 /\ ~(NextSeen \in BITS + 1 .. 2 * BITS + 1)
        /\ ~(NextSeen \in BITS + 2 .. 2 * BITS + 1)
    BY <1>2, <1>7, Sizes DEF NextSeen
  <2>2. Wanted(Bit)' <=> mine /\ ~reading
    BY <1>1, <2>1 DEF Wanted, Whole
  <2>3. low' <=> Wanted(Bit)'
    BY <1>5, <2>1, <2>2
  <2> QED
    BY <1>1, <2>1, <2>3 DEF SendInv
<1> QED
  BY <1>6, <1>7

LEMMA SendBit ==
  ASSUME TypeOK, TrackInv, SendInv, Fall, ~start, sound, start_stop, count # 0,
         read_oper, data_or_address, ~done
  PROVE  SendInv'
<1>1. seen \in 1 .. 3 * Whole /\ seen >= 1 /\ Bit' = NextSeen /\ Bit = seen /\ rst_n /\ on
      /\ FollowInv /\ UNCHANGED <<mine, reading, seen, sound>>
  BY FallFacts, FallReads
<1>2. seen # BITS
  BY FallReads
<1>3. mine /\ reading /\ seen > BITS /\ ~(seen > 2 * BITS)
  <2>1. mine /\ seen > BITS /\ ~(seen > 2 * BITS)
    BY <1>1, <1>2 DEF FollowInv
  <2>2. seen >= BITS
    BY <1>1, <2>1, Sizes
  <2> QED
    BY <1>1, <2>1, <2>2 DEF FollowInv
<1> DEFINE k == seen - (BITS + 1)
<1>4. /\ k \in 0 .. BITS - 1 /\ NextSeen = seen + 1 /\ NextSeen \in BITS + 2 .. 2 * BITS + 1
      /\ NextSeen > BITS /\ NextSeen # BITS + 1 /\ NextSeen \in BITS + 1 .. 2 * BITS + 1
      /\ 2 * BITS + 1 - NextSeen = BITS - 1 - k
      /\ seen \in BITS + 1 .. 2 * BITS + 1 /\ seen >= 2
      /\ NextSeen - (BITS + 1) = k + 1
  BY <1>1, <1>3, Sizes DEF NextSeen
<1>5. shown' = shown
  BY <1>2 DEF Fall
<1>6. low' = (GPIO_input_reg[BITS - 1] = 0) /\ GPIO_input_reg' = Shift(GPIO_input_reg)
  BY <1>1 DEF Fall, Send
<1>7. Sent = k /\ Sent' = k + 1
  BY <1>1, <1>4 DEF Sent
<1>8. /\ shown # NoByte
      /\ \A i \in 0 .. BITS - 1 : GPIO_input_reg[i] = IF i < k THEN 0 ELSE shown[i - k]
  BY <1>1, <1>3, <1>4, <1>7 DEF SendInv
<1> HIDE DEF k
<1>9. GPIO_input_reg[BITS - 1] = shown[BITS - 1 - k]
  <2>1. BITS - 1 \in 0 .. BITS - 1 /\ ~(BITS - 1 < k)
    BY <1>4, Sizes
  <2> QED
    BY <1>8, <2>1
<1>10. low' <=> Wanted(Bit)'
  <2>1. low' <=> shown[BITS - 1 - k] = 0
    BY <1>6, <1>9
  <2>2. /\ Bit' > BITS /\ Bit' # BITS + 1 /\ Bit' \in BITS + 2 .. 2 * BITS + 1
        /\ 2 * BITS + 1 - Bit' = BITS - 1 - k
    BY <1>1, <1>4
  <2>3. Wanted(Bit)' <=> shown[BITS - 1 - k] = 0
    BY <1>1, <1>3, <1>5, <2>2 DEF Wanted
  <2> QED
    BY <2>1, <2>3
<1>11. ASSUME NEW i \in 0 .. BITS - 1
       PROVE  GPIO_input_reg'[i] = IF i < k + 1 THEN 0 ELSE shown[i - (k + 1)]
  <2>1. GPIO_input_reg'[i] = IF i = 0 THEN 0 ELSE GPIO_input_reg[i - 1]
    BY <1>6 DEF Shift
  <2>2. CASE i = 0
    BY <1>4, <2>1, <2>2
  <2>3. CASE i # 0
    <3>1. /\ i - 1 \in 0 .. BITS - 1 /\ (i - 1 < k <=> i < k + 1)
          /\ (i - 1) - k = i - (k + 1)
      BY <1>4, <2>3, Sizes
    <3> QED
      BY <1>8, <2>1, <2>3, <3>1
  <2> QED
    BY <2>2, <2>3
<1>12. mine' /\ reading' => /\ shown' # NoByte
                            /\ \A i \in 0 .. BITS - 1 :
                                 GPIO_input_reg'[i] = IF i < Sent' THEN 0 ELSE shown'[i - Sent']
  BY <1>5, <1>7, <1>8, <1>11
<1> QED
  BY <1>10, <1>12 DEF SendInv

LEMMA SendNothing ==
  ASSUME TypeOK, TrackInv, SendInv, Fall, ~start, sound, start_stop, count # 0,
         ~(read_oper /\ data_or_address /\ ~done)
  PROVE  SendInv'
<1>1. seen \in 1 .. 3 * Whole /\ seen >= 1 /\ Bit' = NextSeen /\ rst_n /\ FollowInv
      /\ UNCHANGED <<mine, reading, seen, sound>>
  BY FallFacts, FallReads
<1>2. seen \notin {BITS, 2 * BITS + 1, 3 * BITS + 2}
  BY FallReads
<1>3. low' = FALSE
  BY <1>1 DEF Fall, Send
<1>4. /\ NextSeen # BITS + 1 /\ NextSeen \notin {2 * Whole, 3 * Whole}
      /\ NextSeen \in BITS + 1 .. 2 * BITS + 1 =>
           seen > BITS /\ ~(seen > 2 * BITS) /\ seen >= BITS
      /\ NextSeen \in BITS + 2 .. 2 * BITS + 1 => NextSeen \in BITS + 1 .. 2 * BITS + 1
  BY <1>1, <1>2, Sizes DEF NextSeen
<1>5. ~(mine /\ reading /\ NextSeen \in BITS + 1 .. 2 * BITS + 1)
  BY <1>1, <1>4 DEF FollowInv
<1>6. ~Wanted(Bit)'
  BY <1>1, <1>4, <1>5 DEF Wanted, Whole
<1> QED
  BY <1>1, <1>3, <1>5, <1>6 DEF SendInv

LEMMA SendFall ==
  ASSUME TypeOK, TrackInv, SendInv, Fall
  PROVE  SendInv'
<1>1. CASE ~sound
  BY <1>1, FallFacts DEF SendInv
<1>2. CASE start
  <2>1. Bit' = 1
    BY <1>2, FallFacts, FallBehindStart
  <2>2. ~(Bit' >= 2)
    BY <2>1
  <2> QED
    BY <2>2 DEF SendInv
<1>3. CASE sound /\ ~start /\ ~start_stop
  <2>1. seen \in 1 .. 3 * Whole /\ Bit = seen /\ on /\ rst_n /\ ~mine /\ ~(seen <= BITS + 1)
        /\ Bit' = NextSeen /\ UNCHANGED <<mine, reading, seen, sound>>
    BY <1>3, FallFacts, FallTracks
  <2>2. seen >= 2
    BY <2>1, Sizes
  <2>3. ~low
    BY <1>3, <2>1, <2>2 DEF SendInv, Wanted
  <2>4. ~low'
    BY <1>3, <2>1, <2>3 DEF Fall, Send, sending
  <2> QED
    BY <2>1, <2>4 DEF SendInv, Wanted
<1>4. CASE sound /\ ~start /\ start_stop
  BY <1>4, SendAcknowledge, SendBit, SendNothing
<1> QED
  BY <1>1, <1>2, <1>3, <1>4 DEF TypeOK, TrackType, HistoryType

LEMMA SendNext == TypeOK /\ TrackInv /\ SendInv /\ [Next]_vars => SendInv'
<1> SUFFICES ASSUME TypeOK, TrackInv, SendInv, [Next]_vars PROVE SendInv'
  OBVIOUS
<1>1. CASE Data \/ Change \/ Release \/ Unlock \/ UNCHANGED vars
  <2>1. /\ UNCHANGED <<sclk, on, start, seen, mine, reading, low, GPIO_input_reg, shown>>
        /\ sound' => sound
    BY <1>1 DEF Data, Change, Release, Unlock, vars, tracking, transaction, sending, results
  <2>2. Bit' = Bit
    BY <2>1 DEF Bit, NextSeen, Whole
  <2>3. (Wanted(Bit)' <=> Wanted(Bit)) /\ Sent' = Sent
    BY <2>1, <2>2 DEF Wanted, Whole, Sent
  <2> QED
    BY <2>1, <2>2, <2>3 DEF SendInv
<1>2. CASE Start
  BY <1>2, TrackStart DEF SendInv
<1>3. CASE Stop
  BY <1>3 DEF Stop, SendInv
<1> QED
  BY <1>1, <1>2, <1>3, SendRise, SendFall DEF Next, Clock
-----------------------------------------------------------------------------
IInv == TypeOK /\ TrackInv /\ SendInv /\ OutputInv /\ ReadInv

LEMMA Invariant == Spec => []IInv
<1>1. Init => IInv
  BY TypeInit, TrackInit, SendInit, OutputInit, ReadInit DEF IInv
<1>2. IInv /\ [Next]_vars => IInv'
  BY TypeNext, TrackNext, SendNext, OutputNext, ReadNext DEF IInv
<1> QED
  BY <1>1, <1>2, PTL DEF Spec

(* In every reachable state every register, line and history variable has  *)
(* a value of its type: count stays in a byte or at the acknowledge bit.   *)
THEOREM TypeCorrect == Spec => []TypeOK
<1>1. IInv => TypeOK
  BY DEF IInv
<1> QED
  BY <1>1, Invariant, PTL

LEMMA Modulo ==
  ASSUME NEW n \in 2 .. 3 * Whole
  PROVE  n % Whole = 0 <=> n \in {Whole, 2 * Whole, 3 * Whole}
<1>1. BITS \in 2 .. 12 /\ n \in Nat /\ 2 <= n /\ n <= 3 * Whole /\ Whole = BITS + 1
  BY BitsAssumption DEF Whole
<1> QED
  BY <1>1

(* The slave acknowledges its address and every byte written to it, gives  *)
(* the inputs a read asked for, and leaves SDA alone in every other clock  *)
(* from the second one on, wherever the transactions before were broken    *)
(* off.                                                                    *)
THEOREM AnswersCorrect == Spec => []AnswersAsAddressed
<1>1. IInv => AnswersAsAddressed
  <2> SUFFICES ASSUME IInv, sclk, on, sound, seen >= 2 PROVE AnswersAsAddressed
    BY DEF AnswersAsAddressed
  <2>1. ~start /\ Bit = seen
    BY DEF IInv, TrackInv, LinesInv, Bit
  <2>2. low <=> Wanted(seen)
    BY <2>1 DEF IInv, SendInv
  <2>3. seen \in 2 .. 3 * Whole
    BY DEF IInv, TypeOK, HistoryType
  <2>4. seen % (BITS + 1) = 0 <=> seen \in {Whole, 2 * Whole, 3 * Whole}
    BY <2>3, Modulo DEF Whole
  <2>5. Wanted(seen) <=>
          /\ mine /\ seen > BITS
          /\ \/ seen = BITS + 1
             \/ ~reading /\ seen % (BITS + 1) = 0
             \/ reading /\ seen \in BITS + 2 .. 2 * BITS + 1
                        /\ shown[2 * BITS + 1 - seen] = 0
    BY <2>4 DEF Wanted, Whole
  <2> QED
    BY <2>2, <2>5 DEF AnswersAsAddressed
<1> QED
  BY <1>1, Invariant, PTL

(* The output pins hold the byte last written in full until a next write   *)
(* to the slave begins.                                                    *)
THEOREM OutputCorrect == Spec => []OutputAsWritten
<1>1. IInv => OutputAsWritten
  BY DEF IInv, OutputInv
<1> QED
  BY <1>1, Invariant, PTL

(* The interrupt line tells the inputs from what the last read gave.       *)
THEOREM ChangeCorrect == Spec => []ChangeSignalled
<1>1. IInv => ChangeSignalled
  BY DEF IInv, ReadInv, ChangeSignalled
<1> QED
  BY <1>1, Invariant, PTL
=============================================================================
