--------------------------- MODULE I2cDriverProofs ---------------------------
(***************************************************************************)
(* Theorems about I2cDriver, for every program, size of the FIFOs, number  *)
(* of retries and jams, with one master or more; and about I2cConfig, for  *)
(* every core clock its assumption admits and every set of speeds.         *)
(***************************************************************************)
EXTENDS I2cConfig, SequenceTheorems, TLAPS

(***************************************************************************)
(* Calls and their segments.                                               *)
(***************************************************************************)
Transferring == {"enable", "write", "check", "segment", "wait", "retry", "fetch", "arm"}

CallInv ==
  /\ pc \in Transferring \cup {"idle", "abort"}
  /\ call \in Calls \/ (call = NoCall /\ pc \in {"idle", "abort"})
  /\ pc \in Transferring =>
       /\ seg \in 1 .. Len(Segments(call))
       /\ left \in 0 .. Seg.size + 1
       /\ pc \in {"enable", "write"} => left > 0
       /\ pc = "check" => left <= Seg.size
       /\ pc = "segment" => seg < Len(Segments(call))

(* One segment, or a write and a read behind a restart. *)
LEMMA SegmentFacts ==
  ASSUME NEW c \in Calls
  PROVE  /\ Len(Segments(c)) \in {1, 2} /\ 1 \in 1 .. Len(Segments(c))
         /\ Len(Segments(c)) = 1 => Segments(c)[1].stop = TRUE
         /\ Len(Segments(c)) = 2 =>
               /\ Segments(c)[1].stop = FALSE /\ Segments(c)[1].rw = "W"
               /\ Segments(c)[2].stop = TRUE /\ Segments(c)[2].restart = TRUE
         /\ \A i \in 1 .. Len(Segments(c)) : /\ Segments(c)[i].size \in Nat \ {0}
                                             /\ Segments(c)[i].restart \in BOOLEAN
<1>1. c.tx \in Nat /\ c.rx \in Nat /\ c.tx + c.rx > 0
  BY CallsAssumption
<1> DEFINE s == Segments(c)
<1>2. CASE c.rx = 0
  <2>1. Segments(c) = <<W(c.tx, TRUE)>>
    BY <1>2 DEF Segments, master_tx
  <2>2. Len(s) = 1 /\ s[1] = W(c.tx, TRUE)
    BY <2>1
  <2>3. s[1].stop = TRUE /\ s[1].size = c.tx
    BY <2>2 DEF W
  <2>6. s[1].restart \in BOOLEAN
    BY <2>2 DEF W
  <2> HIDE DEF s
  <2>4. Len(s) \in {1, 2} /\ Len(s) # 2 /\ 1 \in 1 .. Len(s) /\ \A i \in 1 .. Len(s) : i = 1
    BY <2>2
  <2>5. \A i \in 1 .. Len(s) : s[i].size \in Nat \ {0}
    BY <1>1, <1>2, <2>3, <2>4
  <2>7. \A i \in 1 .. Len(s) : s[i].restart \in BOOLEAN
    BY <2>4, <2>6
  <2> QED
    BY <2>3, <2>4, <2>5, <2>7 DEF s
<1>3. CASE c.rx # 0 /\ c.tx = 0
  <2>1. Segments(c) = <<R(c.rx, FALSE)>>
    BY <1>3 DEF Segments, master_rx
  <2>2. Len(s) = 1 /\ s[1] = R(c.rx, FALSE)
    BY <2>1
  <2>3. s[1].stop = TRUE /\ s[1].size = c.rx
    BY <2>2 DEF R
  <2>6. s[1].restart \in BOOLEAN
    BY <2>2 DEF R
  <2> HIDE DEF s
  <2>4. Len(s) \in {1, 2} /\ Len(s) # 2 /\ 1 \in 1 .. Len(s) /\ \A i \in 1 .. Len(s) : i = 1
    BY <2>2
  <2>5. \A i \in 1 .. Len(s) : s[i].size \in Nat \ {0}
    BY <1>1, <1>3, <2>3, <2>4
  <2>7. \A i \in 1 .. Len(s) : s[i].restart \in BOOLEAN
    BY <2>4, <2>6
  <2> QED
    BY <2>3, <2>4, <2>5, <2>7 DEF s
<1>4. CASE c.rx # 0 /\ c.tx # 0
  <2>1. Segments(c) = <<W(c.tx, FALSE), R(c.rx, TRUE)>>
    BY <1>4 DEF Segments, master_tx_rx
  <2>2. Len(s) = 2 /\ s[1] = W(c.tx, FALSE) /\ s[2] = R(c.rx, TRUE)
    BY <2>1
  <2>3. s[1].stop = FALSE /\ s[1].rw = "W" /\ s[1].size = c.tx
    BY <2>2 DEF W
  <2>4. s[2].stop = TRUE /\ s[2].restart = TRUE /\ s[2].size = c.rx
    BY <2>2 DEF R
  <2>8. s[1].restart \in BOOLEAN /\ s[2].restart \in BOOLEAN
    BY <2>2 DEF W, R
  <2> HIDE DEF s
  <2>5. /\ Len(s) \in {1, 2} /\ Len(s) # 1 /\ 1 \in 1 .. Len(s)
        /\ \A i \in 1 .. Len(s) : i = 1 \/ i = 2
    BY <2>2
  <2>6. \A i \in 1 .. Len(s) : s[i].size \in Nat \ {0}
    BY <1>1, <1>4, <2>3, <2>4, <2>5
  <2>7. \A i \in 1 .. Len(s) : s[i].restart \in BOOLEAN
    BY <2>5, <2>8
  <2> QED
    BY <2>3, <2>4, <2>5, <2>6, <2>7 DEF s
<1> QED
  BY <1>2, <1>3, <1>4

LEMMA FirstOfTwo ==
  ASSUME NEW n \in {1, 2}, NEW i \in 1 .. n
  PROVE  /\ i < n => i = 1 /\ i + 1 = 2 /\ n = 2 /\ i + 1 \in 1 .. n
         /\ ~(i < n) => i = n
  OBVIOUS

\* The same, of the segment in progress.
LEMMA SegFacts ==
  ASSUME CallInv, pc \in Transferring
  PROVE  /\ call \in Calls /\ Len(Segments(call)) \in {1, 2}
         /\ seg \in 1 .. Len(Segments(call))
         /\ Seg.size \in Nat \ {0} /\ left \in 0 .. Seg.size + 1
         /\ Seg.stop = FALSE => seg < Len(Segments(call)) /\ seg = 1
         /\ Seg.stop # FALSE => Seg.stop = TRUE
         /\ Seg.rw # "W" => Seg.stop = TRUE
<1>1. /\ call \in Calls /\ seg \in 1 .. Len(Segments(call))
      /\ left \in 0 .. Seg.size + 1
  BY DEF CallInv, Transferring
<1>2. Len(Segments(call)) \in {1, 2} /\ Seg.size \in Nat \ {0}
  BY <1>1, SegmentFacts DEF Seg
<1>3. CASE seg < Len(Segments(call))
  <2>1. seg = 1 /\ Len(Segments(call)) = 2
    BY <1>1, <1>2, <1>3, FirstOfTwo
  <2>2. Seg.stop = FALSE /\ Seg.rw = "W"
    BY <1>1, <2>1, SegmentFacts DEF Seg
  <2> QED
    BY <1>1, <1>2, <1>3, <2>1, <2>2
<1>4. CASE ~(seg < Len(Segments(call)))
  <2>1. seg = Len(Segments(call))
    BY <1>1, <1>2, <1>4, FirstOfTwo
  <2>2. Seg.stop = TRUE
    BY <1>1, <2>1, SegmentFacts DEF Seg
  <2> QED
    BY <1>1, <1>2, <2>2
<1> QED
  BY <1>3, <1>4

LEMMA CallInit == Init => CallInv
  BY DEF Init, CallInv, Transferring

(* A transfer begins: the wrapper's first segment, and every one after it. *)
LEMMA SegmentBegins ==
  ASSUME NEW c \in Calls, NEW i \in 1 .. Len(Segments(c)),
         call' = c, seg' = i, left' = Segments(c)[i].size + 1,
         pc' = StartPc(Segments(c)[i])
  PROVE  CallInv' /\ pc' \in {"enable", "write"}
<1>1. pc' \in {"enable", "write"}
  BY DEF StartPc
<1>2. Segments(c)[i].size \in Nat
  BY SegmentFacts
<1>3. Seg' = Segments(c)[i]
  BY DEF Seg
<1> QED
  BY <1>1, <1>2, <1>3 DEF CallInv, Transferring

LEMMA CallStep == CallInv /\ [Next]_vars => CallInv'
<1> SUFFICES ASSUME CallInv, [Next]_vars PROVE CallInv'
  OBVIOUS
<1>1. ASSUME NEW c \in Calls, Call(c)
      PROVE  CallInv'
  <2>1. 1 \in 1 .. Len(Segments(c))
    BY SegmentFacts
  <2> QED
    BY <1>1, <2>1, SegmentBegins DEF Call, Begin
<1>2. CASE UNCHANGED <<pc, call, seg, left>>
  BY <1>2 DEF CallInv, Seg
<1>3. CASE WriteCmd
  <2>1. pc = "write" /\ pc' = "check" /\ left' = left - 1 /\ UNCHANGED <<call, seg>>
    BY <1>3 DEF WriteCmd
  <2>2. Seg' = Seg /\ Seg.size \in Nat
    BY <2>1, SegFacts DEF Seg, Transferring
  <2> QED
    BY <2>1, <2>2 DEF CallInv, Transferring
<1>4. CASE Check
  <2>1. pc = "check" /\ pc' = AfterCommand(Checked) /\ UNCHANGED <<call, seg, left>>
    BY <1>4 DEF Check
  <2>2. /\ call \in Calls /\ seg \in 1 .. Len(Segments(call)) /\ left \in 0 .. Seg.size + 1
        /\ Seg' = Seg /\ Seg.size \in Nat
        /\ Seg.stop = FALSE => seg < Len(Segments(call))
        /\ Seg.stop # FALSE => Seg.stop = TRUE
    BY <2>1, SegFacts DEF Seg, Transferring
  <2>3. /\ pc' \in {"write", "wait", "arm", "fetch", "segment"}
        /\ pc' = "write" => left > 0
    BY <2>1, <2>2 DEF AfterCommand, master_transmit, master_transmit_using_interrupts,
                      master_receive, master_receive_using_interrupts
  <2>4. pc' = "segment" => Seg.stop = FALSE
    BY <2>1, <2>2 DEF AfterCommand, master_transmit, master_transmit_using_interrupts,
                      master_receive, master_receive_using_interrupts
  <2> QED
    BY <2>1, <2>2, <2>3, <2>4 DEF CallInv, Transferring
<1>5. CASE Retry
  <2>1. call \in Calls
    BY <1>5 DEF Retry, CallInv
  <2>2. 1 \in 1 .. Len(Segments(call))
    BY <2>1, SegmentFacts
  <2> QED
    BY <1>5, <2>1, <2>2, SegmentBegins DEF Retry
<1>6. CASE Proceed
  <2>1. pc \in {"segment", "retry"} /\ seg < Len(Segments(call))
    BY <1>6 DEF Proceed, NextSegment
  <2>2. call \in Calls /\ seg \in 1 .. Len(Segments(call))
    BY <2>1 DEF CallInv, Transferring
  <2>3. Len(Segments(call)) \in {1, 2}
    BY <2>2, SegmentFacts
  <2>4. seg + 1 \in 1 .. Len(Segments(call))
    BY <2>1, <2>2, <2>3, FirstOfTwo
  <2> QED
    BY <1>6, <2>2, <2>4, SegmentBegins DEF Proceed
<1>7. CASE UNCHANGED <<call, seg, left>> /\ pc' \in {"idle", "abort"}
  BY <1>7 DEF CallInv, Transferring
<1>8. CASE UNCHANGED <<call, seg, left>> /\ pc \in Transferring /\ pc' \in {"wait", "retry"}
  BY <1>8 DEF CallInv, Transferring, Seg
<1>9. CASE Enable
  <2>1. UNCHANGED <<call, seg, left>> /\ pc = "enable" /\ pc' \in {"retry", "write"}
    BY <1>9 DEF Enable
  <2>2. Seg' = Seg
    BY <2>1 DEF Seg
  <2> QED
    BY <2>1, <2>2 DEF CallInv, Transferring
<1>10. CASE WriteTimeout \/ Fetch \/ Finish
  BY <1>10, <1>2, <1>8 DEF WriteTimeout, Fetch, Finish, Transferring
<1>11. CASE Return \/ Arm \/ TransactionStatus \/ Abort
  BY <1>11, <1>2, <1>7 DEF Return, Arm, TransactionStatus, Abort
<1>12. CASE Isr \/ IsrEnd \/ Jam \/ Unjam \/ UNCHANGED vars
  BY <1>12, <1>2 DEF Isr, IsrEnd, Jam, Unjam, vars, sw
<1>13. CASE Core
  BY <1>13, <1>2 DEF Core, CoreStart, CorePop, CoreAddr, CoreTx, CoreRx, CoreStop, sw
<1> QED
  BY <1>1, <1>3, <1>4, <1>5, <1>6, <1>9, <1>10, <1>11, <1>12, <1>13
  DEF Next, Driver, Callback

(* Behind a first segment there is a second one, without a start. *)
LEMMA ProceedWrites ==
  ASSUME CallInv, Proceed
  PROVE  pc' = "write" /\ seg = 1 /\ seg' = 2
<1>1. pc \in {"segment", "retry"} /\ seg < Len(Segments(call)) /\ seg' = seg + 1
  BY DEF Proceed, NextSegment
<1>2. call \in Calls /\ seg \in 1 .. Len(Segments(call))
  BY <1>1 DEF CallInv, Transferring
<1>3. Len(Segments(call)) \in {1, 2}
  BY <1>2, SegmentFacts
<1>4. seg = 1 /\ seg + 1 = 2 /\ Len(Segments(call)) = 2
  BY <1>1, <1>2, <1>3, FirstOfTwo
<1>5. Segments(call)[seg + 1].restart = TRUE
  BY <1>2, <1>4, SegmentFacts
<1> QED
  BY <1>1, <1>4, <1>5 DEF Proceed, StartPc

(***************************************************************************)
(* Who has the core: it is enabled by a call for the time of its transfer, *)
(* or for that of an interrupt transaction that was not reported yet.      *)
(***************************************************************************)
EnableInv ==
  /\ en \in BOOLEAN /\ pending \in BOOLEAN
  /\ pc \in {"enable", "retry"} => ~en
  /\ pc \in {"check", "arm", "segment"} => en
  /\ pending => pc \in {"idle", "abort"}
  /\ pc = "abort" => pending
  /\ pc = "idle" /\ ~pending => ~en
  /\ pending /\ irq_busy = 0 => ~en
  /\ isr = "wait" => ien = {} /\ pending
  /\ ien # {} => pending /\ irq_busy # 0 /\ en /\ pc = "idle" /\ isr = "off"
  /\ isr \in {"off", "wait"}

LEMMA EnableInit == Init => EnableInv
  BY DEF Init, EnableInv

LEMMA EnableStep == CallInv /\ EnableInv /\ [Next]_vars => EnableInv'
<1> SUFFICES ASSUME CallInv, EnableInv, [Next]_vars PROVE EnableInv'
  OBVIOUS
<1> USE DEF EnableInv
<1>1. ASSUME NEW c \in Calls, Call(c)
      PROVE  EnableInv'
  <2>1. pc' \in {"enable", "write"} /\ ~pending /\ ien = {} /\ isr = "off" /\ ~en
    BY <1>1 DEF Call, Begin, StartPc, Program
  <2> QED
    BY <1>1, <2>1 DEF Call, hw, irq
<1>2. CASE Enable
  BY <1>2 DEF Enable, Program
<1>3. CASE WriteCmd
  BY <1>3 DEF WriteCmd, irq, TxReady
<1>4. CASE WriteTimeout
  BY <1>4 DEF WriteTimeout, hw, irq
<1>5. CASE Check
  <2>1. pc' \in {"write", "wait", "arm", "fetch", "segment"} /\ en /\ ~pending
    BY <1>5 DEF Check, AfterCommand, master_transmit, master_transmit_using_interrupts,
                master_receive, master_receive_using_interrupts
  <2> QED
    BY <1>5, <2>1 DEF Check, irq
<1>6. CASE Fetch
  BY <1>6 DEF Fetch, irq
<1>7. CASE Finish
  BY <1>7 DEF Finish, disable, irq
<1>8. CASE Retry
  <2>1. pc' \in {"enable", "write"}
    BY <1>8 DEF Retry, StartPc
  <2> QED
    BY <1>8, <2>1 DEF Retry, hw, irq
<1>9. CASE Proceed
  <2>1. pc' = "write"
    BY <1>9, ProceedWrites
  <2> QED
    BY <1>9, <2>1 DEF Proceed, NextSegment, hw, irq
<1>10. CASE Return
  <2>1. pc = "retry"
    BY <1>10 DEF Return, NextSegment, CallInv, Transferring
  <2> QED
    BY <1>10, <2>1 DEF Return, hw, irq
<1>11. CASE Arm
  BY <1>11 DEF Arm
<1>12. CASE Isr
  BY <1>12 DEF Isr, Irq, Program
<1>13. CASE IsrEnd
  BY <1>13 DEF IsrEnd, disable, sw
<1>14. CASE TransactionStatus
  BY <1>14 DEF TransactionStatus, irq, Program
<1>15. CASE Abort
  BY <1>15 DEF Abort, disable, Program
<1>16. CASE UNCHANGED <<en, pc, pending, isr, ien, irq_busy>>
  BY <1>16
<1>17. CASE Core \/ Jam \/ Unjam \/ UNCHANGED vars
  BY <1>17, <1>16 DEF Core, CoreStart, CorePop, CoreAddr, CoreTx, CoreRx, CoreStop, Jam, Unjam,
                      vars, hw, sw, irq
<1> QED
  BY <1>1, <1>2, <1>3, <1>4, <1>5, <1>6, <1>7, <1>8, <1>9, <1>10, <1>11, <1>12, <1>13, <1>14,
     <1>15, <1>17 DEF Next, Driver, Callback

\* Between calls the core is disabled, whatever the call met: no call finds it
\* enabled and is refused for it (alt_avalon_i2c_enable, line 216).
THEOREM Disabled == Spec => []DisabledBetween
<1>1. CallInv /\ EnableInv => DisabledBetween
  BY DEF EnableInv, DisabledBetween, Reported
<1> QED
  BY CallInit, CallStep, EnableInit, EnableStep, <1>1, PTL DEF Spec

\* An interrupt is enabled only for a transaction that waits for it, from its
\* arming (lines 444 and 779) to the report of its end.
THEOREM Owned == Spec => []InterruptsOwned
<1>1. EnableInv => InterruptsOwned
  BY DEF EnableInv, InterruptsOwned
<1> QED
  BY CallInit, CallStep, EnableInit, EnableStep, <1>1, PTL DEF Spec
(***************************************************************************)
(* The commands on their way: what the core has not taken yet, behind the  *)
(* one it is at.  While no call stopped halfway, a command without a stop  *)
(* is followed by one of the same call, and if it is the last, the next    *)
(* one is about to be written.                                             *)
(***************************************************************************)
Commands == [sta : BOOLEAN, stop : BOOLEAN, rw : {"R", "W"}, tag : Nat, whole : Nat]
Active == fsm \in {"ADDR", "TX_BYTE", "RX_BYTE", "HOLD"}
Streaming == txfifo # <<>> \/ Active
Newest == IF txfifo = <<>> THEN cur ELSE txfifo[Len(txfifo)]
Joined(a, b) == a.stop = FALSE => a.tag = b.tag
Begun == pc \in {"write", "check"} => left <= Seg.size \/ seg > 1
Writing == pc \in {"write", "check", "segment"} /\ Begun

CommandTypes ==
  /\ txfifo \in Seq(Commands) /\ cur \in Commands
  /\ tag \in Nat /\ cut \in BOOLEAN
  /\ bus \in [tag : Nat, n : Nat, mixed : BOOLEAN]
  /\ fsm = "HOLD" => cur.stop = FALSE
  /\ nack \/ arblost => ~Streaming

StreamInv ==
  ~cut =>
    /\ bus.mixed = FALSE
    /\ Active => bus.tag = cur.tag
    /\ \A i \in 1 .. Len(txfifo) - 1 : Joined(txfifo[i], txfifo[i + 1])
    /\ Active /\ txfifo # <<>> => Joined(cur, txfifo[1])
    /\ Streaming /\ Newest.stop = FALSE => Newest.tag = tag /\ Writing
    /\ Streaming /\ pc = "check" /\ left = 0 /\ Seg.stop = TRUE => Newest.stop = TRUE

LEMMA StreamInit == Init => CommandTypes /\ StreamInv
<1> SUFFICES ASSUME Init PROVE CommandTypes /\ StreamInv
  OBVIOUS
<1>1. ~Active /\ ~Streaming
  BY DEF Init, Active, Streaming
<1>2. NoCommand \in Commands
  BY DEF NoCommand, Commands
<1>3. bus \in [tag : Nat, n : Nat, mixed : BOOLEAN] /\ txfifo \in Seq(Commands)
  BY EmptySeq DEF Init
<1>4. CommandTypes
  BY <1>1, <1>2, <1>3 DEF Init, CommandTypes
<1>5. StreamInv
  BY <1>1 DEF Init, StreamInv
<1> QED
  BY <1>4, <1>5

(* Steps of the processor that write no command. *)
LEMMA Unmoved ==
  ASSUME CommandTypes, StreamInv, UNCHANGED <<txfifo, cur, bus>>,
         tag' \in Nat, cut' = TRUE \/ cut' = cut,
         fsm' = fsm \/ (fsm \in {"IDLE", "PRE_IDLE"} /\ fsm' \in {"IDLE", "PRE_START"}),
         nack' \/ arblost' => nack \/ arblost,
         pc' # "check" \/ UNCHANGED <<pc, left, seg, call>>,
         Streaming /\ Newest.stop = FALSE /\ ~cut /\ ~cut' => tag' = tag /\ Writing'
  PROVE  CommandTypes' /\ StreamInv'
<1>1. /\ Active' <=> Active
      /\ Streaming' <=> Streaming
      /\ Newest' = Newest
  BY DEF Active, Streaming, Newest
<1>2. CommandTypes'
  BY <1>1 DEF CommandTypes
<1>3. pc' = "check" => UNCHANGED <<pc, left, seg, call>> /\ Seg' = Seg
  BY DEF Seg
<1>4. StreamInv'
  <2> SUFFICES ASSUME ~cut'
               PROVE  /\ bus'.mixed = FALSE
                      /\ Active' => bus'.tag = cur'.tag
                      /\ \A i \in 1 .. Len(txfifo') - 1 : Joined(txfifo'[i], txfifo'[i + 1])
                      /\ Active' /\ txfifo' # <<>> => Joined(cur', txfifo'[1])
                      /\ Streaming' /\ Newest'.stop = FALSE => Newest'.tag = tag' /\ Writing'
                      /\ Streaming' /\ pc' = "check" /\ left' = 0 /\ Seg'.stop = TRUE
                           => Newest'.stop = TRUE
    BY DEF StreamInv, Joined
  <2>1. ~cut
    BY DEF CommandTypes
  <2> QED
    BY <1>1, <1>3, <2>1 DEF StreamInv
<1> QED
  BY <1>2, <1>4

(* The core goes on with the oldest command. *)
LEMMA Popped ==
  ASSUME CommandTypes, StreamInv, txfifo # <<>>,
         cur' = Head(txfifo), txfifo' = Tail(txfifo),
         fsm' \in {"ADDR", "TX_BYTE", "RX_BYTE"},
         UNCHANGED <<pc, call, seg, left, tag, cut, nack, arblost>>,
         bus' \in [tag : Nat, n : Nat, mixed : BOOLEAN],
         ~cut => bus'.tag = cur'.tag /\ bus'.mixed = FALSE
  PROVE  CommandTypes' /\ StreamInv'
<1>1. /\ txfifo \in Seq(Commands) /\ Len(txfifo) \in Nat /\ Len(txfifo) > 0
      /\ Tail(txfifo) \in Seq(Commands) /\ Len(txfifo') = Len(txfifo) - 1
      /\ \A i \in 1 .. Len(txfifo') : txfifo'[i] = txfifo[i + 1]
      /\ cur' = txfifo[1] /\ cur' \in Commands
  BY HeadTailProperties DEF CommandTypes
<1>2. Active' /\ Streaming' /\ Streaming
  BY DEF Active, Streaming
<1>3. ~(nack \/ arblost)
  BY <1>2 DEF CommandTypes
<1>4. CommandTypes'
  BY <1>1, <1>3 DEF CommandTypes
<1>5. Newest' = Newest
  <2>1. CASE txfifo' = <<>>
    <3>1. Len(txfifo') = 0
      BY <1>1, <2>1, EmptySeq
    <3>2. Len(txfifo) = 1
      BY <1>1, <3>1
    <3> QED
      BY <1>1, <2>1, <3>2 DEF Newest
  <2>2. CASE txfifo' # <<>>
    <3>1. Len(txfifo') \in 1 .. Len(txfifo')
      BY <1>1, <2>2
    <3>2. txfifo'[Len(txfifo')] = txfifo[Len(txfifo)]
      BY <1>1, <3>1
    <3> QED
      BY <2>2, <3>2 DEF Newest
  <2> QED
    BY <2>1, <2>2
<1>6. Writing' <=> Writing
  BY DEF Writing, Begun, Seg
<1>7. StreamInv'
  <2> SUFFICES ASSUME ~cut
               PROVE  /\ \A i \in 1 .. Len(txfifo') - 1 : Joined(txfifo'[i], txfifo'[i + 1])
                      /\ txfifo' # <<>> => Joined(cur', txfifo'[1])
                      /\ Newest.stop = FALSE => Newest.tag = tag /\ Writing
                      /\ pc = "check" /\ left = 0 /\ Seg'.stop = TRUE => Newest.stop = TRUE
    BY <1>5, <1>6 DEF StreamInv, Joined
  <2>1. \A i \in 1 .. Len(txfifo) - 1 : Joined(txfifo[i], txfifo[i + 1])
    BY DEF StreamInv
  <2>2. ASSUME NEW i \in 1 .. Len(txfifo') - 1
        PROVE  Joined(txfifo'[i], txfifo'[i + 1])
    <3>1. /\ i \in 1 .. Len(txfifo') /\ i + 1 \in 1 .. Len(txfifo')
          /\ i + 1 \in 1 .. Len(txfifo) - 1
      BY <1>1, <2>2
    <3>2. txfifo'[i] = txfifo[i + 1] /\ txfifo'[i + 1] = txfifo[i + 1 + 1]
      BY <1>1, <3>1
    <3>3. Joined(txfifo[i + 1], txfifo[i + 1 + 1])
      BY <2>1, <3>1
    <3> QED
      BY <3>2, <3>3
  <2>3. ASSUME txfifo' # <<>>
        PROVE  Joined(cur', txfifo'[1])
    <3>1. 1 \in 1 .. Len(txfifo') /\ 1 \in 1 .. Len(txfifo) - 1
      BY <1>1, <2>3
    <3>2. txfifo'[1] = txfifo[1 + 1] /\ Joined(txfifo[1], txfifo[1 + 1])
      BY <1>1, <2>1, <3>1
    <3> QED
      BY <1>1, <3>2
  <2>4. Seg' = Seg
    BY DEF Seg
  <2> QED
    BY <1>2, <2>2, <2>3, <2>4 DEF StreamInv
<1> QED
  BY <1>4, <1>7

(* The core is through with a command, or stays as it is. *)
LEMMA Passed ==
  ASSUME CommandTypes, StreamInv, UNCHANGED <<txfifo, cur>>,
         UNCHANGED <<pc, call, seg, left, tag, cut, nack, arblost>>,
         Active' => Active, fsm' = "HOLD" => cur.stop = FALSE,
         bus' \in [tag : Nat, n : Nat, mixed : BOOLEAN],
         bus'.tag = bus.tag /\ bus'.mixed = bus.mixed
  PROVE  CommandTypes' /\ StreamInv'
<1>1. Newest' = Newest /\ (Streaming' => Streaming) /\ Seg' = Seg
  BY DEF Newest, Streaming, Seg
<1>2. Writing' <=> Writing
  BY DEF Writing, Begun, Seg
<1>3. CommandTypes'
  BY <1>1 DEF CommandTypes
<1>4. StreamInv'
  BY <1>1, <1>2 DEF StreamInv, Joined
<1> QED
  BY <1>3, <1>4

(* An error takes back all that was written. *)
LEMMA Dropped ==
  ASSUME CommandTypes, StreamInv, txfifo' = <<>>, UNCHANGED <<cur, bus, tag, cut>>,
         ~Active'
  PROVE  CommandTypes' /\ StreamInv'
<1>1. ~Streaming' /\ Len(txfifo') = 0
  BY DEF Streaming
<1>2. CommandTypes'
  BY <1>1 DEF CommandTypes, Active
<1>3. StreamInv'
  BY <1>1 DEF StreamInv, CommandTypes
<1> QED
  BY <1>2, <1>3

LEMMA CommandFacts ==
  ASSUME CallInv, pc = "write", tag \in Nat
  PROVE  /\ Command \in Commands /\ Command.tag = tag
         /\ left = 1 /\ Seg.stop = TRUE => Command.stop = TRUE
<1>1. /\ call \in Calls /\ Seg.size \in Nat \ {0} /\ left \in 0 .. Seg.size + 1
      /\ Seg.stop \in BOOLEAN /\ Seg.rw \in {"R", "W"}
  <2>1. call \in Calls /\ Seg.size \in Nat \ {0}
        /\ left \in 0 .. Seg.size + 1 /\ Seg.stop \in BOOLEAN
    BY SegFacts DEF Transferring
  <2>2. seg \in 1 .. Len(Segments(call)) /\ Len(Segments(call)) \in {1, 2}
    BY SegFacts DEF Transferring
  <2>3. Seg.rw \in {"R", "W"}
    BY <2>2 DEF Seg, Segments, master_tx, master_rx, master_tx_rx, W, R
  <2> QED
    BY <2>1, <2>3
<1>2. call.tx + call.rx \in Nat
  BY <1>1, CallsAssumption
<1>3. CASE left = Seg.size + 1
  <2>1. Command = [sta |-> Seg.restart, stop |-> FALSE, rw |-> Seg.rw, tag |-> tag,
                   whole |-> call.tx + call.rx]
    BY <1>3 DEF Command, send_address
  <2>2. Seg.restart \in BOOLEAN
    BY SegFacts, SegmentFacts DEF Transferring, Seg
  <2>3. left # 1
    BY <1>1, <1>3
  <2> QED
    BY <1>1, <1>2, <2>1, <2>2, <2>3 DEF Commands
<1>4. CASE left # Seg.size + 1
  <2>1. Command = [sta |-> FALSE, stop |-> left = 1 /\ Seg.stop, rw |-> Seg.rw, tag |-> tag,
                   whole |-> call.tx + call.rx]
    BY <1>4 DEF Command, send_byte
  <2> QED
    BY <1>1, <1>2, <2>1 DEF Commands
<1> QED
  BY <1>3, <1>4

LEMMA WriteStream ==
  ASSUME CallInv, CommandTypes, StreamInv, WriteCmd
  PROVE  CommandTypes' /\ StreamInv'
<1>1. /\ pc = "write" /\ pc' = "check" /\ left' = left - 1
      /\ UNCHANGED <<call, seg, tag, cur, bus, cut, nack, arblost>>
  BY DEF WriteCmd, env, ghost
<1>2. /\ seg \in Nat /\ left \in 0 .. Seg.size + 1 /\ Seg.size \in Nat /\ Seg' = Seg
      /\ left > 0
  <2>1. /\ seg \in 1 .. Len(Segments(call)) /\ Len(Segments(call)) \in {1, 2}
        /\ left \in 0 .. Seg.size + 1 /\ Seg.size \in Nat
    BY <1>1, SegFacts DEF Transferring
  <2> QED
    BY <1>1, <2>1 DEF CallInv, Seg, Transferring
<1>3. CASE Flush
  <2>1. txfifo' = <<>> /\ fsm' = fsm /\ ~Active
    BY <1>3 DEF WriteCmd, Flush, CommandTypes, Streaming
  <2> QED
    BY <1>1, <2>1, Dropped DEF Active
<1>4. CASE ~Flush
  <2>1. /\ txfifo' = Append(txfifo, Command)
        /\ fsm' = fsm \/ (fsm = "PRE_IDLE" /\ fsm' = "PRE_START")
    BY <1>4 DEF WriteCmd
  <2>2. /\ Command \in Commands /\ Command.tag = tag
        /\ left = 1 /\ Seg.stop = TRUE => Command.stop = TRUE
    BY <1>1, CommandFacts DEF CommandTypes
  <2>3. /\ txfifo \in Seq(Commands) /\ Len(txfifo) \in Nat
        /\ txfifo' \in Seq(Commands) /\ Len(txfifo') = Len(txfifo) + 1
        /\ \A i \in 1 .. Len(txfifo) : txfifo'[i] = txfifo[i]
        /\ txfifo'[Len(txfifo) + 1] = Command
    BY <2>1, <2>2, AppendProperties DEF CommandTypes
  <2>4. /\ txfifo' # <<>> /\ Newest' = Command
        /\ Active' <=> Active
    <3>1. txfifo' # <<>>
      BY <2>3, EmptySeq
    <3> QED
      BY <2>1, <2>3, <3>1 DEF Newest, Active
  <2>5. CommandTypes'
    BY <1>1, <1>4, <2>1, <2>3 DEF CommandTypes, Flush
  <2>6. Writing'
    <3>1. left' <= Seg'.size
      BY <1>1, <1>2
    <3> QED
      BY <1>1, <3>1 DEF Writing, Begun
  <2>7. ASSUME ~cut, Streaming
        PROVE  Joined(Newest, Command)
    BY <2>2, <2>7 DEF StreamInv, Joined
  <2>8. ASSUME ~cut, NEW i \in 1 .. Len(txfifo') - 1
        PROVE  Joined(txfifo'[i], txfifo'[i + 1])
    <3>1. CASE i = Len(txfifo)
      <4>1. txfifo # <<>>
        BY <2>3, <2>8, <3>1, EmptySeq
      <4>2. txfifo'[i] = Newest /\ txfifo'[i + 1] = Command
        BY <2>3, <2>8, <3>1, <4>1 DEF Newest
      <4> QED
        BY <2>7, <2>8, <4>1, <4>2 DEF Streaming
    <3>2. CASE i # Len(txfifo)
      <4>1. i \in 1 .. Len(txfifo) - 1 /\ i \in 1 .. Len(txfifo) /\ i + 1 \in 1 .. Len(txfifo)
        BY <2>3, <2>8, <3>2
      <4>2. Joined(txfifo[i], txfifo[i + 1])
        BY <2>8, <4>1 DEF StreamInv
      <4> QED
        BY <2>3, <4>1, <4>2
    <3> QED
      BY <3>1, <3>2
  <2>9. ASSUME ~cut, Active
        PROVE  Joined(cur, txfifo'[1])
    <3>1. CASE txfifo = <<>>
      <4>1. txfifo'[1] = Command /\ Newest = cur
        <5>1. Len(txfifo) = 0
          BY <2>3, <3>1, EmptySeq
        <5> QED
          BY <2>3, <3>1, <5>1 DEF Newest
      <4> QED
        BY <2>7, <2>9, <4>1 DEF Streaming
    <3>2. CASE txfifo # <<>>
      <4>1. txfifo'[1] = txfifo[1]
        BY <2>3, <3>2, EmptySeq
      <4> QED
        BY <2>9, <3>2, <4>1 DEF StreamInv
    <3> QED
      BY <3>1, <3>2
  <2>10. StreamInv'
    <3>1. left' = 0 /\ Seg'.stop = TRUE => Newest'.stop = TRUE
      <4>1. left' = 0 => left = 1
        BY <1>1, <1>2
      <4> QED
        BY <1>2, <2>2, <2>4, <4>1
    <3> SUFFICES ASSUME ~cut
                 PROVE  /\ bus.mixed = FALSE
                        /\ Active => bus.tag = cur.tag
                        /\ \A i \in 1 .. Len(txfifo') - 1 : Joined(txfifo'[i], txfifo'[i + 1])
                        /\ Active => Joined(cur, txfifo'[1])
                        /\ Newest'.tag = tag
      BY <1>1, <2>4, <2>6, <3>1 DEF StreamInv, Joined
    <3> QED
      BY <2>2, <2>4, <2>8, <2>9 DEF StreamInv
  <2> QED
    BY <2>5, <2>10
<1> QED
  BY <1>3, <1>4

LEMMA CheckStream ==
  ASSUME CallInv, CommandTypes, StreamInv, Check
  PROVE  CommandTypes' /\ StreamInv'
<1>1. /\ pc = "check" /\ pc' = AfterCommand(Checked)
      /\ UNCHANGED <<txfifo, cur, bus, tag, cut, fsm, nack, arblost, call, seg, left>>
  BY DEF Check, env
<1>2. /\ left \in 0 .. Seg.size + 1 /\ Seg' = Seg
      /\ Seg.rw # "W" => Seg.stop = TRUE
      /\ Seg.stop # FALSE => Seg.stop = TRUE
  BY <1>1, SegFacts DEF Transferring, Seg
<1>3. ASSUME Streaming, Newest.stop = FALSE, ~cut
      PROVE  Writing'
  <2>1. Writing /\ ~(nack \/ arblost) /\ (left = 0 => Seg.stop # TRUE)
    BY <1>1, <1>3 DEF StreamInv, CommandTypes
  <2>2. Checked = "SUCCESS"
    BY <2>1 DEF Checked
  <2>3. pc' \in {"write", "segment"}
    <3>1. CASE left > 0
      BY <1>1, <2>2, <3>1
      DEF AfterCommand, master_transmit, master_transmit_using_interrupts,
          master_receive, master_receive_using_interrupts
    <3>2. CASE left = 0
      <4>1. Seg.stop # TRUE
        BY <2>1, <3>2
      <4>2. Seg.stop = FALSE /\ Seg.rw = "W"
        BY <1>2, <4>1, Zenon
      <4>3. ~(left > 0)
        BY <3>2
      <4> QED
        BY <1>1, <2>2, <4>2, <4>3
        DEF AfterCommand, master_transmit, master_transmit_using_interrupts
    <3> QED
      BY <1>2, <3>1, <3>2
  <2> QED
    BY <1>1, <1>2, <2>1, <2>3 DEF Writing, Begun
<1>4. pc' # "check"
  BY <1>1 DEF AfterCommand, master_transmit, master_transmit_using_interrupts,
              master_receive, master_receive_using_interrupts
<1> QED
  BY <1>1, <1>3, <1>4, Unmoved DEF StreamInv, CommandTypes

LEMMA CoreStream ==
  ASSUME CallInv, CommandTypes, StreamInv, Core
  PROVE  CommandTypes' /\ StreamInv'
<1>1. UNCHANGED <<pc, call, seg, left, tag, cut>>
  BY DEF Core, CoreStart, CorePop, CoreAddr, CoreTx, CoreRx, CoreStop, env, sw
<1>2. CASE CoreStart
  <2>1. /\ txfifo # <<>> /\ cur' = Head(txfifo) /\ txfifo' = Tail(txfifo) /\ fsm' = "ADDR"
        /\ bus' = [tag |-> Head(txfifo).tag, n |-> 0, mixed |-> FALSE]
        /\ UNCHANGED <<nack, arblost>>
    BY <1>2 DEF CoreStart
  <2>2. Head(txfifo) \in Commands
    BY <2>1, HeadTailProperties DEF CommandTypes
  <2>3. /\ bus' \in [tag : Nat, n : Nat, mixed : BOOLEAN]
        /\ bus'.tag = cur'.tag /\ bus'.mixed = FALSE
    BY <2>1, <2>2 DEF Commands
  <2> QED
    BY <1>1, <2>1, <2>3, Popped
<1>3. CASE CorePop
  <2>1. /\ fsm = "HOLD" /\ txfifo # <<>> /\ cur' = Head(txfifo) /\ txfifo' = Tail(txfifo)
        /\ fsm' \in {"ADDR", "TX_BYTE", "RX_BYTE"} /\ UNCHANGED <<nack, arblost>>
        /\ bus' = [bus EXCEPT !.mixed = bus.mixed \/ cur'.tag # bus.tag]
    BY <1>3 DEF CorePop
  <2>2. /\ bus' \in [tag : Nat, n : Nat, mixed : BOOLEAN] /\ bus'.tag = bus.tag
        /\ bus'.mixed = (bus.mixed \/ cur'.tag # bus.tag)
    BY <2>1 DEF CommandTypes
  <2>3. Head(txfifo) = txfifo[1]
    BY <2>1, HeadTailProperties DEF CommandTypes
  <2>4. ASSUME ~cut
        PROVE  bus'.tag = cur'.tag /\ bus'.mixed = FALSE
    <3>1. Joined(cur, txfifo[1]) /\ cur.stop = FALSE /\ bus.tag = cur.tag /\ bus.mixed = FALSE
      BY <2>1, <2>4 DEF StreamInv, CommandTypes, Active
    <3>2. cur'.tag = bus.tag
      BY <2>1, <2>3, <3>1 DEF Joined
    <3> QED
      BY <2>2, <3>1, <3>2
  <2> QED
    BY <1>1, <2>1, <2>2, <2>4, Popped
<1>4. CASE /\ fsm \in {"ADDR", "TX_BYTE", "RX_BYTE"} /\ Acknowledge /\ cur' = cur
           /\ bus' = bus \/ Count
  <2>1. /\ UNCHANGED <<txfifo, nack, arblost>> /\ Active
        /\ fsm' = "HOLD" => cur.stop = FALSE
    BY <1>4 DEF Acknowledge, Active, CommandTypes, Commands
  <2>2. /\ bus' \in [tag : Nat, n : Nat, mixed : BOOLEAN]
        /\ bus'.tag = bus.tag /\ bus'.mixed = bus.mixed
    <3>1. CASE bus' = bus
      BY <3>1 DEF CommandTypes
    <3>2. CASE bus' = [bus EXCEPT !.n = bus.n + 1]
      BY <3>2 DEF CommandTypes
    <3> QED
      BY <1>4, <3>1, <3>2 DEF Count
  <2> QED
    BY <1>1, <1>4, <2>1, <2>2, Passed
<1>5. CASE (Refuse \/ Lose) /\ UNCHANGED <<cur, bus>>
  <2>1. txfifo' = <<>> /\ ~Active'
    BY <1>5 DEF Refuse, Lose, Aborted, Active, Rest
  <2> QED
    BY <1>1, <1>5, <2>1, Dropped
<1>6. CASE CoreStop
  <2>1. UNCHANGED <<txfifo, cur, nack, arblost, bus>> /\ ~Active' /\ fsm' # "HOLD"
    BY <1>6 DEF CoreStop, Active, Rest, ghost
  <2>2. bus' \in [tag : Nat, n : Nat, mixed : BOOLEAN]
    BY <2>1 DEF CommandTypes
  <2> QED
    BY <1>1, <2>1, <2>2, Passed
<1>7. CASE CoreAddr \/ CoreTx \/ CoreRx
  BY <1>7, <1>4, <1>5 DEF CoreAddr, CoreTx, CoreRx, ghost
<1> QED
  BY <1>2, <1>3, <1>6, <1>7 DEF Core

LEMMA StreamStep ==
  CallInv /\ EnableInv /\ CommandTypes /\ StreamInv /\ [Next]_vars => CommandTypes' /\ StreamInv'
<1> SUFFICES ASSUME CallInv, EnableInv, CommandTypes, StreamInv, [Next]_vars
             PROVE  CommandTypes' /\ StreamInv'
  OBVIOUS
<1>1. tag \in Nat /\ (Streaming /\ Newest.stop = FALSE /\ ~cut => Writing)
  BY DEF CommandTypes, StreamInv
<1>2. CASE \E c \in Calls : Call(c)
  <2>1. /\ pc = "idle" /\ pc' \in {"enable", "write"} /\ tag' = tag + 1
        /\ UNCHANGED <<txfifo, cur, bus, cut, fsm, nack, arblost>>
    BY <1>2 DEF Call, Begin, StartPc, hw, env
  <2>2. ~Writing /\ tag' \in Nat /\ cut' = cut
    BY <1>1, <2>1 DEF Writing
  <2>3. ~(Streaming /\ Newest.stop = FALSE /\ ~cut)
    BY <1>1, <2>2
  <2> QED
    BY <2>1, <2>2, <2>3, Unmoved
<1>3. CASE Enable
  <2>1. /\ pc = "enable" /\ pc' # "check" /\ UNCHANGED <<txfifo, cur, bus, cut, tag>>
        /\ fsm' = fsm \/ (fsm = "IDLE" /\ fsm' = "PRE_START")
        /\ nack' \/ arblost' => nack \/ arblost
    BY <1>3 DEF Enable, int_clear, hw, env, ghost
  <2>2. ~Writing
    BY <2>1 DEF Writing
  <2> QED
    BY <1>1, <2>1, <2>2, Unmoved
<1>4. CASE WriteCmd
  BY <1>4, WriteStream
<1>5. CASE WriteTimeout
  <2>1. /\ pc = "write" /\ pc' = "wait"
        /\ UNCHANGED <<txfifo, cur, bus, tag, fsm, nack, arblost>>
        /\ cut' = (cut \/ seg > 1 \/ left <= Seg.size)
    BY <1>5 DEF WriteTimeout, hw, ghost
  <2>2. /\ cut' = TRUE \/ cut' = cut
        /\ ~cut' => ~Writing
    BY <2>1 DEF Writing, Begun, CommandTypes
  <2> QED
    BY <1>1, <2>1, <2>2, Unmoved
<1>6. CASE Check
  BY <1>6, CheckStream
<1>7. CASE Finish \/ Abort \/ IsrEnd
  <2>1. /\ pc \in {"wait", "abort", "idle"} /\ pc' \in {"retry", "abort", "idle"}
        /\ UNCHANGED <<txfifo, cur, bus, cut, tag, nack, arblost>>
        /\ fsm' = fsm \/ (fsm = "PRE_IDLE" /\ fsm' = "IDLE")
    BY <1>7 DEF Finish, Abort, IsrEnd, disable, env, sw, ghost, EnableInv
  <2>2. ~Writing
    BY <2>1 DEF Writing
  <2> QED
    BY <1>1, <2>1, <2>2, Unmoved
<1>8. CASE Fetch \/ Retry \/ Return \/ Arm \/ Isr \/ TransactionStatus
  <2>1. UNCHANGED <<txfifo, cur, bus, cut, tag, fsm>> /\ (nack' \/ arblost' => nack \/ arblost)
    BY <1>8 DEF Fetch, Retry, Return, Arm, Isr, TransactionStatus, int_clear,
                hw, env, ghost
  <2>2. pc' # "check" /\ pc \in {"fetch", "retry", "idle", "arm"}
    <3>1. CASE Fetch \/ Retry \/ Arm \/ TransactionStatus
      BY <3>1 DEF Fetch, Retry, Arm, TransactionStatus, StartPc
    <3>2. CASE Return
      BY <3>2 DEF Return, NextSegment, CallInv, Transferring
    <3>3. CASE Isr
      BY <3>3 DEF Isr, Irq, EnableInv
    <3> QED
      BY <1>8, <3>1, <3>2, <3>3
  <2>3. ~Writing
    BY <2>2 DEF Writing
  <2> QED
    BY <1>1, <2>1, <2>2, <2>3, Unmoved
<1>9. CASE Proceed
  <2>1. /\ pc' = "write" /\ seg' = 2
        /\ UNCHANGED <<txfifo, cur, bus, cut, tag, fsm, nack, arblost>>
    BY <1>9, ProceedWrites DEF Proceed, hw, env, ghost
  <2>2. Writing'
    BY <2>1 DEF Writing, Begun
  <2> QED
    BY <1>1, <2>1, <2>2, Unmoved
<1>10. CASE Core
  BY <1>10, CoreStream
<1>11. CASE Jam \/ Unjam \/ UNCHANGED vars
  <2>1. /\ UNCHANGED <<txfifo, cur, bus, cut, tag, fsm, nack, arblost, pc, left, seg, call>>
    BY <1>11 DEF Jam, Unjam, vars, hw, env, sw, ghost
  <2>2. Writing' <=> Writing
    BY <2>1 DEF Writing, Begun, Seg
  <2> QED
    BY <1>1, <2>1, <2>2, Unmoved
<1> QED
  BY <1>2, <1>3, <1>4, <1>5, <1>6, <1>7, <1>8, <1>9, <1>10, <1>11 DEF Next, Driver, Callback

\* Commands of two calls never share a transaction on the bus, for every size of
\* the command FIFO and all that slave, bus and another master may do, unless a
\* call's commands stopped halfway, for want of room (alt_avalon_i2c_cmd_write).
THEOREM Unmixed == Spec => []NeverMixed
<1>1. StreamInv => NeverMixed
  BY DEF StreamInv, NeverMixed
<1> QED
  BY CallInit, CallStep, EnableInit, EnableStep, StreamInit, StreamStep, <1>1, PTL DEF Spec

-----------------------------------------------------------------------------
(***************************************************************************)
(* A call as a row of commands: an address and its bytes, twice if a read  *)
(* follows a write; which of them end a transaction, ask for a byte, and   *)
(* how many bytes the first j of them move.                                *)
(***************************************************************************)
Two(c) == c.tx > 0 /\ c.rx > 0
First(c) == IF Two(c) THEN c.tx + 1 ELSE c.tx + c.rx + 1
Total(c) == IF Two(c) THEN c.tx + c.rx + 2 ELSE c.tx + c.rx + 1
IsAddress(c, j) == j = 1 \/ (Two(c) /\ j = c.tx + 2)
Nth(c, t, j) ==
  [sta |-> Two(c) /\ j = c.tx + 2, stop |-> j = Total(c),
   rw |-> IF c.rx > 0 /\ (c.tx = 0 \/ j > c.tx + 1) THEN "R" ELSE "W",
   tag |-> t, whole |-> c.tx + c.rx]
ReadsTo(c, j) == IF c.rx = 0 \/ j + c.rx <= Total(c) THEN 0 ELSE j + c.rx - Total(c)
BytesTo(c, j) == IF j = 0 THEN 0 ELSE IF Two(c) /\ j > c.tx + 1 THEN j - 2 ELSE j - 1

Written == IF seg = 1 THEN First(call) - left ELSE Total(call) - left
Place == Written - Len(txfifo)
Completed == IF fsm = "HOLD" THEN Place ELSE Place - 1

(* The bytes that have arrived for the call: behind those of others, which *)
(* are not there while no call has timed out, and not more than n.         *)
Arrived(n) ==
  \E b \in 0 .. Len(rxfifo) :
    /\ \A i \in 1 .. Len(rxfifo) : rxfifo[i] = tag <=> i > b
    /\ (Len(rxfifo) - b) + (IF stale THEN 0 ELSE got) <= n
    /\ ~late => b = 0 /\ ~stale

(* Nothing on the way but the last byte of a write.                        *)
LastByte == Active => fsm = "TX_BYTE" /\ cur.stop = TRUE

(* What has been written of the call waits behind earlier ones, is on the  *)
(* bus, is through, or was dropped.                                        *)
Waiting ==
  /\ tag \notin done /\ Len(txfifo) >= Written
  /\ \A i \in 1 .. Len(txfifo) :
       IF i <= Len(txfifo) - Written THEN txfifo[i].tag # tag
       ELSE txfifo[i] = Nth(call, tag, i - (Len(txfifo) - Written))
  /\ Active => cur.tag # tag
  /\ ~late => Len(txfifo) = Written /\ LastByte
  /\ Arrived(0)
Running ==
  /\ tag \notin done /\ Active /\ Len(txfifo) < Written
  /\ cur = Nth(call, tag, Place)
  /\ \A i \in 1 .. Len(txfifo) : txfifo[i] = Nth(call, tag, Place + i)
  /\ bus.n = BytesTo(call, Completed)
  /\ fsm = "ADDR" <=> fsm # "HOLD" /\ IsAddress(call, Place)
  /\ fsm # "ADDR" => rw = cur.rw
  /\ fsm = "RX_BYTE" => rw = "R"
  /\ fsm = "TX_BYTE" => rw = "W"
  /\ Arrived(ReadsTo(call, Completed))
Through ==
  /\ tag \in done /\ txfifo = <<>> /\ ~Active /\ ~Flush /\ Written = Total(call)
  /\ Arrived(call.rx)
Lost ==
  /\ tag \notin done /\ txfifo = <<>> /\ ~Active /\ (Flush \/ pending) /\ Written > 0
  /\ Arrived(IF call.rx = 0 THEN 0 ELSE call.rx - 1)
Position == Waiting \/ Running \/ Through \/ Lost

(* A first segment that times out before its first command is followed by  *)
(* the second all the same: of that one, nothing is written.               *)
InTransfer == (pc \in Transferring \ {"retry"} /\ (pc = "write" => en)) \/ pending
Ended == pc = "retry" \/ (pc = "idle" /\ ~pending)
AtLast == left = 0 /\ seg = Len(Segments(call))

(* The core at rest, and the numbers of the calls. *)
CoreInv ==
  /\ en => fsm # "IDLE"
  /\ ~en => fsm # "PRE_IDLE"
  /\ fsm \in {"IDLE", "PRE_IDLE"} => txfifo = <<>>
  /\ rxfifo \in Seq(Nat)
  /\ Flush => rxfifo = <<>>
  /\ \A i \in 1 .. Len(rxfifo) : rxfifo[i] <= tag
  /\ \A i \in 1 .. Len(txfifo) : txfifo[i].tag <= tag
  /\ cur.tag <= tag /\ bus.tag <= tag
  /\ done \subseteq 0 .. tag

(* What the status says where the program decides on it. *)
StatusInv ==
  /\ got \in Nat /\ late \in BOOLEAN /\ stale \in BOOLEAN
  /\ pc \in {"write", "segment", "fetch", "arm"} => status = "SUCCESS"
  /\ pc = "wait" =>
       \/ status = "TIMEOUT"
       \/ status \in {"NACK_ERR", "ARB_LOST_ERR"} /\ Flush
       \/ status = "SUCCESS" /\ AtLast /\ ~call.irq /\ (call.rx > 0 => got >= call.rx)
  /\ pc = "retry" =>
       \/ status = "TIMEOUT" /\ late
       \/ status \in {"NACK_ERR", "ARB_LOST_ERR"} /\ Flush
       \/ status = "SUCCESS" /\ seg = Len(Segments(call)) /\ ~call.irq
  /\ pc = "abort" => status = "NACK_ERR"
  /\ pc = "fetch" => AtLast /\ ~call.irq /\ call.rx > 0
  /\ pc = "arm" => AtLast /\ call.irq
  /\ cut => late \/ (pc = "wait" /\ status = "TIMEOUT")
  /\ pc \in Transferring /\ (call.irq \/ Seg.rw = "W") => got = 0

(* The transaction that the callback serves. *)
IrqInv ==
  /\ irq_size \in Nat
  /\ pending => call.irq /\ AtLast
  /\ pending => \/ irq_busy = 1 /\ call.rx = 0 /\ ien \subseteq {"tx"} /\ thd = "EMPTY"
                \/ irq_busy = 2 /\ call.rx > 0 /\ ien \subseteq {"rx"} /\ got + irq_size = call.rx
                \/ irq_busy = 0 /\ isr = "off" /\ (call.rx > 0 => got = call.rx)
  /\ isr = "wait" => /\ irq_busy = 2 => irq_size = 0
                     /\ irq_busy = 1 => txfifo = <<>>
  /\ pending /\ irq_busy = 0 /\ call.rx = 0 => txfifo = <<>>

PlaceInv ==
  ~cut => /\ InTransfer => Position
          /\ pc = "enable" => Written = 0
          /\ pc = "write" => en \/ seg > 1
          /\ pc = "segment" => left = 0
EndInv ==
  ~cut =>
    /\ pc = "retry" /\ status \in Mendable => tag \notin done
    /\ ~late /\ Ended => ~stale /\ txfifo = <<>> /\ rxfifo = <<>> /\ LastByte
    /\ Ended /\ status = "SUCCESS" =>
         /\ \/ tag \in done
            \/ arblost /\ (call.rx = 0 \/ late)
            \/ call.irq /\ (call.rx = 0 \/ stale)
         /\ ~late => got = call.rx

-----------------------------------------------------------------------------
(* The sizes of a call's segments, and what they ask of the bus. *)
LEMMA SegmentsAre ==
  ASSUME NEW c \in Calls
  PROVE  /\ ~Two(c) => /\ Len(Segments(c)) = 1 /\ Segments(c)[1].size = c.tx + c.rx
                       /\ Segments(c)[1].rw = IF c.tx = 0 THEN "R" ELSE "W"
                       /\ Segments(c)[1].stop = TRUE
         /\ Two(c) => /\ Len(Segments(c)) = 2
                      /\ Segments(c)[1].size = c.tx /\ Segments(c)[1].rw = "W"
                      /\ Segments(c)[1].stop = FALSE
                      /\ Segments(c)[2].size = c.rx /\ Segments(c)[2].rw = "R"
                      /\ Segments(c)[2].restart = TRUE /\ Segments(c)[2].stop = TRUE
         /\ Segments(c)[1].restart = FALSE
<1>1. c.tx \in Nat /\ c.rx \in Nat /\ c.tx + c.rx > 0
  BY CallsAssumption
<1> DEFINE s == Segments(c)
<1>2. CASE c.rx = 0
  <2>1. ~Two(c) /\ c.tx + c.rx = c.tx /\ c.tx # 0
    BY <1>1, <1>2 DEF Two
  <2>2. s = <<W(c.tx, TRUE)>>
    BY <1>2 DEF Segments, master_tx
  <2>3. Len(s) = 1 /\ s[1] = W(c.tx, TRUE)
    BY <2>2
  <2>4. s[1].size = c.tx /\ s[1].rw = "W" /\ s[1].restart = FALSE /\ s[1].stop = TRUE
    BY <2>3 DEF W
  <2> HIDE DEF s
  <2>5. s[1].size = c.tx + c.rx /\ s[1].rw = IF c.tx = 0 THEN "R" ELSE "W"
    BY <2>1, <2>4
  <2> QED
    BY <2>1, <2>3, <2>4, <2>5 DEF s
<1>3. CASE c.rx # 0 /\ c.tx = 0
  <2>1. ~Two(c) /\ c.tx + c.rx = c.rx
    BY <1>1, <1>3 DEF Two
  <2>2. s = <<R(c.rx, FALSE)>>
    BY <1>3 DEF Segments, master_rx
  <2>3. Len(s) = 1 /\ s[1] = R(c.rx, FALSE)
    BY <2>2
  <2>4. s[1].size = c.rx /\ s[1].rw = "R" /\ s[1].restart = FALSE /\ s[1].stop = TRUE
    BY <2>3 DEF R
  <2> HIDE DEF s
  <2>5. s[1].size = c.tx + c.rx /\ s[1].rw = IF c.tx = 0 THEN "R" ELSE "W"
    BY <1>3, <2>1, <2>4
  <2> QED
    BY <2>1, <2>3, <2>4, <2>5 DEF s
<1>4. CASE c.rx # 0 /\ c.tx # 0
  <2>1. Two(c)
    BY <1>1, <1>4 DEF Two
  <2>2. s = <<W(c.tx, FALSE), R(c.rx, TRUE)>>
    BY <1>4 DEF Segments, master_tx_rx
  <2>3. Len(s) = 2 /\ s[1] = W(c.tx, FALSE) /\ s[2] = R(c.rx, TRUE)
    BY <2>2
  <2>4. s[1].size = c.tx /\ s[1].rw = "W" /\ s[1].restart = FALSE /\ s[1].stop = FALSE
    BY <2>3 DEF W
  <2>5. s[2].size = c.rx /\ s[2].rw = "R" /\ s[2].restart = TRUE /\ s[2].stop = TRUE
    BY <2>3 DEF R
  <2> HIDE DEF s
  <2> QED
    BY <2>1, <2>3, <2>4, <2>5 DEF s
<1> QED
  BY <1>2, <1>3, <1>4

(* How long a call's row of commands is. *)
LEMMA Lengths ==
  ASSUME NEW c \in Calls
  PROVE  /\ c.tx \in Nat /\ c.rx \in Nat /\ c.tx + c.rx > 0
         /\ First(c) \in Nat /\ Total(c) \in Nat /\ 2 <= First(c) /\ First(c) <= Total(c)
         /\ Two(c) => First(c) = c.tx + 1 /\ Total(c) = First(c) + c.rx + 1 /\ c.tx > 0 /\ c.rx > 0
         /\ ~Two(c) => Total(c) = First(c) /\ First(c) = c.tx + c.rx + 1 /\ (c.tx = 0 \/ c.rx = 0)
<1>1. c.tx \in Nat /\ c.rx \in Nat /\ c.tx + c.rx > 0
  BY CallsAssumption
<1> QED
  BY <1>1 DEF First, Total, Two

(* The row one command further. *)
LEMMA RowStep ==
  ASSUME NEW c \in Calls, NEW j \in 1 .. Total(c)
  PROVE  /\ BytesTo(c, j - 1) \in Nat /\ ReadsTo(c, j - 1) \in Nat
         /\ BytesTo(c, j) = BytesTo(c, j - 1) + IF IsAddress(c, j) THEN 0 ELSE 1
         /\ ReadsTo(c, j) =
              ReadsTo(c, j - 1)
              + IF c.rx > 0 /\ (c.tx = 0 \/ j > c.tx + 1) /\ ~IsAddress(c, j) THEN 1 ELSE 0
         /\ ReadsTo(c, j - 1) <= IF c.rx = 0 THEN 0 ELSE c.rx - 1
         /\ IsAddress(c, j) => j # Total(c)
BY Lengths DEF BytesTo, ReadsTo, Total, Two, IsAddress

(* Its ends. *)
LEMMA RowEnds ==
  ASSUME NEW c \in Calls, NEW t
  PROVE  /\ BytesTo(c, 0) = 0 /\ ReadsTo(c, 0) = 0
         /\ BytesTo(c, Total(c)) = c.tx + c.rx /\ ReadsTo(c, Total(c)) = c.rx
         /\ IsAddress(c, 1) /\ Nth(c, t, 1).sta = FALSE
<1>1. Nth(c, t, 1).sta = (Two(c) /\ 1 = c.tx + 2)
  BY DEF Nth
<1>2. c.tx \in Nat /\ 1 # c.tx + 2
  BY Lengths
<1>3. IsAddress(c, 1) /\ Nth(c, t, 1).sta = FALSE
  BY <1>1, <1>2 DEF IsAddress
<1>4. BytesTo(c, 0) = 0 /\ ReadsTo(c, 0) = 0
  BY Lengths DEF BytesTo, ReadsTo, Total, Two
<1>5. BytesTo(c, Total(c)) = c.tx + c.rx
  BY Lengths DEF BytesTo, Total, Two
<1>6. ReadsTo(c, Total(c)) = c.rx
  BY Lengths DEF ReadsTo
<1> QED
  BY <1>3, <1>4, <1>5, <1>6

(* A command of the row, and the one behind it. *)
LEMMA NthIs ==
  ASSUME NEW c \in Calls, NEW t, NEW j \in Nat
  PROVE  /\ Nth(c, t, j).tag = t /\ Nth(c, t, j).whole = c.tx + c.rx
         /\ Nth(c, t, j).stop = (j = Total(c))
         /\ Nth(c, t, j).rw = IF c.rx > 0 /\ (c.tx = 0 \/ j > c.tx + 1) THEN "R" ELSE "W"
         /\ j >= 1 => /\ Nth(c, t, j + 1).sta = IsAddress(c, j + 1)
                      /\ ~IsAddress(c, j + 1) => Nth(c, t, j + 1).rw = Nth(c, t, j).rw
<1>1. /\ Nth(c, t, j).tag = t /\ Nth(c, t, j).whole = c.tx + c.rx
      /\ Nth(c, t, j).stop = (j = Total(c))
      /\ Nth(c, t, j).rw = IF c.rx > 0 /\ (c.tx = 0 \/ j > c.tx + 1) THEN "R" ELSE "W"
      /\ Nth(c, t, j + 1).rw = IF c.rx > 0 /\ (c.tx = 0 \/ j + 1 > c.tx + 1) THEN "R" ELSE "W"
      /\ Nth(c, t, j + 1).sta = (Two(c) /\ j + 1 = c.tx + 2)
  BY DEF Nth
<1>2. j >= 1 => (IsAddress(c, j + 1) <=> Two(c) /\ j + 1 = c.tx + 2)
  BY DEF IsAddress
<1>3. ASSUME j >= 1, ~IsAddress(c, j + 1)
      PROVE  c.rx > 0 /\ (c.tx = 0 \/ j + 1 > c.tx + 1) <=> c.rx > 0 /\ (c.tx = 0 \/ j > c.tx + 1)
  BY <1>2, <1>3, Lengths DEF Two
<1>4. ASSUME j >= 1
      PROVE  Nth(c, t, j + 1).sta = IsAddress(c, j + 1)
  <2>1. IsAddress(c, j + 1) \in BOOLEAN /\ (Two(c) /\ j + 1 = c.tx + 2) \in BOOLEAN
    BY DEF IsAddress, Two
  <2> QED
    BY <1>1, <1>2, <1>4, <2>1
<1>5. ASSUME j >= 1, ~IsAddress(c, j + 1)
      PROVE  Nth(c, t, j + 1).rw = Nth(c, t, j).rw
  BY <1>1, <1>3, <1>5
<1> QED
  BY <1>1, <1>4, <1>5


(* How far the call in progress is with its row. *)
LEMMA WrittenIs ==
  ASSUME CallInv, pc \in Transferring
  PROVE  /\ call \in Calls /\ Written \in 0 .. Total(call) /\ left \in Nat
         /\ seg = 1 \/ (seg = 2 /\ Two(call))
         /\ left > 0 => Written < Total(call)
         /\ AtLast => Written = Total(call)
         /\ seg = 1 /\ left > Seg.size => Written = 0
         /\ seg = 1 /\ left = 0 => Written = First(call)
<1>1. /\ call \in Calls /\ seg \in 1 .. Len(Segments(call))
      /\ left \in 0 .. Seg.size + 1
  BY SegFacts
<1>2. CASE ~Two(call)
  <2>4. Len(Segments(call)) = 1 /\ Segments(call)[1].size = call.tx + call.rx
    BY <1>1, <1>2, SegmentsAre
  <2>5. seg = 1
    BY <1>1, <2>4
  <2>1. seg = 1 /\ Seg.size = call.tx + call.rx /\ Len(Segments(call)) = 1
    BY <2>4, <2>5 DEF Seg
  <2>2. Written = First(call) - left
    BY <2>1 DEF Written
  <2>3. AtLast => left = 0
    BY DEF AtLast
  <2> QED
    BY <1>1, <1>2, <2>1, <2>2, <2>3, Lengths
<1>3. CASE Two(call) /\ seg = 1
  <2>1. Seg.size = call.tx /\ Len(Segments(call)) = 2
    BY <1>1, <1>3, SegmentsAre DEF Seg
  <2>2. Written = First(call) - left
    BY <1>3 DEF Written
  <2>3. ~AtLast
    BY <1>3, <2>1 DEF AtLast
  <2> QED
    BY <1>1, <1>3, <2>1, <2>2, <2>3, Lengths
<1>4. CASE Two(call) /\ seg # 1
  <2>5. Len(Segments(call)) = 2
    BY <1>1, <1>4, SegmentsAre
  <2>1. seg = 2 /\ Len(Segments(call)) = 2
    BY <1>1, <1>4, <2>5
  <2>4. Seg.size = call.rx
    BY <1>1, <1>4, <2>1, SegmentsAre DEF Seg
  <2>2. Written = Total(call) - left
    BY <1>4 DEF Written
  <2>3. AtLast => left = 0
    BY DEF AtLast
  <2> QED
    BY <1>1, <1>4, <2>1, <2>2, <2>3, <2>4, Lengths
<1> QED
  BY <1>2, <1>3, <1>4

LEMMA WholeIs ==
  ASSUME call \in Calls, AtLast
  PROVE  Written = Total(call)
<1>1. left = 0 /\ seg = Len(Segments(call))
  BY DEF AtLast
<1>2. CASE Two(call)
  <2>1. seg = 2
    BY <1>1, <1>2, SegmentsAre
  <2>2. Written = Total(call) - left
    BY <2>1 DEF Written
  <2> QED
    BY <1>1, <2>2, Lengths
<1>3. CASE ~Two(call)
  <2>1. seg = 1
    BY <1>1, <1>3, SegmentsAre
  <2>2. Written = First(call) - left
    BY <2>1 DEF Written
  <2> QED
    BY <1>1, <1>3, <2>2, Lengths
<1> QED
  BY <1>2, <1>3

LEMMA PendingFacts ==
  ASSUME CallInv, IrqInv, pending
  PROVE  call \in Calls /\ Written = Total(call) /\ call.irq
<1>1. call.irq /\ AtLast
  BY DEF IrqInv
<1>2. NoCall.irq = FALSE
  BY DEF NoCall
<1>3. call \in Calls
  BY <1>1, <1>2 DEF CallInv
<1> QED
  BY <1>1, <1>3, WholeIs

LEMMA TransferFacts ==
  ASSUME CallInv, IrqInv, InTransfer
  PROVE  call \in Calls /\ Written \in 0 .. Total(call) /\ Total(call) \in Nat /\ Total(call) >= 2
<1>1. CASE pc \in Transferring
  BY <1>1, WrittenIs, Lengths
<1>2. CASE pending
  BY <1>2, PendingFacts, Lengths
<1> QED
  BY <1>1, <1>2 DEF InTransfer
-----------------------------------------------------------------------------
(* What arrives and is read.                                               *)
LEMMA ArrivedMore ==
  ASSUME NEW n \in Nat, NEW k \in Nat, k <= n, Arrived(k), got \in Nat
  PROVE  Arrived(n)
<1>1. PICK b \in 0 .. Len(rxfifo) :
        /\ \A i \in 1 .. Len(rxfifo) : rxfifo[i] = tag <=> i > b
        /\ (Len(rxfifo) - b) + (IF stale THEN 0 ELSE got) <= k
        /\ ~late => b = 0 /\ ~stale
  BY DEF Arrived
<1>2. b \in Int
  OBVIOUS
<1>3. ASSUME Len(rxfifo) \in Nat
      PROVE  (Len(rxfifo) - b) + (IF stale THEN 0 ELSE got) <= n
  BY <1>1, <1>2, <1>3
<1> QED
  BY <1>1, <1>3 DEF Arrived


LEMMA ReadLeaves ==
  ASSUME rxfifo \in Seq(Nat), NEW k \in 0 .. Len(rxfifo), read_available(k)
  PROVE  /\ rxfifo' \in Seq(Nat) /\ Len(rxfifo) \in Nat /\ k \in Nat
         /\ Len(rxfifo') = Len(rxfifo) - k
         /\ \A i \in 1 .. Len(rxfifo') : rxfifo'[i] = rxfifo[i + k]
<1> DEFINE n == Len(rxfifo)
<1>1. n \in Nat /\ k \in 0 .. n
  BY LenProperties
<1>2. \A i \in k + 1 .. n : rxfifo[i] \in Nat
  <2> TAKE i \in k + 1 .. n
  <2>1. i \in 1 .. Len(rxfifo)
    BY <1>1
  <2> QED
    BY <2>1, ElementOfSeq
<1>3. rxfifo' = SubSeq(rxfifo, k + 1, n)
  BY DEF read_available
<1> HIDE DEF n
<1>4. k + 1 \in Int /\ n \in Int
  BY <1>1
<1>5. /\ SubSeq(rxfifo, k + 1, n) \in Seq(Nat)
      /\ Len(SubSeq(rxfifo, k + 1, n)) = IF k + 1 <= n THEN n - (k + 1) + 1 ELSE 0
      /\ \A i \in 1 .. n - (k + 1) + 1 : SubSeq(rxfifo, k + 1, n)[i] = rxfifo[(k + 1) + i - 1]
  BY <1>2, <1>4, SubSeqProperties
<1>6. Len(rxfifo') = n - k
  BY <1>1, <1>3, <1>5
<1>7. \A i \in 1 .. Len(rxfifo') : rxfifo'[i] = rxfifo[i + k]
  <2> TAKE i \in 1 .. Len(rxfifo')
  <2>1. i \in 1 .. n - (k + 1) + 1 /\ (k + 1) + i - 1 = i + k
    BY <1>1, <1>6
  <2> QED
    BY <1>3, <1>5, <2>1
<1> QED
  BY <1>1, <1>3, <1>5, <1>6, <1>7 DEF n

LEMMA ArrivedRead ==
  ASSUME rxfifo \in Seq(Nat), got \in Nat, stale \in BOOLEAN,
         NEW n \in Nat, Arrived(n), NEW k \in 0 .. Len(rxfifo), read_available(k),
         tag' = tag, late => late'
  PROVE  Arrived(n)'
<1>1. PICK b \in 0 .. Len(rxfifo) :
        /\ \A i \in 1 .. Len(rxfifo) : rxfifo[i] = tag <=> i > b
        /\ (Len(rxfifo) - b) + (IF stale THEN 0 ELSE got) <= n
        /\ ~late => b = 0 /\ ~stale
  BY DEF Arrived
<1>2. /\ Len(rxfifo) \in Nat /\ k \in Nat /\ b \in Nat /\ b <= Len(rxfifo) /\ k <= Len(rxfifo)
      /\ Len(rxfifo') = Len(rxfifo) - k
      /\ \A i \in 1 .. Len(rxfifo') : rxfifo'[i] = rxfifo[i + k]
  BY <1>1, ReadLeaves
<1>3. /\ got' = got + k
      /\ stale' = (stale \/ \E i \in 1 .. k : rxfifo[i] # tag)
  BY DEF read_available
<1>4. CASE b > 0 /\ k > 0
  <2>1. 1 \in 1 .. k /\ rxfifo[1] # tag
    BY <1>1, <1>2, <1>4
  <2>9. late
    BY <1>1, <1>2, <1>4
  <2>10. \E i \in 1 .. k : rxfifo[i] # tag
    BY <2>1
  <2>2. stale' /\ late
    BY <1>3, <2>9, <2>10
  <2> DEFINE d == IF k <= b THEN b - k ELSE 0
  <2>3. d \in 0 .. Len(rxfifo') /\ Len(rxfifo') - d <= Len(rxfifo) - b
    BY <1>2
  <2>4. \A i \in 1 .. Len(rxfifo') : i + k > b <=> i > d
    BY <1>2
  <2>5. \A i \in 1 .. Len(rxfifo') : i + k \in 1 .. Len(rxfifo)
    BY <1>2
  <2> HIDE DEF d
  <2>6. \A i \in 1 .. Len(rxfifo') : rxfifo'[i] = tag' <=> i > d
    BY <1>1, <1>2, <2>4, <2>5
  <2>7. Len(rxfifo) - b <= n
    BY <1>1, <1>2
  <2>8. (Len(rxfifo') - d) + (IF stale' THEN 0 ELSE got') <= n
    BY <1>2, <2>2, <2>3, <2>7
  <2> QED
    BY <2>2, <2>3, <2>6, <2>8 DEF Arrived
<1>5. CASE b = 0
  <2>1. \A i \in 1 .. k : rxfifo[i] = tag
    BY <1>1, <1>2, <1>5
  <2>2. stale' = stale
    BY <1>3, <2>1
  <2>3. (Len(rxfifo') - 0) + (IF stale' THEN 0 ELSE got') <= n
    BY <1>1, <1>2, <1>3, <1>5, <2>2
  <2>4. \A i \in 1 .. Len(rxfifo') : rxfifo'[i] = tag' <=> i > 0
    BY <1>1, <1>2, <1>5
  <2>5. 0 \in 0 .. Len(rxfifo')
    BY <1>2
  <2> QED
    BY <1>1, <2>2, <2>3, <2>4, <2>5 DEF Arrived
<1>6. CASE k = 0
  <2>1. stale' = stale /\ got' = got /\ Len(rxfifo') = Len(rxfifo)
    BY <1>2, <1>3, <1>6
  <2>2. \A i \in 1 .. Len(rxfifo') : i + k = i
    BY <1>2, <1>6
  <2>3. \A i \in 1 .. Len(rxfifo') : rxfifo'[i] = tag' <=> i > b
    BY <1>1, <1>2, <2>1, <2>2
  <2> QED
    BY <1>1, <2>1, <2>3 DEF Arrived
<1> QED
  BY <1>2, <1>4, <1>5, <1>6

LEMMA ArrivedKept ==
  ASSUME NEW n, Arrived(n), UNCHANGED <<rxfifo, got, stale, tag>>, late => late'
  PROVE  Arrived(n)'
BY DEF Arrived

LEMMA ArrivedDropped ==
  ASSUME got \in Nat, rxfifo \in Seq(Nat), NEW n \in Nat, Arrived(n), rxfifo' = <<>>,
         UNCHANGED <<got, stale, tag, late>>
  PROVE  Arrived(n)'
<1>1. PICK b \in 0 .. Len(rxfifo) :
        /\ \A i \in 1 .. Len(rxfifo) : rxfifo[i] = tag <=> i > b
        /\ (Len(rxfifo) - b) + (IF stale THEN 0 ELSE got) <= n
        /\ ~late => b = 0 /\ ~stale
  BY DEF Arrived
<1>2. Len(rxfifo) \in Nat /\ b \in Nat /\ b <= Len(rxfifo) /\ Len(rxfifo') = 0
  BY <1>1, LenProperties
<1>3. (Len(rxfifo') - 0) + (IF stale' THEN 0 ELSE got') <= n
  BY <1>1, <1>2
<1> QED
  BY <1>1, <1>2, <1>3 DEF Arrived

LEMMA ArrivedOwn ==
  ASSUME got \in Nat, rxfifo \in Seq(Nat), tag \in Nat, NEW n \in Nat, Arrived(n),
         rxfifo' = Append(rxfifo, tag) \/ rxfifo' = rxfifo, UNCHANGED <<got, stale, tag, late>>
  PROVE  Arrived(n + 1)'
<1>1. PICK b \in 0 .. Len(rxfifo) :
        /\ \A i \in 1 .. Len(rxfifo) : rxfifo[i] = tag <=> i > b
        /\ (Len(rxfifo) - b) + (IF stale THEN 0 ELSE got) <= n
        /\ ~late => b = 0 /\ ~stale
  BY DEF Arrived
<1>2. Len(rxfifo) \in Nat /\ b \in Nat /\ b <= Len(rxfifo)
  BY <1>1, LenProperties
<1>3. CASE rxfifo' = rxfifo
  <2>1. (Len(rxfifo') - b) + (IF stale' THEN 0 ELSE got') <= n + 1
    BY <1>1, <1>2, <1>3
  <2> QED
    BY <1>1, <1>3, <2>1 DEF Arrived
<1>4. CASE rxfifo' = Append(rxfifo, tag)
  <2>1. /\ Len(rxfifo') = Len(rxfifo) + 1
        /\ \A i \in 1 .. Len(rxfifo) : rxfifo'[i] = rxfifo[i]
        /\ rxfifo'[Len(rxfifo) + 1] = tag
    BY <1>4, AppendProperties
  <2>2. (Len(rxfifo') - b) + (IF stale' THEN 0 ELSE got') <= n + 1
    BY <1>1, <1>2, <2>1
  <2>3. \A i \in 1 .. Len(rxfifo') : rxfifo'[i] = tag' <=> i > b
    BY <1>1, <1>2, <2>1
  <2>4. b \in 0 .. Len(rxfifo')
    BY <1>2, <2>1
  <2> QED
    BY <1>1, <2>2, <2>3, <2>4 DEF Arrived
<1> QED
  BY <1>3, <1>4

LEMMA ArrivedOther ==
  ASSUME got \in Nat, rxfifo \in Seq(Nat), NEW x \in Nat, x # tag, Arrived(0), late,
         rxfifo' = Append(rxfifo, x) \/ rxfifo' = rxfifo, UNCHANGED <<got, stale, tag, late>>
  PROVE  Arrived(0)'
<1>1. PICK b \in 0 .. Len(rxfifo) :
        /\ \A i \in 1 .. Len(rxfifo) : rxfifo[i] = tag <=> i > b
        /\ (Len(rxfifo) - b) + (IF stale THEN 0 ELSE got) <= 0
  BY DEF Arrived
<1>2. Len(rxfifo) \in Nat /\ b \in Nat /\ b <= Len(rxfifo)
  BY <1>1, LenProperties
<1>3. CASE rxfifo' = rxfifo
  BY <1>1, <1>3 DEF Arrived
<1>4. CASE rxfifo' = Append(rxfifo, x)
  <2>1. /\ Len(rxfifo') = Len(rxfifo) + 1
        /\ \A i \in 1 .. Len(rxfifo) : rxfifo'[i] = rxfifo[i]
        /\ rxfifo'[Len(rxfifo) + 1] = x
    BY <1>4, AppendProperties
  <2>2. b = Len(rxfifo) /\ (IF stale THEN 0 ELSE got) <= 0
    BY <1>1, <1>2
  <2>3. \A i \in 1 .. Len(rxfifo') : rxfifo'[i] = tag' <=> i > b + 1
    BY <1>1, <1>2, <2>1, <2>2
  <2>4. b + 1 \in 0 .. Len(rxfifo') /\ Len(rxfifo') - (b + 1) = 0
    BY <1>2, <2>1, <2>2
  <2>5. (Len(rxfifo') - (b + 1)) + (IF stale' THEN 0 ELSE got') <= 0
    BY <2>2, <2>4
  <2> QED
    BY <2>3, <2>4, <2>5 DEF Arrived
<1> QED
  BY <1>3, <1>4

(* A transfer that begins has had no bytes yet. *)
LEMMA ArrivedNone ==
  ASSUME rxfifo' \in Seq(Nat), \A i \in 1 .. Len(rxfifo') : rxfifo'[i] # tag', got' = 0,
         ~late' => rxfifo' = <<>> /\ ~stale'
  PROVE  Arrived(0)'
<1>1. Len(rxfifo') \in Nat /\ (~late' => Len(rxfifo') = 0)
  BY LenProperties
<1>2. (Len(rxfifo') - Len(rxfifo')) + (IF stale' THEN 0 ELSE got') <= 0
  BY <1>1
<1>3. \A i \in 1 .. Len(rxfifo') : rxfifo'[i] = tag' <=> i > Len(rxfifo')
  BY <1>1
<1>4. Len(rxfifo') \in 0 .. Len(rxfifo')
  BY <1>1
<1> QED
  BY <1>1, <1>2, <1>3, <1>4 DEF Arrived

(* Counting in a call that nothing has disturbed. *)
LEMMA ArrivedIs ==
  ASSUME got \in Nat, rxfifo \in Seq(Nat), NEW n \in Nat, Arrived(n)
  PROVE  /\ ~stale => got <= n
         /\ ~late => ~stale /\ Len(rxfifo) \in Nat /\ Len(rxfifo) + got <= n
<1>1. PICK b \in 0 .. Len(rxfifo) :
        /\ (Len(rxfifo) - b) + (IF stale THEN 0 ELSE got) <= n
        /\ ~late => b = 0 /\ ~stale
  BY DEF Arrived
<1>2. Len(rxfifo) \in Nat /\ b \in Nat /\ b <= Len(rxfifo)
  BY <1>1, LenProperties
<1>3. ASSUME ~stale PROVE got <= n
  BY <1>1, <1>2, <1>3
<1>4. ASSUME ~late PROVE ~stale /\ Len(rxfifo) + got <= n
  BY <1>1, <1>2, <1>4
<1> QED
  BY <1>2, <1>3, <1>4

-----------------------------------------------------------------------------
(* The core at rest, and the numbers of the calls.                         *)
LEMMA Types ==
  ASSUME CommandTypes, CoreInv
  PROVE  /\ tag \in Nat /\ txfifo \in Seq(Commands) /\ cur \in Commands /\ rxfifo \in Seq(Nat)
         /\ Len(txfifo) \in Nat /\ Len(rxfifo) \in Nat /\ cur.tag \in Nat /\ bus.tag \in Nat
         /\ bus.n \in Nat /\ bus.mixed \in BOOLEAN /\ cur.stop \in BOOLEAN
         /\ \A i \in 1 .. Len(txfifo) : txfifo[i] \in Commands /\ txfifo[i].tag \in Nat
         /\ \A i \in 1 .. Len(rxfifo) : rxfifo[i] \in Nat
         /\ txfifo = <<>> <=> Len(txfifo) = 0
         /\ rxfifo = <<>> <=> Len(rxfifo) = 0
         /\ Flush => txfifo = <<>> /\ ~Active
<1>1. /\ tag \in Nat /\ txfifo \in Seq(Commands) /\ cur \in Commands /\ rxfifo \in Seq(Nat)
      /\ bus \in [tag : Nat, n : Nat, mixed : BOOLEAN]
      /\ Flush => txfifo = <<>> /\ ~Active
  BY DEF CommandTypes, CoreInv, Flush, Streaming
<1>2. Len(txfifo) \in Nat /\ Len(rxfifo) \in Nat
  BY <1>1, LenProperties
<1>3. \A c \in Commands : c.tag \in Nat /\ c.stop \in BOOLEAN
  BY DEF Commands
<1>4. \A i \in 1 .. Len(txfifo) : txfifo[i] \in Commands
  BY <1>1, ElementOfSeq
<1>5. \A i \in 1 .. Len(rxfifo) : rxfifo[i] \in Nat
  BY <1>1, ElementOfSeq
<1>6. txfifo = <<>> <=> Len(txfifo) = 0
  BY <1>1, EmptySeq
<1>7. rxfifo = <<>> <=> Len(rxfifo) = 0
  BY <1>1, EmptySeq
<1> QED
  BY <1>1, <1>2, <1>3, <1>4, <1>5, <1>6, <1>7

LEMMA CoreInit == Init => CoreInv
<1> SUFFICES ASSUME Init PROVE CoreInv
  OBVIOUS
<1>1. rxfifo \in Seq(Nat) /\ Len(rxfifo) = 0 /\ Len(txfifo) = 0
  BY EmptySeq DEF Init
<1>2. cur.tag = 0 /\ bus.tag = 0 /\ tag = 0
  BY DEF Init, NoCommand
<1> QED
  BY <1>1, <1>2 DEF Init, CoreInv

(* The core takes the oldest command. *)
LEMMA Taken ==
  ASSUME CommandTypes, txfifo # <<>>, cur' = Head(txfifo), txfifo' = Tail(txfifo)
  PROVE  /\ Len(txfifo) \in Nat /\ Len(txfifo) >= 1 /\ Len(txfifo') = Len(txfifo) - 1
         /\ \A i \in 1 .. Len(txfifo') : txfifo'[i] = txfifo[i + 1]
         /\ cur' = txfifo[1] /\ txfifo[1].tag \in Nat
<1>1. /\ Len(txfifo) \in Nat /\ Len(txfifo) > 0 /\ Len(txfifo') = Len(txfifo) - 1
      /\ \A i \in 1 .. Len(txfifo') : txfifo'[i] = txfifo[i + 1]
      /\ cur' = txfifo[1] /\ cur' \in Commands
  BY HeadTailProperties DEF CommandTypes
<1> QED
  BY <1>1 DEF Commands

(* Steps that leave both FIFOs as they are, or take bytes out. *)
LEMMA CoreKept ==
  ASSUME CoreInv, tag \in Nat, tag' = tag, UNCHANGED <<txfifo, cur, bus, done>>, Flush' => Flush,
         rxfifo' = rxfifo \/ rxfifo' = <<>> \/ \E k \in 0 .. Len(rxfifo) : read_available(k),
         en' => fsm' # "IDLE", ~en' => fsm' # "PRE_IDLE",
         fsm' \in {"IDLE", "PRE_IDLE"} => txfifo = <<>>
  PROVE  CoreInv'
<1>1. /\ rxfifo' \in Seq(Nat)
      /\ \A i \in 1 .. Len(rxfifo') : rxfifo'[i] <= tag
      /\ rxfifo = <<>> => rxfifo' = <<>>
  <2>1. CASE rxfifo' = rxfifo
    BY <2>1 DEF CoreInv
  <2>2. CASE rxfifo' = <<>>
    <3>1. Len(rxfifo') = 0 /\ rxfifo' \in Seq(Nat)
      BY <2>2, EmptySeq
    <3> QED
      BY <2>2, <3>1
  <2>3. ASSUME NEW k \in 0 .. Len(rxfifo), read_available(k)
        PROVE  /\ rxfifo' \in Seq(Nat)
               /\ \A i \in 1 .. Len(rxfifo') : rxfifo'[i] <= tag
               /\ rxfifo = <<>> => rxfifo' = <<>>
    <3>1. /\ rxfifo' \in Seq(Nat) /\ Len(rxfifo) \in Nat /\ k \in Nat
          /\ Len(rxfifo') = Len(rxfifo) - k /\ k <= Len(rxfifo)
          /\ \A i \in 1 .. Len(rxfifo') : rxfifo'[i] = rxfifo[i + k]
      BY <2>3, ReadLeaves DEF CoreInv
    <3>2. \A i \in 1 .. Len(rxfifo') : i + k \in 1 .. Len(rxfifo)
      BY <3>1
    <3>3. \A i \in 1 .. Len(rxfifo') : rxfifo'[i] <= tag
      BY <3>1, <3>2 DEF CoreInv
    <3>4. rxfifo = <<>> => Len(rxfifo) = 0
      BY EmptySeq
    <3>5. rxfifo = <<>> => Len(rxfifo') = 0
      BY <3>1, <3>4
    <3> QED
      BY <3>1, <3>3, <3>5, EmptySeq
  <2> QED
    BY <2>1, <2>2, <2>3
<1> QED
  BY <1>1 DEF CoreInv

LEMMA CoreWrite ==
  ASSUME CallInv, CommandTypes, CoreInv, WriteCmd
  PROVE  CoreInv'
<1>1. /\ en /\ en' = en /\ UNCHANGED <<rxfifo, cur, bus, done, tag, nack, arblost>>
      /\ pc = "write" /\ tag \in Nat /\ fsm # "IDLE"
  BY DEF WriteCmd, TxReady, ghost, CommandTypes, CoreInv
<1>2. CASE Flush
  <2>1. txfifo' = <<>> /\ fsm' = fsm
    BY <1>2 DEF WriteCmd
  <2>2. Len(txfifo') = 0
    BY <2>1, EmptySeq
  <2> QED
    BY <1>1, <2>1, <2>2 DEF CoreInv, Flush
<1>3. CASE ~Flush
  <2>1. /\ txfifo' = Append(txfifo, Command) /\ Command \in Commands /\ Command.tag = tag
        /\ fsm' = IF fsm = "PRE_IDLE" THEN "PRE_START" ELSE fsm
    BY <1>1, <1>3, CommandFacts DEF WriteCmd
  <2>2. /\ Len(txfifo) \in Nat /\ Len(txfifo') = Len(txfifo) + 1
        /\ \A i \in 1 .. Len(txfifo) : txfifo'[i] = txfifo[i]
        /\ txfifo'[Len(txfifo) + 1] = Command
    BY <2>1, AppendProperties DEF CommandTypes
  <2>3. \A i \in 1 .. Len(txfifo') : txfifo'[i].tag <= tag
    <3> TAKE i \in 1 .. Len(txfifo')
    <3>1. i \in 1 .. Len(txfifo) \/ i = Len(txfifo) + 1
      BY <2>2
    <3>2. CASE i \in 1 .. Len(txfifo)
      BY <2>2, <3>2 DEF CoreInv
    <3>3. CASE i = Len(txfifo) + 1
      BY <1>1, <2>1, <2>2, <3>3
    <3> QED
      BY <3>1, <3>2, <3>3
  <2>4. fsm' \notin {"IDLE", "PRE_IDLE"}
    BY <1>1, <2>1
  <2> QED
    BY <1>1, <1>3, <2>3, <2>4 DEF CoreInv, Flush
<1> QED
  BY <1>2, <1>3

LEMMA CoreWorks ==
  ASSUME CommandTypes, CoreInv, Core
  PROVE  CoreInv'
<1>1. tag' = tag /\ en' = en /\ tag \in Nat
  BY DEF Core, CoreStart, CorePop, CoreAddr, CoreTx, CoreRx, CoreStop, sw, CommandTypes
<1>2. CASE CoreStart \/ CorePop
  <2>1. /\ txfifo # <<>> /\ cur' = Head(txfifo) /\ txfifo' = Tail(txfifo)
        /\ fsm' \in {"ADDR", "TX_BYTE", "RX_BYTE"} /\ UNCHANGED <<rxfifo, done, nack, arblost>>
    BY <1>2 DEF CoreStart, CorePop
  <2>2. /\ Len(txfifo) \in Nat /\ Len(txfifo) >= 1 /\ Len(txfifo') = Len(txfifo) - 1
        /\ \A i \in 1 .. Len(txfifo') : txfifo'[i] = txfifo[i + 1]
        /\ cur' = txfifo[1] /\ txfifo[1].tag \in Nat
    BY <2>1, Taken
  <2>3. \A i \in 1 .. Len(txfifo') : i + 1 \in 1 .. Len(txfifo)
    BY <2>2
  <2>4. \A i \in 1 .. Len(txfifo') : txfifo'[i].tag <= tag
    BY <2>2, <2>3 DEF CoreInv
  <2>5. cur'.tag <= tag
    <3>1. 1 \in 1 .. Len(txfifo)
      BY <2>2
    <3> QED
      BY <2>2, <3>1 DEF CoreInv
  <2>6. bus'.tag <= tag
    <3>1. CASE CoreStart
      BY <2>1, <2>5, <3>1 DEF CoreStart
    <3>2. CASE CorePop
      <4>1. bus' = [bus EXCEPT !.mixed = bus.mixed \/ cur'.tag # bus.tag]
        BY <3>2 DEF CorePop
      <4>2. bus'.tag = bus.tag
        BY <4>1 DEF CommandTypes
      <4> QED
        BY <4>2 DEF CoreInv
    <3> QED
      BY <1>2, <3>1, <3>2
  <2> QED
    BY <1>1, <2>1, <2>4, <2>5, <2>6 DEF CoreInv, Flush
<1>3. CASE (Refuse \/ Lose) /\ UNCHANGED <<cur, bus, done>>
  <2>1. /\ txfifo' = <<>> /\ rxfifo' = <<>>
        /\ fsm' = "GEN_STOP" \/ fsm' = IF en THEN "PRE_IDLE" ELSE "IDLE"
    BY <1>3 DEF Refuse, Lose, Aborted, Rest
  <2>2. Len(txfifo') = 0 /\ Len(rxfifo') = 0 /\ rxfifo' \in Seq(Nat)
    BY <2>1, EmptySeq
  <2>3. (en' => fsm' # "IDLE") /\ (~en' => fsm' # "PRE_IDLE")
    BY <1>1, <2>1
  <2> QED
    BY <1>1, <1>3, <2>1, <2>2, <2>3 DEF CoreInv
<1>4. CASE /\ Acknowledge /\ fsm \in {"ADDR", "TX_BYTE", "RX_BYTE"} /\ cur' = cur
           /\ rxfifo' = rxfifo \/ rxfifo' = Append(rxfifo, cur.tag)
           /\ UNCHANGED <<bus, done>> \/ Count
  <2>1. UNCHANGED <<txfifo, cur, nack, arblost>> /\ fsm' \in {"GEN_STOP", "HOLD"} /\ ~Flush
    BY <1>4, Types DEF Acknowledge, Active
  <2>2. bus'.tag = bus.tag
    <3>1. CASE Count
      <4>1. bus' = [bus EXCEPT !.n = bus.n + 1]
        BY <3>1 DEF Count
      <4> QED
        BY <4>1 DEF CommandTypes
    <3> QED
      BY <1>4, <3>1
  <2>3. done' \subseteq done \cup {bus.tag}
    BY <1>4 DEF Count
  <2>4. bus.tag \in 0 .. tag
    BY <1>1, Types DEF CoreInv
  <2>5. rxfifo' \in Seq(Nat) /\ \A i \in 1 .. Len(rxfifo') : rxfifo'[i] <= tag
    <3>1. CASE rxfifo' = Append(rxfifo, cur.tag)
      <4>1. /\ rxfifo' \in Seq(Nat) /\ Len(rxfifo) \in Nat /\ Len(rxfifo') = Len(rxfifo) + 1
            /\ \A i \in 1 .. Len(rxfifo) : rxfifo'[i] = rxfifo[i]
            /\ rxfifo'[Len(rxfifo) + 1] = cur.tag
        BY <3>1, Types, AppendProperties
      <4>2. cur.tag <= tag /\ \A i \in 1 .. Len(rxfifo) : rxfifo[i] <= tag
        BY DEF CoreInv
      <4>3. \A i \in 1 .. Len(rxfifo') : i \in 1 .. Len(rxfifo) \/ i = Len(rxfifo) + 1
        BY SMT, <4>1
      <4>4. \A i \in 1 .. Len(rxfifo') : rxfifo'[i] <= tag
        BY Zenon, <4>1, <4>2, <4>3
      <4> QED
        BY <4>1, <4>4
    <3>2. CASE rxfifo' = rxfifo
      BY <3>2 DEF CoreInv
    <3> QED
      BY <1>4, <3>1, <3>2
  <2> QED
    BY <1>1, <2>1, <2>2, <2>3, <2>4, <2>5 DEF CoreInv, Flush
<1>5. CASE CoreStop
  <2>1. /\ UNCHANGED <<txfifo, cur, nack, arblost, rxfifo, bus, done>>
        /\ fsm' = IF txfifo # <<>> THEN "PRE_START" ELSE IF en THEN "PRE_IDLE" ELSE "IDLE"
    BY <1>5 DEF CoreStop, Rest, ghost
  <2>2. /\ en' => fsm' # "IDLE"
        /\ ~en' => fsm' # "PRE_IDLE"
        /\ fsm' \in {"IDLE", "PRE_IDLE"} => txfifo = <<>>
    BY <1>1, <2>1
  <2> QED
    BY <1>1, <2>1, <2>2, CoreKept DEF Flush
<1>6. CASE CoreAddr \/ CoreTx \/ CoreRx
  BY <1>6, <1>3, <1>4 DEF CoreAddr, CoreTx, CoreRx, ghost
<1> QED
  BY <1>2, <1>5, <1>6 DEF Core

(* A number for a new call is above all others. *)
LEMMA CoreCall ==
  ASSUME CommandTypes, CoreInv, NEW c \in Calls, Call(c)
  PROVE  /\ CoreInv'
         /\ tag' \notin done' /\ cur'.tag # tag'
         /\ \A i \in 1 .. Len(txfifo') : txfifo'[i].tag # tag'
         /\ \A i \in 1 .. Len(rxfifo') : rxfifo'[i] # tag'
<1>1. tag' = tag + 1 /\ UNCHANGED <<hw, bus, done>>
  BY DEF Call
<1>2. UNCHANGED <<en, fsm, nack, arblost, txfifo, rxfifo, cur, bus, done>>
  BY <1>1 DEF hw
<1>3. /\ tag \in Nat /\ cur.tag \in Nat /\ bus.tag \in Nat
      /\ \A i \in 1 .. Len(txfifo) : txfifo[i].tag \in Nat
      /\ \A i \in 1 .. Len(rxfifo) : rxfifo[i] \in Nat
  BY Types
<1>4. /\ cur.tag <= tag /\ bus.tag <= tag
      /\ \A i \in 1 .. Len(txfifo) : txfifo[i].tag <= tag
      /\ \A i \in 1 .. Len(rxfifo) : rxfifo[i] <= tag
      /\ \A t \in done : t \in Nat /\ t <= tag
  BY <1>3 DEF CoreInv
<1>5. /\ cur.tag <= tag + 1 /\ bus.tag <= tag + 1 /\ cur.tag # tag + 1
      /\ \A i \in 1 .. Len(txfifo) : txfifo[i].tag <= tag + 1 /\ txfifo[i].tag # tag + 1
      /\ \A i \in 1 .. Len(rxfifo) : rxfifo[i] <= tag + 1 /\ rxfifo[i] # tag + 1
      /\ \A t \in done : t \in 0 .. tag + 1 /\ t # tag + 1
  BY <1>3, <1>4
<1>6. CoreInv'
  BY <1>1, <1>2, <1>5 DEF CoreInv, Flush
<1> QED
  BY <1>1, <1>2, <1>5, <1>6

LEMMA CoreStep ==
  CallInv /\ EnableInv /\ CommandTypes /\ IrqInv /\ CoreInv /\ [Next]_vars => CoreInv'
<1> SUFFICES ASSUME CallInv, EnableInv, CommandTypes, IrqInv, CoreInv, [Next]_vars
             PROVE  CoreInv'
  OBVIOUS
<1>1. /\ tag \in Nat /\ (en => fsm # "IDLE") /\ (~en => fsm # "PRE_IDLE")
      /\ fsm \in {"IDLE", "PRE_IDLE"} => txfifo = <<>>
      /\ rxfifo \in Seq(Nat) /\ Len(rxfifo) \in Nat
  BY Types DEF CoreInv
<1>2. CASE UNCHANGED <<en, fsm, nack, arblost, txfifo, rxfifo, cur, bus, done, tag>>
  BY <1>1, <1>2, CoreKept DEF Flush
<1>3. CASE Enable
  <2>1. ~en /\ pc = "enable"
    BY <1>3 DEF Enable, EnableInv
  <2>2. /\ en' = TRUE /\ fsm' = IF fsm = "IDLE" THEN "PRE_START" ELSE fsm
        /\ UNCHANGED <<txfifo, rxfifo, cur, bus, done, tag>> /\ ~Flush'
    BY <1>3, <2>1 DEF Enable, int_clear, ghost, Flush
  <2>3. fsm' \notin {"IDLE", "PRE_IDLE"}
    BY <1>1, <2>1, <2>2
  <2> QED
    BY <1>1, <2>2, <2>3, CoreKept
<1>4. CASE Check
  <2>1. /\ UNCHANGED <<en, fsm, nack, arblost, txfifo, cur, bus, done, tag>>
        /\ rxfifo' = rxfifo \/ read_available(Len(rxfifo))
    BY <1>4 DEF Check
  <2>2. Len(rxfifo) \in 0 .. Len(rxfifo)
    BY <1>1
  <2> QED
    BY <1>1, <2>1, <2>2, CoreKept DEF Flush
<1>5. CASE Fetch
  <2>1. /\ UNCHANGED <<en, fsm, nack, arblost, txfifo, cur, bus, done, tag>>
        /\ rxfifo' = rxfifo \/ (read_available(1) /\ rxfifo # <<>>)
    BY <1>5 DEF Fetch, RxReady
  <2>2. rxfifo # <<>> => 1 \in 0 .. Len(rxfifo)
    BY <1>1, EmptySeq
  <2> QED
    BY <1>1, <2>1, <2>2, CoreKept DEF Flush
<1>6. CASE Finish \/ IsrEnd \/ Abort
  <2>1. /\ UNCHANGED <<nack, arblost, txfifo, cur, bus, done, tag>>
        /\ en' = FALSE /\ fsm' = IF fsm = "PRE_IDLE" THEN "IDLE" ELSE fsm
        /\ rxfifo' = rxfifo \/ rxfifo' = <<>>
    BY <1>6 DEF Finish, IsrEnd, Abort, disable, sw, ghost
  <2>2. /\ fsm' # "PRE_IDLE"
        /\ fsm' \in {"IDLE", "PRE_IDLE"} => txfifo = <<>>
    BY <1>1, <2>1
  <2> QED
    BY <1>1, <2>1, <2>2, CoreKept DEF Flush
<1>7. CASE Arm
  <2>1. UNCHANGED <<en, fsm, txfifo, rxfifo, cur, bus, done, tag>> /\ ~Flush'
    BY <1>7 DEF Arm, int_clear, ghost, Flush
  <2> QED
    BY <1>1, <2>1, CoreKept
<1>8. CASE Isr
  <2> DEFINE n == IF irq_busy = 2 THEN IF Len(rxfifo) < irq_size THEN Len(rxfifo) ELSE irq_size
                  ELSE 0
  <2>1. UNCHANGED <<en, fsm, txfifo, cur, bus, done, tag>> /\ ~Flush' /\ read_available(n)
    BY <1>8 DEF Isr, int_clear, Flush
  <2>2. n \in 0 .. Len(rxfifo)
    BY <1>1 DEF IrqInv
  <2> HIDE DEF n
  <2> QED
    BY <1>1, <2>1, <2>2, CoreKept
<1>9. CASE WriteTimeout \/ Retry \/ Proceed \/ Return \/ TransactionStatus \/ Jam \/ Unjam
           \/ UNCHANGED vars
  BY <1>2, <1>9 DEF WriteTimeout, Retry, Proceed, Return, TransactionStatus, Jam, Unjam, vars,
                    hw, sw, ghost
<1> QED
  BY <1>3, <1>4, <1>5, <1>6, <1>7, <1>8, <1>9, CoreCall, CoreWrite, CoreWorks
  DEF Next, Driver, Callback

-----------------------------------------------------------------------------
(* What the status says.                                                   *)
LEMMA LastSegment ==
  ASSUME CallInv, pc \in Transferring, Seg.stop = TRUE \/ Seg.rw # "W"
  PROVE  /\ seg = Len(Segments(call)) /\ call \in Calls
         /\ Seg.rw = "W" => call.rx = 0
         /\ Seg.rw # "W" => call.rx > 0 /\ Seg.size = call.rx
<1>1. /\ call \in Calls /\ seg \in 1 .. Len(Segments(call)) /\ Seg.stop = TRUE
  BY SegFacts
<1>2. call.tx \in Nat /\ call.rx \in Nat /\ call.tx + call.rx > 0
  BY <1>1, Lengths
<1>3. CASE ~Two(call)
  <2>1. /\ Len(Segments(call)) = 1 /\ Segments(call)[1].size = call.tx + call.rx
        /\ Segments(call)[1].rw = IF call.tx = 0 THEN "R" ELSE "W"
    BY <1>1, <1>3, SegmentsAre
  <2>2. seg = 1
    BY <1>1, <2>1
  <2>3. /\ Seg.size = call.tx + call.rx
        /\ Seg.rw = IF call.tx = 0 THEN "R" ELSE "W"
    BY <2>1, <2>2 DEF Seg
  <2>4. Seg.rw = "W" => call.tx # 0
    BY <2>3
  <2>5. Seg.rw # "W" => call.tx = 0
    BY <2>3
  <2>6. call.tx # 0 => call.rx = 0
    BY <1>2, <1>3 DEF Two
  <2>7. call.tx = 0 => call.rx > 0 /\ call.tx + call.rx = call.rx
    BY <1>2
  <2> QED
    BY <1>1, <2>1, <2>2, <2>3, <2>4, <2>5, <2>6, <2>7
<1>4. CASE Two(call)
  <2>1. /\ Len(Segments(call)) = 2 /\ Segments(call)[1].stop = FALSE
        /\ Segments(call)[2].size = call.rx /\ Segments(call)[2].rw = "R"
    BY <1>1, <1>4, SegmentsAre
  <2>2. seg # 1
    BY <1>1, <2>1 DEF Seg
  <2>3. seg = 2
    BY <1>1, <2>1, <2>2
  <2>4. Seg.size = call.rx /\ Seg.rw = "R" /\ call.rx > 0
    BY <1>4, <2>1, <2>3 DEF Seg, Two
  <2> QED
    BY <1>1, <2>1, <2>3, <2>4
<1> QED
  BY <1>3, <1>4

(* Where the program goes behind the last command of a segment. *)
LEMMA AfterLast ==
  ASSUME CallInv, pc = "check", NEW st, NEW p, p = AfterCommand(st)
  PROVE  /\ p \in {"write", "wait", "arm", "fetch", "segment"}
         /\ p \in {"write", "arm", "fetch", "segment"} => st = "SUCCESS"
         /\ p = "wait" /\ st = "SUCCESS" => AtLast /\ ~call.irq /\ call.rx = 0
         /\ p = "fetch" => AtLast /\ ~call.irq /\ call.rx > 0
         /\ p = "arm" => AtLast /\ call.irq
         /\ p = "segment" => left = 0 /\ seg = 1
<1>1. /\ left \in Nat /\ pc \in Transferring
      /\ Seg.stop = FALSE => seg = 1
      /\ Seg.stop # FALSE => Seg.stop = TRUE
      /\ Seg.stop = TRUE \/ Seg.rw # "W" => seg = Len(Segments(call))
      /\ Seg.stop = TRUE /\ Seg.rw = "W" => call.rx = 0
      /\ Seg.rw # "W" => call.rx > 0
  <2>1. left \in 0 .. Seg.size + 1 /\ Seg.size \in Nat /\ pc \in Transferring
    BY SegFacts DEF Transferring
  <2>2. /\ Seg.stop = FALSE => seg = 1
        /\ Seg.stop # FALSE => Seg.stop = TRUE
    BY <2>1, SegFacts
  <2>3. /\ Seg.stop = TRUE \/ Seg.rw # "W" => seg = Len(Segments(call))
        /\ Seg.stop = TRUE /\ Seg.rw = "W" => call.rx = 0
        /\ Seg.rw # "W" => call.rx > 0
    BY <2>1, LastSegment
  <2>4. left \in Nat
    BY <2>1
  <2> QED
    BY <2>1, <2>2, <2>3, <2>4
<1>2. left > 0 \/ left = 0
  BY <1>1
<1> QED
  BY <1>1, <1>2 DEF AfterCommand, master_transmit, master_transmit_using_interrupts,
                    master_receive, master_receive_using_interrupts, AtLast

LEMMA StatusInit == Init => StatusInv
<1> SUFFICES ASSUME Init PROVE StatusInv
  OBVIOUS
<1>1. pc = "idle" /\ got = 0 /\ late = FALSE /\ stale = FALSE /\ cut = FALSE
  BY DEF Init
<1>2. pc \notin Transferring
  BY <1>1 DEF Transferring
<1> QED
  BY <1>1, <1>2 DEF StatusInv

(* Steps that do not look at the status. *)
LEMMA StatusKept ==
  ASSUME StatusInv, UNCHANGED <<pc, call, seg, left, status, cut>>,
         got' = got \/ pc = "idle", got' \in Nat, stale' \in BOOLEAN, late' = late,
         pc \in {"wait", "retry"} => (Flush => Flush')
  PROVE  StatusInv'
<1>1. Seg' = Seg /\ (AtLast' <=> AtLast)
  BY DEF Seg, AtLast
<1>2. pc = "idle" => pc \notin Transferring
  BY DEF Transferring
<1>3. CASE pc = "idle"
  BY <1>2, <1>3 DEF StatusInv
<1>4. CASE pc # "idle"
  <2>1. got' = got
    BY <1>4
  <2> QED
    BY <1>1, <2>1 DEF StatusInv
<1> QED
  BY <1>3, <1>4

LEMMA StatusCheck ==
  ASSUME CallInv, CommandTypes, CoreInv, StatusInv, Check
  PROVE  StatusInv'
<1>1. /\ pc = "check" /\ status' = Checked /\ pc' = AfterCommand(Checked)
      /\ UNCHANGED <<nack, arblost, call, seg, left, cut, late>>
  BY DEF Check, env
<1>2. /\ pc' \in {"write", "wait", "arm", "fetch", "segment"}
      /\ pc' \in {"write", "arm", "fetch", "segment"} => status' = "SUCCESS"
      /\ pc' = "wait" /\ status' = "SUCCESS" => AtLast /\ ~call.irq /\ call.rx = 0
      /\ pc' = "fetch" => AtLast /\ ~call.irq /\ call.rx > 0
      /\ pc' = "arm" => AtLast /\ call.irq
  BY <1>1, AfterLast
<1>3. status' # "SUCCESS" => status' \in {"NACK_ERR", "ARB_LOST_ERR"} /\ Flush
  BY <1>1 DEF Checked, Flush
<1>4. /\ got' \in Nat /\ stale' \in BOOLEAN
      /\ call.irq \/ Seg.rw = "W" => got' = got
  <2>1. CASE UNCHANGED <<got, stale>>
    BY <2>1 DEF StatusInv
  <2>2. CASE read_available(Len(rxfifo)) /\ ~call.irq /\ Seg.rw = "R"
    <3>1. got' = got + Len(rxfifo) /\ stale' \in BOOLEAN
      BY <2>2 DEF read_available, StatusInv
    <3>2. got \in Nat /\ Len(rxfifo) \in Nat
      BY Types DEF StatusInv
    <3> QED
      BY <2>2, <3>1, <3>2
  <2> QED
    BY <2>1, <2>2 DEF Check
<1>5. /\ Seg' = Seg /\ (AtLast' <=> AtLast) /\ (Flush' <=> Flush)
      /\ pc \in Transferring
  BY <1>1 DEF Seg, AtLast, Flush, Transferring
<1>6. pc' = "wait" /\ status' = "SUCCESS" => ~(call.rx > 0)
  BY <1>2
<1>7. call.irq \/ Seg.rw = "W" => got' = 0
  BY <1>4, <1>5 DEF StatusInv
<1>8. cut' => late'
  BY <1>1 DEF StatusInv
<1>9. late' \in BOOLEAN
  BY <1>1 DEF StatusInv
<1> QED
  BY <1>1, <1>2, <1>3, <1>4, <1>5, <1>6, <1>7, <1>8, <1>9 DEF StatusInv

LEMMA StatusFetch ==
  ASSUME CallInv, CommandTypes, CoreInv, StatusInv, Fetch
  PROVE  StatusInv'
<1>1. /\ pc = "fetch" /\ UNCHANGED <<nack, arblost, call, seg, left, cut, late>>
      /\ AtLast /\ ~call.irq /\ call.rx > 0 /\ status = "SUCCESS" /\ pc \in Transferring
  BY DEF Fetch, env, StatusInv, Transferring
<1>2. Seg.rw # "W" /\ Seg.size = call.rx
  <2>1. seg = Len(Segments(call)) /\ call \in Calls
    BY <1>1, SegFacts DEF AtLast
  <2>5. Len(Segments(call)) \in {1, 2}
    BY <2>1, SegmentFacts
  <2>4. ~(seg < Len(Segments(call)))
    BY <2>1, <2>5
  <2>2. Seg.stop = TRUE
    BY <1>1, <2>4, SegFacts
  <2>3. call.rx # 0
    BY <1>1, <2>1, Lengths
  <2> QED
    BY <1>1, <2>2, <2>3, LastSegment
<1>3. Seg' = Seg /\ (AtLast' <=> AtLast) /\ (Flush' <=> Flush)
  BY <1>1 DEF Seg, AtLast, Flush
<1>4. (cut' => late') /\ late' \in BOOLEAN
  BY <1>1 DEF StatusInv
<1>5. CASE got >= Seg.size /\ pc' = "wait" /\ UNCHANGED <<got, stale, status>>
  BY <1>1, <1>2, <1>3, <1>4, <1>5 DEF StatusInv
<1>6. CASE read_available(1) /\ UNCHANGED <<pc, status>>
  <2>1. got' \in Nat /\ stale' \in BOOLEAN
    BY <1>6 DEF read_available, StatusInv
  <2> QED
    BY <1>1, <1>2, <1>3, <1>4, <1>6, <2>1 DEF StatusInv
<1>7. CASE status' = "TIMEOUT" /\ pc' = "wait" /\ UNCHANGED <<got, stale>>
  BY <1>1, <1>2, <1>3, <1>4, <1>7 DEF StatusInv
<1> QED
  BY <1>5, <1>6, <1>7 DEF Fetch

LEMMA StatusStep ==
  CallInv /\ EnableInv /\ CommandTypes /\ CoreInv /\ IrqInv /\ StatusInv /\ [Next]_vars
    => StatusInv'
<1> SUFFICES ASSUME CallInv, EnableInv, CommandTypes, CoreInv, IrqInv, StatusInv, [Next]_vars
             PROVE  StatusInv'
  OBVIOUS
<1>1. ASSUME NEW c \in Calls, Call(c)
      PROVE  StatusInv'
  <2>1. Segments(c)[1].restart = FALSE
    BY SegmentsAre
  <2>2. /\ pc = "idle" /\ pc' = "enable" /\ got' = 0 /\ stale' = FALSE
        /\ UNCHANGED <<cut, late>>
    BY <1>1, <2>1 DEF Call, Begin, StartPc, env
  <2> QED
    BY <2>2 DEF StatusInv
<1>2. CASE Enable
  <2>1. /\ pc = "enable" /\ pc' = "write" /\ status' = "SUCCESS" /\ pc \in Transferring
        /\ UNCHANGED <<call, seg, left, got, stale, late, cut>>
    BY <1>2 DEF Enable, EnableInv, ghost, env, Transferring
  <2>2. Seg' = Seg
    BY <2>1 DEF Seg
  <2> QED
    BY <2>1, <2>2 DEF StatusInv
<1>3. CASE WriteCmd
  <2>1. /\ pc = "write" /\ pc' = "check" /\ pc \in Transferring
        /\ UNCHANGED <<call, seg, got, stale, late, cut>>
    BY <1>3 DEF WriteCmd, ghost, env, Transferring
  <2>2. Seg' = Seg
    BY <2>1 DEF Seg
  <2> QED
    BY <2>1, <2>2 DEF StatusInv
<1>4. CASE WriteTimeout
  <2>1. /\ pc = "write" /\ pc' = "wait" /\ pc \in Transferring /\ status' = "TIMEOUT"
        /\ UNCHANGED <<call, seg, got, stale, late>>
    BY <1>4 DEF WriteTimeout, ghost, Transferring
  <2>2. Seg' = Seg
    BY <2>1 DEF Seg
  <2> QED
    BY <2>1, <2>2 DEF StatusInv
<1>5. CASE Finish
  <2>1. /\ pc = "wait" /\ pc' = "retry" /\ pc \in Transferring
        /\ UNCHANGED <<call, seg, left, got, stale, cut, nack, arblost>>
        /\ status' = IF nack /\ ~call.irq THEN "NACK_ERR" ELSE IF Busy THEN "TIMEOUT" ELSE status
        /\ late' = (late \/ Busy \/ status = "TIMEOUT")
    BY <1>5 DEF Finish, env, Transferring
  <2>2. Seg' = Seg /\ (Flush' <=> Flush)
    BY <2>1 DEF Seg, Flush
  <2>3. late' \in BOOLEAN
    BY <2>1 DEF Busy, StatusInv
  <2>4. cut' => late'
    BY <2>1 DEF StatusInv
  <2>5. \/ status' = "TIMEOUT" /\ late'
        \/ status' \in {"NACK_ERR", "ARB_LOST_ERR"} /\ Flush'
        \/ status' = "SUCCESS" /\ seg' = Len(Segments(call')) /\ ~call'.irq
    <3>1. CASE nack /\ ~call.irq
      BY <2>1, <2>2, <3>1 DEF Flush
    <3>2. CASE ~(nack /\ ~call.irq) /\ Busy
      BY <2>1, <3>2
    <3>3. CASE ~(nack /\ ~call.irq) /\ ~Busy
      BY <2>1, <2>2, <3>3 DEF StatusInv, AtLast
    <3> QED
      BY <3>1, <3>2, <3>3
  <2> QED
    BY <2>1, <2>2, <2>3, <2>4, <2>5 DEF StatusInv
<1>6. CASE Retry
  <2>1. call \in Calls
    BY <1>6 DEF Retry, CallInv
  <2>2. Segments(call)[1].restart = FALSE
    BY <2>1, SegmentsAre
  <2>3. /\ pc = "retry" /\ pc' = "enable" /\ got' = 0
        /\ UNCHANGED <<cut, late, stale>>
    BY <1>6, <2>2 DEF Retry, StartPc, env, ghost
  <2> QED
    BY <2>3 DEF StatusInv
<1>7. CASE Proceed
  <2>1. /\ pc \in {"segment", "retry"} /\ pc' = "write" /\ got' = 0 /\ status' = "SUCCESS"
        /\ UNCHANGED <<cut, late, stale>>
    BY <1>7, ProceedWrites DEF Proceed, NextSegment, env, ghost
  <2> QED
    BY <2>1 DEF StatusInv
<1>8. CASE Return \/ Arm
  <2>1. /\ pc \in {"segment", "retry", "arm"} /\ pc' = "idle" /\ UNCHANGED <<cut, late, stale, got>>
    BY <1>8 DEF Return, NextSegment, Arm, env, ghost
  <2> QED
    BY <2>1 DEF StatusInv, Transferring
<1>9. CASE TransactionStatus
  <2>1. /\ pc = "idle" /\ UNCHANGED <<cut, late, stale, got>>
        /\ pc' = "idle" \/ (pc' = "abort" /\ status' = "NACK_ERR")
    BY <1>9 DEF TransactionStatus, env, ghost
  <2> QED
    BY <2>1 DEF StatusInv, Transferring
<1>10. CASE Abort
  <2>1. /\ pc = "abort" /\ pc' = "idle" /\ UNCHANGED <<cut, stale, got>>
        /\ late' = (late \/ Busy)
    BY <1>10 DEF Abort, env
  <2>2. late' \in BOOLEAN
    BY <2>1 DEF Busy, StatusInv
  <2> QED
    BY <2>1, <2>2 DEF StatusInv, Transferring
<1>11. CASE Isr
  <2> DEFINE n == IF irq_busy = 2 THEN IF Len(rxfifo) < irq_size THEN Len(rxfifo) ELSE irq_size
                  ELSE 0
  <2>1. /\ UNCHANGED <<pc, call, seg, left, status, cut, late>> /\ read_available(n) /\ Irq
    BY <1>11 DEF Isr, env
  <2>2. pc = "idle"
    BY <2>1 DEF Irq, EnableInv
  <2>3. n \in Nat
    BY Types DEF IrqInv
  <2> HIDE DEF n
  <2>4. got' \in Nat /\ stale' \in BOOLEAN
    BY <2>1, <2>3 DEF read_available, StatusInv
  <2> QED
    BY <2>1, <2>2, <2>4, StatusKept
<1>12. CASE IsrEnd \/ Core \/ Jam \/ Unjam \/ UNCHANGED vars
  <2>1. UNCHANGED <<pc, call, seg, left, status, cut, got, stale, late>>
    BY <1>12 DEF IsrEnd, Core, CoreStart, CorePop, CoreAddr, CoreTx, CoreRx, CoreStop, Jam, Unjam,
                 vars, sw, env, ghost
  <2>2. Flush => Flush'
    BY <1>12 DEF IsrEnd, Core, CoreStart, CorePop, CoreAddr, CoreTx, CoreRx, CoreStop, Jam, Unjam,
                 vars, hw, Flush, Acknowledge, Refuse, Lose
  <2>3. got \in Nat /\ stale \in BOOLEAN
    BY DEF StatusInv
  <2> QED
    BY <2>1, <2>2, <2>3, StatusKept
<1> QED
  BY <1>1, <1>2, <1>3, <1>4, <1>5, <1>6, <1>7, <1>8, <1>9, <1>10, <1>11, <1>12,
     StatusCheck, StatusFetch DEF Next, Driver, Callback

-----------------------------------------------------------------------------
(* The transaction that the callback serves.                               *)
LEMMA IrqInit == Init => IrqInv
<1> SUFFICES ASSUME Init PROVE IrqInv
  OBVIOUS
<1>1. irq_size = 0 /\ pending = FALSE /\ isr = "off"
  BY DEF Init
<1> QED
  BY <1>1 DEF IrqInv

LEMMA NonePending ==
  ASSUME irq_size' \in Nat, ~pending', isr' # "wait"
  PROVE  IrqInv'
BY DEF IrqInv

LEMMA IrqKept ==
  ASSUME IrqInv, UNCHANGED <<pending, call, seg, left, irq_busy, ien, thd, got, irq_size, isr>>,
         txfifo = <<>> => txfifo' = <<>>
  PROVE  IrqInv'
BY DEF IrqInv, AtLast

LEMMA IrqArm ==
  ASSUME CallInv, EnableInv, StatusInv, IrqInv, Arm
  PROVE  IrqInv'
<1>1. /\ pc = "arm" /\ pc \in Transferring /\ AtLast /\ call.irq /\ got = 0
      /\ UNCHANGED <<call, seg, left, got, isr>> /\ isr = "off"
  BY DEF Arm, StatusInv, Transferring, Program
<1>2. seg = Len(Segments(call)) /\ call \in Calls
  BY <1>1, SegFacts DEF AtLast
<1>3. Len(Segments(call)) \in {1, 2}
  BY <1>2, SegmentFacts
<1>4. ~(seg < Len(Segments(call)))
  BY <1>2, <1>3
<1>5. Seg.stop = TRUE
  BY <1>1, <1>4, SegFacts
<1>6. /\ Seg.rw = "W" => call.rx = 0
      /\ Seg.rw # "W" => call.rx > 0 /\ Seg.size = call.rx
      /\ call.rx \in Nat
  BY <1>1, <1>2, <1>5, LastSegment, Lengths
<1>7. AtLast' /\ call'.irq
  BY <1>1 DEF AtLast
<1>8. CASE Seg.rw = "W"
  <2>1. thd' = "EMPTY" /\ irq_busy' = 1 /\ ien' = {"tx"} /\ irq_size' = irq_size
    BY <1>8 DEF Arm
  <2> QED
    BY <1>1, <1>6, <1>7, <1>8, <2>1 DEF IrqInv
<1>9. CASE Seg.rw # "W"
  <2>1. irq_busy' = 2 /\ irq_size' = call.rx /\ ien' = {"rx"}
    BY <1>6, <1>9 DEF Arm
  <2>2. got' + irq_size' = call'.rx /\ irq_size' \in Nat
    BY <1>1, <1>6, <2>1
  <2> QED
    BY <1>1, <1>6, <1>7, <1>9, <2>1, <2>2 DEF IrqInv
<1> QED
  BY <1>8, <1>9

LEMMA IrqTaken ==
  ASSUME CommandTypes, EnableInv, CoreInv, StatusInv, IrqInv, Isr
  PROVE  IrqInv'
<1> DEFINE n == IF irq_busy = 2 THEN IF Len(rxfifo) < irq_size THEN Len(rxfifo) ELSE irq_size
                ELSE 0
<1>1. /\ UNCHANGED <<thd, txfifo, call, seg, left, pending, irq_busy>> /\ Irq
      /\ read_available(n) /\ irq_size' = irq_size - n
      /\ IF irq_busy = 2 /\ irq_size > n THEN ien' = {"rx"} /\ isr' = "off"
                                          ELSE ien' = {} /\ isr' = "wait"
  BY DEF Isr
<1>2. /\ n \in Nat /\ irq_size \in Nat /\ n <= irq_size /\ got \in Nat
      /\ irq_busy # 2 => n = 0
  BY Types DEF IrqInv, StatusInv
<1> HIDE DEF n
<1>3. got' = got + n /\ irq_size' = irq_size - n /\ irq_size' \in Nat
  BY <1>1, <1>2 DEF read_available
<1>4. pending /\ irq_busy # 0
  BY <1>1 DEF Irq, EnableInv
<1>5. call.irq /\ AtLast /\ (AtLast' <=> AtLast)
  BY <1>1, <1>4 DEF IrqInv, AtLast
<1>6. CASE irq_busy = 1
  <2>1. /\ call.rx = 0 /\ ien \subseteq {"tx"} /\ thd = "EMPTY"
    BY <1>4, <1>6 DEF IrqInv
  <2>2. TxReady
    BY <1>1, <2>1 DEF Irq
  <2>3. txfifo = <<>>
    BY <2>1, <2>2, Types DEF TxReady
  <2>4. ien' = {} /\ isr' = "wait" /\ got' = got
    BY <1>1, <1>2, <1>3, <1>6
  <2> QED
    BY <1>1, <1>3, <1>4, <1>5, <1>6, <2>1, <2>3, <2>4 DEF IrqInv
<1>7. CASE irq_busy = 2
  <2>1. call.rx > 0 /\ got + irq_size = call.rx
    BY <1>4, <1>7 DEF IrqInv
  <2>2. got' + irq_size' = call.rx
    BY <1>2, <1>3, <2>1
  <2>3. CASE irq_size > n
    <3>1. ien' = {"rx"} /\ isr' = "off"
      BY <1>1, <1>7, <2>3
    <3> QED
      BY <1>1, <1>3, <1>5, <1>7, <2>1, <2>2, <3>1 DEF IrqInv
  <2>4. CASE ~(irq_size > n)
    <3>1. ien' = {} /\ irq_size' = 0
      BY <1>1, <1>2, <1>3, <1>7, <2>4
    <3> QED
      BY <1>1, <1>3, <1>5, <1>7, <2>1, <2>2, <3>1 DEF IrqInv
  <2> QED
    BY <2>3, <2>4
<1> QED
  BY <1>4, <1>6, <1>7 DEF IrqInv

LEMMA IrqStep ==
  CallInv /\ EnableInv /\ CommandTypes /\ CoreInv /\ StatusInv /\ IrqInv /\ [Next]_vars => IrqInv'
<1> SUFFICES ASSUME CallInv, EnableInv, CommandTypes, CoreInv, StatusInv, IrqInv, [Next]_vars
             PROVE  IrqInv'
  OBVIOUS
<1>1. irq_size \in Nat /\ got \in Nat
  BY DEF IrqInv, StatusInv
<1>2. ASSUME NEW c \in Calls, Call(c)
      PROVE  IrqInv'
  BY <1>1, <1>2, NonePending DEF Call, irq, Program
<1>3. CASE Enable \/ WriteCmd \/ WriteTimeout \/ Check \/ Fetch \/ Finish \/ Retry \/ Proceed
  <2>1. /\ UNCHANGED <<irq_size, pending, isr>> /\ isr = "off"
        /\ pc \in {"enable", "write", "check", "fetch", "wait", "retry", "segment"}
    BY <1>3 DEF Enable, WriteCmd, WriteTimeout, Check, Fetch, Finish, Retry, Proceed, NextSegment,
                irq, Program
  <2>2. ~pending
    BY <2>1 DEF EnableInv
  <2> QED
    BY <1>1, <2>1, <2>2, NonePending
<1>4. CASE Return
  <2>1. UNCHANGED <<irq_size, pending, isr>> /\ isr = "off" /\ pc \in {"retry", "segment"}
    BY <1>4 DEF Return, NextSegment, irq, Program
  <2>2. ~pending
    BY <2>1 DEF EnableInv
  <2> QED
    BY <1>1, <2>1, <2>2, NonePending
<1>5. CASE IsrEnd
  <2>1. /\ UNCHANGED <<pending, call, seg, left, ien, thd, got, irq_size, txfifo>>
        /\ isr = "wait" /\ isr' = "off" /\ irq_busy' = 0
    BY <1>5 DEF IsrEnd, sw, ghost
  <2>2. pending /\ call.irq /\ AtLast /\ (AtLast' <=> AtLast)
    BY <2>1 DEF EnableInv, IrqInv, AtLast
  <2>3. CASE irq_busy = 1
    BY <2>1, <2>2, <2>3 DEF IrqInv
  <2>4. CASE irq_busy = 2
    <3>1. irq_size = 0 /\ got + irq_size = call.rx /\ call.rx > 0
      BY <2>1, <2>2, <2>4 DEF IrqInv
    <3>2. got = call.rx /\ call.rx # 0
      <4>1. got = call.rx
        BY <1>1, <3>1
      <4> QED
        BY <1>1, <3>1, <4>1
    <3> QED
      BY <2>1, <2>2, <3>2, <1>1 DEF IrqInv
  <2> QED
    BY <2>1, <2>2, <2>3, <2>4 DEF IrqInv
<1>6. CASE TransactionStatus
  <2>1. /\ UNCHANGED <<call, seg, left, thd, got, irq_size, txfifo, isr, irq_busy>> /\ isr = "off"
        /\ ien' = {} /\ (pending' = pending \/ pending' = FALSE)
    BY <1>6 DEF TransactionStatus, irq, Program
  <2>2. CASE pending'
    <3>1. pending /\ (AtLast' <=> AtLast)
      BY <2>1, <2>2 DEF AtLast
    <3> QED
      BY <2>1, <2>2, <3>1 DEF IrqInv
  <2> QED
    BY <1>1, <2>1, <2>2, NonePending
<1>7. CASE Abort
  BY <1>1, <1>7, NonePending DEF Abort, Program
<1>8. CASE Core
  <2>1. UNCHANGED <<pending, call, seg, left, irq_busy, ien, thd, got, irq_size, isr>>
    BY <1>8 DEF Core, CoreStart, CorePop, CoreAddr, CoreTx, CoreRx, CoreStop, sw, irq
  <2>2. txfifo = <<>> => txfifo' = <<>>
    BY <1>8 DEF Core, CoreStart, CorePop, CoreAddr, CoreTx, CoreRx, CoreStop,
                Acknowledge, Refuse, Lose, Aborted
  <2> QED
    BY <2>1, <2>2, IrqKept
<1>9. CASE Jam \/ Unjam \/ UNCHANGED vars
  BY <1>9, IrqKept DEF Jam, Unjam, vars, hw, sw, irq
<1> QED
  BY <1>2, <1>3, <1>4, <1>5, <1>6, <1>7, <1>8, <1>9, IrqArm, IrqTaken DEF Next, Driver, Callback

-----------------------------------------------------------------------------
(* Where the commands of the call in progress are.                         *)
Known == CallInv /\ EnableInv /\ CommandTypes /\ StreamInv /\ CoreInv /\ StatusInv /\ IrqInv

LEMMA ReadsIn ==
  ASSUME NEW c \in Calls, NEW j \in 0 .. Total(c)
  PROVE  ReadsTo(c, j) \in 0 .. c.rx
BY Lengths DEF ReadsTo

(* The command on the bus is one of the row. *)
LEMMA PlaceIs ==
  ASSUME Known, InTransfer, Running
  PROVE  /\ call \in Calls /\ Place \in 1 .. Total(call) /\ Completed \in 0 .. Total(call)
         /\ Written \in 1 .. Total(call)
         /\ ReadsTo(call, Completed) \in 0 .. call.rx
         /\ cur.tag = tag /\ cur.whole = call.tx + call.rx
         /\ cur.stop <=> Place = Total(call)
         /\ cur.rw = IF call.rx > 0 /\ (call.tx = 0 \/ Place > call.tx + 1) THEN "R" ELSE "W"
<1>1. /\ call \in Calls /\ Written \in 0 .. Total(call) /\ Total(call) \in Nat
      /\ Len(txfifo) \in Nat
  BY TransferFacts, Types DEF Known
<1>2. Len(txfifo) < Written /\ cur = Nth(call, tag, Place)
  BY DEF Running
<1>3. Place \in 1 .. Total(call) /\ Place \in Nat /\ Written \in 1 .. Total(call)
  BY <1>1, <1>2 DEF Place
<1>4. Completed \in 0 .. Total(call)
  BY <1>1, <1>3 DEF Completed
<1>5. ReadsTo(call, Completed) \in 0 .. call.rx
  BY <1>1, <1>4, ReadsIn
<1>6. /\ cur.tag = tag /\ cur.whole = call.tx + call.rx /\ cur.stop = (Place = Total(call))
      /\ cur.rw = IF call.rx > 0 /\ (call.tx = 0 \/ Place > call.tx + 1) THEN "R" ELSE "W"
  BY <1>1, <1>2, <1>3, NthIs
<1> QED
  BY <1>1, <1>3, <1>4, <1>5, <1>6

(* Steps that move no command. *)
LEMMA PlaceKept ==
  ASSUME Known, InTransfer, UNCHANGED <<tag, done, txfifo, call, cur, bus, rw>>,
         Written' = Written, fsm' = fsm \/ (~Active /\ ~Active'),
         Lost => Flush' \/ pending', Flush' => Flush, late => late',
         \A n \in Nat : Arrived(n) => Arrived(n)'
  PROVE  Position => Position'
<1>1. /\ call \in Calls /\ call.rx \in Nat
      /\ Active' <=> Active
      /\ Place' = Place
      /\ ~late' => ~late
  BY TransferFacts, Lengths DEF Known, Active, Place
<1>2. Waiting => Waiting'
  <2>1. LastByte => LastByte'
    BY <1>1 DEF LastByte, Active
  <2>2. Arrived(0) => Arrived(0)'
    OBVIOUS
  <2> QED
    BY <1>1, <2>1, <2>2 DEF Waiting
<1>3. ASSUME Running
      PROVE  Running'
  <2>1. fsm' = fsm /\ Active
    BY <1>3 DEF Running
  <2>2. Completed' = Completed
    BY <1>1, <2>1 DEF Completed
  <2>3. ReadsTo(call, Completed) \in Nat
    BY <1>3, PlaceIs
  <2>4. Arrived(ReadsTo(call, Completed))'
    <3> DEFINE r == ReadsTo(call, Completed)
    <3>1. r' = r
      BY <2>2 DEF ReadsTo, Total, Two
    <3>2. \E n \in Nat : n = r /\ Arrived(n)
      BY <1>3, <2>3 DEF Running
    <3>3. PICK n \in Nat : n = r /\ Arrived(n)
      BY <3>2
    <3>4. Arrived(n)' /\ n = r'
      BY <3>1, <3>3
    <3> HIDE DEF r
    <3>5. Arrived(r)'
      BY <3>4 DEF Arrived
    <3> QED
      BY <3>5 DEF r
  <2> QED
    BY <1>1, <1>3, <2>1, <2>2, <2>4 DEF Running
<1>4. Through => Through'
  BY <1>1 DEF Through
<1>5. Lost => Lost'
  BY <1>1 DEF Lost
<1> QED
  BY <1>2, <1>3, <1>4, <1>5 DEF Position


(* An error takes back what was written of the call. *)
LEMMA PlaceDropped ==
  ASSUME Known, InTransfer, Waiting \/ Running, fsm # "HOLD",
         txfifo' = <<>>, rxfifo' = <<>>, ~Active', Flush',
         UNCHANGED <<tag, done, call, seg, left, got, stale, late>>
  PROVE  Position'
<1>1. /\ call \in Calls /\ Written \in 0 .. Total(call) /\ Written' = Written
      /\ got \in Nat /\ rxfifo \in Seq(Nat) /\ call.rx \in Nat /\ Total(call) \in Nat
  BY TransferFacts, Lengths DEF Known, CoreInv, StatusInv, Written
<1>2. Len(txfifo') = 0 /\ tag \notin done /\ Written \in Nat
  BY <1>1, EmptySeq DEF Waiting, Running
<1>3. CASE Written = 0
  <2>1. Waiting
    <3>1. CASE Running
      BY <1>3, <3>1, PlaceIs
    <3> QED
      BY <3>1
  <2>2. Arrived(0)'
    BY <1>1, <2>1, ArrivedDropped DEF Waiting
  <2>3. LastByte'
    BY DEF LastByte
  <2>4. Waiting'
    BY <1>1, <1>2, <1>3, <2>2, <2>3 DEF Waiting
  <2> QED
    BY <2>4 DEF Position
<1>4. CASE Written > 0
  <2> DEFINE m == IF call.rx = 0 THEN 0 ELSE call.rx - 1
  <2>1. \E n \in Nat : n = m /\ Arrived(n)
    <3>1. m \in Nat
      BY <1>1
    <3>2. CASE Waiting
      <4>1. Arrived(0)
        BY <3>2 DEF Waiting
      <4> HIDE DEF m
      <4> QED
        BY <1>1, <3>1, <4>1, ArrivedMore
    <3>3. CASE Running
      <4>1. /\ Place \in 1 .. Total(call) /\ Completed = Place - 1
            /\ Arrived(ReadsTo(call, Completed))
        BY <3>3, PlaceIs DEF Running, Completed
      <4>2. ReadsTo(call, Place - 1) \in Nat /\ ReadsTo(call, Place - 1) <= m
        BY <1>1, <4>1, RowStep
      <4> HIDE DEF m
      <4> QED
        BY <1>1, <3>1, <4>1, <4>2, ArrivedMore
    <3> QED
      BY <3>2, <3>3
  <2>2. PICK n \in Nat : n = m /\ Arrived(n)
    BY <2>1
  <2>3. Arrived(n)' /\ n = m'
    BY <1>1, <2>2, ArrivedDropped
  <2> HIDE DEF m
  <2>4. Arrived(m)'
    BY <2>3 DEF Arrived
  <2>5. Arrived(IF call.rx = 0 THEN 0 ELSE call.rx - 1)'
    BY <2>4 DEF m
  <2>6. Lost'
    BY <1>1, <1>2, <1>4, <2>5 DEF Lost
  <2> QED
    BY <2>6 DEF Position
<1> QED
  BY <1>1, <1>3, <1>4

(* The oldest command is taken, and is another call's. *)
LEMMA PlaceOther ==
  ASSUME Known, InTransfer, Waiting, txfifo # <<>>, Len(txfifo) > Written,
         cur' = Head(txfifo), txfifo' = Tail(txfifo),
         UNCHANGED <<tag, done, call, seg, left, rxfifo, got, stale, late>>
  PROVE  Waiting'
<1>1. /\ Len(txfifo) \in Nat /\ Len(txfifo') = Len(txfifo) - 1
      /\ \A i \in 1 .. Len(txfifo') : txfifo'[i] = txfifo[i + 1]
      /\ cur' = txfifo[1] /\ Written \in Nat /\ Written' = Written
  BY Taken, TransferFacts DEF Known, Written
<1>2. /\ tag \notin done /\ late /\ Arrived(0)
      /\ \A i \in 1 .. Len(txfifo) :
           IF i <= Len(txfifo) - Written THEN txfifo[i].tag # tag
           ELSE txfifo[i] = Nth(call, tag, i - (Len(txfifo) - Written))
  <2>1. Len(txfifo) # Written
    <3>1. Len(txfifo) \in Nat /\ Written \in Nat
      BY <1>1
    <3>2. Len(txfifo) > Written
      OBVIOUS
    <3> QED
      BY <3>1, <3>2
  <2>2. late
    BY <2>1 DEF Waiting
  <2>3. /\ tag \notin done /\ Arrived(0)
        /\ \A i \in 1 .. Len(txfifo) :
             IF i <= Len(txfifo) - Written THEN txfifo[i].tag # tag
             ELSE txfifo[i] = Nth(call, tag, i - (Len(txfifo) - Written))
    BY DEF Waiting
  <2> QED
    BY <2>2, <2>3, Zenon
<1>3. cur'.tag # tag
  <2>1. 1 \in 1 .. Len(txfifo) /\ 1 <= Len(txfifo) - Written
    BY <1>1
  <2> QED
    BY <1>1, <1>2, <2>1
<1>4. ASSUME NEW i \in 1 .. Len(txfifo')
      PROVE  IF i <= Len(txfifo') - Written THEN txfifo'[i].tag # tag
             ELSE txfifo'[i] = Nth(call, tag, i - (Len(txfifo') - Written))
  <2>1. /\ i + 1 \in 1 .. Len(txfifo)
        /\ i <= Len(txfifo') - Written <=> i + 1 <= Len(txfifo) - Written
        /\ (i + 1) - (Len(txfifo) - Written) = i - (Len(txfifo') - Written)
    BY <1>1
  <2> QED
    BY <1>1, <1>2, <2>1
<1>5. Arrived(0)'
  BY <1>2, ArrivedKept
<1>6. \A i \in 1 .. Len(txfifo') :
        IF i <= Len(txfifo') - Written' THEN txfifo'[i].tag # tag'
        ELSE txfifo'[i] = Nth(call', tag', i - (Len(txfifo') - Written'))
  <2>1. call' = call /\ tag' = tag /\ Written' = Written
    BY <1>1
  <2> HIDE DEF Written, Nth
  <2> QED
    BY <1>4, <2>1, Zenon
<1>7. Len(txfifo') >= Written'
  BY <1>1
<1> QED
  BY <1>1, <1>2, <1>3, <1>5, <1>6, <1>7 DEF Waiting

(* The oldest command is taken, and is the first of the call. *)
LEMMA PlaceFirst ==
  ASSUME Known, InTransfer, Waiting, Len(txfifo) = Written, CoreStart
  PROVE  Running'
<1>1. /\ txfifo # <<>> /\ cur' = Head(txfifo) /\ txfifo' = Tail(txfifo) /\ fsm' = "ADDR"
      /\ bus' = [tag |-> Head(txfifo).tag, n |-> 0, mixed |-> FALSE]
      /\ UNCHANGED <<tag, done, call, seg, left, rxfifo, got, stale, late>>
  BY DEF CoreStart, sw
<1>2. /\ Len(txfifo) \in Nat /\ Len(txfifo) >= 1 /\ Len(txfifo') = Len(txfifo) - 1
      /\ \A i \in 1 .. Len(txfifo') : txfifo'[i] = txfifo[i + 1]
      /\ cur' = txfifo[1] /\ call \in Calls /\ Written' = Written
  BY <1>1, Taken, TransferFacts DEF Known, Written
<1>3. Place' = 1 /\ Completed' = 0 /\ Active'
  BY <1>1, <1>2 DEF Place, Completed, Active
<1>4. tag \notin done /\ Arrived(0)
  BY DEF Waiting
<1>5. \A i \in 1 .. Len(txfifo) : txfifo[i] = Nth(call, tag, i)
  <2> TAKE i \in 1 .. Len(txfifo)
  <2>1. ~(i <= Len(txfifo) - Written) /\ i - (Len(txfifo) - Written) = i
    BY <1>2
  <2> QED
    BY <2>1 DEF Waiting
<1>6. cur' = Nth(call, tag, 1)
  <2>1. 1 \in 1 .. Len(txfifo)
    BY <1>2
  <2> QED
    BY <1>2, <1>5, <2>1
<1>7. \A i \in 1 .. Len(txfifo') : txfifo'[i] = Nth(call, tag, 1 + i)
  <2> TAKE i \in 1 .. Len(txfifo')
  <2>1. i + 1 \in 1 .. Len(txfifo) /\ i + 1 = 1 + i
    BY <1>2
  <2> QED
    BY <1>2, <1>5, <2>1
<1>8. /\ cur' = Nth(call, tag, Place)'
      /\ \A i \in 1 .. Len(txfifo') : txfifo'[i] = Nth(call, tag, Place + i)'
  BY <1>1, <1>3, <1>6, <1>7 DEF Nth, Two, Total
<1>9. /\ BytesTo(call, Completed)' = 0 /\ ReadsTo(call, Completed)' = 0
      /\ IsAddress(call, Place)'
  <2>1. BytesTo(call, 0) = 0 /\ ReadsTo(call, 0) = 0 /\ IsAddress(call, 1)
    BY <1>2, RowEnds
  <2> QED
    BY <1>1, <1>3, <2>1 DEF BytesTo, ReadsTo, IsAddress, Total, Two
<1>10. Arrived(0)'
  BY <1>1, <1>4, ArrivedKept
<1>11. Arrived(ReadsTo(call, Completed))'
  BY <1>9, <1>10 DEF Arrived
<1>12. bus'.n = 0 /\ Len(txfifo') < Written'
  BY <1>1, <1>2
<1> QED
  BY <1>1, <1>3, <1>4, <1>8, <1>9, <1>11, <1>12 DEF Running

-----------------------------------------------------------------------------
(* The core takes a command. *)
LEMMA PlaceStart ==
  ASSUME Known, InTransfer, Position, CoreStart
  PROVE  Position'
<1>1. /\ txfifo # <<>> /\ cur' = Head(txfifo) /\ txfifo' = Tail(txfifo)
      /\ UNCHANGED <<tag, done, call, seg, left, rxfifo, got, stale, late>>
      /\ ~Active
  BY DEF CoreStart, sw, Active
<1>2. Waiting
  BY <1>1 DEF Position, Running, Through, Lost
<1>3. Len(txfifo) >= Written /\ Len(txfifo) \in Nat /\ Written \in Nat
  BY <1>2, TransferFacts, Types DEF Known, Waiting
<1>4. CASE Len(txfifo) > Written
  BY <1>1, <1>2, <1>4, PlaceOther DEF Position
<1>5. CASE Len(txfifo) = Written
  BY <1>2, <1>5, PlaceFirst DEF Position
<1> QED
  BY <1>3, <1>4, <1>5

(* Behind a held bus: the next command of the row. *)
LEMMA PlacePopped ==
  ASSUME Known, InTransfer, Running, CorePop
  PROVE  Running'
<1>1. /\ txfifo # <<>> /\ cur' = Head(txfifo) /\ txfifo' = Tail(txfifo) /\ fsm = "HOLD"
      /\ fsm' = IF cur'.sta THEN "ADDR" ELSE IF rw = "W" THEN "TX_BYTE" ELSE "RX_BYTE"
      /\ bus' = [bus EXCEPT !.mixed = @ \/ cur'.tag # bus.tag]
      /\ UNCHANGED <<tag, done, call, seg, left, rxfifo, got, stale, late, rw>>
  BY DEF CorePop, sw
<1>2. /\ Len(txfifo) \in Nat /\ Len(txfifo) >= 1 /\ Len(txfifo') = Len(txfifo) - 1
      /\ \A i \in 1 .. Len(txfifo') : txfifo'[i] = txfifo[i + 1]
      /\ cur' = txfifo[1]
  BY <1>1, Taken DEF Known
<1>3. /\ call \in Calls /\ Written \in Nat /\ Place \in 1 .. Total(call) /\ Total(call) \in Nat
      /\ cur.rw \in {"R", "W"} /\ Written' = Written /\ Place \in Nat
  <2>1. Place \in 1 .. Total(call) /\ Written \in 1 .. Total(call) /\ cur.rw \in {"R", "W"}
    BY PlaceIs
  <2>2. call \in Calls /\ Total(call) \in Nat
    BY TransferFacts DEF Known
  <2>3. Written' = Written
    BY <1>1 DEF Written
  <2> QED
    BY <2>1, <2>2, <2>3
<1>4. /\ tag \notin done /\ Len(txfifo) < Written /\ cur = Nth(call, tag, Place) /\ rw = cur.rw
      /\ \A i \in 1 .. Len(txfifo) : txfifo[i] = Nth(call, tag, Place + i)
      /\ bus.n = BytesTo(call, Completed) /\ Arrived(ReadsTo(call, Completed))
  BY <1>1 DEF Running
<1>5. Place' = Place + 1 /\ Completed = Place /\ Completed' = Completed /\ Active'
  <2>1. Place' = Place + 1
    BY <1>2, <1>3 DEF Place
  <2>2. fsm' # "HOLD" /\ Active'
    BY <1>1 DEF Active
  <2>3. Completed = Place /\ Completed' = Place' - 1
    BY <1>1, <2>2 DEF Completed
  <2>4. Completed' = Completed
    BY <1>3, <2>1, <2>3
  <2> QED
    BY <2>1, <2>2, <2>3, <2>4
<1>6. cur' = Nth(call, tag, Place + 1)
  <2>1. 1 \in 1 .. Len(txfifo)
    BY <1>2
  <2> QED
    BY <1>2, <1>4, <2>1
<1>7. \A i \in 1 .. Len(txfifo') : txfifo'[i] = Nth(call, tag, (Place + 1) + i)
  <2> TAKE i \in 1 .. Len(txfifo')
  <2>1. i + 1 \in 1 .. Len(txfifo) /\ Place + (i + 1) = (Place + 1) + i
    BY <1>2, <1>3
  <2> QED
    BY <1>2, <1>4, <2>1
<1>8. /\ cur'.sta = IsAddress(call, Place + 1)
      /\ ~IsAddress(call, Place + 1) => cur'.rw = cur.rw
  BY <1>3, <1>4, <1>6, NthIs
<1>9. /\ cur' = Nth(call', tag', Place')
      /\ \A i \in 1 .. Len(txfifo') : txfifo'[i] = Nth(call', tag', Place' + i)
  <2>1. call' = call /\ tag' = tag
    BY <1>1
  <2> HIDE DEF Nth, Place
  <2> QED
    BY <1>5, <1>6, <1>7, <2>1
<1>10. /\ fsm' = "ADDR" <=> IsAddress(call, Place + 1)
       /\ fsm' # "ADDR" => rw' = cur'.rw
       /\ fsm' = "RX_BYTE" => rw' = "R"
       /\ fsm' = "TX_BYTE" => rw' = "W"
       /\ fsm' # "HOLD"
  BY <1>1, <1>3, <1>4, <1>8
<1>11. fsm' = "ADDR" <=> fsm' # "HOLD" /\ IsAddress(call', Place')
  BY <1>1, <1>5, <1>10 DEF IsAddress, Two
<1>12. bus'.n = BytesTo(call', Completed')
  <2>1. bus'.n = bus.n
    <3>1. bus \in [tag : Nat, n : Nat, mixed : BOOLEAN]
      BY DEF Known, CommandTypes
    <3> QED
      BY <1>1, <3>1
  <2>2. call' = call
    BY <1>1
  <2> QED
    BY <1>4, <1>5, <2>1, <2>2 DEF BytesTo, Two
<1>13. Arrived(ReadsTo(call, Completed))'
  <2>1. call' = call /\ UNCHANGED <<rxfifo, got, stale, tag, late>>
    BY <1>1
  <2>2. ReadsTo(call, Completed)' = ReadsTo(call, Completed)
    BY <1>5, <2>1 DEF ReadsTo, Total, Two
  <2> HIDE DEF ReadsTo
  <2> QED
    BY <1>4, <2>1, <2>2 DEF Arrived
<1>14. Len(txfifo') < Written'
  BY <1>2, <1>3, <1>4
<1>15. tag' \notin done'
  BY <1>1, <1>4
<1> QED
  BY <1>5, <1>9, <1>10, <1>11, <1>12, <1>13, <1>14, <1>15 DEF Running


LEMMA PlacePop ==
  ASSUME Known, InTransfer, ~cut, Position, CorePop
  PROVE  Position'
<1>1. /\ txfifo # <<>> /\ cur' = Head(txfifo) /\ txfifo' = Tail(txfifo) /\ fsm = "HOLD"
      /\ UNCHANGED <<tag, done, call, seg, left, rxfifo, got, stale, late>>
      /\ Active
  BY DEF CorePop, sw, Active
<1>2. Waiting \/ Running
  BY <1>1 DEF Position, Through, Lost
<1>3. CASE Running
  BY <1>3, PlacePopped DEF Position
<1>4. CASE Waiting
  <2>1. /\ Len(txfifo) >= Written /\ Len(txfifo) \in Nat /\ Written \in Nat
        /\ 1 \in 1 .. Len(txfifo) /\ call \in Calls
    <3>1. Len(txfifo) >= Written
      BY <1>4 DEF Waiting
    <3>2. /\ Len(txfifo) \in Nat /\ Written \in Nat /\ call \in Calls
      BY TransferFacts, Types DEF Known
    <3>3. Len(txfifo) # 0
      BY <1>1, Types DEF Known
    <3> QED
      BY <3>1, <3>2, <3>3
  <2>2. txfifo[1].tag # tag
    <3>1. Joined(cur, txfifo[1]) /\ cur.stop = FALSE
      BY <1>1 DEF Known, StreamInv, CommandTypes
    <3>2. cur.tag # tag
      BY <1>1, <1>4 DEF Waiting
    <3> QED
      BY <3>1, <3>2 DEF Joined
  <2>3. CASE Len(txfifo) = Written
    <3>1. ~(1 <= Len(txfifo) - Written) /\ 1 - (Len(txfifo) - Written) = 1
      BY <2>1, <2>3
    <3>2. txfifo[1] = Nth(call, tag, 1)
      BY <1>4, <2>1, <3>1 DEF Waiting
    <3>3. Nth(call, tag, 1).tag = tag
      BY DEF Nth
    <3> QED
      BY <2>2, <3>2, <3>3
  <2>4. CASE Len(txfifo) > Written
    BY <1>1, <1>4, <2>4, PlaceOther DEF Position
  <2> QED
    BY <2>1, <2>3, <2>4
<1> QED
  BY <1>2, <1>3, <1>4

(* A command of the row is acknowledged: the next, or the whole of it. *)
LEMMA PlaceNext ==
  ASSUME Known, InTransfer, Running, fsm # "HOLD", Acknowledge,
         UNCHANGED <<tag, call, seg, left, cur>>, rw' = cur.rw,
         bus'.n = BytesTo(call, Place),
         done' = IF Place = Total(call) THEN done \cup {tag} ELSE done,
         NEW r \in Nat, r = ReadsTo(call, Place), Arrived(r)'
  PROVE  Position'
<1>1. /\ txfifo' = txfifo /\ nack' = nack /\ arblost' = arblost
      /\ fsm' = IF cur.stop THEN "GEN_STOP" ELSE "HOLD"
  BY DEF Acknowledge
<1>2. /\ call \in Calls /\ Written \in Nat /\ Place \in 1 .. Total(call) /\ Total(call) \in Nat
      /\ Written' = Written /\ Place' = Place /\ Len(txfifo) \in Nat
      /\ Written <= Total(call) /\ cur.stop \in BOOLEAN
  <2>1. Place \in 1 .. Total(call) /\ Written \in 1 .. Total(call)
    BY PlaceIs
  <2>2. call \in Calls /\ Total(call) \in Nat /\ Len(txfifo) \in Nat /\ cur.stop \in BOOLEAN
    BY TransferFacts, Types DEF Known
  <2>3. Written' = Written /\ Place' = Place
    BY <1>1 DEF Written, Place
  <2> QED
    BY <2>1, <2>2, <2>3
<1>3. /\ tag \notin done /\ Len(txfifo) < Written /\ cur = Nth(call, tag, Place)
      /\ \A i \in 1 .. Len(txfifo) : txfifo[i] = Nth(call, tag, Place + i)
      /\ Active
  BY DEF Running
<1>4. cur.stop <=> Place = Total(call)
  BY PlaceIs
<1>5. CASE Place = Total(call)
  <2>1. Len(txfifo) = 0 /\ Written = Total(call)
    BY <1>2, <1>3, <1>5 DEF Place
  <2>2. txfifo' = <<>>
    BY <1>1, <2>1, Types DEF Known
  <2>3. ~Flush'
    BY <1>1, <1>3, Types DEF Known, Flush
  <2>4. ~Active'
    BY <1>1, <1>4, <1>5 DEF Active
  <2>5. Written' = Total(call)'
    BY <1>2, <2>1 DEF Total, Two
  <2>6. tag' \in done'
    BY <1>5
  <2>7. Arrived(call.rx)'
    <3>1. r = call.rx
      BY <1>2, <1>5, RowEnds
    <3>2. r = call'.rx
      BY <3>1
    <3> QED
      BY <3>2 DEF Arrived
  <2> QED
    BY <2>2, <2>3, <2>4, <2>5, <2>6, <2>7 DEF Through, Position
<1>6. CASE Place # Total(call)
  <2>1. fsm' = "HOLD" /\ Active'
    BY <1>1, <1>2, <1>4, <1>6 DEF Active
  <2>2. Completed' = Place
    BY <1>2, <2>1 DEF Completed
  <2>3. done' = done
    BY <1>6
  <2>4. /\ cur' = Nth(call', tag', Place')
        /\ \A i \in 1 .. Len(txfifo') : txfifo'[i] = Nth(call', tag', Place' + i)
    BY <1>1, <1>2, <1>3, Zenon
  <2>5. bus'.n = BytesTo(call', Completed')
    BY <2>2
  <2>6. r = ReadsTo(call', Completed')
    BY <2>2
  <2>7. Arrived(ReadsTo(call, Completed))'
    <3> HIDE DEF ReadsTo
    <3> QED
      BY <2>6 DEF Arrived
  <2>8. Len(txfifo') < Written'
    BY <1>1, <1>2, <1>3
  <2> QED
    BY <1>3, <2>1, <2>3, <2>4, <2>5, <2>7, <2>8 DEF Running, Position
<1> QED
  BY <1>5, <1>6


(* What a step of the core leaves of the transaction on the bus. *)
LEMMA PlaceAddr ==
  ASSUME Known, InTransfer, Position, CoreAddr
  PROVE  Position'
<1>1. /\ fsm = "ADDR" /\ Active
      /\ UNCHANGED <<cur, tag, call, seg, left, got, bus, done, stale, late>>
  BY DEF CoreAddr, sw, ghost, Active
<1>2. Waiting \/ Running
  BY <1>1 DEF Position, Through, Lost
<1>3. CASE Refuse \/ Lose
  <2>1. txfifo' = <<>> /\ rxfifo' = <<>> /\ ~Active' /\ Flush'
    BY <1>3 DEF Refuse, Lose, Aborted, Rest, Active, Flush
  <2> QED
    BY <1>1, <1>2, <2>1, PlaceDropped
<1>4. CASE Acknowledge /\ rw' = cur.rw /\ rxfifo' = rxfifo
  <2>1. CASE Waiting
    <3>1. late
      BY <1>1, <2>1 DEF Waiting, LastByte
    <3>2. txfifo' = txfifo /\ Written' = Written
      BY <1>1, <1>4 DEF Acknowledge, Written
    <3>3. Arrived(0)'
      BY <1>1, <1>4, <2>1, ArrivedKept DEF Waiting
    <3> QED
      BY <1>1, <2>1, <3>1, <3>2, <3>3 DEF Waiting, Position
  <2>2. CASE Running
    <3>1. IsAddress(call, Place) /\ Completed = Place - 1
      BY <1>1, <2>2 DEF Running, Completed
    <3>2. /\ call \in Calls /\ Place \in 1 .. Total(call) /\ Total(call) \in Nat
      BY <2>2, PlaceIs, TransferFacts DEF Known
    <3>3. /\ BytesTo(call, Place - 1) \in Nat /\ ReadsTo(call, Place - 1) \in Nat
          /\ BytesTo(call, Place) = BytesTo(call, Place - 1)
          /\ ReadsTo(call, Place) = ReadsTo(call, Place - 1)
          /\ Place # Total(call)
      <4>1. /\ BytesTo(call, Place - 1) \in Nat /\ ReadsTo(call, Place - 1) \in Nat
            /\ BytesTo(call, Place) = BytesTo(call, Place - 1) + 0
            /\ ReadsTo(call, Place) = ReadsTo(call, Place - 1) + 0
            /\ Place # Total(call)
        BY <3>1, <3>2, RowStep
      <4> QED
        BY <4>1
    <3>4. bus'.n = BytesTo(call, Place)
      BY <1>1, <2>2, <3>1, <3>3 DEF Running
    <3>5. Arrived(ReadsTo(call, Place))
      BY <2>2, <3>1, <3>3 DEF Running
    <3>6. done' = IF Place = Total(call) THEN done \cup {tag} ELSE done
      BY <1>1, <3>3
    <3>7. PICK r \in Nat : r = ReadsTo(call, Place) /\ Arrived(r)
      BY <3>3, <3>5
    <3>8. Arrived(r)'
      BY <1>1, <1>4, <3>7, ArrivedKept
    <3>9. fsm # "HOLD" /\ UNCHANGED <<tag, call, seg, left, cur>>
      BY <1>1
    <3> QED
      BY <1>4, <2>2, <3>4, <3>6, <3>7, <3>8, <3>9, PlaceNext
  <2> QED
    BY <1>2, <2>1, <2>2
<1> QED
  BY <1>3, <1>4 DEF CoreAddr

(* Bytes of others. *)
LEMMA PlaceBehind ==
  ASSUME Known, InTransfer, ~cut, Waiting, fsm \in {"TX_BYTE", "RX_BYTE"}, Acknowledge, Count,
         UNCHANGED <<cur, tag, call, seg, left, got, stale, late>>,
         rxfifo' = rxfifo \/ (fsm = "RX_BYTE" /\ rxfifo' = Append(rxfifo, cur.tag))
  PROVE  Position'
<1>1. /\ txfifo' = txfifo /\ Written' = Written
      /\ fsm' = IF cur.stop THEN "GEN_STOP" ELSE "HOLD"
  BY DEF Acknowledge, Written
<1>2. Active /\ cur.tag # tag /\ bus.tag = cur.tag
  BY DEF Active, Waiting, Known, StreamInv
<1>3. tag' \notin done'
  BY <1>2 DEF Count, Waiting
<1>4. fsm = "RX_BYTE" => late
  BY <1>2 DEF Waiting, LastByte
<1>5. ~late => LastByte'
  <2>1. ~late => cur.stop = TRUE
    BY <1>2 DEF Waiting, LastByte
  <2>2. ~late => ~Active'
    BY <1>1, <2>1 DEF Active
  <2> QED
    BY <2>2 DEF LastByte
<1>6. Arrived(0)'
  <2>1. Arrived(0) /\ got \in Nat /\ rxfifo \in Seq(Nat) /\ cur.tag \in Nat
    BY Types DEF Waiting, Known, StatusInv
  <2>2. CASE rxfifo' = rxfifo
    BY <2>1, <2>2, ArrivedKept
  <2>3. CASE fsm = "RX_BYTE" /\ rxfifo' = Append(rxfifo, cur.tag)
    BY <1>2, <1>4, <2>1, <2>3, ArrivedOther
  <2> QED
    BY <2>2, <2>3
<1>7. /\ Len(txfifo) >= Written
      /\ \A i \in 1 .. Len(txfifo) :
           IF i <= Len(txfifo) - Written THEN txfifo[i].tag # tag
           ELSE txfifo[i] = Nth(call, tag, i - (Len(txfifo) - Written))
      /\ ~late => Len(txfifo) = Written
  BY DEF Waiting
<1>8. /\ Len(txfifo') >= Written'
      /\ \A i \in 1 .. Len(txfifo') :
           IF i <= Len(txfifo') - Written' THEN txfifo'[i].tag # tag'
           ELSE txfifo'[i] = Nth(call', tag', i - (Len(txfifo') - Written'))
      /\ ~late' => Len(txfifo') = Written'
  <2>1. tag' = tag /\ call' = call /\ late' = late
    OBVIOUS
  <2>2. \A i \in 1 .. Len(txfifo') :
          IF i <= Len(txfifo') - Written' THEN txfifo'[i].tag # tag'
          ELSE txfifo'[i] = Nth(call', tag', i - (Len(txfifo') - Written'))
    BY <1>1, <1>7, <2>1
  <2>3. Len(txfifo') >= Written' /\ (~late' => Len(txfifo') = Written')
    BY <1>1, <1>7, <2>1
  <2> QED
    BY <2>2, <2>3, Zenon
<1>9. cur'.tag # tag'
  BY <1>2
<1>10. ~late' => LastByte'
  BY <1>5
<1> QED
  BY <1>3, <1>6, <1>8, <1>9, <1>10 DEF Waiting, Position

LEMMA PlaceTx ==
  ASSUME Known, InTransfer, ~cut, Position, CoreTx
  PROVE  Position'
<1>1. /\ fsm = "TX_BYTE" /\ Active
      /\ UNCHANGED <<cur, tag, call, seg, left, got, stale, late, rw>>
  BY DEF CoreTx, sw, Active
<1>2. Waiting \/ Running
  BY <1>1 DEF Position, Through, Lost
<1>3. CASE (Refuse \/ Lose) /\ UNCHANGED <<bus, done>>
  <2>1. txfifo' = <<>> /\ rxfifo' = <<>> /\ ~Active' /\ Flush'
    BY <1>3 DEF Refuse, Lose, Aborted, Rest, Active, Flush
  <2> QED
    BY <1>1, <1>2, <1>3, <2>1, PlaceDropped
<1>4. CASE Acknowledge /\ Count /\ rxfifo' = rxfifo
  <2>1. CASE Waiting
    BY <1>1, <1>4, <2>1, PlaceBehind
  <2>2. CASE Running
    <3>1. ~IsAddress(call, Place) /\ Completed = Place - 1 /\ rw = "W" /\ rw = cur.rw
      BY <1>1, <2>2 DEF Running, Completed
    <3>2. /\ call \in Calls /\ Place \in 1 .. Total(call) /\ Total(call) \in Nat
          /\ cur.tag = tag /\ cur.whole = call.tx + call.rx
          /\ cur.stop <=> Place = Total(call)
          /\ ~(call.rx > 0 /\ (call.tx = 0 \/ Place > call.tx + 1))
      <4>1. cur.rw = IF call.rx > 0 /\ (call.tx = 0 \/ Place > call.tx + 1) THEN "R" ELSE "W"
        BY <2>2, PlaceIs
      <4>2. cur.rw # "R"
        BY <3>1
      <4> QED
        BY <2>2, <4>1, <4>2, PlaceIs, TransferFacts DEF Known
    <3>3. /\ BytesTo(call, Place - 1) \in Nat /\ ReadsTo(call, Place - 1) \in Nat
          /\ BytesTo(call, Place) = BytesTo(call, Place - 1) + 1
          /\ ReadsTo(call, Place) = ReadsTo(call, Place - 1)
      <4>1. /\ BytesTo(call, Place - 1) \in Nat /\ ReadsTo(call, Place - 1) \in Nat
            /\ BytesTo(call, Place) = BytesTo(call, Place - 1) + 1
            /\ ReadsTo(call, Place) = ReadsTo(call, Place - 1) + 0
        BY <3>1, <3>2, RowStep
      <4> QED
        BY <4>1
    <3>4. bus'.n = bus.n + 1 /\ bus.n + 1 = BytesTo(call, Place)
      <4>1. bus.n = BytesTo(call, Place - 1)
        BY <2>2, <3>1 DEF Running
      <4>2. bus' = [bus EXCEPT !.n = @ + 1] /\ bus \in [tag : Nat, n : Nat, mixed : BOOLEAN]
        BY <1>4 DEF Count, Known, CommandTypes
      <4> QED
        BY <3>3, <4>1, <4>2
    <3>5. Arrived(ReadsTo(call, Place))
      BY <2>2, <3>1, <3>3 DEF Running
    <3>6. done' = IF Place = Total(call) THEN done \cup {tag} ELSE done
      <4>1. bus.mixed = FALSE /\ bus.tag = tag
        BY <1>1, <3>2 DEF Known, StreamInv
      <4>2. Place = Total(call) => bus.n + 1 = cur.whole
        BY <3>2, <3>4, RowEnds
      <4> QED
        BY <1>4, <3>2, <4>1, <4>2 DEF Count
    <3>7. PICK r \in Nat : r = ReadsTo(call, Place) /\ Arrived(r)
      BY <3>3, <3>5
    <3>8. Arrived(r)'
      BY <1>1, <1>4, <3>7, ArrivedKept
    <3>9. fsm # "HOLD" /\ UNCHANGED <<tag, call, seg, left, cur>> /\ rw' = cur.rw
      BY <1>1, <3>1
    <3>10. bus'.n = BytesTo(call, Place)
      BY <3>4
    <3> QED
      BY <1>4, <2>2, <3>6, <3>7, <3>8, <3>9, <3>10, PlaceNext
  <2> QED
    BY <1>2, <2>1, <2>2
<1> QED
  BY <1>3, <1>4 DEF CoreTx

LEMMA PlaceRx ==
  ASSUME Known, InTransfer, ~cut, Position, CoreRx
  PROVE  Position'
<1>1. /\ fsm = "RX_BYTE" /\ Active
      /\ UNCHANGED <<cur, tag, call, seg, left, got, stale, late, rw>>
  BY DEF CoreRx, sw, Active
<1>2. Waiting \/ Running
  BY <1>1 DEF Position, Through, Lost
<1>3. CASE Lose /\ UNCHANGED <<bus, done>>
  <2>1. txfifo' = <<>> /\ rxfifo' = <<>> /\ ~Active' /\ Flush'
    BY <1>3 DEF Lose, Aborted, Rest, Active, Flush
  <2> QED
    BY <1>1, <1>2, <1>3, <2>1, PlaceDropped
<1>4. CASE Acknowledge /\ Count /\ (rxfifo' = rxfifo \/ rxfifo' = Append(rxfifo, cur.tag))
  <2>1. CASE Waiting
    BY <1>1, <1>4, <2>1, PlaceBehind
  <2>2. CASE Running
    <3>1. ~IsAddress(call, Place) /\ Completed = Place - 1 /\ rw = "R" /\ rw = cur.rw
      BY <1>1, <2>2 DEF Running, Completed
    <3>2. /\ call \in Calls /\ Place \in 1 .. Total(call) /\ Total(call) \in Nat
          /\ cur.tag = tag /\ cur.whole = call.tx + call.rx
          /\ cur.stop <=> Place = Total(call)
          /\ call.rx > 0 /\ (call.tx = 0 \/ Place > call.tx + 1)
      <4>1. cur.rw = IF call.rx > 0 /\ (call.tx = 0 \/ Place > call.tx + 1) THEN "R" ELSE "W"
        BY <2>2, PlaceIs
      <4>2. cur.rw # "W"
        BY <3>1
      <4> QED
        BY <2>2, <4>1, <4>2, PlaceIs, TransferFacts DEF Known
    <3>3. /\ BytesTo(call, Place - 1) \in Nat /\ ReadsTo(call, Place - 1) \in Nat
          /\ BytesTo(call, Place) = BytesTo(call, Place - 1) + 1
          /\ ReadsTo(call, Place) = ReadsTo(call, Place - 1) + 1
      BY <3>1, <3>2, RowStep
    <3>4. bus'.n = bus.n + 1 /\ bus.n + 1 = BytesTo(call, Place)
      <4>1. bus.n = BytesTo(call, Place - 1)
        BY <2>2, <3>1 DEF Running
      <4>2. bus' = [bus EXCEPT !.n = @ + 1] /\ bus \in [tag : Nat, n : Nat, mixed : BOOLEAN]
        BY <1>4 DEF Count, Known, CommandTypes
      <4> QED
        BY <3>3, <4>1, <4>2
    <3>5. Arrived(ReadsTo(call, Place - 1))
      BY <2>2, <3>1 DEF Running
    <3>6. done' = IF Place = Total(call) THEN done \cup {tag} ELSE done
      <4>1. bus.mixed = FALSE /\ bus.tag = tag
        BY <1>1, <3>2 DEF Known, StreamInv
      <4>2. Place = Total(call) => bus.n + 1 = cur.whole
        BY <3>2, <3>4, RowEnds
      <4> QED
        BY <1>4, <3>2, <4>1, <4>2 DEF Count
    <3>7. PICK r \in Nat : r = ReadsTo(call, Place - 1) /\ Arrived(r)
      BY <3>3, <3>5
    <3>8. Arrived(r + 1)'
      <4>1. got \in Nat /\ rxfifo \in Seq(Nat) /\ tag \in Nat
        BY Types DEF Known, StatusInv
      <4>2. rxfifo' = Append(rxfifo, tag) \/ rxfifo' = rxfifo
        BY <1>4, <3>2
      <4> QED
        BY <1>1, <3>7, <4>1, <4>2, ArrivedOwn
    <3>9. fsm # "HOLD" /\ UNCHANGED <<tag, call, seg, left, cur>> /\ rw' = cur.rw
      BY <1>1, <3>1
    <3>10. bus'.n = BytesTo(call, Place) /\ r + 1 = ReadsTo(call, Place) /\ r + 1 \in Nat
      BY <3>3, <3>4, <3>7
    <3>11. PICK q \in Nat : q = ReadsTo(call, Place) /\ q = r + 1
      BY <3>10
    <3>12. Arrived(q)'
      BY <3>8, <3>11 DEF Arrived
    <3> QED
      BY <1>4, <2>2, <3>6, <3>9, <3>10, <3>11, <3>12, PlaceNext
  <2> QED
    BY <1>2, <2>1, <2>2
<1> QED
  BY <1>3, <1>4 DEF CoreRx

LEMMA PlaceCore ==
  ASSUME Known, InTransfer, ~cut, Position, Core \/ Jam \/ Unjam
  PROVE  Position'
<1>1. CASE CoreStop \/ Jam \/ Unjam
  <2>1. /\ UNCHANGED <<tag, done, txfifo, rxfifo, got, stale, late, call, seg, left, cur, bus, rw,
                       nack, arblost, pending>>
        /\ fsm' = fsm \/ (~Active /\ ~Active')
    BY <1>1 DEF CoreStop, Jam, Unjam, sw, hw, ghost, Active, Rest
  <2>2. Written' = Written /\ (Flush' <=> Flush)
    BY <2>1 DEF Written, Flush
  <2>3. \A n \in Nat : Arrived(n) => Arrived(n)'
    BY <2>1, ArrivedKept
  <2>4. Lost => Flush' \/ pending'
    BY <2>1, <2>2 DEF Lost
  <2> QED
    BY <2>1, <2>2, <2>3, <2>4, PlaceKept
<1> QED
  BY <1>1, PlaceStart, PlacePop, PlaceAddr, PlaceTx, PlaceRx DEF Core

-----------------------------------------------------------------------------
(* The driver writes the row in its order. *)
LEMMA CommandIs ==
  ASSUME CallInv, pc = "write"
  PROVE  Command = Nth(call, tag, Written + 1)
<1>1. /\ call \in Calls /\ left \in 1 .. Seg.size + 1
      /\ seg = 1 \/ (seg = 2 /\ Two(call))
  <2>1. pc \in Transferring
    BY DEF Transferring
  <2>2. left \in 0 .. Seg.size + 1 /\ left > 0
    BY <2>1 DEF CallInv
  <2> QED
    BY <2>1, <2>2, WrittenIs
<1>2. /\ call.tx \in Nat /\ call.rx \in Nat /\ call.tx + call.rx > 0
      /\ First(call) \in Nat /\ Total(call) \in Nat
      /\ Two(call) => /\ First(call) = call.tx + 1 /\ Total(call) = First(call) + call.rx + 1
                      /\ call.tx > 0 /\ call.rx > 0
      /\ ~Two(call) => /\ Total(call) = First(call) /\ First(call) = call.tx + call.rx + 1
                       /\ call.tx = 0 \/ call.rx = 0
  BY <1>1, Lengths
<1> DEFINE j == Written + 1
           rd == call.rx > 0 /\ (call.tx = 0 \/ j > call.tx + 1)
<1>3. CASE ~Two(call)
  <2>1. /\ seg = 1 /\ Seg.size = call.tx + call.rx /\ Seg.restart = FALSE /\ Seg.stop = TRUE
        /\ Seg.rw = IF call.tx = 0 THEN "R" ELSE "W"
    <3>1. seg = 1
      BY <1>1, <1>3
    <3> QED
      BY <1>1, <1>3, <3>1, SegmentsAre DEF Seg
  <2>2. j = Total(call) - left + 1 /\ left \in Nat
    BY <1>1, <1>2, <1>3, <2>1 DEF Written
  <2> HIDE DEF j
  <2>3. left = 1 <=> j = Total(call)
    BY <1>2, <2>2
  <2>4. rd <=> call.tx = 0
    BY <1>1, <1>2, <1>3, <2>1, <2>2
  <2>5. left = Seg.size + 1 => left # 1
    BY <1>2, <2>1
  <2>6. Command = [sta |-> FALSE, stop |-> left = 1, rw |-> Seg.rw, tag |-> tag,
                   whole |-> call.tx + call.rx]
    <3>1. CASE left = Seg.size + 1
      <4>1. (left = 1) = FALSE
        BY <2>5, <3>1
      <4> QED
        BY <2>1, <3>1, <4>1 DEF Command, send_address
    <3>2. CASE left # Seg.size + 1
      <4>1. (left = 1 /\ Seg.stop) = (left = 1)
        BY <2>1
      <4> QED
        BY <2>1, <3>2, <4>1 DEF Command, send_byte
    <3> QED
      BY <3>1, <3>2
  <2>7. Nth(call, tag, j) = [sta |-> FALSE, stop |-> left = 1, rw |-> Seg.rw, tag |-> tag,
                             whole |-> call.tx + call.rx]
    <3>1. (Two(call) /\ j = call.tx + 2) = FALSE
      BY <1>3
    <3>2. (j = Total(call)) = (left = 1)
      BY <2>3
    <3>3. (IF rd THEN "R" ELSE "W") = Seg.rw
      BY <2>1, <2>4
    <3> QED
      BY <3>1, <3>2, <3>3 DEF Nth
  <2> QED
    BY <2>6, <2>7 DEF j
<1>4. CASE Two(call) /\ seg = 1
  <2>1. /\ Seg.size = call.tx /\ Seg.restart = FALSE /\ Seg.stop = FALSE /\ Seg.rw = "W"
    BY <1>1, <1>4, SegmentsAre DEF Seg
  <2>2. j = call.tx + 1 - left + 1 /\ left \in Nat /\ left >= 1
    BY <1>1, <1>2, <1>4, <2>1 DEF Written
  <2> HIDE DEF j
  <2>3. j # Total(call) /\ j # call.tx + 2 /\ ~rd
    BY <1>2, <1>4, <2>2
  <2>6. Command = [sta |-> FALSE, stop |-> FALSE, rw |-> "W", tag |-> tag,
                   whole |-> call.tx + call.rx]
    <3>1. CASE left = Seg.size + 1
      BY <2>1, <3>1 DEF Command, send_address
    <3>2. CASE left # Seg.size + 1
      <4>1. (left = 1 /\ Seg.stop) = FALSE
        BY <2>1
      <4> QED
        BY <2>1, <3>2, <4>1 DEF Command, send_byte
    <3> QED
      BY <3>1, <3>2
  <2>7. Nth(call, tag, j) = [sta |-> FALSE, stop |-> FALSE, rw |-> "W", tag |-> tag,
                             whole |-> call.tx + call.rx]
    <3>1. (Two(call) /\ j = call.tx + 2) = FALSE
      BY <2>3
    <3>2. (j = Total(call)) = FALSE
      BY <2>3
    <3>3. (IF rd THEN "R" ELSE "W") = "W"
      BY <2>3
    <3> QED
      BY <3>1, <3>2, <3>3 DEF Nth
  <2> QED
    BY <2>6, <2>7 DEF j
<1>5. CASE Two(call) /\ seg = 2
  <2>1. /\ Seg.size = call.rx /\ Seg.restart = TRUE /\ Seg.stop = TRUE /\ Seg.rw = "R"
    BY <1>1, <1>5, SegmentsAre DEF Seg
  <2>2. /\ j = call.tx + 1 + call.rx + 1 - left + 1 /\ left \in Nat
        /\ left >= 1 /\ left <= call.rx + 1
    BY <1>1, <1>2, <1>5, <2>1 DEF Written
  <2> HIDE DEF j
  <2>3. /\ j = Total(call) <=> left = 1
        /\ j = call.tx + 2 <=> left = Seg.size + 1
        /\ rd
        /\ left = Seg.size + 1 => left # 1
    BY <1>2, <1>5, <2>1, <2>2
  <2>6. Command = [sta |-> left = Seg.size + 1, stop |-> left = 1, rw |-> "R", tag |-> tag,
                   whole |-> call.tx + call.rx]
    <3>1. CASE left = Seg.size + 1
      <4>1. (left = 1) = FALSE /\ (left = Seg.size + 1) = TRUE
        BY <2>3, <3>1
      <4> QED
        BY <2>1, <3>1, <4>1 DEF Command, send_address
    <3>2. CASE left # Seg.size + 1
      <4>1. (left = 1 /\ Seg.stop) = (left = 1) /\ (left = Seg.size + 1) = FALSE
        BY <2>1, <3>2
      <4> QED
        BY <2>1, <3>2, <4>1 DEF Command, send_byte
    <3> QED
      BY <3>1, <3>2
  <2>7. Nth(call, tag, j) = [sta |-> left = Seg.size + 1, stop |-> left = 1, rw |-> "R",
                             tag |-> tag, whole |-> call.tx + call.rx]
    <3>1. (Two(call) /\ j = call.tx + 2) = (left = Seg.size + 1)
      BY <1>5, <2>3
    <3>2. (j = Total(call)) = (left = 1)
      BY <2>3
    <3>3. (IF rd THEN "R" ELSE "W") = "R"
      BY <2>3
    <3> QED
      BY <3>1, <3>2, <3>3 DEF Nth
  <2> QED
    BY <2>6, <2>7 DEF j
<1> QED
  BY <1>1, <1>3, <1>4, <1>5


LEMMA PlaceWrite ==
  ASSUME Known, InTransfer, Position, WriteCmd
  PROVE  Position'
<1>1. /\ pc = "write" /\ left' = left - 1 /\ ~pending
      /\ UNCHANGED <<call, tag, seg, rxfifo, got, cur, rw, bus, done, stale, late, nack, arblost>>
      /\ fsm' = IF fsm = "PRE_IDLE" /\ ~Flush THEN "PRE_START" ELSE fsm
      /\ txfifo' = IF Flush THEN <<>> ELSE Append(txfifo, Command)
  BY DEF WriteCmd, ghost, Known, EnableInv
<1>2. /\ call \in Calls /\ Written \in 0 .. Total(call) /\ Written < Total(call)
      /\ Total(call) \in Nat /\ left \in Nat /\ left > 0 /\ Len(txfifo) \in Nat
      /\ call.rx \in Nat
  <2>1. pc \in Transferring
    BY <1>1 DEF Transferring
  <2>2. left > 0
    BY <1>1, <2>1 DEF Known, CallInv
  <2>3. /\ call \in Calls /\ Written \in 0 .. Total(call) /\ left \in Nat
        /\ left > 0 => Written < Total(call)
    BY <2>1, WrittenIs DEF Known
  <2>4. Total(call) \in Nat /\ call.rx \in Nat
    BY <2>3, Lengths
  <2> QED
    BY <2>2, <2>3, <2>4, Types DEF Known
<1>3. Written' = Written + 1
  <2>1. /\ Total(call) \in Nat /\ First(call) \in Nat
    BY <1>2, Lengths
  <2>2. Written' = IF seg = 1 THEN First(call) - (left - 1) ELSE Total(call) - (left - 1)
    BY <1>1 DEF Written, First, Total, Two
  <2> QED
    BY <1>2, <2>1, <2>2 DEF Written
<1>4. (Active' <=> Active) /\ (Flush' <=> Flush)
  BY <1>1 DEF Active, Flush
<1>5. ~Through
  BY <1>2 DEF Through
<1>6. CASE Flush
  <2>1. txfifo' = <<>> /\ txfifo = <<>> /\ Len(txfifo) = 0 /\ ~Active /\ ~Active' /\ Flush'
    BY <1>1, <1>4, <1>6, Types DEF Known
  <2>2. Waiting \/ Lost
    BY <1>5, <2>1 DEF Position, Running
  <2> DEFINE m == IF call.rx = 0 THEN 0 ELSE call.rx - 1
  <2>3. m \in Nat /\ got \in Nat
    BY <1>2 DEF Known, StatusInv
  <2>4. \E n \in Nat : n = m /\ Arrived(n)
    <3>1. CASE Waiting
      <4>1. Arrived(0)
        BY <3>1 DEF Waiting
      <4> HIDE DEF m
      <4> QED
        BY <2>3, <4>1, ArrivedMore
    <3>2. CASE Lost
      BY <2>3, <3>2 DEF Lost
    <3> QED
      BY <2>2, <3>1, <3>2
  <2>5. PICK n \in Nat : n = m /\ Arrived(n)
    BY <2>4
  <2>6. Arrived(n)'
    BY <1>1, <2>5, ArrivedKept
  <2>7. n = m'
    BY <1>1, <2>5
  <2> HIDE DEF m
  <2>8. Arrived(m)'
    BY <2>6, <2>7 DEF Arrived
  <2>9. Arrived(IF call.rx = 0 THEN 0 ELSE call.rx - 1)'
    BY <2>8 DEF m
  <2>10. tag' \notin done' /\ Written' > 0
    BY <1>1, <1>2, <1>3, <2>2 DEF Waiting, Lost
  <2> QED
    BY <2>1, <2>9, <2>10 DEF Lost, Position
<1>7. CASE ~Flush
  <2>1. /\ txfifo' = Append(txfifo, Command) /\ Command = Nth(call, tag, Written + 1)
    BY <1>1, <1>7, CommandIs DEF Known
  <2>2. /\ Len(txfifo') = Len(txfifo) + 1
        /\ \A i \in 1 .. Len(txfifo) : txfifo'[i] = txfifo[i]
        /\ txfifo'[Len(txfifo) + 1] = Nth(call, tag, Written + 1)
    <3>1. txfifo \in Seq(Commands) /\ Command \in Commands
      BY <1>1, CommandFacts DEF Known, CommandTypes
    <3> QED
      BY <2>1, <3>1, AppendProperties
  <2>3. ~Lost
    BY <1>1, <1>7 DEF Lost
  <2>4. call' = call /\ tag' = tag /\ late' = late /\ cur' = cur /\ done' = done
    BY <1>1
  <2>5. CASE Waiting
    <3>1. /\ tag \notin done /\ Len(txfifo) >= Written
          /\ \A i \in 1 .. Len(txfifo) :
               IF i <= Len(txfifo) - Written THEN txfifo[i].tag # tag
               ELSE txfifo[i] = Nth(call, tag, i - (Len(txfifo) - Written))
          /\ Active => cur.tag # tag
          /\ ~late => Len(txfifo) = Written
          /\ ~late => LastByte
          /\ Arrived(0)
      BY <2>5 DEF Waiting
    <3>2. Len(txfifo') - Written' = Len(txfifo) - Written
      BY <1>2, <1>3, <2>2
    <3>3. \A i \in 1 .. Len(txfifo') :
            IF i <= Len(txfifo) - Written THEN txfifo'[i].tag # tag
            ELSE txfifo'[i] = Nth(call, tag, i - (Len(txfifo) - Written))
      <4> TAKE i \in 1 .. Len(txfifo')
      <4>1. CASE i \in 1 .. Len(txfifo)
        BY <2>2, <3>1, <4>1
      <4>2. CASE i = Len(txfifo) + 1
        <5>1. /\ ~(i <= Len(txfifo) - Written)
              /\ i - (Len(txfifo) - Written) = Written + 1
          BY <1>2, <4>2
        <5> QED
          BY <2>2, <4>2, <5>1
      <4>3. i \in 1 .. Len(txfifo) \/ i = Len(txfifo) + 1
        BY <1>2, <2>2
      <4> QED
        BY <4>1, <4>2, <4>3
    <3>4. \A i \in 1 .. Len(txfifo') :
            IF i <= Len(txfifo') - Written' THEN txfifo'[i].tag # tag'
            ELSE txfifo'[i] = Nth(call', tag', i - (Len(txfifo') - Written'))
      BY <2>4, <3>2, <3>3
    <3>5. Len(txfifo') >= Written' /\ (~late' => Len(txfifo') = Written')
      BY <1>2, <1>3, <2>2, <2>4, <3>1
    <3>6. ~late' => LastByte'
      <4>1. Active => fsm' = fsm
        BY <1>1 DEF Active
      <4> QED
        BY <1>4, <2>4, <3>1, <4>1 DEF LastByte
    <3>7. Arrived(0)'
      BY <1>1, <3>1, ArrivedKept
    <3>8. tag' \notin done' /\ (Active' => cur'.tag # tag')
      BY <1>4, <2>4, <3>1
    <3> QED
      BY <3>4, <3>5, <3>6, <3>7, <3>8 DEF Waiting, Position
  <2>6. CASE Running
    <3>1. Place' = Place /\ fsm' = fsm
      <4>1. Place' = Place
        BY <1>2, <1>3, <2>2 DEF Place
      <4>2. fsm' = fsm
        BY <1>1, <2>6 DEF Running, Active
      <4> QED
        BY <4>1, <4>2
    <3>2. Completed' = Completed
      BY <3>1 DEF Completed
    <3>3. Place \in Nat /\ Place + (Len(txfifo) + 1) = Written + 1
      <4>1. Place \in 1 .. Total(call)
        BY <2>6, PlaceIs
      <4>2. Place = Written - Len(txfifo) /\ Place \in Nat
        BY <1>2, <4>1 DEF Place
      <4> HIDE DEF Place, Written
      <4> QED
        BY <1>2, <4>2
    <3>4. /\ tag \notin done /\ Len(txfifo) < Written /\ cur = Nth(call, tag, Place)
          /\ \A i \in 1 .. Len(txfifo) : txfifo[i] = Nth(call, tag, Place + i)
          /\ bus.n = BytesTo(call, Completed) /\ Arrived(ReadsTo(call, Completed))
      BY <2>6 DEF Running
    <3>5. \A i \in 1 .. Len(txfifo') : txfifo'[i] = Nth(call, tag, Place + i)
      <4> TAKE i \in 1 .. Len(txfifo')
      <4>1. CASE i \in 1 .. Len(txfifo)
        BY <2>2, <3>4, <4>1
      <4>2. CASE i = Len(txfifo) + 1
        BY <2>2, <3>3, <4>2
      <4>3. i \in 1 .. Len(txfifo) \/ i = Len(txfifo) + 1
        BY <1>2, <2>2
      <4> QED
        BY <4>1, <4>2, <4>3
    <3>6. /\ cur' = Nth(call', tag', Place')
          /\ \A i \in 1 .. Len(txfifo') : txfifo'[i] = Nth(call', tag', Place' + i)
      BY <2>4, <3>1, <3>4, <3>5
    <3>7. Len(txfifo') < Written'
      BY <1>2, <1>3, <2>2, <3>4
    <3>8. Arrived(ReadsTo(call, Completed))'
      <4>1. ReadsTo(call, Completed)' = ReadsTo(call, Completed)
        BY <2>4, <3>2 DEF ReadsTo, Total, Two
      <4>2. UNCHANGED <<rxfifo, got, stale, tag, late>>
        BY <1>1
      <4> HIDE DEF ReadsTo
      <4> QED
        BY <3>4, <4>1, <4>2 DEF Arrived
    <3>9. bus'.n = BytesTo(call', Completed')
      BY <1>1, <2>4, <3>2, <3>4 DEF BytesTo, Two
    <3>10. /\ fsm' = "ADDR" <=> fsm' # "HOLD" /\ IsAddress(call', Place')
           /\ fsm' # "ADDR" => rw' = cur'.rw
           /\ fsm' = "RX_BYTE" => rw' = "R"
           /\ fsm' = "TX_BYTE" => rw' = "W"
      <4>1. rw' = rw
        BY <1>1
      <4> QED
        BY <2>4, <2>6, <3>1, <4>1 DEF Running
    <3>11. Active' /\ tag' \notin done'
      BY <1>4, <2>4, <2>6 DEF Running
    <3> QED
      BY <3>6, <3>7, <3>8, <3>9, <3>10, <3>11 DEF Running, Position
  <2> QED
    BY <1>5, <2>3, <2>5, <2>6 DEF Position
<1> QED
  BY <1>6, <1>7

-----------------------------------------------------------------------------
(* The program's part. *)
LEMMA ReadArrives ==
  ASSUME Known, UNCHANGED <<tag, late>>,
         (\E k \in 0 .. Len(rxfifo) : read_available(k)) \/ UNCHANGED <<rxfifo, got, stale>>
  PROVE  \A n \in Nat : Arrived(n) => Arrived(n)'
<1> TAKE n \in Nat
<1> HAVE Arrived(n)
<1>1. rxfifo \in Seq(Nat) /\ got \in Nat /\ stale \in BOOLEAN
  BY DEF Known, CoreInv, StatusInv
<1>2. ASSUME NEW k \in 0 .. Len(rxfifo), read_available(k)
      PROVE  Arrived(n)'
  BY <1>1, <1>2, ArrivedRead
<1>3. CASE UNCHANGED <<rxfifo, got, stale>>
  BY <1>3, ArrivedKept
<1> QED
  BY <1>2, <1>3

(* A transfer begins behind what others left. *)
LEMMA PlaceBegins ==
  ASSUME Written' = 0, Len(txfifo') \in Nat, tag' \notin done',
         \A i \in 1 .. Len(txfifo') : txfifo'[i].tag # tag', Active' => cur'.tag # tag',
         ~late' => Len(txfifo') = 0 /\ LastByte', Arrived(0)'
  PROVE  Position'
<1>1. \A i \in 1 .. Len(txfifo') : i <= Len(txfifo') - Written'
  OBVIOUS
<1>2. Len(txfifo') >= Written' /\ (~late' => Len(txfifo') = Written')
  OBVIOUS
<1>3. \A i \in 1 .. Len(txfifo') :
        IF i <= Len(txfifo') - Written' THEN txfifo'[i].tag # tag'
        ELSE txfifo'[i] = Nth(call', tag', i - (Len(txfifo') - Written'))
  BY <1>1
<1> QED
  BY <1>2, <1>3 DEF Waiting, Position

LEMMA WrittenNone ==
  ASSUME NEW c \in Calls, call' = c, seg' = 1, left' = Segments(c)[1].size + 1
  PROVE  Written' = 0
<1>1. /\ First(c) \in Nat /\ c.tx \in Nat /\ c.rx \in Nat
      /\ First(c) = Segments(c)[1].size + 1
  BY Lengths, SegmentsAre
<1>2. Written' = First(c) - left'
  BY DEF Written, First, Two
<1> QED
  BY <1>1, <1>2

LEMMA PlaceCall ==
  ASSUME Known, EndInv, ~cut, NEW c \in Calls, Call(c)
  PROVE  Position' /\ Written' = 0 /\ pc' = "enable"
<1>1. /\ pc = "idle" /\ ~pending /\ tag' = tag + 1 /\ stale' = FALSE
      /\ call' = c /\ seg' = 1 /\ left' = Segments(c)[1].size + 1 /\ got' = 0
      /\ pc' = StartPc(Segments(c)[1])
      /\ UNCHANGED <<fsm, txfifo, rxfifo, cur, done, late>>
  BY DEF Call, Begin, hw
<1>2. /\ tag \in Nat /\ Len(txfifo) \in Nat /\ Len(rxfifo) \in Nat /\ cur.tag \in Nat
      /\ rxfifo \in Seq(Nat) /\ cur.tag <= tag /\ done \subseteq 0 .. tag
      /\ \A i \in 1 .. Len(txfifo) : txfifo[i].tag \in Nat /\ txfifo[i].tag <= tag
      /\ \A i \in 1 .. Len(rxfifo) : rxfifo[i] \in Nat /\ rxfifo[i] <= tag
      /\ txfifo = <<>> => Len(txfifo) = 0
  BY Types DEF Known, CoreInv
<1>3. ~late => ~stale /\ txfifo = <<>> /\ rxfifo = <<>> /\ LastByte
  BY <1>1 DEF EndInv, Ended
<1>4. Written' = 0 /\ pc' = "enable"
  <2>1. Segments(c)[1].restart = FALSE
    BY SegmentsAre
  <2>2. Written' = 0
    BY <1>1, WrittenNone
  <2> QED
    BY <1>1, <2>1, <2>2 DEF StartPc
<1>5. Arrived(0)'
  <2>1. \A i \in 1 .. Len(rxfifo') : rxfifo'[i] # tag'
    BY <1>1, <1>2
  <2>2. ~late' => rxfifo' = <<>> /\ ~stale'
    BY <1>1, <1>3
  <2>3. rxfifo' \in Seq(Nat) /\ got' = 0
    BY <1>1, <1>2
  <2> QED
    BY <2>1, <2>2, <2>3, ArrivedNone
<1>6. tag' \notin done' /\ cur'.tag # tag' /\ \A i \in 1 .. Len(txfifo') : txfifo'[i].tag # tag'
  <2>1. tag + 1 \notin 0 .. tag
    BY <1>2
  <2>2. tag' \notin done'
    BY <1>1, <1>2, <2>1
  <2>3. cur'.tag # tag'
    BY <1>1, <1>2
  <2>4. \A i \in 1 .. Len(txfifo') : txfifo'[i].tag # tag'
    BY <1>1, <1>2
  <2> QED
    BY <2>2, <2>3, <2>4
<1>7. ~late' => Len(txfifo') = 0 /\ LastByte'
  BY <1>1, <1>2, <1>3 DEF LastByte, Active
<1>8. Len(txfifo') \in Nat
  BY <1>1, <1>2
<1> QED
  BY <1>4, <1>5, <1>6, <1>7, <1>8, PlaceBegins

LEMMA PlaceRetry ==
  ASSUME Known, EndInv, ~cut, Retry
  PROVE  Position' /\ Written' = 0 /\ pc' = "enable"
<1>1. /\ pc = "retry" /\ status \in Mendable
      /\ seg' = 1 /\ got' = 0 /\ left' = Segments(call)[1].size + 1
      /\ pc' = StartPc(Segments(call)[1])
      /\ UNCHANGED <<fsm, txfifo, rxfifo, cur, done, late, stale, tag, call>>
  BY DEF Retry, hw, ghost
<1>2. call \in Calls
  BY <1>1 DEF Known, CallInv
<1>3. Flush
  BY <1>1 DEF Known, StatusInv, Mendable
<1>4. /\ txfifo = <<>> /\ Len(txfifo) = 0 /\ ~Active /\ rxfifo = <<>> /\ Len(rxfifo) = 0
      /\ rxfifo \in Seq(Nat)
  BY <1>3, Types DEF Known, CoreInv
<1>5. Written' = 0 /\ pc' = "enable"
  <2>1. Segments(call)[1].restart = FALSE
    BY <1>2, SegmentsAre
  <2>2. Written' = 0
    BY <1>1, <1>2, WrittenNone
  <2> QED
    BY <1>1, <2>1, <2>2 DEF StartPc
<1>6. tag \notin done /\ (~late => ~stale)
  BY <1>1 DEF EndInv, Ended
<1>7. Arrived(0)'
  <2>1. \A i \in 1 .. Len(rxfifo') : rxfifo'[i] # tag'
    BY <1>1, <1>4
  <2>2. rxfifo' \in Seq(Nat) /\ got' = 0 /\ (~late' => rxfifo' = <<>> /\ ~stale')
    BY <1>1, <1>4, <1>6
  <2> QED
    BY <2>1, <2>2, ArrivedNone
<1>8. ~Active' /\ LastByte' /\ Len(txfifo') = 0 /\ tag' \notin done'
  BY <1>1, <1>4, <1>6 DEF Active, LastByte
<1> QED
  BY <1>5, <1>7, <1>8, PlaceBegins

LEMMA PlaceProceed ==
  ASSUME Known, Position, pc = "segment", left = 0, Proceed
  PROVE  Position'
<1>1. /\ seg < Len(Segments(call)) /\ seg' = seg + 1 /\ got' = 0
      /\ left' = Segments(call)[seg + 1].size + 1
      /\ UNCHANGED <<fsm, txfifo, rxfifo, cur, rw, bus, done, late, stale, tag, call, nack, arblost,
                     pending>>
  BY DEF Proceed, hw, ghost
<1>2. pc \in Transferring /\ InTransfer
  BY DEF Transferring, InTransfer
<1>3. call \in Calls /\ seg \in 1 .. Len(Segments(call))
  BY <1>2 DEF Known, CallInv
<1>4. Two(call) /\ seg = 1
  <2>1. CASE ~Two(call)
    <3>1. Len(Segments(call)) = 1
      BY <1>3, <2>1, SegmentsAre
    <3> QED
      BY <1>1, <1>3, <3>1
  <2>2. CASE Two(call)
    <3>1. Len(Segments(call)) = 2
      BY <1>3, <2>2, SegmentsAre
    <3> QED
      BY <1>1, <1>3, <2>2, <3>1
  <2> QED
    BY <2>1, <2>2
<1>5. /\ Written = First(call) /\ Written' = First(call) /\ call.rx \in Nat
  <2>1. /\ First(call) = call.tx + 1 /\ Total(call) = First(call) + call.rx + 1
        /\ call.tx \in Nat /\ call.rx \in Nat
    BY <1>3, <1>4, Lengths
  <2>2. left' = call.rx + 1 /\ seg' = 2
    <3>1. Segments(call)[2].size = call.rx
      BY <1>3, <1>4, SegmentsAre
    <3>2. seg + 1 = 2
      BY <1>4
    <3> QED
      BY <1>1, <3>1, <3>2
  <2>3. Written' = Total(call) - left'
    BY <1>1, <2>2 DEF Written, Total, Two
  <2>4. Written = First(call) - 0
    BY <1>4 DEF Written
  <2> QED
    BY <2>1, <2>2, <2>3, <2>4
<1>6. got = 0
  <2>1. Seg.rw = "W"
    BY <1>3, <1>4, SegmentsAre DEF Seg
  <2> QED
    BY <1>2, <2>1 DEF Known, StatusInv
<1>7. \A n \in Nat : Arrived(n) => Arrived(n)'
  <2>1. got' = got
    BY <1>1, <1>6
  <2> QED
    BY <1>1, <2>1, ArrivedKept
<1>8. Lost => Flush' \/ pending'
  BY <1>1 DEF Lost, Flush
<1>9. Flush' => Flush
  BY <1>1 DEF Flush
<1>10. Written' = Written
  BY <1>5
<1> QED
  BY <1>1, <1>2, <1>7, <1>8, <1>9, <1>10, PlaceKept


(* Steps that move no command of the row. *)
LEMMA PlaceStays ==
  ASSUME Known, PlaceInv, ~cut, InTransfer,
         UNCHANGED <<tag, done, txfifo, call, seg, left, cur, bus, rw, late>>,
         fsm' = fsm \/ (~Active /\ ~Active'), Lost => Flush' \/ pending', Flush' => Flush,
         (\E k \in 0 .. Len(rxfifo) : read_available(k)) \/ UNCHANGED <<rxfifo, got, stale>>
  PROVE  Position'
<1>1. Position
  BY DEF PlaceInv
<1>2. \A n \in Nat : Arrived(n) => Arrived(n)'
  BY ReadArrives
<1>3. Written' = Written
  BY DEF Written
<1> QED
  BY <1>1, <1>2, <1>3, PlaceKept

LEMMA PlaceDriver ==
  ASSUME Known, PlaceInv, EndInv, ~cut, ~cut', Driver
  PROVE  /\ InTransfer' => Position'
         /\ pc' = "enable" => Written' = 0
         /\ pc' = "write" => en' \/ seg' > 1
         /\ pc' = "segment" => left' = 0
<1>1. CASE Enable
  <2>1. /\ pc = "enable" /\ ~en /\ en' = TRUE /\ pc' = "write" /\ Flush' = FALSE
        /\ fsm' = IF fsm = "IDLE" THEN "PRE_START" ELSE fsm
        /\ UNCHANGED <<tag, done, txfifo, rxfifo, got, stale, call, seg, left, cur, bus, rw, late>>
    BY <1>1 DEF Enable, Known, EnableInv, int_clear, ghost, Flush
  <2>2. InTransfer /\ Written = 0
    BY <2>1 DEF InTransfer, Transferring, PlaceInv
  <2>3. ~Lost
    BY <2>2 DEF Lost
  <2>4. fsm' = fsm \/ (~Active /\ ~Active')
    BY <2>1 DEF Active
  <2>5. Position'
    BY <2>1, <2>2, <2>3, <2>4, PlaceStays
  <2> QED
    BY <2>1, <2>5
<1>2. CASE WriteCmd
  <2>1. InTransfer /\ pc' = "check"
    BY <1>2 DEF WriteCmd, TxReady, InTransfer, Transferring
  <2>2. Position'
    BY <1>2, <2>1, PlaceWrite DEF PlaceInv
  <2> QED
    BY <2>1, <2>2
<1>3. CASE WriteTimeout
  <2>1. /\ pc = "write" /\ pc' = "wait" /\ ~(seg > 1) /\ en
        /\ UNCHANGED <<tag, done, txfifo, rxfifo, got, stale, call, seg, left, cur, bus, rw, late,
                       fsm, nack, arblost, pending>>
    BY <1>3 DEF WriteTimeout, PlaceInv, hw, ghost
  <2>2. InTransfer
    BY <2>1 DEF InTransfer, Transferring
  <2>3. (Lost => Flush' \/ pending') /\ (Flush' => Flush)
    BY <2>1 DEF Lost, Flush
  <2>4. Position'
    BY <2>1, <2>2, <2>3, PlaceStays
  <2> QED
    BY <2>1, <2>4
<1>4. CASE Check
  <2>1. /\ pc = "check" /\ pc' = AfterCommand(Checked)
        /\ UNCHANGED <<tag, done, txfifo, call, seg, left, cur, bus, rw, late, en,
                       fsm, nack, arblost, pending>>
        /\ read_available(Len(rxfifo)) \/ UNCHANGED <<rxfifo, got, stale>>
    BY <1>4 DEF Check
  <2>2. InTransfer /\ en
    BY <2>1 DEF InTransfer, Transferring, Known, EnableInv
  <2>3. (Lost => Flush' \/ pending') /\ (Flush' => Flush)
    BY <2>1 DEF Lost, Flush
  <2>4. (\E k \in 0 .. Len(rxfifo) : read_available(k)) \/ UNCHANGED <<rxfifo, got, stale>>
    <3>1. Len(rxfifo) \in 0 .. Len(rxfifo)
      BY Types DEF Known
    <3> QED
      BY <2>1, <3>1
  <2>5. Position'
    BY <2>1, <2>2, <2>3, <2>4, PlaceStays
  <2>6. /\ pc' \in {"write", "wait", "arm", "fetch", "segment"}
        /\ pc' = "segment" => left = 0
    BY <2>1, AfterLast DEF Known
  <2> QED
    BY <2>1, <2>2, <2>5, <2>6
<1>5. CASE Fetch
  <2>1. /\ pc = "fetch" /\ pc' \in {"fetch", "wait"}
        /\ UNCHANGED <<tag, done, txfifo, call, seg, left, cur, bus, rw, late,
                       fsm, nack, arblost, pending>>
        /\ (RxReady /\ read_available(1)) \/ UNCHANGED <<rxfifo, got, stale>>
    BY <1>5 DEF Fetch
  <2>2. InTransfer
    BY <2>1 DEF InTransfer, Transferring
  <2>3. (Lost => Flush' \/ pending') /\ (Flush' => Flush)
    BY <2>1 DEF Lost, Flush
  <2>4. (\E k \in 0 .. Len(rxfifo) : read_available(k)) \/ UNCHANGED <<rxfifo, got, stale>>
    <3>1. RxReady => 1 \in 0 .. Len(rxfifo)
      BY Types DEF Known, RxReady
    <3> QED
      BY <2>1, <3>1
  <2>5. Position'
    BY <2>1, <2>2, <2>3, <2>4, PlaceStays
  <2> QED
    BY <2>1, <2>5
<1>6. CASE Finish \/ Return
  <2>1. pc' \in {"retry", "idle"} /\ pending' = pending /\ ~pending
    BY <1>6 DEF Finish, Return, NextSegment, Known, EnableInv
  <2> QED
    BY <2>1 DEF InTransfer, Transferring
<1>7. CASE Retry
  BY <1>7, PlaceRetry
<1>8. CASE Proceed
  <2>1. /\ seg < Len(Segments(call)) /\ seg' = seg + 1 /\ pc' = StartPc(Segments(call)[seg + 1])
        /\ pc \in {"segment", "retry"} /\ en' = en /\ pending' = pending /\ ~pending
    BY <1>8 DEF Proceed, NextSegment, hw, Known, EnableInv
  <2>2. pc \in Transferring
    BY <2>1 DEF Transferring
  <2>3. call \in Calls /\ seg \in 1 .. Len(Segments(call))
    BY <2>1, <2>2 DEF Known, CallInv
  <2>4. Two(call) /\ seg = 1
    <3>1. CASE ~Two(call)
      <4>1. Len(Segments(call)) = 1
        BY <2>3, <3>1, SegmentsAre
      <4> QED
        BY <2>1, <2>3, <4>1
    <3>2. CASE Two(call)
      <4>1. Len(Segments(call)) = 2
        BY <2>3, <3>2, SegmentsAre
      <4> QED
        BY <2>1, <2>3, <3>2, <4>1
    <3> QED
      BY <3>1, <3>2
  <2>5. seg' = 2 /\ pc' = "write"
    <3>1. seg + 1 = 2
      BY <2>4
    <3>2. Segments(call)[2].restart = TRUE
      BY <2>3, <2>4, SegmentsAre
    <3> QED
      BY <2>1, <3>1, <3>2 DEF StartPc
  <2>6. CASE pc = "segment"
    <3>1. InTransfer /\ left = 0
      BY <2>6 DEF InTransfer, Transferring, PlaceInv
    <3>2. Position'
      BY <1>8, <2>6, <3>1, PlaceProceed DEF PlaceInv
    <3> QED
      BY <2>5, <3>2
  <2>7. CASE pc = "retry"
    <3>1. ~en'
      BY <2>1, <2>7 DEF Known, EnableInv
    <3>2. ~InTransfer'
      BY <2>1, <2>5, <3>1 DEF InTransfer
    <3> QED
      BY <2>5, <3>2
  <2> QED
    BY <2>1, <2>6, <2>7
<1>9. CASE Arm
  <2>1. /\ pc = "arm" /\ pc' = "idle" /\ pending' /\ Flush' = FALSE
        /\ UNCHANGED <<tag, done, txfifo, rxfifo, got, stale, call, seg, left, cur, bus, rw, late,
                       fsm>>
    BY <1>9 DEF Arm, int_clear, ghost, Flush
  <2>2. InTransfer
    BY <2>1 DEF InTransfer, Transferring
  <2>3. Position'
    BY <2>1, <2>2, PlaceStays
  <2> QED
    BY <2>1, <2>3
<1>10. CASE TransactionStatus
  <2>1. /\ pending /\ pc = "idle" /\ pc' \in {"idle", "abort"}
        /\ pc' = "abort" => pending' = pending
        /\ pc' = "idle" => ~pending'
        /\ UNCHANGED <<tag, done, txfifo, rxfifo, got, stale, call, seg, left, cur, bus, rw, late,
                       fsm, nack, arblost>>
    BY <1>10 DEF TransactionStatus, ghost
  <2>2. InTransfer
    BY <2>1 DEF InTransfer
  <2>3. CASE pc' = "abort"
    <3>1. (Lost => Flush' \/ pending') /\ (Flush' => Flush)
      BY <2>1, <2>3 DEF Lost, Flush
    <3>2. Position'
      BY <2>1, <2>2, <3>1, PlaceStays
    <3> QED
      BY <2>3, <3>2
  <2>4. CASE pc' = "idle"
    BY <2>1, <2>4 DEF InTransfer, Transferring
  <2> QED
    BY <2>1, <2>3, <2>4
<1>11. CASE Abort
  <2>1. pc' = "idle" /\ ~pending'
    BY <1>11 DEF Abort
  <2> QED
    BY <2>1 DEF InTransfer, Transferring
<1> QED
  BY <1>1, <1>2, <1>3, <1>4, <1>5, <1>6, <1>7, <1>8, <1>9, <1>10, <1>11 DEF Driver


LEMMA PlaceCallback ==
  ASSUME Known, PlaceInv, ~cut, Callback
  PROVE  (InTransfer /\ Position' /\ UNCHANGED <<pc, en, seg, left, call, pending>>) \/ IsrEnd
<1>1. CASE Isr
  <2> DEFINE n == IF irq_busy = 2 THEN IF Len(rxfifo) < irq_size THEN Len(rxfifo) ELSE irq_size
                  ELSE 0
  <2>1. /\ Irq /\ read_available(n) /\ Flush' = FALSE
        /\ UNCHANGED <<tag, done, txfifo, call, seg, left, cur, bus, rw, late, fsm, pc, en,
                       pending>>
    BY <1>1 DEF Isr, int_clear, env, Flush
  <2>2. pending
    BY <2>1 DEF Irq, Known, EnableInv
  <2>3. n \in 0 .. Len(rxfifo)
    BY Types DEF Known, IrqInv
  <2> HIDE DEF n
  <2>4. InTransfer
    BY <2>2 DEF InTransfer
  <2>5. Position'
    BY <2>1, <2>2, <2>3, <2>4, PlaceStays
  <2> QED
    BY <2>1, <2>4, <2>5
<1> QED
  BY <1>1 DEF Callback

LEMMA PlaceIsrEnd ==
  ASSUME Known, PlaceInv, ~cut, IsrEnd
  PROVE  /\ pending /\ pc \in {"idle", "abort"} /\ Position'
         /\ UNCHANGED <<pc, seg, left, call, pending>>
<1>1. /\ isr = "wait" /\ fsm' = IF fsm = "PRE_IDLE" THEN "IDLE" ELSE fsm
      /\ UNCHANGED <<tag, done, txfifo, rxfifo, got, stale, call, seg, left, cur, bus, rw, late, pc,
                     pending, nack, arblost>>
  BY DEF IsrEnd, disable, sw, ghost
<1>2. pending /\ pc \in {"idle", "abort"}
  BY <1>1 DEF Known, EnableInv
<1>3. InTransfer
  BY <1>2 DEF InTransfer
<1>4. fsm' = fsm \/ (~Active /\ ~Active')
  BY <1>1 DEF Active
<1>5. Flush' => Flush
  BY <1>1 DEF Flush
<1>6. Position'
  BY <1>1, <1>2, <1>3, <1>4, <1>5, PlaceStays
<1> QED
  BY <1>1, <1>2, <1>6

LEMMA PlaceInit == Init => PlaceInv
<1> SUFFICES ASSUME Init PROVE PlaceInv
  OBVIOUS
<1>1. pc = "idle" /\ pending = FALSE
  BY DEF Init
<1> QED
  BY <1>1 DEF PlaceInv, InTransfer, Transferring

LEMMA CutStays ==
  ASSUME [Next]_vars, cut
  PROVE  cut'
<1>1. CASE cut' = cut
  BY <1>1
<1>2. CASE WriteTimeout
  BY <1>2 DEF WriteTimeout
<1> QED
  BY <1>1, <1>2 DEF Next, Call, Driver, Callback, Core, Enable, WriteCmd, Check, Fetch, Finish,
     Retry, Proceed, Return, Arm, TransactionStatus, Abort, Isr, IsrEnd, CoreStart, CorePop,
     CoreAddr, CoreTx, CoreRx, CoreStop, Jam, Unjam, env, vars

LEMMA PlaceStep == Known /\ PlaceInv /\ EndInv /\ [Next]_vars => PlaceInv'
<1> SUFFICES ASSUME Known, PlaceInv, EndInv, [Next]_vars, ~cut'
             PROVE  /\ InTransfer' => Position'
                    /\ pc' = "enable" => Written' = 0
                    /\ pc' = "write" => en' \/ seg' > 1
                    /\ pc' = "segment" => left' = 0
  BY DEF PlaceInv
<1>1. ~cut
  BY CutStays
<1>2. ASSUME NEW c \in Calls, Call(c)
      PROVE  Position' /\ Written' = 0 /\ pc' = "enable"
  BY <1>1, <1>2, PlaceCall
<1>3. CASE Driver
  BY <1>1, <1>3, PlaceDriver
<1>4. ASSUME InTransfer => Position', UNCHANGED <<pc, en, seg, left, call, pending>>
      PROVE  /\ InTransfer' => Position'
             /\ pc' = "enable" => Written' = 0
             /\ pc' = "write" => en' \/ seg' > 1
             /\ pc' = "segment" => left' = 0
  <2>1. Written' = Written /\ (InTransfer' <=> InTransfer)
    BY <1>4 DEF Written, InTransfer
  <2> QED
    BY <1>1, <1>4, <2>1 DEF PlaceInv
<1>5. CASE Callback
  <2>1. CASE IsrEnd
    BY <1>1, <2>1, PlaceIsrEnd
  <2>2. CASE ~IsrEnd
    <3>1. InTransfer /\ Position' /\ UNCHANGED <<pc, en, seg, left, call, pending>>
      BY <1>1, <1>5, <2>2, PlaceCallback
    <3> QED
      BY <1>4, <3>1
  <2> QED
    BY <2>1, <2>2
<1>6. CASE Core \/ Jam \/ Unjam
  <2>1. UNCHANGED <<pc, en, seg, left, call, pending>>
    BY <1>6 DEF Core, CoreStart, CorePop, CoreAddr, CoreTx, CoreRx, CoreStop, Jam, Unjam, sw, hw
  <2>2. InTransfer => Position'
    BY <1>1, <1>6, PlaceCore DEF PlaceInv
  <2> QED
    BY <1>4, <2>1, <2>2
<1>7. CASE UNCHANGED vars
  <2>1. /\ UNCHANGED <<pc, en, seg, left, call, pending>>
        /\ UNCHANGED <<tag, done, txfifo, rxfifo, got, stale, cur, bus, rw, late, fsm, nack,
                       arblost>>
    BY <1>7 DEF vars, hw, sw, ghost
  <2>2. (Lost => Flush' \/ pending') /\ (Flush' => Flush)
    BY <2>1 DEF Lost, Flush
  <2>3. InTransfer => Position'
    BY <1>1, <2>1, <2>2, PlaceStays
  <2> QED
    BY <1>4, <2>1, <2>3
<1> QED
  BY <1>2, <1>3, <1>5, <1>6, <1>7 DEF Next

-----------------------------------------------------------------------------
(* What a transfer that ends has counted. *)
LEMMA Counted ==
  ASSUME Known, InTransfer, Position
  PROVE  /\ call.rx \in Nat /\ got \in Nat /\ Len(rxfifo) \in Nat
         /\ ~stale => got <= call.rx
         /\ ~late => ~stale /\ Len(rxfifo) + got <= call.rx
         /\ ~Through /\ ~stale /\ call.rx > 0 => got < call.rx
<1>1. /\ call \in Calls /\ call.rx \in Nat /\ got \in Nat /\ rxfifo \in Seq(Nat)
      /\ Len(rxfifo) \in Nat /\ Total(call) \in Nat
  BY TransferFacts, Lengths, Types DEF Known, StatusInv
<1> DEFINE m == IF call.rx = 0 THEN 0 ELSE call.rx - 1
<1>2. ASSUME Waiting \/ Running \/ Lost
      PROVE  \E n \in Nat : n <= m /\ Arrived(n)
  <2>1. CASE Waiting
    <3>1. Arrived(0)
      BY <2>1 DEF Waiting
    <3>2. 0 <= m
      BY <1>1
    <3> QED
      BY <3>1, <3>2
  <2>2. CASE Lost
    <3>1. Arrived(m)
      BY <2>2 DEF Lost
    <3>2. m \in Nat /\ m <= m
      BY <1>1
    <3> QED
      BY <3>1, <3>2
  <2>3. CASE Running
    <3>1. /\ Place \in 1 .. Total(call) /\ Completed \in 0 .. Total(call)
          /\ Arrived(ReadsTo(call, Completed))
          /\ fsm = "HOLD" => Place # Total(call)
      <4>1. fsm = "HOLD" => cur.stop = FALSE
        BY DEF Known, CommandTypes
      <4>2. /\ Place \in 1 .. Total(call) /\ Completed \in 0 .. Total(call)
            /\ cur.stop <=> Place = Total(call)
        BY <2>3, PlaceIs
      <4>3. Arrived(ReadsTo(call, Completed))
        BY <2>3 DEF Running
      <4> QED
        BY <4>1, <4>2, <4>3
    <3>2. Completed + 1 \in 1 .. Total(call)
      <4>1. CASE fsm = "HOLD"
        BY <1>1, <3>1, <4>1 DEF Completed
      <4>2. CASE fsm # "HOLD"
        BY <1>1, <3>1, <4>2 DEF Completed
      <4> QED
        BY <4>1, <4>2
    <3>3. /\ ReadsTo(call, (Completed + 1) - 1) \in Nat
          /\ ReadsTo(call, (Completed + 1) - 1) <= m
      BY <1>1, <3>2, RowStep
    <3>4. (Completed + 1) - 1 = Completed
      BY <3>1
    <3>5. ReadsTo(call, Completed) \in Nat /\ ReadsTo(call, Completed) <= m
      BY <3>3, <3>4
    <3> HIDE DEF m
    <3> QED
      BY <3>1, <3>5
  <2> QED
    BY <1>2, <2>1, <2>2, <2>3
<1>3. CASE Waiting \/ Running \/ Lost
  <2>1. PICK n \in Nat : n <= m /\ Arrived(n)
    BY <1>2, <1>3
  <2>2. /\ ~stale => got <= n
        /\ ~late => ~stale /\ Len(rxfifo) + got <= n
    BY <1>1, <2>1, ArrivedIs
  <2>3. n <= call.rx /\ (call.rx > 0 => n < call.rx)
    BY <1>1, <2>1
  <2>4. ~stale => got <= call.rx /\ (call.rx > 0 => got < call.rx)
    BY <1>1, <2>2, <2>3
  <2>5. ~late => ~stale /\ Len(rxfifo) + got <= call.rx
    BY <1>1, <2>2, <2>3
  <2> QED
    BY <1>1, <2>4, <2>5
<1>4. CASE Through
  <2>1. Arrived(call.rx)
    BY <1>4 DEF Through
  <2>2. /\ ~stale => got <= call.rx
        /\ ~late => ~stale /\ Len(rxfifo) + got <= call.rx
    BY <1>1, <2>1, ArrivedIs
  <2> QED
    BY <1>1, <1>4, <2>2
<1> QED
  BY <1>3, <1>4 DEF Position

(* The end of a polled transfer, or of one that failed. *)
LEMMA EndFinish ==
  ASSUME Known, PlaceInv, ~cut, Finish
  PROVE  EndInv'
<1>1. /\ pc = "wait" /\ pc' = "retry" /\ Quiet
      /\ status' = IF nack /\ ~call.irq THEN "NACK_ERR" ELSE IF Busy THEN "TIMEOUT" ELSE status
      /\ fsm' = IF fsm = "PRE_IDLE" THEN "IDLE" ELSE fsm
      /\ late' = (late \/ Busy \/ status = "TIMEOUT")
      /\ UNCHANGED <<nack, arblost, txfifo, rxfifo, cur, call, tag, got, done, stale>>
  BY DEF Finish, disable
<1>2. pc \in Transferring /\ InTransfer /\ Position /\ ~pending
  BY <1>1 DEF Transferring, InTransfer, PlaceInv, Known, EnableInv
<1>3. \/ status = "TIMEOUT"
      \/ status \in {"NACK_ERR", "ARB_LOST_ERR"} /\ Flush
      \/ status = "SUCCESS" /\ AtLast /\ ~call.irq /\ (call.rx > 0 => got >= call.rx)
  BY <1>1 DEF Known, StatusInv
<1>4. /\ call.rx \in Nat /\ got \in Nat /\ Len(rxfifo) \in Nat
      /\ ~stale => got <= call.rx
      /\ ~late => ~stale /\ Len(rxfifo) + got <= call.rx
      /\ ~Through /\ ~stale /\ call.rx > 0 => got < call.rx
  BY <1>2, Counted
<1>5. /\ Flush => txfifo = <<>> /\ ~Active /\ rxfifo = <<>>
      /\ txfifo = <<>> <=> Len(txfifo) = 0
      /\ rxfifo = <<>> <=> Len(rxfifo) = 0
      /\ Len(txfifo) \in Nat
  BY Types DEF Known, CoreInv
<1>6. ~Busy => fsm \in {"IDLE", "PRE_IDLE"} /\ txfifo = <<>> /\ ~Active /\ ~Active'
  BY <1>1 DEF Busy, Known, CoreInv, Active
<1>7. AtLast => Written = Total(call) /\ Total(call) \in Nat /\ Total(call) >= 2
  BY <1>2, WrittenIs, TransferFacts DEF Known
<1>8. ASSUME ~Busy, status = "SUCCESS"
      PROVE  Through \/ (Lost /\ Flush)
  <2>1. Written >= 2 /\ Written \in Nat
    BY <1>3, <1>7, <1>8
  <2>2. ~Running
    BY <1>6, <1>8 DEF Running
  <2>3. ~Waiting
    <3>1. Len(txfifo) = 0
      BY <1>5, <1>6, <1>8
    <3> QED
      BY <2>1, <3>1 DEF Waiting
  <2>4. Lost => Flush
    BY <1>2 DEF Lost
  <2> QED
    BY <1>2, <2>2, <2>3, <2>4 DEF Position
<1>9. ASSUME status' \in Mendable
      PROVE  tag \notin done
  <2>1. Flush
    BY <1>1, <1>3, <1>9 DEF Mendable, Flush
  <2>2. ~Through /\ ~Running
    BY <1>5, <2>1 DEF Through, Running
  <2> QED
    BY <1>2, <2>2 DEF Position, Waiting, Lost
<1>10. ASSUME ~late'
       PROVE  ~stale /\ txfifo = <<>> /\ rxfifo = <<>> /\ LastByte'
  <2>1. ~late /\ ~Busy /\ status # "TIMEOUT"
    BY <1>1, <1>10
  <2>2. ~stale /\ txfifo = <<>> /\ LastByte'
    BY <1>4, <1>6, <2>1 DEF LastByte
  <2>3. CASE Flush
    BY <1>5, <2>2, <2>3
  <2>4. CASE ~Flush
    <3>1. status = "SUCCESS" /\ (call.rx > 0 => got >= call.rx)
      BY <1>3, <2>1, <2>4
    <3>2. Len(rxfifo) + got <= call.rx
      BY <1>4, <2>1
    <3>3. Len(rxfifo) = 0
      BY <1>4, <3>1, <3>2
    <3> QED
      BY <1>5, <2>2, <3>3
  <2> QED
    BY <2>3, <2>4
<1>11. ASSUME status' = "SUCCESS"
       PROVE  /\ \/ tag \in done
                 \/ arblost /\ (call.rx = 0 \/ late')
              /\ ~late' => got = call.rx
  <2>1. status = "SUCCESS" /\ ~Busy /\ ~(nack /\ ~call.irq)
    BY <1>1, <1>11
  <2>2. ~call.irq /\ ~nack /\ (call.rx > 0 => got >= call.rx)
    BY <1>3, <2>1
  <2>3. Through \/ (Lost /\ Flush)
    BY <1>8, <2>1
  <2>4. late => late'
    BY <1>1
  <2>5. ~late => got <= call.rx
    BY <1>4
  <2>6. ~late => got = call.rx
    BY <1>4, <2>2, <2>5
  <2>7. CASE Through
    BY <2>4, <2>6, <2>7 DEF Through
  <2>8. CASE ~Through /\ Lost /\ Flush
    <3>1. arblost
      BY <2>2, <2>8 DEF Flush
    <3>2. call.rx > 0 => late
      <4>1. call.rx > 0 /\ ~late => got < call.rx
        BY <1>4, <2>8
      <4> QED
        BY <1>4, <2>2, <4>1
    <3>3. call.rx = 0 \/ late'
      BY <1>4, <2>4, <3>2
    <3> QED
      BY <2>4, <2>6, <3>1, <3>3
  <2> QED
    BY <2>3, <2>7, <2>8
<1>12. ~stale' <=> ~stale
  BY <1>1
<1> QED
  BY <1>1, <1>9, <1>10, <1>11 DEF EndInv


(* The end of a transfer by interrupts. *)
LEMMA EndStatus ==
  ASSUME Known, PlaceInv, ~cut, TransactionStatus, ~pending'
  PROVE  EndInv'
<1>1. /\ pc = "idle" /\ pending /\ pc' = "idle" /\ irq_busy = 0
      /\ UNCHANGED <<fsm, nack, arblost, txfifo, rxfifo, cur, call, tag, got, done, stale, late>>
  <2>1. pc = "idle" /\ pending
    BY DEF TransactionStatus
  <2>2. (nack \/ irq_busy = 0) /\ ~(nack /\ irq_busy # 0) /\ pc' = pc
    BY <2>1 DEF TransactionStatus
  <2>3. UNCHANGED <<fsm, nack, arblost, txfifo, rxfifo, cur, call, tag, got, done, stale, late>>
    BY DEF TransactionStatus, ghost
  <2> QED
    BY <2>1, <2>2, <2>3
<1>2. InTransfer /\ Position
  BY <1>1 DEF InTransfer, PlaceInv
<1>3. /\ call \in Calls /\ Written = Total(call) /\ call.irq
      /\ Total(call) \in Nat /\ Total(call) >= 2
  BY <1>1, <1>2, PendingFacts, TransferFacts DEF Known
<1>4. /\ call.rx \in Nat /\ got \in Nat /\ Len(rxfifo) \in Nat
      /\ ~stale => got <= call.rx
      /\ ~late => ~stale /\ Len(rxfifo) + got <= call.rx
      /\ ~Through /\ ~stale /\ call.rx > 0 => got < call.rx
  BY <1>2, Counted
<1>5. /\ call.rx > 0 => got = call.rx
      /\ call.rx = 0 => txfifo = <<>>
  BY <1>1 DEF Known, IrqInv
<1>6. /\ txfifo = <<>> <=> Len(txfifo) = 0
      /\ rxfifo = <<>> <=> Len(rxfifo) = 0
      /\ Len(txfifo) \in Nat
  BY Types DEF Known
<1>7. call.rx > 0 /\ ~stale => Through
  BY <1>4, <1>5
<1>8. ASSUME ~late
      PROVE  ~stale /\ txfifo = <<>> /\ rxfifo = <<>> /\ got = call.rx
  <2>1. ~stale /\ Len(rxfifo) + got <= call.rx
    BY <1>4, <1>8
  <2>2. got = call.rx /\ Len(rxfifo) = 0
    BY <1>4, <1>5, <2>1
  <2>3. txfifo = <<>>
    <3>1. CASE call.rx > 0
      BY <1>7, <2>1, <3>1 DEF Through
    <3>2. CASE call.rx = 0
      BY <1>5, <3>2
    <3> QED
      BY <1>4, <3>1, <3>2
  <2> QED
    BY <1>6, <2>1, <2>2, <2>3
<1>9. ASSUME ~late
      PROVE  LastByte
  <2>1. CASE Waiting
    BY <1>9, <2>1 DEF Waiting
  <2>2. CASE Through \/ Lost
    BY <2>2 DEF Through, Lost, LastByte
  <2>3. CASE Running
    <3>1. /\ Place \in 1 .. Total(call)
          /\ cur.stop <=> Place = Total(call)
          /\ cur.rw = IF call.rx > 0 /\ (call.tx = 0 \/ Place > call.tx + 1) THEN "R" ELSE "W"
      BY <1>2, <2>3, PlaceIs
    <3>2. Len(txfifo) = 0
      BY <1>6, <1>8, <1>9
    <3>3. Place = Total(call)
      BY <1>3, <3>2 DEF Place
    <3>4. cur.stop /\ fsm # "HOLD"
      BY <3>1, <3>3 DEF Known, CommandTypes
    <3>5. ~IsAddress(call, Place)
      BY <1>3, <3>1, <3>3, RowStep
    <3>6. call.rx = 0
      <4>1. call.rx > 0 => Through
        BY <1>7, <1>8, <1>9
      <4>2. ~Through
        BY <2>3 DEF Through, Running
      <4> QED
        BY <1>4, <4>1, <4>2
    <3>7. cur.rw = "W"
      BY <3>1, <3>6
    <3>8. fsm = "TX_BYTE"
      BY <2>3, <3>4, <3>5, <3>7 DEF Running, Active
    <3>9. cur.stop = TRUE
      BY <3>4, Types DEF Known
    <3> QED
      BY <3>8, <3>9 DEF LastByte
  <2> QED
    BY <1>2, <2>1, <2>2, <2>3 DEF Position
<1>10. tag \in done \/ (call.irq /\ (call.rx = 0 \/ stale))
  <2>1. CASE call.rx = 0
    BY <1>3, <2>1
  <2>2. CASE call.rx > 0 /\ ~stale
    BY <1>7, <2>2 DEF Through
  <2>3. CASE stale
    BY <1>3, <2>3
  <2> QED
    BY <1>4, <2>1, <2>2, <2>3
<1>11. LastByte' <=> LastByte
  BY <1>1 DEF LastByte, Active
<1> QED
  BY <1>1, <1>8, <1>9, <1>10, <1>11 DEF EndInv

LEMMA EndAbort ==
  ASSUME Known, PlaceInv, ~cut, Abort
  PROVE  EndInv'
<1>1. /\ pc = "abort" /\ pc' = "idle" /\ rxfifo' = <<>>
      /\ status' = IF Busy THEN "TIMEOUT" ELSE status
      /\ fsm' = IF fsm = "PRE_IDLE" THEN "IDLE" ELSE fsm
      /\ late' = (late \/ Busy) /\ txfifo' = txfifo /\ stale' = stale
  BY DEF Abort, disable
<1>2. status = "NACK_ERR" /\ pending
  BY <1>1 DEF Known, StatusInv, EnableInv
<1>3. status' # "SUCCESS"
  BY <1>1, <1>2
<1>4. InTransfer /\ Position
  BY <1>2 DEF InTransfer, PlaceInv
<1>5. ASSUME ~late'
      PROVE  ~stale' /\ txfifo' = <<>> /\ LastByte'
  <2>1. ~late /\ ~Busy
    BY <1>1, <1>5
  <2>2. ~stale
    BY <1>4, <2>1, Counted
  <2>3. fsm \in {"IDLE", "PRE_IDLE"}
    BY <2>1 DEF Busy
  <2>4. txfifo = <<>> /\ ~Active'
    BY <1>1, <2>3 DEF Known, CoreInv, Active
  <2> QED
    BY <1>1, <2>2, <2>4 DEF LastByte
<1> QED
  BY <1>1, <1>3, <1>5 DEF EndInv

(* Between calls, what is left of a call goes on. *)
LEMMA EndCore ==
  ASSUME Known, EndInv, ~cut, Ended, Core \/ Jam \/ Unjam
  PROVE  EndInv'
<1>1. /\ UNCHANGED <<pc, pending, status, call, tag, got, stale, late>>
      /\ done \subseteq done' /\ (arblost => arblost')
  BY DEF Core, CoreStart, CorePop, CoreAddr, CoreTx, CoreRx, CoreStop, Jam, Unjam, sw, hw, ghost,
     Count, Refuse, Lose, Acknowledge
<1>2. Ended' <=> Ended
  BY <1>1 DEF Ended
<1>3. ASSUME pc = "retry", status \in Mendable
      PROVE  tag \notin done'
  <2>1. Flush
    BY <1>3 DEF Known, StatusInv, Mendable
  <2>2. ~Active
    BY <2>1, Types DEF Known
  <2>3. done' = done
    BY <2>2 DEF Active, Core, CoreStart, CorePop, CoreAddr, CoreTx, CoreRx, CoreStop, Jam, Unjam,
       ghost
  <2> QED
    BY <1>3, <2>3 DEF EndInv
<1>4. ASSUME ~late
      PROVE  txfifo' = <<>> /\ rxfifo' = <<>> /\ LastByte'
  <2>1. txfifo = <<>> /\ rxfifo = <<>> /\ (Active => fsm = "TX_BYTE" /\ cur.stop = TRUE)
    BY <1>4 DEF EndInv, LastByte
  <2>2. CASE CoreStart \/ CorePop \/ CoreAddr \/ CoreRx
    BY <2>1, <2>2 DEF CoreStart, CorePop, CoreAddr, CoreRx, Active
  <2>3. CASE CoreTx
    <3>1. CASE Acknowledge /\ rxfifo' = rxfifo
      <4>1. fsm' = "GEN_STOP" /\ txfifo' = txfifo
        BY <2>1, <2>3, <3>1 DEF Acknowledge, CoreTx, Active
      <4> QED
        BY <2>1, <3>1, <4>1 DEF LastByte, Active
    <3>2. CASE Refuse \/ Lose
      BY <3>2 DEF Refuse, Lose, Aborted, Rest, LastByte, Active
    <3> QED
      BY <2>3, <3>1, <3>2 DEF CoreTx
  <2>4. CASE CoreStop \/ Jam \/ Unjam
    <3>1. UNCHANGED <<txfifo, rxfifo, cur>> /\ (fsm' = fsm \/ ~Active')
      BY <2>1, <2>4 DEF CoreStop, Jam, Unjam, hw, Rest, Active
    <3> QED
      BY <2>1, <3>1 DEF LastByte, Active
  <2> QED
    BY <2>2, <2>3, <2>4 DEF Core
<1> QED
  BY <1>1, <1>2, <1>3, <1>4 DEF EndInv

LEMMA EndInit == Init => EndInv
  BY DEF Init, EndInv, Ended, LastByte, Active

LEMMA EndStep == Known /\ PlaceInv /\ EndInv /\ [Next]_vars => EndInv'
<1> SUFFICES ASSUME Known, PlaceInv, EndInv, [Next]_vars, ~cut'
             PROVE  EndInv'
  BY DEF EndInv
<1>1. ~cut
  BY CutStays
<1>2. ASSUME ~Ended', pc' # "retry"
      PROVE  EndInv'
  BY <1>2 DEF EndInv
<1>3. ASSUME pc' \notin {"idle", "retry"} \/ pending', pc' # "retry"
      PROVE  EndInv'
  BY <1>2, <1>3 DEF Ended
<1>4. ASSUME NEW c \in Calls, Call(c)
      PROVE  EndInv'
  <2>1. pc' = "enable"
    BY <1>1, <1>4, PlaceCall
  <2> QED
    BY <1>3, <2>1
<1>5. CASE Driver
  <2>1. CASE Enable \/ WriteCmd \/ WriteTimeout \/ Fetch \/ Arm
    <3>1. pc' \notin {"idle", "retry"} \/ (pending' /\ pc' # "retry")
      BY <2>1 DEF Enable, WriteCmd, WriteTimeout, Fetch, Arm, Known, EnableInv
    <3> QED
      BY <1>3, <3>1
  <2>2. CASE Check
    <3>1. pc' \in {"write", "wait", "arm", "fetch", "segment"}
      BY <2>2, AfterLast DEF Known, Check
    <3> QED
      BY <1>3, <3>1
  <2>3. CASE Finish
    BY <1>1, <2>3, EndFinish
  <2>4. CASE Retry
    <3>1. pc' = "enable"
      BY <1>1, <2>4, PlaceRetry
    <3> QED
      BY <1>3, <3>1
  <2>5. CASE Proceed
    BY <1>3, <2>5 DEF Proceed, StartPc
  <2>6. CASE Return
    <3>1. /\ pc' = "idle" /\ pc \in {"retry", "segment"}
          /\ pc = "segment" => seg = Len(Segments(call))
          /\ UNCHANGED <<arblost, txfifo, rxfifo, fsm, cur, call, tag, got, status, done, stale,
                         late, pending>>
      BY <2>6 DEF Return, NextSegment, hw, ghost
    <3>2. pc = "retry"
      <4>1. ASSUME pc = "segment"
            PROVE  FALSE
        <5>1. pc \in Transferring
          BY <4>1 DEF Transferring
        <5>2. Len(Segments(call)) \in {1, 2} /\ seg < Len(Segments(call))
          BY <4>1, <5>1, SegFacts DEF Known, CallInv
        <5> QED
          BY <3>1, <4>1, <5>2
      <4> QED
        BY <3>1, <4>1
    <3>3. LastByte' <=> LastByte
      BY <3>1 DEF LastByte, Active
    <3> QED
      BY <1>1, <3>1, <3>2, <3>3 DEF EndInv, Ended
  <2>7. CASE TransactionStatus
    <3>1. CASE ~pending'
      BY <1>1, <2>7, <3>1, EndStatus
    <3>2. CASE pending'
      <4>1. pc' # "retry"
        BY <2>7 DEF TransactionStatus
      <4> QED
        BY <1>3, <3>2, <4>1
    <3> QED
      BY <3>1, <3>2
  <2>8. CASE Abort
    BY <1>1, <2>8, EndAbort
  <2> QED
    BY <1>5, <2>1, <2>2, <2>3, <2>4, <2>5, <2>6, <2>7, <2>8 DEF Driver
<1>6. CASE Callback
  <2>1. CASE IsrEnd
    <3>1. pending' /\ pc' # "retry"
      BY <1>1, <2>1, PlaceIsrEnd
    <3> QED
      BY <1>3, <3>1
  <2>2. CASE Isr
    <3>1. pending /\ pending' = pending /\ pc' = pc
      BY <2>2 DEF Isr, Irq, Known, EnableInv
    <3>2. pc' # "retry"
      BY <3>1 DEF Known, EnableInv
    <3> QED
      BY <1>3, <3>1, <3>2
  <2> QED
    BY <1>6, <2>1, <2>2 DEF Callback
<1>7. CASE Core \/ Jam \/ Unjam
  <2>1. CASE Ended
    BY <1>1, <1>7, <2>1, EndCore
  <2>2. CASE ~Ended
    <3>1. pc' = pc /\ pending' = pending
      BY <1>7 DEF Core, CoreStart, CorePop, CoreAddr, CoreTx, CoreRx, CoreStop, Jam, Unjam, sw
    <3> QED
      BY <1>2, <2>2, <3>1 DEF Ended
  <2> QED
    BY <2>1, <2>2
<1>8. CASE UNCHANGED vars
  <2>1. UNCHANGED <<arblost, txfifo, rxfifo, fsm, cur, call, tag, got, status, done, stale, late,
                    pending, pc, cut>>
    BY <1>8 DEF vars, hw, sw, ghost, env
  <2>2. (LastByte' <=> LastByte) /\ (Ended' <=> Ended)
    BY <2>1 DEF LastByte, Active, Ended
  <2> QED
    BY <2>1, <2>2 DEF EndInv
<1> QED
  BY <1>4, <1>5, <1>6, <1>7, <1>8 DEF Next

-----------------------------------------------------------------------------
(* Together. *)
Counting == Known /\ PlaceInv /\ EndInv

LEMMA CountingInvariant == Spec => []Counting
<1>1. Init => Counting
  BY CallInit, EnableInit, StreamInit, CoreInit, StatusInit, IrqInit, PlaceInit, EndInit
  DEF Counting, Known
<1>2. Counting /\ [Next]_vars => Counting'
  <2> SUFFICES ASSUME Counting, [Next]_vars PROVE Counting'
    OBVIOUS
  <2>1. CallInv' /\ EnableInv'
    BY CallStep, EnableStep DEF Counting, Known
  <2>2. CommandTypes' /\ StreamInv'
    BY StreamStep DEF Counting, Known
  <2>3. CoreInv' /\ StatusInv' /\ IrqInv'
    BY CoreStep, StatusStep, IrqStep DEF Counting, Known
  <2>4. PlaceInv' /\ EndInv'
    BY PlaceStep, EndStep DEF Counting
  <2> QED
    BY <2>1, <2>2, <2>3, <2>4 DEF Counting, Known
<1> QED
  BY <1>1, <1>2, PTL DEF Spec

(***************************************************************************)
(* Every call, on every depth of the FIFOs, whatever the slave and the bus *)
(* do: a transfer that reports SUCCESS was acknowledged to its last byte   *)
(* by one transaction of its own, but for the three ways out that          *)
(* SuccessIsWhole names.                                                   *)
(***************************************************************************)
THEOREM Whole == Spec => []SuccessIsWhole
<1>1. Counting => SuccessIsWhole
  <2> SUFFICES ASSUME Counting, Reported, status = "SUCCESS", ~cut
               PROVE  \/ tag \in done
                      \/ call.irq /\ (call.rx = 0 \/ stale)
                      \/ arblost /\ (call.rx = 0 \/ late)
    BY DEF SuccessIsWhole, SuccessMeansDone
  <2>1. Ended
    BY DEF Reported, Ended
  <2> QED
    BY <2>1 DEF Counting, EndInv
<1> QED
  BY <1>1, CountingInvariant, PTL

(***************************************************************************)
(* A read that reports SUCCESS has filled its buffer, no more than its     *)
(* buffer, and with bytes of its own transfer, as long as no call has      *)
(* timed out.                                                              *)
(***************************************************************************)
THEOREM Fresh == Spec => []FreshBytes
<1>1. Counting => FreshBytes
  <2> SUFFICES ASSUME Counting, Reported, status = "SUCCESS", ~late
               PROVE  ~stale /\ got = call.rx
    BY DEF FreshBytes
  <2>1. Ended /\ pc = "idle"
    BY DEF Reported, Ended
  <2>2. ~cut
    BY <2>1 DEF Counting, Known, StatusInv
  <2> QED
    BY <2>1, <2>2 DEF Counting, EndInv
<1> QED
  BY <1>1, CountingInvariant, PTL

(***************************************************************************)
(* The configuration: division, and the fields of CTRL.                    *)
(***************************************************************************)
LEMMA Quotient ==
  ASSUME NEW a \in Nat, NEW b \in Nat \ {0}
  PROVE  /\ a \div b \in Nat
         /\ b * (a \div b) <= a
         /\ a < b * (a \div b) + b
  OBVIOUS

LEMMA Times ==
  ASSUME NEW a \in Nat, NEW b \in Nat, NEW c \in Nat, a <= b
  PROVE  c * a <= c * b /\ c * a \in Nat /\ c * b \in Nat
  OBVIOUS

LEMMA QuotientIs ==
  ASSUME NEW a \in Nat, NEW b \in Nat \ {0}, NEW q \in Nat, b * q <= a, a < b * q + b
  PROVE  a \div b = q
  OBVIOUS

(* A quotient is at least every number that goes into the dividend.        *)
LEMMA QuotientAtLeast ==
  ASSUME NEW a \in Nat, NEW b \in Nat \ {0}, NEW q \in Nat, b * q <= a
  PROVE  q <= a \div b
<1> DEFINE d == a \div b
<1>1. d \in Nat /\ a < b * d + b
  BY Quotient
<1> HIDE DEF d
<1>2. CASE d < q
  <2>1. d + 1 \in Nat /\ d + 1 <= q
    BY <1>1, <1>2
  <2>2. b * (d + 1) <= b * q
    BY <2>1, Times
  <2>3. b * (d + 1) = b * d + b
    BY <1>1
  <2>4. b * q \in Nat /\ b * d \in Nat
    BY <1>1
  <2> QED
    BY <1>1, <2>2, <2>3, <2>4
<1> QED
  BY <1>1, <1>2 DEF d

LEMMA QuotientAtMost ==
  ASSUME NEW a \in Nat, NEW b \in Nat \ {0}, NEW q \in Nat, a < b * q + b
  PROVE  a \div b <= q
<1> DEFINE d == a \div b
<1>1. d \in Nat /\ b * d <= a
  BY Quotient
<1> HIDE DEF d
<1>2. CASE d > q
  <2>1. q + 1 \in Nat /\ q + 1 <= d
    BY <1>1, <1>2
  <2>2. b * (q + 1) <= b * d
    BY <1>1, <2>1, Times
  <2>3. b * (q + 1) = b * q + b
    OBVIOUS
  <2>4. b * q \in Nat /\ b * d \in Nat
    BY <1>1
  <2> QED
    BY <1>1, <2>2, <2>3, <2>4
<1> QED
  BY <1>1, <1>2 DEF d

Fastest == FREQ \div (2 * FS_MAX_HZ)
Ticks(s) == FREQ \div (2 * s)

LEMMA Speeds ==
  /\ FS_MAX_HZ = 400000 /\ FS_MIN_HZ = 100000 /\ SS_MIN_HZ = 1 /\ DIFF_LCNT_HCNT = 60
  /\ FREQ \in Nat /\ Fastest \in Nat /\ Fastest >= 62
  /\ 800000 * Fastest <= FREQ /\ FREQ < 800000 * Fastest + 2 * Fastest
  /\ Ticks(100000) + 60 < 65536
<1>1. /\ FS_MAX_HZ = 400000 /\ FS_MIN_HZ = 100000 /\ SS_MIN_HZ = 1 /\ DIFF_LCNT_HCNT = 60
  BY SMT DEF FS_MAX_HZ, FS_MIN_HZ, SS_MIN_HZ, DIFF_LCNT_HCNT
<1>2. Fastest = FREQ \div 800000 /\ 2 * FS_MIN_HZ = 2 * 100000 /\ 2 * FS_MAX_HZ = 800000
  BY SMT, <1>1 DEF Fastest
<1>3. /\ FREQ \in Nat /\ FREQ \div 800000 > 61 /\ FREQ \div (2 * 100000) + 60 < 65536
      /\ FREQ % 800000 < 2 * (FREQ \div 800000)
  <2>1. FREQ \in Nat /\ FREQ \div (2 * FS_MAX_HZ) > DIFF_LCNT_HCNT + 1
    BY SMT, FreqAssumption
  <2>2. FREQ \div (2 * FS_MIN_HZ) + DIFF_LCNT_HCNT < 65536
    BY SMT, FreqAssumption
  <2>3. FREQ % (2 * FS_MAX_HZ) < 2 * (FREQ \div (2 * FS_MAX_HZ))
    BY SMT, FreqAssumption
  <2>4. DIFF_LCNT_HCNT + 1 = 61
    BY SMT, <1>1
  <2> QED
    BY SMT, <1>1, <1>2, <2>1, <2>2, <2>3, <2>4
<1>4. FREQ = 800000 * (FREQ \div 800000) + (FREQ % 800000) /\ FREQ \div 800000 \in Nat
      /\ FREQ % 800000 \in Nat
  BY SMT, <1>3
<1>5. Fastest \in Nat /\ Fastest >= 62 /\ 800000 * Fastest <= FREQ
      /\ FREQ < 800000 * Fastest + 2 * Fastest
  BY SMT, <1>2, <1>3, <1>4
<1> QED
  BY SMT, <1>1, <1>3, <1>5 DEF Ticks

LEMMA TicksAre ==
  ASSUME NEW s \in Nat, 1 <= s, s <= 400000
  PROVE  /\ Ticks(s) \in Nat /\ Fastest <= Ticks(s) /\ 62 <= Ticks(s)
         /\ 2 * s * Ticks(s) <= FREQ
         /\ FREQ < 2 * s * Ticks(s) + 2 * s
<1>1. 2 * s \in Nat \ {0} /\ 2 * s <= 800000 /\ FREQ \in Nat /\ Fastest \in Nat
  BY SMT, Speeds
<1>2. /\ Ticks(s) \in Nat
      /\ 2 * s * Ticks(s) <= FREQ
      /\ FREQ < 2 * s * Ticks(s) + 2 * s
  <2> DEFINE b == 2 * s
  <2>1. b \in Nat \ {0} /\ Ticks(s) = FREQ \div b
    BY SMT, <1>1 DEF Ticks
  <2> HIDE DEF b
  <2>2. Ticks(s) \in Nat /\ b * Ticks(s) <= FREQ /\ FREQ < b * Ticks(s) + b
    BY SMT, <1>1, <2>1, Quotient
  <2> QED
    BY SMT, <2>2 DEF b
<1>3. Fastest <= Ticks(s)
  <2>1. Fastest * (2 * s) <= Fastest * 800000
    BY SMT, <1>1, Times
  <2>2. /\ Fastest * (2 * s) = 2 * s * Fastest /\ Fastest * 800000 = 800000 * Fastest
        /\ 2 * s * Fastest \in Nat /\ 800000 * Fastest \in Nat
    BY SMT, <1>1
  <2>3. 2 * s * Fastest <= FREQ
    BY SMT, <1>1, <2>1, <2>2, Speeds
  <2> QED
    BY SMT, <1>1, <2>3, QuotientAtLeast DEF Ticks
<1> QED
  BY SMT, <1>1, <1>2, <1>3, Speeds

(* The counts of a speed: exact when they fit, short of the period by a    *)
(* multiple of 65536 when they do not.                                     *)
LEMMA CountsAre ==
  ASSUME NEW s \in Nat, 1 <= s, s <= 400000, NEW r, NEW c, c = Counts(r, s)
  PROVE  /\ c = [addr_mode |-> r.addr_mode, speed_mode |-> c.speed_mode, scl_hcnt |-> c.scl_hcnt,
                 scl_lcnt |-> c.scl_lcnt, sda_cnt |-> c.sda_cnt]
         /\ c.speed_mode \in 0 .. 1
         /\ c.scl_lcnt = (Ticks(s) - 60) % 65536 /\ c.scl_hcnt = (Ticks(s) + 60) % 65536
         /\ c.sda_cnt = ((Ticks(s) - 60) - (Ticks(s) - 60) \div 2) % 65536
<1>1. c = [addr_mode |-> r.addr_mode,
           speed_mode |-> IF s > 100000 THEN 1 ELSE 0,
           scl_hcnt |-> (Ticks(s) + 60) % 65536,
           scl_lcnt |-> (Ticks(s) - 60) % 65536,
           sda_cnt |-> ((Ticks(s) - 60) - (Ticks(s) - 60) \div 2) % 65536]
  BY SMT, Speeds DEF Counts, U16, Lcnt, Ticks
<1> QED
  BY SMT, <1>1

LEMMA Rounded ==
  ASSUME NEW q \in Nat, q >= 62
  PROVE  /\ q + 60 < 65536 =>
              /\ (q - 60) % 65536 = q - 60 /\ (q + 60) % 65536 = q + 60
              /\ ((q - 60) - (q - 60) \div 2) % 65536 < q - 60
         /\ (q - 60) % 65536 \in Nat /\ (q + 60) % 65536 \in Nat
  BY SMT

LEMMA SpeedFits ==
  ASSUME NEW s \in Nat, 1 <= s, s <= 400000, NEW c,
         c.scl_lcnt = (Ticks(s) - 60) % 65536, c.scl_hcnt = (Ticks(s) + 60) % 65536,
         c.sda_cnt = ((Ticks(s) - 60) - (Ticks(s) - 60) \div 2) % 65536
  PROVE  Fits(s) => Matches(s, c) /\ speed_get(c) <= FS_MAX_HZ /\ c.sda_cnt < c.scl_lcnt
<1> DEFINE q == Ticks(s)
           p == c.scl_lcnt + c.scl_hcnt
<1>1. /\ q \in Nat /\ 62 <= q /\ Fastest <= q /\ Fastest \in Nat
      /\ 2 * s * q <= FREQ /\ FREQ < 2 * s * q + 2 * s /\ FREQ \in Nat
  BY SMT, TicksAre, Speeds
<1>2. Fits(s) <=> q + 60 < 65536
  BY SMT, Speeds DEF Fits, Ticks
<1>3. p \in Nat /\ c.scl_lcnt \in Nat /\ c.scl_hcnt \in Nat
  BY SMT, <1>1, Rounded
<1>4. Matches(s, c) <=> s * p <= FREQ /\ FREQ < s * (p + 2)
  BY SMT DEF Matches
<1>5. CASE Fits(s)
  <2>1. /\ q + 60 < 65536 /\ c.scl_lcnt = q - 60 /\ c.scl_hcnt = q + 60
        /\ c.sda_cnt < c.scl_lcnt
    <3>1. q + 60 < 65536
      BY SMT, <1>2, <1>5
    <3> QED
      BY SMT, <1>1, <3>1, Rounded
  <2>2. p = 2 * q
    BY SMT, <1>1, <2>1
  <2>3. s * (2 * q) = 2 * s * q /\ s * (2 * q + 2) = 2 * s * q + 2 * s
    BY SMT, <1>1
  <2>4. Matches(s, c)
    BY SMT, <1>1, <1>4, <2>2, <2>3
  <2>5. FREQ \div (2 * q) <= 400000
    <3>1. 800002 * Fastest <= 800002 * q /\ 800002 * q \in Nat /\ 800002 * Fastest \in Nat
      BY SMT, <1>1, Times
    <3>2. 800002 * Fastest = 800000 * Fastest + 2 * Fastest
      BY SMT, <1>1
    <3>3. FREQ < 800002 * q
      BY SMT, <1>1, <3>1, <3>2, Speeds
    <3>4. FREQ < (2 * q) * 400000 + 2 * q /\ 2 * q \in Nat \ {0}
      BY SMT, <1>1, <3>3
    <3> QED
      BY SMT, <1>1, <3>4, QuotientAtMost
  <2>6. speed_get(c) <= FS_MAX_HZ
    <3>1. speed_get(c) = FREQ \div (2 * q)
      <4>1. c.scl_lcnt # 0 /\ c.scl_hcnt # 0
        BY SMT, <1>1, <2>1
      <4> QED
        BY SMT, <2>2, <4>1 DEF speed_get
    <3> QED
      BY SMT, <2>5, <3>1, Speeds
  <2> QED
    BY SMT, <1>5, <2>1, <2>4, <2>6
<1> QED
  BY SMT, <1>5

LEMMA SpeedCorrect == SpeedMatches
<1> SUFFICES ASSUME NEW s \in Hz
             PROVE  LET c == speed_set(Cfg0, s)
                    IN  /\ InRange(s) /\ Fits(s) =>
                             Matches(s, c) /\ speed_get(c) <= FS_MAX_HZ
                             /\ c.sda_cnt < c.scl_lcnt
                        /\ ~InRange(s) => Matches(FS_MIN_HZ, c)
  BY SMT DEF SpeedMatches
<1> DEFINE c0 == [addr_mode |-> 0, speed_mode |-> 0, scl_hcnt |-> 0, scl_lcnt |-> 0,
                  sda_cnt |-> 0]
<1>1. Cfg0 = Counts(c0, 100000)
  BY SMT, Speeds DEF Cfg0
<1>2. CASE InRange(s)
  <2>1. s \in Nat /\ 1 <= s /\ s <= 400000
    <3>1. s \in 0 .. 2 * FS_MAX_HZ
      BY SMT, FreqAssumption
    <3>2. 1 <= s /\ s <= 400000 /\ 2 * FS_MAX_HZ \in Int
      BY SMT, <1>2, Speeds DEF InRange
    <3>3. s \in Nat
      BY SMT, <3>1, <3>2
    <3> QED
      BY SMT, <3>2, <3>3
  <2>2. speed_set(Cfg0, s) = Counts(c0, s)
    BY SMT, <1>1, <1>2 DEF speed_set, Counts
  <2> QED
    BY SMT, <1>2, <2>1, <2>2, CountsAre, SpeedFits
<1>3. CASE ~InRange(s)
  <2>1. speed_set(Cfg0, s) = Counts(c0, 100000)
    BY SMT, <1>1, <1>3 DEF speed_set
  <2>2. Fits(100000)
    BY SMT, Speeds DEF Fits, Ticks
  <2>4. Matches(100000, Counts(c0, 100000))
    BY SMT, <2>2, CountsAre, SpeedFits
  <2> QED
    BY SMT, <1>3, <2>1, <2>4, Speeds
<1> QED
  BY SMT, <1>2, <1>3

(* CTRL: the four fields add up, each is read back, and replacing one      *)
(* leaves the other three.                                                 *)
Packed(e, s, k, u) == e + 2 * s + 4 * k + 16 * u

LEMMA FieldsOf ==
  ASSUME NEW e \in 0 .. 1, NEW s \in 0 .. 1, NEW k \in 0 .. 3, NEW u \in 0 .. 3
  PROVE  /\ Field(Packed(e, s, k, u), EN) = e
         /\ Field(Packed(e, s, k, u), BUS_SPEED) = s
         /\ Field(Packed(e, s, k, u), CMD_THD) = k
         /\ Field(Packed(e, s, k, u), RX_THD) = u
  BY DEF Field, Packed, EN, BUS_SPEED, CMD_THD, RX_THD

LEMMA Replaced ==
  ASSUME NEW e \in 0 .. 1, NEW s \in 0 .. 1, NEW k \in 0 .. 3, NEW u \in 0 .. 3
  PROVE  /\ \A v \in 0 .. 1 : IORMW(Packed(e, s, k, u), v, EN) = Packed(v, s, k, u)
         /\ \A v \in 0 .. 1 : IORMW(Packed(e, s, k, u), v, BUS_SPEED) = Packed(e, v, k, u)
         /\ \A v \in 0 .. 3 : IORMW(Packed(e, s, k, u), v, CMD_THD) = Packed(e, s, v, u)
         /\ \A v \in 0 .. 3 : IORMW(Packed(e, s, k, u), v, RX_THD) = Packed(e, s, k, v)
<1>1. /\ EN[1] = 1 /\ EN[2] = 2 /\ BUS_SPEED[1] = 2 /\ BUS_SPEED[2] = 2
      /\ CMD_THD[1] = 4 /\ CMD_THD[2] = 4 /\ RX_THD[1] = 16 /\ RX_THD[2] = 4
  BY DEF EN, BUS_SPEED, CMD_THD, RX_THD
<1>2. (\A v \in 0 .. 1 : v % 2 = v) /\ (\A v \in 0 .. 3 : v % 4 = v)
  OBVIOUS
<1> QED
  BY <1>1, <1>2, FieldsOf DEF IORMW, Packed

LEMMA Addressed ==
  ASSUME NEW a, NEW m, NEW h, NEW l, NEW d, NEW b, NEW r,
         r = [addr_mode |-> a, speed_mode |-> m, scl_hcnt |-> h, scl_lcnt |-> l, sda_cnt |-> d]
  PROVE  [r EXCEPT !.addr_mode = b]
         = [addr_mode |-> b, speed_mode |-> m, scl_hcnt |-> h, scl_lcnt |-> l, sda_cnt |-> d]
  OBVIOUS

LEMMA CtrlIs ==
  \E e \in 0 .. 1, k \in 0 .. 3 :
    \A s \in 0 .. 1, u \in 0 .. 3 : Ctrl(s, u) = Packed(e, s, k, u)
<1> DEFINE k == IF thd = "EMPTY" THEN 0 ELSE 3
           e == IF en THEN 1 ELSE 0
<1>1. k \in 0 .. 3 /\ e \in 0 .. 1
  OBVIOUS
<1>2. \A s, u : Ctrl(s, u) = IORMW(IORMW(IORMW(IORMW(0, u, RX_THD), k, CMD_THD), s, BUS_SPEED),
                                   e, EN)
  BY DEF Ctrl
<1> HIDE DEF k, e
<1>3. 0 = Packed(0, 0, 0, 0)
  BY DEF Packed
<1>4. \A s \in 0 .. 1, u \in 0 .. 3 : Ctrl(s, u) = Packed(e, s, k, u)
  BY <1>1, <1>2, <1>3, Replaced
<1> QED
  BY <1>1, <1>4

LEMMA FieldsCorrect == FieldsApart
<1> SUFFICES ASSUME NEW s \in {FS_MIN_HZ, FS_MAX_HZ}, NEW m \in 0 .. 1, NEW old \in 0 .. 1,
                    NEW t \in {0, 3}, NEW u \in {0, 3}
             PROVE  LET c == [speed_set(Cfg0, s) EXCEPT !.addr_mode = m]
                        after == config_set(Ctrl(old, u), c)
                        later == SetEnable(tfr_cmd_fifo_threshold_set(
                                             rx_fifo_threshold_set(after, u), t))
                    IN  /\ config_get(after) = c /\ config_get(later) = c
                        /\ after.ctrl \in {Ctrl(0, u), Ctrl(1, u)}
  BY DEF FieldsApart
<1> DEFINE set == speed_set(Cfg0, s)
           c == [set EXCEPT !.addr_mode = m]
           after == config_set(Ctrl(old, u), c)
           later == SetEnable(tfr_cmd_fifo_threshold_set(rx_fifo_threshold_set(after, u), t))
<1>1. /\ set = [addr_mode |-> set.addr_mode, speed_mode |-> set.speed_mode,
                scl_hcnt |-> set.scl_hcnt, scl_lcnt |-> set.scl_lcnt, sda_cnt |-> set.sda_cnt]
      /\ set.speed_mode \in 0 .. 1
  <2>1. InRange(s) /\ s \in Nat /\ 1 <= s /\ s <= 400000
    BY SMT, Speeds DEF InRange
  <2>2. set = Counts(Cfg0, s)
    BY <2>1 DEF speed_set
  <2> HIDE DEF set
  <2> QED
    BY SMT, <2>1, <2>2, CountsAre
<1> HIDE DEF set
<1>2. /\ c = [addr_mode |-> m, speed_mode |-> set.speed_mode, scl_hcnt |-> set.scl_hcnt,
              scl_lcnt |-> set.scl_lcnt, sda_cnt |-> set.sda_cnt]
      /\ c.speed_mode = set.speed_mode
  BY <1>1, Addressed
<1>3. /\ c.addr_mode = m /\ c.scl_hcnt = set.scl_hcnt /\ c.scl_lcnt = set.scl_lcnt
      /\ c.sda_cnt = set.sda_cnt
  BY <1>2
<1> HIDE DEF c
<1>4. PICK e \in 0 .. 1, k \in 0 .. 3 :
        \A v \in 0 .. 1, w \in 0 .. 3 : Ctrl(v, w) = Packed(e, v, k, w)
  BY CtrlIs
<1>5. t \in 0 .. 3 /\ u \in 0 .. 3
  OBVIOUS
<1>6. after.ctrl = Packed(e, c.speed_mode, k, u) /\ after.ctrl = Ctrl(c.speed_mode, u)
  <2>1. after.ctrl = IORMW(Packed(e, old, k, u), c.speed_mode, BUS_SPEED)
    BY <1>4, <1>5 DEF config_set
  <2> QED
    BY <1>1, <1>2, <1>4, <1>5, <2>1, Replaced
<1>7. after = [ctrl |-> after.ctrl, SCL_HIGH |-> c.scl_hcnt, SCL_LOW |-> c.scl_lcnt,
               SDA_HOLD |-> c.sda_cnt, address_mode |-> c.addr_mode]
  BY DEF config_set
<1> HIDE DEF after
<1>8. /\ later.ctrl = IORMW(IORMW(IORMW(after.ctrl, u, RX_THD), t, CMD_THD), 1, EN)
      /\ later.SCL_HIGH = c.scl_hcnt /\ later.SCL_LOW = c.scl_lcnt
      /\ later.SDA_HOLD = c.sda_cnt /\ later.address_mode = c.addr_mode
  BY <1>7 DEF SetEnable, tfr_cmd_fifo_threshold_set, rx_fifo_threshold_set
<1> HIDE DEF later
<1>9. later.ctrl = Packed(1, c.speed_mode, t, u)
  <2>1. IORMW(after.ctrl, u, RX_THD) = Packed(e, c.speed_mode, k, u)
    BY <1>1, <1>2, <1>5, <1>6, Replaced
  <2>2. IORMW(Packed(e, c.speed_mode, k, u), t, CMD_THD) = Packed(e, c.speed_mode, t, u)
    BY <1>1, <1>2, <1>5, Replaced
  <2>3. IORMW(Packed(e, c.speed_mode, t, u), 1, EN) = Packed(1, c.speed_mode, t, u)
    BY <1>1, <1>2, <1>5, Replaced
  <2> QED
    BY <1>8, <2>1, <2>2, <2>3
<1>10. Field(after.ctrl, BUS_SPEED) = c.speed_mode /\ Field(later.ctrl, BUS_SPEED) = c.speed_mode
  BY <1>1, <1>2, <1>5, <1>6, <1>9, FieldsOf
<1>11. c = [addr_mode |-> c.addr_mode, speed_mode |-> c.speed_mode, scl_hcnt |-> c.scl_hcnt,
            scl_lcnt |-> c.scl_lcnt, sda_cnt |-> c.sda_cnt]
  BY <1>2, <1>3
<1>12. config_get(after) = c
  BY <1>7, <1>10, <1>11 DEF config_get
<1>13. config_get(later) = c
  BY <1>8, <1>10, <1>11 DEF config_get
<1>14. after.ctrl \in {Ctrl(0, u), Ctrl(1, u)}
  BY <1>1, <1>2, <1>6
<1> QED
  BY <1>12, <1>13, <1>14 DEF c, after, later, set

(* Whenever a program sets a configuration between its calls, the core     *)
(* holds it: of every speed whose counts fit 16 bits, with every core      *)
(* clock the assumption admits, the bus is not slower than asked for,      *)
(* faster by less than two ticks of its period and never beyond 400 kHz;   *)
(* and the fields of CTRL do not touch each other.  Slower speeds, whose   *)
(* counts are cut to 16 bits, are not in the claim (see BestMatches).      *)
THEOREM Configured == Spec => []ConfigurationHolds
<1>1. ConfigurationHolds
  BY SpeedCorrect, FieldsCorrect DEF ConfigurationHolds
<1> QED
  BY <1>1, PTL
=============================================================================
