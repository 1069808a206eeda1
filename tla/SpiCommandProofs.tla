-------------------------- MODULE SpiCommandProofs --------------------------
(***************************************************************************)
(* Theorems about alt_avalon_spi_command, for commands of every length and *)
(* any number of calls.                                                    *)
(***************************************************************************)
EXTENDS SpiCommand, SequenceTheorems, TLAPS

One(b) == IF b THEN 1 ELSE 0
\* Bytes on their way: to be shifted, in the shift register, come back.
Shifting == One(tx_holding_primed) + One(transmitting)
Received == cmd.write - read_ignore + Len(read_data)

(***************************************************************************)
(* The inductive invariant.  One credit means one byte on its way at most: *)
(* with it sent bytes, answers and the place in the frame are tied to each *)
(* other at every step of the loop.                                        *)
(***************************************************************************)
Quiet == pc = "idle" => ~tx_holding_primed /\ ~transmitting /\ ~RRDY
Credited ==
  pc # "idle" =>
    /\ credits = -1024 => Shifting + One(RRDY) = 0
    /\ credits # -1024 => /\ Received + Shifting + One(RRDY) = sent
                          /\ credits + Shifting + One(RRDY) = 1
StatusHolds == pc \in {"send", "receive"} /\ status.RRDY => RRDY
Placed ==
  /\ ~SSO => frame = 0
  /\ pc # "idle" =>
       /\ SSO => frame = start + sent - Shifting
       /\ RRDY => rx_holding_reg = IF SSO THEN frame ELSE 1
Kept ==
  pc # "idle" =>
    /\ read_ignore > 0 => read_data = <<>>
    /\ \A k \in 1 .. Len(read_data) :
         read_data[k] = IF SSO THEN start + cmd.write + k ELSE 1
AllRead == pc = "finish" => read_ignore = 0 /\ Len(read_data) = cmd.read

IInv == TypeOK /\ ~ROE /\ Quiet /\ Credited /\ StatusHolds /\ Placed /\ Kept /\ AllRead

LEMMA CommandType ==
  ASSUME cmd \in Commands \cup {NoCommand}
  PROVE  cmd.write \in Nat /\ cmd.read \in Nat
  BY CommandsAssumption DEF NoCommand

LEMMA InitInv == Init => IInv
<1> SUFFICES ASSUME Init PROVE IInv
  OBVIOUS
<1>1. FlagTypes
  BY DEF Init, FlagTypes, NoStatus
<1>2. CountTypes
  BY CommandsAssumption DEF Init, CountTypes, NoCommand
<1> QED
  BY <1>1, <1>2
  DEF Init, IInv, TypeOK, NoStatus, Quiet, Credited, StatusHolds, Placed, Kept, AllRead

LEMMA CallInv ==
  ASSUME IInv, NEW c \in Commands, Call(c)
  PROVE  IInv'
<1>1. /\ c.write \in Nat /\ c.read \in Nat
  BY CommandsAssumption
<1>2. /\ pc = "idle" /\ pc' = "poll" /\ cmd' = c /\ calls' = calls + 1 /\ calls < MaxCalls
      /\ start' = frame /\ credits' = 1 /\ status' = NoStatus /\ sent' = 0
      /\ read_data' = <<>> /\ read_ignore' = c.write /\ SSO' = (SSO \/ ~c.toggle)
      /\ RRDY' = FALSE /\ tx_holding_primed' = FALSE /\ transmitting' = FALSE /\ ROE' = FALSE
      /\ rx_holding_reg' = rx_holding_reg /\ frame' = frame
  BY DEF Call, Credits, IInv, Quiet, TypeOK
<1>3. TypeOK'
  <2>1. FlagTypes'
    BY <1>1, <1>2, CommandsAssumption
    DEF IInv, TypeOK, FlagTypes, NoStatus
  <2>2. CountTypes'
    BY <1>1, <1>2, CommandsAssumption
    DEF IInv, TypeOK, CountTypes, NoStatus
  <2> QED
    BY <2>1, <2>2 DEF TypeOK
<1>4. Credited'
  BY <1>1, <1>2 DEF Credited, Received, Shifting, One
<1>5. Placed'
  BY <1>1, <1>2, CommandsAssumption DEF IInv, TypeOK, FlagTypes, CountTypes, Placed, Shifting, One
<1> QED
  BY <1>2, <1>3, <1>4, <1>5 DEF IInv, Quiet, StatusHolds, Kept, AllRead

LEMMA PollInv == IInv /\ Poll => IInv'
<1> SUFFICES ASSUME IInv, Poll PROVE IInv'
  OBVIOUS
<1>1. /\ pc = "poll" /\ pc' = "send" /\ status' = [TRDY |-> TRDY, RRDY |-> RRDY]
      /\ UNCHANGED <<core, call, credits, sent, read_ignore, read_data>>
  BY DEF Poll
<1>2. TypeOK' /\ StatusHolds'
  <2>1. FlagTypes' /\ StatusHolds'
    BY <1>1
    DEF IInv, TypeOK, FlagTypes, StatusHolds, TRDY, core, call
  <2>2. CountTypes'
    BY <1>1
    DEF IInv, TypeOK, CountTypes, StatusHolds, TRDY, core, call
  <2> QED
    BY <2>1, <2>2 DEF TypeOK
<1> QED
  BY <1>1, <1>2
  DEF IInv, core, call, Quiet, Credited, Placed, Kept, AllRead, Received, Shifting

LEMMA SendInv == IInv /\ Send => IInv'
<1> SUFFICES ASSUME IInv, Send PROVE IInv'
  OBVIOUS
<1>0. cmd.write \in Nat /\ cmd.read \in Nat
  BY CommandType DEF IInv, TypeOK, FlagTypes, CountTypes
<1>1. /\ pc = "send" /\ pc' = "receive"
      /\ UNCHANGED <<transmitting, RRDY, ROE, rx_holding_reg, SSO, frame, call, status,
                     read_ignore, read_data>>
  BY DEF Send
<1>2. CASE UNCHANGED <<credits, sent, tx_holding_primed>>
  BY <1>1, <1>2
  DEF IInv, TypeOK, FlagTypes, CountTypes, call, Quiet, Credited, StatusHolds, Placed, Kept,
      AllRead, Received, Shifting
<1>3. CASE status.TRDY /\ credits > 0
  <2>1. credits = 1 /\ ~tx_holding_primed /\ ~transmitting /\ ~RRDY /\ Received = sent
    BY <1>1, <1>3, <1>0 DEF IInv, TypeOK, FlagTypes, CountTypes, Credited, Shifting, One, Received
  <2>2. CASE sent < cmd.write + cmd.read
    <3>1. credits' = 0 /\ sent' = sent + 1 /\ tx_holding_primed' = TRUE
      BY <1>3, <2>1, <2>2 DEF Send
    <3>2. TypeOK'
      <4>1. FlagTypes'
        BY <1>0, <1>1, <2>2, <3>1
        DEF IInv, TypeOK, FlagTypes, call
      <4>2. CountTypes'
        BY <1>0, <1>1, <2>2, <3>1
        DEF IInv, TypeOK, CountTypes, call
      <4> QED
        BY <4>1, <4>2 DEF TypeOK
    <3>3. Credited' /\ Placed'
      BY <1>0, <1>1, <2>1, <3>1
      DEF IInv, TypeOK, FlagTypes, CountTypes, call, Credited, Placed, Received, Shifting, One
    <3> QED
      BY <1>1, <3>1, <3>2, <3>3 DEF IInv, call, Quiet, StatusHolds, Kept, AllRead
  <2>3. CASE ~(sent < cmd.write + cmd.read)
    <3>1. credits' = -1024 /\ UNCHANGED <<sent, tx_holding_primed>>
      BY <1>3, <2>3 DEF Send
    <3>2. TypeOK'
      <4>1. FlagTypes'
        BY <1>1, <3>1
        DEF IInv, TypeOK, FlagTypes, call
      <4>2. CountTypes'
        BY <1>1, <3>1
        DEF IInv, TypeOK, CountTypes, call
      <4> QED
        BY <4>1, <4>2 DEF TypeOK
    <3>3. Credited' /\ Placed'
      BY <1>1, <2>1, <3>1 DEF IInv, call, Credited, Placed, Received, Shifting, One
    <3> QED
      BY <1>1, <3>1, <3>2, <3>3 DEF IInv, call, Quiet, StatusHolds, Kept, AllRead
  <2> QED
    BY <2>2, <2>3
<1> QED
  BY <1>2, <1>3 DEF Send

LEMMA ReceiveInv == IInv /\ Receive => IInv'
<1> SUFFICES ASSUME IInv, Receive PROVE IInv'
  OBVIOUS
<1>0. cmd.write \in Nat /\ cmd.read \in Nat /\ read_data \in Seq(Nat) /\ Len(read_data) \in Nat
  BY CommandType DEF IInv, TypeOK, FlagTypes, CountTypes
<1>1. /\ pc = "receive"
      /\ UNCHANGED <<tx_holding_primed, transmitting, ROE, rx_holding_reg, SSO, frame, call,
                     status, sent>>
  BY DEF Receive
<1>2. CASE ~status.RRDY
  <2>1. pc' = "poll" /\ UNCHANGED <<RRDY, credits, read_ignore, read_data>>
    BY <1>2 DEF Receive
  <2>2. TypeOK'
    <3>1. FlagTypes'
      BY <1>1, <2>1
      DEF IInv, TypeOK, FlagTypes, call
    <3>2. CountTypes'
      BY <1>1, <2>1
      DEF IInv, TypeOK, CountTypes, call
    <3> QED
      BY <3>1, <3>2 DEF TypeOK
  <2> QED
    BY <1>1, <2>1, <2>2
    DEF IInv, call, Quiet, Credited, StatusHolds, Placed, Kept, AllRead, Received, Shifting
<1>3. CASE status.RRDY
  <2>1. /\ RRDY' = FALSE /\ credits' = credits + 1
        /\ pc' = IF read_ignore' = 0 /\ Len(read_data') = cmd.read THEN "finish" ELSE "poll"
    BY <1>3 DEF Receive
  <2>2. RRDY /\ credits = 0 /\ ~tx_holding_primed /\ ~transmitting /\ Received + 1 = sent
    BY <1>0, <1>1, <1>3
    DEF IInv, TypeOK, FlagTypes, CountTypes, StatusHolds, Credited, Shifting, One, Received
  <2>3. CASE read_ignore > 0
    <3>1. read_ignore' = read_ignore - 1 /\ read_data' = read_data /\ read_data = <<>>
      BY <1>1, <1>3, <2>3 DEF Receive, IInv, Kept
    <3>2. TypeOK'
      <4>1. FlagTypes'
        BY <1>0, <1>1, <2>1, <2>2, <2>3, <3>1
        DEF IInv, TypeOK, FlagTypes, call
      <4>2. CountTypes'
        BY <1>0, <1>1, <2>1, <2>2, <2>3, <3>1
        DEF IInv, TypeOK, CountTypes, call
      <4> QED
        BY <4>1, <4>2 DEF TypeOK
    <3>3. Credited' /\ Placed'
      BY <1>0, <1>1, <2>1, <2>2, <3>1
      DEF IInv, TypeOK, FlagTypes, CountTypes, call, Credited, Placed, Received, Shifting, One
    <3> QED
      BY <1>1, <2>1, <3>1, <3>2, <3>3 DEF IInv, call, Quiet, StatusHolds, Kept, AllRead
  <2>4. CASE ~(read_ignore > 0)
    <3>1. read_ignore = 0 /\ read_ignore' = 0 /\ read_data' = Append(read_data, rx_holding_reg)
      BY <1>3, <2>4 DEF Receive, IInv, TypeOK, FlagTypes, CountTypes
    <3>2. /\ read_data' \in Seq(Nat) /\ Len(read_data') = Len(read_data) + 1
          /\ \A k \in 1 .. Len(read_data) : read_data'[k] = read_data[k]
          /\ read_data'[Len(read_data) + 1] = rx_holding_reg
      BY <1>0, <3>1, AppendProperties DEF IInv, TypeOK, FlagTypes, CountTypes
    <3>3. Len(read_data) + cmd.write + 1 = sent /\ sent <= cmd.write + cmd.read
      BY <1>0, <2>2, <3>1 DEF IInv, TypeOK, FlagTypes, CountTypes, Received
    <3>4. rx_holding_reg = IF SSO THEN start + cmd.write + Len(read_data) + 1 ELSE 1
      BY <1>0, <1>1, <2>2, <3>3 DEF IInv, TypeOK, FlagTypes, CountTypes, Placed, Shifting, One
    <3>5. TypeOK'
      <4>1. FlagTypes'
        BY <1>0, <1>1, <2>1, <2>2, <3>1, <3>2, <3>3
        DEF IInv, TypeOK, FlagTypes, call
      <4>2. CountTypes'
        BY <1>0, <1>1, <2>1, <2>2, <3>1, <3>2, <3>3
        DEF IInv, TypeOK, CountTypes, call
      <4> QED
        BY <4>1, <4>2 DEF TypeOK
    <3>6. Credited' /\ Placed'
      BY <1>0, <1>1, <2>1, <2>2, <3>1, <3>2, <3>3
      DEF IInv, TypeOK, FlagTypes, CountTypes, call, Credited, Placed, Received, Shifting, One
    <3>7. Kept'
      <4> SUFFICES ASSUME NEW k \in 1 .. Len(read_data')
                   PROVE  read_data'[k] = IF SSO THEN start + cmd.write + k ELSE 1
        BY <1>1, <3>1 DEF Kept, call
      <4>1. CASE k = Len(read_data) + 1
        BY <1>0, <3>2, <3>4, <4>1 DEF IInv, TypeOK, FlagTypes, CountTypes
      <4>2. CASE k \in 1 .. Len(read_data)
        BY <1>1, <3>2, <4>2 DEF IInv, Kept
      <4> QED
        BY <1>0, <3>2, <4>1, <4>2
    <3> QED
      BY <1>1, <2>1, <3>5, <3>6, <3>7 DEF IInv, call, Quiet, StatusHolds, AllRead
  <2> QED
    BY <2>3, <2>4
<1> QED
  BY <1>2, <1>3

LEMMA FinishInv == IInv /\ Finish => IInv'
<1> SUFFICES ASSUME IInv, Finish PROVE IInv'
  OBVIOUS
<1>1. /\ pc = "finish" /\ pc' = "idle" /\ SSO' = (SSO /\ cmd.merge)
      /\ frame' = IF SSO' THEN frame ELSE 0
      /\ UNCHANGED <<tx_holding_primed, transmitting, RRDY, ROE, rx_holding_reg, call, locals>>
  BY DEF Finish
<1>2. ~tx_holding_primed /\ ~transmitting
  BY DEF Finish, TMT, IInv, TypeOK, FlagTypes, CountTypes
<1>3. ~RRDY
  BY <1>1, <1>2, CommandType
  DEF IInv, TypeOK, FlagTypes, CountTypes, Credited, AllRead, Received, Shifting, One
<1>4. TypeOK'
  <2>1. FlagTypes'
    BY <1>1, CommandType
    DEF IInv, TypeOK, FlagTypes, call, locals
  <2>2. CountTypes'
    BY <1>1, CommandType
    DEF IInv, TypeOK, CountTypes, call, locals
  <2> QED
    BY <2>1, <2>2 DEF TypeOK
<1> QED
  BY <1>1, <1>2, <1>3, <1>4
  DEF IInv, call, locals, Quiet, Credited, StatusHolds, Placed, Kept, AllRead

LEMMA LoadShiftInv == IInv /\ LoadShift => IInv'
<1> SUFFICES ASSUME IInv, LoadShift PROVE IInv'
  OBVIOUS
<1>1. /\ tx_holding_primed /\ ~transmitting /\ ~tx_holding_primed' /\ transmitting'
      /\ tx_holding_primed' = FALSE /\ transmitting' = TRUE
      /\ UNCHANGED <<RRDY, ROE, rx_holding_reg, SSO, frame, pc, call, locals>>
  BY DEF LoadShift
<1>2. TypeOK'
  <2>1. FlagTypes'
    BY <1>1
    DEF IInv, TypeOK, FlagTypes, call, locals
  <2>2. CountTypes'
    BY <1>1
    DEF IInv, TypeOK, CountTypes, call, locals
  <2> QED
    BY <2>1, <2>2 DEF TypeOK
<1>3. Shifting' = Shifting
  BY <1>1 DEF Shifting, One
<1> QED
  BY <1>1, <1>2, <1>3
  DEF IInv, call, locals, Quiet, Credited, StatusHolds, Placed, Kept, AllRead, Received

LEMMA CompleteInv == IInv /\ Complete => IInv'
<1> SUFFICES ASSUME IInv, Complete PROVE IInv'
  OBVIOUS
<1>0. cmd.write \in Nat /\ cmd.read \in Nat /\ Len(read_data) \in Nat
  BY CommandType DEF IInv, TypeOK, FlagTypes, CountTypes
<1>1. /\ transmitting /\ transmitting' = FALSE /\ RRDY' = TRUE /\ ROE' = (ROE \/ RRDY)
      /\ rx_holding_reg' = frame + 1 /\ frame' = IF SSO THEN frame + 1 ELSE 0
      /\ UNCHANGED <<tx_holding_primed, SSO, pc, call, locals>>
  BY DEF Complete
<1>2. pc # "idle" /\ ~RRDY /\ ~tx_holding_primed /\ credits = 0
  BY <1>0, <1>1 DEF IInv, TypeOK, FlagTypes, CountTypes, Quiet, Credited, Shifting, One, Received
<1>3. TypeOK' /\ ~ROE'
  <2>1. FlagTypes' /\ ~ROE'
    BY <1>1, <1>2
    DEF IInv, TypeOK, FlagTypes, call, locals
  <2>2. CountTypes'
    BY <1>1, <1>2
    DEF IInv, TypeOK, CountTypes, call, locals
  <2> QED
    BY <2>1, <2>2 DEF TypeOK
<1>4. Shifting = 1 /\ Shifting' = 0
  BY <1>1, <1>2 DEF Shifting, One
<1>5. Credited'
  BY <1>0, <1>1, <1>2, <1>4
  DEF IInv, TypeOK, FlagTypes, CountTypes, call, locals, Credited, Received, One
<1>6. Placed'
  BY <1>1, <1>2, <1>4 DEF IInv, TypeOK, FlagTypes, CountTypes, call, locals, Placed
<1> QED
  BY <1>1, <1>2, <1>3, <1>5, <1>6
  DEF IInv, call, locals, Quiet, StatusHolds, Kept, AllRead

LEMMA StutterInv == IInv /\ UNCHANGED vars => IInv'
<1> SUFFICES ASSUME IInv, UNCHANGED vars PROVE IInv'
  OBVIOUS
<1>1. FlagTypes'
  BY DEF IInv, TypeOK, FlagTypes, vars, core, locals
<1>2. CountTypes'
  BY DEF IInv, TypeOK, CountTypes, vars, core, call, locals
<1> QED
  BY <1>1, <1>2 DEF IInv, vars, core, call, locals, TypeOK, Quiet, Credited, StatusHolds,
     Placed, Kept, AllRead, Received, Shifting

LEMMA Inductive == Spec => []IInv
<1>1. IInv /\ [Next]_vars => IInv'
  <2> SUFFICES ASSUME IInv, [Next]_vars PROVE IInv'
    OBVIOUS
  <2>1. CASE \E c \in Commands : Call(c)
    BY <2>1, CallInv
  <2>2. CASE Poll
    BY <2>2, PollInv
  <2>3. CASE Send
    BY <2>3, SendInv
  <2>4. CASE Receive
    BY <2>4, ReceiveInv
  <2>5. CASE Finish
    BY <2>5, FinishInv
  <2>6. CASE LoadShift
    BY <2>6, LoadShiftInv
  <2>7. CASE Complete
    BY <2>7, CompleteInv
  <2>8. CASE UNCHANGED vars
    BY <2>8, StutterInv
  <2> QED
    BY <2>1, <2>2, <2>3, <2>4, <2>5, <2>6, <2>7, <2>8 DEF Next, Processor, Core
<1> QED
  BY InitInv, <1>1, PTL DEF Spec

\* The types of the core's registers and the function's locals, in particular:
\* never more answers kept than the caller's buffer holds, never more bytes
\* sent than the command asks for (lines 93 to 115).
THEOREM Types == Spec => []TypeOK
<1>1. IInv => TypeOK
  BY DEF IInv
<1> QED
  BY Inductive, <1>1, PTL

\* What a command of any length returns are the slave's answers behind its
\* command bytes, in their places, and the receive register never overflows.
THEOREM Answers == Spec => []AnswersInPlace
<1>1. IInv => AnswersInPlace
  BY DEF IInv, AnswersInPlace, Kept, AllRead
<1> QED
  BY Inductive, <1>1, PTL
=============================================================================
