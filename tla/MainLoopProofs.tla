--------------------------- MODULE MainLoopProofs ---------------------------
(***************************************************************************)
(* Theorems about the event loop, for every number of slots, every set of  *)
(* slow handlers and every number of ticks they overrun by.                *)
(***************************************************************************)
EXTENDS MainLoop, TLAPS

LEMMA NextMSType ==
  ASSUME NEW ms \in 0 .. (MS_WRAP - 1)
  PROVE  NextMS(ms) \in 0 .. (MS_WRAP - 1)
  BY SlotsAssumption DEF NextMS

LEMMA TypeInit == Init => TypeOK
<1> SUFFICES ASSUME Init PROVE TypeOK
  OBVIOUS
<1>1. /\ 0 \in 0 .. (MS_WRAP - 1) /\ 0 \in 0 .. (MaxOverrun + 1) /\ 0 \in 0 .. Late
  BY SlotsAssumption, SlowAssumption DEF Late
<1>2. since \in [Slot -> 0 .. Late]
  BY <1>1 DEF Init
<1>3. MS_counter \in 0 .. (MS_WRAP - 1) /\ seen \in 0 .. (MS_WRAP - 1)
  BY <1>1 DEF Init
<1>4. room \in 0 .. (MaxOverrun + 1) /\ served \in 0 .. 3
  BY <1>1 DEF Init
<1> QED
  BY <1>2, <1>3, <1>4 DEF Init, TypeOK

LEMMA TypeNext ==
  ASSUME TypeOK, [Next]_vars,
         served < 3 \/ ~Dispatch
  PROVE  TypeOK'
<1> USE DEF TypeOK
<1>1. CASE handle_timer_interrupt
  <2>1. MS_counter' \in 0 .. (MS_WRAP - 1)
    BY <1>1, NextMSType DEF handle_timer_interrupt
  <2>2. room' \in 0 .. (MaxOverrun + 1)
    BY <1>1, SlowAssumption DEF handle_timer_interrupt
  <2>3. since' \in [Slot -> 0 .. Late]
    BY <1>1, SlotsAssumption DEF handle_timer_interrupt, Late
  <2>4. idle' \in BOOLEAN
    BY <1>1 DEF handle_timer_interrupt, Waiting
  <2> QED
    BY <1>1, <2>1, <2>2, <2>3, <2>4 DEF handle_timer_interrupt
<1>2. CASE TestTick
  BY <1>2 DEF TestTick
<1>3. CASE ClearTick
  BY <1>3 DEF ClearTick
<1>4. CASE Dispatch
  <2>1. room' \in 0 .. (MaxOverrun + 1)
    BY <1>4, SlowAssumption DEF Dispatch
  <2>2. 0 \in 0 .. Late
    BY SlotsAssumption DEF Late
  <2>3. since' \in [Slot -> 0 .. Late]
    BY <1>4, <2>2 DEF Dispatch
  <2>4. served' \in 0 .. 3
    BY <1>4 DEF Dispatch
  <2> QED
    BY <1>4, <2>1, <2>3, <2>4 DEF Dispatch
<1>5. CASE Return
  BY <1>5, SlowAssumption DEF Return
<1>6. CASE UNCHANGED vars
  BY <1>6 DEF vars
<1> QED
  BY <1>1, <1>2, <1>3, <1>4, <1>5, <1>6 DEF Next, Loop

(***************************************************************************)
(* The flag is down only between its clearing and the next tick: until the *)
(* dispatch there is nothing to be caught up with, after it the counter    *)
(* has not moved.  `served` is bounded along with it: a tick that comes    *)
(* with the flag already cleared is used by this pass and by the next.     *)
(***************************************************************************)
AnswerInv ==
  /\ TypeOK
  /\ pc \in {"test", "handler"} /\ ~TimerTick => seen = MS_counter
  /\ pc = "clear" => TimerTick
  /\ served <= 2
  /\ TimerTick \/ pc = "dispatch" => served <= 1
  /\ TimerTick /\ pc = "dispatch" => served = 0

LEMMA AnswerInit == Init => AnswerInv
  BY TypeInit DEF Init, AnswerInv

LEMMA AnswerNext == AnswerInv /\ [Next]_vars => AnswerInv'
<1> SUFFICES ASSUME AnswerInv, [Next]_vars PROVE AnswerInv'
  OBVIOUS
<1>1. TypeOK'
  BY TypeNext DEF AnswerInv, TypeOK
<1> USE DEF AnswerInv, TypeOK
<1>2. CASE handle_timer_interrupt
  BY <1>1, <1>2 DEF handle_timer_interrupt
<1>3. CASE TestTick
  BY <1>1, <1>3 DEF TestTick
<1>4. CASE ClearTick
  BY <1>1, <1>4 DEF ClearTick
<1>5. CASE Dispatch
  BY <1>1, <1>5 DEF Dispatch
<1>6. CASE Return
  BY <1>1, <1>6 DEF Return
<1>7. CASE UNCHANGED vars
  BY <1>1, <1>7 DEF vars
<1> QED
  BY <1>2, <1>3, <1>4, <1>5, <1>6, <1>7 DEF Next, Loop

(* The type invariant of the loop. *)
THEOREM TypeCorrect == Spec => []TypeOK
<1>1. AnswerInv => TypeOK
  BY DEF AnswerInv
<1> QED
  BY <1>1, AnswerInit, AnswerNext, PTL DEF Spec

(* However long the handlers take, the loop never goes back to waiting     *)
(* with a tick it has not answered (lines 209 to 222).                     *)
THEOREM NeverBehind == Spec => []CaughtUp
<1>1. AnswerInv => CaughtUp
  BY DEF AnswerInv, CaughtUp, Waiting
<1> QED
  BY <1>1, AnswerInit, AnswerNext, PTL DEF Spec

(* However the interrupt falls, one tick starts two handlers at most. *)
THEOREM NoThirdTime == Spec => []AtMostTwice
<1>1. AnswerInv => AtMostTwice
  BY DEF AnswerInv, AtMostTwice
<1> QED
  BY <1>1, AnswerInit, AnswerNext, PTL DEF Spec

(***************************************************************************)
(* A tick that finds the loop waiting finds it caught up: the counter is   *)
(* one ahead of the last dispatch until this tick's own, and another tick  *)
(* in between would be one that does not find it waiting.                  *)
(***************************************************************************)
OrderInv ==
  /\ AnswerInv
  /\ idle /\ (TimerTick \/ pc = "dispatch") => MS_counter = NextMS(seen)
  /\ idle /\ pc \in {"dispatch", "handler"} => ~TimerTick

LEMMA OrderInit == Init => OrderInv
  BY AnswerInit DEF Init, OrderInv

LEMMA OrderNext == OrderInv /\ [Next]_vars => OrderInv'
<1> SUFFICES ASSUME OrderInv, [Next]_vars PROVE OrderInv'
  OBVIOUS
<1>1. AnswerInv'
  BY AnswerNext DEF OrderInv
<1> USE DEF OrderInv
<1>2. CASE handle_timer_interrupt
  <2>1. idle' => seen = MS_counter /\ pc = "test"
    BY <1>2 DEF handle_timer_interrupt, Waiting, AnswerInv
  <2> QED
    BY <1>1, <1>2, <2>1 DEF handle_timer_interrupt
<1>3. CASE TestTick
  BY <1>1, <1>3 DEF TestTick
<1>4. CASE ClearTick
  BY <1>1, <1>4 DEF ClearTick, AnswerInv
<1>5. CASE Dispatch
  BY <1>1, <1>5 DEF Dispatch
<1>6. CASE Return
  BY <1>1, <1>6 DEF Return
<1>7. CASE UNCHANGED vars
  BY <1>1, <1>7 DEF vars
<1> QED
  BY <1>2, <1>3, <1>4, <1>5, <1>6, <1>7 DEF Next, Loop

(* A tick that found the loop waiting is answered by the next slot: none   *)
(* is skipped, also where MS_counter wraps (lines 222 and 422).            *)
THEOREM SlotsInOrder == Spec => InOrder
<1>1. OrderInv => [pc = "dispatch" /\ idle => MS_counter = NextMS(seen)]_<< pc, seen >>
  BY DEF OrderInv
<1> QED
  BY <1>1, OrderInit, OrderNext, PTL DEF Spec, InOrder
=============================================================================
