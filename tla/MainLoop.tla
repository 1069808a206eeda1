------------------------------ MODULE MainLoop ------------------------------
(***************************************************************************)
(* The event loop of main() against the timer interrupt.                   *)
(*                                                                         *)
(* timer_0 interrupts every millisecond.  handle_timer_interrupt raises    *)
(* TimerTick and advances MS_counter; the loop sees the flag, clears it    *)
(* and calls the handler of the slot MS_counter % 10.  The flag and the    *)
(* counter are two variables, read one after the other with the interrupt  *)
(* enabled: `pc` names the statement the loop is about to execute, and the *)
(* interrupt may come between any two of them.                             *)
(*                                                                         *)
(* Time is not counted.  Two facts about it are kept.  A pass of the loop  *)
(* that starts on a tick the loop was waiting for, and runs a short        *)
(* handler, is over before the next tick.  A pass that starts late, on a   *)
(* tick that was pending already, meets one more tick at most.  The        *)
(* handlers in Slow (the console, which polls the flash while it is busy;  *)
(* MachPower in the stage that writes the clock generator over I2C) last   *)
(* up to MaxOverrun ticks.  `room` is the number of ticks that may still   *)
(* come before the pass is over.                                           *)
(***************************************************************************)
EXTENDS Naturals

CONSTANTS SLOTS,       \* the handlers the loop rotates through: 10
          MS_WRAP,     \* values of MS_counter: 1000
          Slow,        \* the slots whose handler may outlast a tick
          MaxOverrun   \* bound: ticks that come during a slow handler

ASSUME SlotsAssumption == SLOTS \in Nat \ {0} /\ MS_WRAP \in Nat \ {0}
ASSUME WrapAssumption == MS_WRAP % SLOTS = 0
ASSUME SlowAssumption == Slow \subseteq 0 .. (SLOTS - 1) /\ MaxOverrun \in Nat

VARIABLES
  TimerTick,     \* SysCntrl.TimerTick
  MS_counter,    \* SysCntrl.MS_counter
  pc,            \* the statement of the loop: "test", "clear", "dispatch", "handler"
  seen,          \* the value of MS_counter the last dispatch used
  room,          \* ticks that may still come during this pass of the loop
  idle,          \* history: the last tick found the loop waiting for it
  served,        \* history: dispatches since the last tick
  since          \* history: ticks since the handler of each slot was started

vars == << TimerTick, MS_counter, pc, seen, room, idle, served, since >>

Slot == 0 .. (SLOTS - 1)
Late == SLOTS + 1         \* `since` does not count beyond this

TypeOK ==
  /\ TimerTick \in BOOLEAN
  /\ MS_counter \in 0 .. (MS_WRAP - 1)
  /\ pc \in {"test", "clear", "dispatch", "handler"}
  /\ seen \in 0 .. (MS_WRAP - 1)
  /\ room \in 0 .. (MaxOverrun + 1)
  /\ idle \in BOOLEAN
  /\ served \in 0 .. 3
  /\ since \in [Slot -> 0 .. Late]

(* The flag is zero in .bss, MS_counter is cleared on line 177. *)
Init ==
  /\ TimerTick = FALSE
  /\ MS_counter = 0
  /\ pc = "test"
  /\ seen = 0
  /\ room = 0
  /\ idle = TRUE
  /\ served = 0
  /\ since = [s \in Slot |-> 0]

(***************************************************************************)
(* The timer interrupt.                                                    *)
(***************************************************************************)
(* Mutant: the wrap is tested one too late. *)
BugNextMS(ms) == IF ms + 1 > MS_WRAP THEN 0 ELSE ms + 1

NextMS(ms) == IF ms + 1 > MS_WRAP - 1 THEN 0 ELSE ms + 1

Waiting == pc = "test" /\ ~TimerTick

handle_timer_interrupt ==
  /\ Waiting \/ room > 0
  /\ TimerTick' = TRUE
  /\ MS_counter' = NextMS(MS_counter)
  /\ room' = IF Waiting THEN 0 ELSE room - 1
  /\ idle' = Waiting
  /\ served' = 0
  /\ since' = [s \in Slot |-> IF since[s] < Late THEN since[s] + 1 ELSE Late]
  /\ UNCHANGED << pc, seen >>

(***************************************************************************)
(* The loop.                                                               *)
(***************************************************************************)
TestTick ==
  /\ pc = "test"
  /\ TimerTick
  /\ pc' = "clear"
  /\ UNCHANGED << TimerTick, MS_counter, seen, room, idle, served, since >>

(* Mutant: the flag is not cleared. *)
BugClearTick ==
  /\ pc = "clear"
  /\ pc' = "dispatch"
  /\ UNCHANGED << TimerTick, MS_counter, seen, room, idle, served, since >>

ClearTick ==
  /\ pc = "clear"
  /\ TimerTick' = FALSE
  /\ pc' = "dispatch"
  /\ UNCHANGED << MS_counter, seen, room, idle, served, since >>

(* The switch reads MS_counter, which need not be the one of the tick that *)
(* was cleared.                                                            *)
Dispatch ==
  /\ pc = "dispatch"
  /\ seen' = MS_counter
  /\ since' = [since EXCEPT ![MS_counter % SLOTS] = 0]
  /\ served' = served + 1
  /\ room' = IF MS_counter % SLOTS \in Slow THEN MaxOverrun ELSE room
  /\ pc' = "handler"
  /\ UNCHANGED << TimerTick, MS_counter, idle >>

(* The handler returns.  If another tick is pending by then, the next pass *)
(* starts late.                                                            *)
Return ==
  /\ pc = "handler"
  /\ pc' = "test"
  /\ room' = IF TimerTick THEN 1 ELSE 0
  /\ UNCHANGED << TimerTick, MS_counter, seen, idle, served, since >>

(* Mutant: the counter is read first and the flag cleared after it. *)
BugLoop ==
  \/ /\ pc = "test" /\ TimerTick
     /\ pc' = "dispatch"
     /\ UNCHANGED << TimerTick, MS_counter, seen, room, idle, served, since >>
  \/ /\ pc = "dispatch"
     /\ seen' = MS_counter
     /\ pc' = "clear"
     /\ UNCHANGED << TimerTick, MS_counter, room, idle, served, since >>
  \/ /\ pc = "clear"
     /\ TimerTick' = FALSE
     /\ since' = [since EXCEPT ![seen % SLOTS] = 0]
     /\ served' = served + 1
     /\ room' = IF seen % SLOTS \in Slow THEN MaxOverrun ELSE room
     /\ pc' = "handler"
     /\ UNCHANGED << MS_counter, seen, idle >>
  \/ Return

Loop == TestTick \/ ClearTick \/ Dispatch \/ Return

Next == handle_timer_interrupt \/ Loop

(* The timer runs for ever, and so does the loop: a handler ends after     *)
(* MaxOverrun ticks at most.  One that stands for good (the page writer's  *)
(* wait, see Console and PowerSeq) is not looked at here.                  *)
Spec ==
  /\ Init /\ [][Next]_vars
  /\ WF_vars(handle_timer_interrupt) /\ WF_vars(Loop)

-----------------------------------------------------------------------------
(* Whenever the loop waits for a tick, the handler it ran last was chosen  *)
(* with the current MS_counter: clearing the flag before reading the       *)
(* counter (lines 210 and 222) never leaves a tick unanswered, whatever    *)
(* the handlers' duration.                                                 *)
CaughtUp == Waiting => seen = MS_counter

(* One tick starts two handlers at most: the second one when the tick came *)
(* between the clearing of the flag and the reading of the counter, so     *)
(* that the same slot is run again.                                        *)
AtMostTwice == served <= 2

(* The handler of a slot is started every tenth tick: what BackInStep says *)
(* of a loop that is not overrun.                                          *)
TickEveryTen == \A s \in Slot : since[s] <= SLOTS

(* What the comments say of the handlers of slots 1 and 9 (lines 227 and   *)
(* 246): "Tick every 10 ms".                                               *)
CommentedTicks == since[1] <= SLOTS /\ since[9] <= SLOTS

(* When the handlers stop overrunning, every slot is back to its ten       *)
(* milliseconds for good: an overrun leaves no lasting phase error.        *)
BackInStep == <>[]idle => <>[]TickEveryTen

(* The slots are run in order: a tick that found the loop waiting starts   *)
(* the slot after the one run last, whatever overruns came before and also *)
(* where MS_counter wraps.                                                 *)
InOrder ==
  [][pc = "dispatch" /\ idle => MS_counter = NextMS(seen)]_<< pc, seen >>
=============================================================================
