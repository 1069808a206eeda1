------------------------------ MODULE GpioLink ------------------------------
(***************************************************************************)
(* What SPI_GPIO.c promises its callers: a shadow of the expander's latch  *)
(* that Set and Clr change at once, and a flush that sends the whole       *)
(* shadow as one atomic step over a link that delivers the words one by    *)
(* one and in order.  SpiGpio implements it; PowerSeq is built on it.      *)
(***************************************************************************)
EXTENDS Expander, Naturals

CONSTANTS InitVal,       \* the argument of SPI_GPIOInit
          MaxRestarts    \* bound: resets of the FPGA

VARIABLES GPIO_Val,      \* the shadow register
          GPIO_Changed,  \* the shadow is newer than what was last sent
          link,          \* words sent and not yet delivered, oldest first
          olat,          \* the output latches of the chip
          outputs,       \* the pins of the chip that are outputs
          restarts

vars == << GPIO_Val, GPIO_Changed, link, olat, outputs, restarts >>

Init ==
  /\ GPIO_Val = InitVal
  /\ GPIO_Changed = FALSE
  /\ link = InitWords(InitVal)
  /\ olat = {}
  /\ outputs = {}
  /\ restarts = 0

(* A caller changes the shadow; the flag is raised when the value differs. *)
Update ==
  /\ \E v \in SUBSET Pins : v # GPIO_Val /\ GPIO_Val' = v
  /\ GPIO_Changed' = TRUE
  /\ UNCHANGED << link, olat, outputs, restarts >>

(* The two words a flush sends wait behind at most two earlier ones: the   *)
(* transmitter has a holding and a shift register.                         *)
Flush ==
  /\ GPIO_Changed
  /\ Len(link) <= 2
  /\ link' = link \o FlushWords(GPIO_Val)
  /\ GPIO_Changed' = FALSE
  /\ UNCHANGED << GPIO_Val, olat, outputs, restarts >>

Deliver ==
  /\ link # << >>
  /\ olat' = LatchAfter(olat, Head(link))
  /\ outputs' = OutputsAfter(outputs, Head(link))
  /\ link' = Tail(link)
  /\ UNCHANGED << GPIO_Val, GPIO_Changed, restarts >>

(* A reset of the FPGA: the link and the shadow start over, the chip keeps *)
(* its registers.                                                          *)
Restart ==
  /\ restarts < MaxRestarts
  /\ restarts' = restarts + 1
  /\ GPIO_Val' = InitVal
  /\ GPIO_Changed' = FALSE
  /\ link' = InitWords(InitVal)
  /\ UNCHANGED << olat, outputs >>

Next == Update \/ Flush \/ Deliver \/ Restart

Fair == WF_vars(Flush) /\ WF_vars(Deliver)
Spec == Init /\ [][Next]_vars /\ Fair
=============================================================================
