----------------------------- MODULE SpiCommand -----------------------------
(***************************************************************************)
(* alt_avalon_spi_command over the spi_1 core and a slave: how the console *)
(* talks to the flash.  A byte goes out for each byte that comes in; the   *)
(* slave's answer is told by its place in the frame, the time the slave is *)
(* selected.  Processor and core go on at their own pace: a status word is *)
(* old when it is used.                                                    *)
(***************************************************************************)
EXTENDS Integers, Sequences

CONSTANTS
  Commands,   \* the calls: [write, read: bytes, merge, toggle: the two flags]
  MaxCalls    \* bound: calls made

ASSUME CommandsAssumption ==
  /\ \A c \in Commands : /\ c.write \in Nat /\ c.read \in Nat
                         /\ c.merge \in BOOLEAN /\ c.toggle \in BOOLEAN
  /\ MaxCalls \in Nat \ {0}

VARIABLES
  tx_holding_primed, transmitting,   \* the core
  RRDY, ROE, rx_holding_reg, SSO,
  frame,                             \* bytes exchanged in this frame
  pc, cmd, calls,                    \* the call and its number
  credits, status,
  sent, read_ignore, read_data,      \* bytes sent, answers to ignore, those kept
  start                              \* history: frame when the call began

core == <<tx_holding_primed, transmitting, RRDY, ROE, rx_holding_reg, SSO, frame>>
call == <<cmd, calls, start>>
locals == <<credits, status, sent, read_ignore, read_data>>
vars == <<core, pc, call, locals>>

NoCommand == [write |-> 0, read |-> 0, merge |-> FALSE, toggle |-> FALSE]
NoStatus == [TRDY |-> FALSE, RRDY |-> FALSE]
TRDY == ~(transmitting /\ tx_holding_primed)
TMT == ~transmitting /\ ~tx_holding_primed

Init ==
  /\ tx_holding_primed = FALSE /\ transmitting = FALSE
  /\ RRDY = FALSE /\ ROE = FALSE /\ rx_holding_reg = 0 /\ SSO = FALSE /\ frame = 0
  /\ pc = "idle" /\ cmd = NoCommand /\ calls = 0 /\ start = 0
  /\ credits = 0 /\ status = NoStatus /\ sent = 0 /\ read_ignore = 0 /\ read_data = <<>>

BugCredits == 2
Credits == 1

\* The slave is selected, unless the core is to do it byte by byte, and a byte
\* left in the core is thrown away.
Call(c) ==
  /\ pc = "idle" /\ calls < MaxCalls /\ pc' = "poll"
  /\ cmd' = c /\ calls' = calls + 1 /\ start' = frame
  /\ credits' = Credits /\ status' = NoStatus /\ sent' = 0 /\ read_data' = <<>>
  /\ read_ignore' = c.write
  /\ SSO' = (SSO \/ ~c.toggle) /\ RRDY' = FALSE
  /\ UNCHANGED <<tx_holding_primed, transmitting, ROE, rx_holding_reg, frame>>

BugPoll ==
  /\ pc = "poll" /\ TRDY /\ credits > 0
  /\ status' = [TRDY |-> TRDY, RRDY |-> RRDY] /\ pc' = "send"
  /\ UNCHANGED <<core, call, credits, sent, read_ignore, read_data>>

\* The loop that reads the status until there is something to do.
Poll ==
  /\ pc = "poll" /\ ((TRDY /\ credits # 0) \/ RRDY)
  /\ status' = [TRDY |-> TRDY, RRDY |-> RRDY] /\ pc' = "send"
  /\ UNCHANGED <<core, call, credits, sent, read_ignore, read_data>>

\* A byte of the command, or a zero for each byte to read.  The core drops a
\* byte it has no room for.
Send ==
  /\ pc = "send" /\ pc' = "receive"
  /\ IF status.TRDY /\ credits > 0
     THEN IF sent < cmd.write + cmd.read
          THEN /\ credits' = credits - 1 /\ sent' = sent + 1
               /\ tx_holding_primed' = TRUE
          ELSE credits' = -1024 /\ UNCHANGED <<sent, tx_holding_primed>>
     ELSE UNCHANGED <<credits, sent, tx_holding_primed>>
  /\ UNCHANGED <<transmitting, RRDY, ROE, rx_holding_reg, SSO, frame, call, status,
                 read_ignore, read_data>>

\* An answer, if the status promised one: the answers to the command are
\* ignored, those to the zeros kept.
Receive ==
  /\ pc = "receive"
  /\ IF status.RRDY
     THEN /\ RRDY' = FALSE /\ credits' = credits + 1
          /\ IF read_ignore > 0 THEN read_ignore' = read_ignore - 1 /\ UNCHANGED read_data
             ELSE read_data' = Append(read_data, rx_holding_reg) /\ UNCHANGED read_ignore
          /\ pc' = IF read_ignore' = 0 /\ Len(read_data') = cmd.read THEN "finish" ELSE "poll"
     ELSE pc' = "poll" /\ UNCHANGED <<RRDY, credits, read_ignore, read_data>>
  /\ UNCHANGED <<tx_holding_primed, transmitting, ROE, rx_holding_reg, SSO, frame, call,
                 status, sent>>

\* The end of the transmission, and of the frame if the caller says so.
Finish ==
  /\ pc = "finish" /\ TMT /\ pc' = "idle"
  /\ SSO' = (SSO /\ cmd.merge)
  /\ frame' = IF SSO' THEN frame ELSE 0
  /\ UNCHANGED <<tx_holding_primed, transmitting, RRDY, ROE, rx_holding_reg, call, locals>>

\* The core: a byte starts; it has been exchanged.
LoadShift ==
  /\ tx_holding_primed /\ ~transmitting
  /\ tx_holding_primed' = FALSE /\ transmitting' = TRUE
  /\ UNCHANGED <<RRDY, ROE, rx_holding_reg, SSO, frame, pc, call, locals>>
Complete ==
  /\ transmitting /\ transmitting' = FALSE
  /\ RRDY' = TRUE /\ ROE' = (ROE \/ RRDY) /\ rx_holding_reg' = frame + 1
  /\ frame' = IF SSO THEN frame + 1 ELSE 0
  /\ UNCHANGED <<tx_holding_primed, SSO, pc, call, locals>>

Processor == Poll \/ Send \/ Receive \/ Finish
Core == LoadShift \/ Complete
Next == (\E c \in Commands : Call(c)) \/ Processor \/ Core
Spec == Init /\ [][Next]_vars /\ WF_vars(Processor) /\ WF_vars(Core)
----------------------------------------------------------------------------
FlagTypes ==
  /\ tx_holding_primed \in BOOLEAN /\ transmitting \in BOOLEAN
  /\ RRDY \in BOOLEAN /\ ROE \in BOOLEAN /\ SSO \in BOOLEAN
  /\ status \in [TRDY : BOOLEAN, RRDY : BOOLEAN]
CountTypes ==
  /\ rx_holding_reg \in Nat /\ frame \in Nat /\ start \in Nat
  /\ pc \in {"idle", "poll", "send", "receive", "finish"}
  /\ cmd \in Commands \cup {NoCommand} /\ calls \in 0 .. MaxCalls
  /\ credits \in {-1024, 0, 1}
  /\ sent \in 0 .. cmd.write + cmd.read /\ read_ignore \in 0 .. cmd.write
  /\ read_data \in Seq(Nat) /\ Len(read_data) <= cmd.read

\* The core's registers, the locals and the place in the frame keep to their
\* ranges: no more is sent than the command asks for, no more kept than the
\* caller's buffer holds.
TypeOK == FlagTypes /\ CountTypes

\* The bytes a command returns are the slave's answers to the zeros behind its
\* command bytes, none lost to a full register (line 53), none of an older
\* command: in the frame that a merged command has left open they go on where
\* it stopped.
AnswersInPlace ==
  /\ ~ROE
  /\ pc = "finish" =>
       \A k \in 1 .. cmd.read :
         read_data[k] = IF SSO THEN start + cmd.write + k ELSE 1

\* A command that has something to send comes back: the loop has no time-out
\* (one with nothing to send never does; no caller has one).
CommandReturns ==
  pc = "poll" /\ cmd.write + cmd.read > 0 ~> pc = "idle"
=============================================================================
