------------------------------ MODULE Expander ------------------------------
(***************************************************************************)
(* The MCP23S17 port expander as SPI_GPIO.c uses it: sixteen outputs in    *)
(* two 8-bit ports, an output latch and a direction register per port, and *)
(* the 24-bit SPI words (opcode, register, data) that write them.  A value *)
(* of a register is the set of the pins whose bit is 1.                    *)
(*                                                                         *)
(* The chip itself is outside src/: it is modelled by what the firmware    *)
(* relies on.  It comes out of power-on reset with every latch bit 0 and   *)
(* every pin an input, writes a register when the last bit of a word has   *)
(* been clocked in, and ignores a word that was cut short.                 *)
(***************************************************************************)
EXTENDS Sequences

CONSTANTS PinsA,      \* the pins of port A, bits 0..7 of GPIO_Val
          PinsB       \* the pins of port B, bits 8..15 of GPIO_Val

ASSUME PortsAssumption == PinsA \cap PinsB = {}

Pins == PinsA \cup PinsB

(***************************************************************************)
(* The registers SPI_GPIO.c writes.  SPI_GPIOInit writes them in this      *)
(* order, SPI_GPIOWrite only the first two.                                *)
(***************************************************************************)
Regs == {"GPIOA", "GPIOB", "IODIRA", "IODIRB"}

Words == [reg : Regs, val : SUBSET Pins]

(* Line 81 and 82 mask the port's byte out of the 16-bit value, lines 75   *)
(* and 76 write 0: all eight pins of the port become outputs.              *)
Word(reg, val) ==
  [reg |-> reg,
   val |-> CASE reg = "GPIOA" -> val \cap PinsA
             [] reg = "GPIOB" -> val \cap PinsB
             [] OTHER         -> {}]

FlushWords(val) == << Word("GPIOA", val), Word("GPIOB", val) >>
InitWords(val)  == FlushWords(val) \o << Word("IODIRA", {}), Word("IODIRB", {}) >>

(***************************************************************************)
(* The output latches and the outputs of the chip after a word.            *)
(***************************************************************************)
LatchAfter(olat, w) ==
  CASE w.reg = "GPIOA" -> (olat \ PinsA) \cup w.val
    [] w.reg = "GPIOB" -> (olat \ PinsB) \cup w.val
    [] OTHER           -> olat

OutputsAfter(outputs, w) ==
  CASE w.reg = "IODIRA" -> outputs \cup PinsA
    [] w.reg = "IODIRB" -> outputs \cup PinsB
    [] OTHER            -> outputs
=============================================================================
