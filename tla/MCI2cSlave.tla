---------------------------- MODULE MCI2cSlave -----------------------------
(* An instance of I2cSlave: three bits to a byte, address 01.               *)
EXTENDS I2cSlave

MCAddress == [i \in 0 .. 1 |-> IF i = 0 THEN 1 ELSE 0]
MCInputs == {[i \in 0 .. 2 |-> IF i = 1 THEN 1 ELSE 0], [i \in 0 .. 2 |-> IF i = 1 THEN 0 ELSE 1]}
=============================================================================
