------------------------------- MODULE MCI2c -------------------------------
(* Instances of I2cDriver: the calls of a program that polls, and of one    *)
(* that uses the interrupt callback.  The speeds for I2cConfig lie on both  *)
(* sides of every limit: 764 Hz, 100 kHz and 400 kHz.                       *)
EXTENDS I2cConfig

C(tx, rx, irq_) == [tx |-> tx, rx |-> rx, irq |-> irq_]

Polled == {C(2, 0, FALSE), C(0, 2, FALSE), C(1, 1, FALSE)}
AllCalls == Polled \union {C(2, 0, TRUE), C(0, 2, TRUE), C(1, 1, TRUE)}
WriteCalls == {C(2, 0, FALSE)}

Speeds == {0, 1, 2, 100, 400, 762, 763, 764, 765, 1000, 9999, 33333, 50000, 99999,
           100000, 100001, 123457, 300000, 399999, 400000, 400001, 500000}
=============================================================================
