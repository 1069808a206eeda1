---------------------------- MODULE MCSpiCommand ----------------------------
(* An instance of SpiCommand: the console's commands, the longer ones cut    *)
(* down (a page and its address, a status read, a dump), and a toggled one.  *)
EXTENDS SpiCommand

C(w, r, merge_, toggle_) == [write |-> w, read |-> r, merge |-> merge_, toggle |-> toggle_]
FlashCommands == {C(1, 0, FALSE, FALSE), C(1, 1, FALSE, FALSE), C(2, 0, TRUE, FALSE),
                  C(3, 0, FALSE, FALSE), C(0, 3, FALSE, FALSE), C(1, 2, TRUE, TRUE)}
=============================================================================
