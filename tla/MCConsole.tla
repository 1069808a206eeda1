------------------------------ MODULE MCConsole ------------------------------
(* An instance of Console: two keys, commands of one and two of them.        *)
EXTENDS Console

MCWords == [xmodem |-> <<"b", "c">>, bmc |-> <<"b">>, cpu |-> <<"c">>]
=============================================================================
