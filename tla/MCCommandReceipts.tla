-------------------------- MODULE MCCommandReceipts --------------------------
(* Small instances of CommandReceipts: three attempts, all or two of them   *)
(* in one process, with every combination of two requests.                  *)
EXTENDS CommandReceipts

CONSTANTS P, Q, c1, c2, c3

AllInOne == [c \in Attempts |-> P]
TwoInOne == [c \in Attempts |-> IF c = c3 THEN Q ELSE P]
=============================================================================
