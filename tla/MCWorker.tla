------------------------------ MODULE MCWorker ------------------------------
(* Four bytes in two banks: addresses 0 and 1 are two rows of one bank, 2 and *)
(* 3 one row of the other.  An access of two bytes at 3 straddles the end.    *)
EXTENDS Worker

CONSTANTS b1, b2

MCBankOf == [a \in 0 .. 3 |-> IF a < 2 THEN b1 ELSE b2]
MCRowOf  == [a \in 0 .. 3 |-> IF a = 1 THEN 1 ELSE 0]
(* DDR4 with one rank: flat_bank_id tells all banks apart.                   *)
MCFlatBank == [b \in Banks |-> b]
=============================================================================
