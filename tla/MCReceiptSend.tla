--------------------------- MODULE MCReceiptSend ---------------------------
(* Instances of ReceiptSend for TLC.                                       *)
EXTENDS ReceiptSend, TLC

CONSTANTS r1, r2, a1, a2, a3, g1, g2, e1, e2, y1

(* Every receipt is numbered in the one series of its user and year. *)
OneSeries == [r \in Receipts |-> CHOOSE s \in Series : TRUE]

AttemptSymmetry ==
    Permutations(Attempts \ Legacy) \union Permutations(Accounts) \union Permutations(Addresses)
=============================================================================
