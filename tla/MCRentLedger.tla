---------------------------- MODULE MCRentLedger ----------------------------
(* Instances of RentLedger for TLC.                                        *)
EXTENDS RentLedger

CONSTANTS s1, s2, c1, c2

(* Months of two and of three days, and a "week" of two days.              *)
ShortMonths == {0, 2, 5}

ShortWeek == [weekly |-> 2]

(* A monthly rent from the middle of a month, and a weekly one from the    *)
(* next month on: the one has to end for the other to begin.               *)
TwoTerms == {[start |-> 1, end |-> None, cadence |-> "monthly", amount |-> 5],
             [start |-> 2, end |-> None, cadence |-> "weekly", amount |-> 3]}

MoveOutDays == {None, 1, 2}

LateFee == {[due |-> 1, amount |-> 2]}

Payments == {<<4, 3>>, <<2, 2, 9>>}

LedgerSymmetry == Permutations(Schedules) \union Permutations(Calls)
=============================================================================
