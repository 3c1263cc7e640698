------------------------ MODULE MCDocumentExtraction ------------------------
(* Instances of DocumentExtraction for TLC.                                *)
EXTENDS DocumentExtraction, TLC

CONSTANTS invoice, statement, letter, slip, note, u1, u2, p1, p2

(* An invoice and a bank statement list one payment, the statement another *)
(* as well; a letter tells of the first and encloses a slip without amount,*)
(* and a slip of paper tells of the first, dated too vaguely to be sure;   *)
(* so does a note that doesn't say whom it was paid to.                    *)
ItemsOf == [f \in Files |-> CASE f = invoice -> <<p1>>
                              [] f = statement -> <<p1, p2>>
                              [] f = letter -> <<p1, Unpriced>>
                              [] f \in {slip, note} -> <<p1>>]
RankOfFile == [f \in Files |-> IF f = invoice THEN 2 ELSE 1]
ZipOf == IF statement \in Files THEN <<invoice, statement>> ELSE << >>
=============================================================================
