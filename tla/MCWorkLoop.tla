----------------------------- MODULE MCWorkLoop -----------------------------
(* Small instances of WorkLoop: two stories that share an epic, or of which   *)
(* the second has no use case and so no epic.                                 *)
EXTENDS WorkLoop

CONSTANTS E1, Orphan

TwoInOneEpic   == [s \in {1, 2} |-> E1]
SecondIsOrphan == [s \in {1, 2} |-> IF s = 2 THEN Orphan ELSE E1]
=============================================================================
