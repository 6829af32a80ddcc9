------------------------- MODULE MCRecordEditing -------------------------
(* A faction and the rank held in it: joining another faction empties the rank. *)
EXTENDS RecordEditing

MCFields == {"faction", "rank"}
MCResets == [f \in MCFields |-> IF f = "faction" THEN {"rank"} ELSE {}]
=============================================================================
