----------------------------- MODULE MCRating -----------------------------
(***************************************************************************)
(* A small instance of Rating for TLC: a file, its reissue under another   *)
(* name of the same key, and a file of another key.  The two contents are  *)
(* of one usage: two cells in January, or, corrected, one of them in       *)
(* February.  The reissue and the other file are not both delivered.       *)
(***************************************************************************)
EXTENDS RatingProps

MCKeyOf == [f \in File |-> IF f = "other" THEN "K" ELSE "J"]

MCRecord == [cell : {1, 2}, month : {1}, at : {1}] \cup [cell : {1}, month : {2}, at : {2}]

MCRecordsOf ==
    [c \in Content |-> {r \in MCRecord : r.month = IF c = "january" THEN 1 ELSE 2}]

RatingDesk ==
    /\ RatingNext
    /\ Absent \in {dropped'["reissue"], dropped'["other"]}

=============================================================================
