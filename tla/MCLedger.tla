------------------------------ MODULE MCLedger ------------------------------
(***************************************************************************)
(* A small instance of Ledger for TLC.  To keep its states few a behaviour *)
(* is of one of two desks: one where nothing closes, so that nothing is    *)
(* left as a draft, and one where account and period may close and a       *)
(* document is always spare.  The proofs are about all steps together.     *)
(***************************************************************************)
EXTENDS LedgerProps, TLC

VARIABLE desk

deskVars == <<lvars, desk>>

LedgerDesksInit == LedgerInit /\ desk \in {"reversing", "closing"}

LedgerDesksNext ==
    /\ desk' = desk
    /\ \/ desk = "reversing" /\ \E p \in Person : LedgerStep(p)
       \/ desk = "closing" /\ LedgerNext /\ \E d \in Doc : Fresh(d)'

LedgerDesksSpec == LedgerDesksInit /\ [][LedgerDesksNext]_deskVars

\* Of documents only: the group is tried on every state of MCOffice.
Symmetry == Permutations(Doc)

=============================================================================
