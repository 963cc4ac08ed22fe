----------------------------- MODULE Invoicing -----------------------------
(***************************************************************************)
(* What posting an approved run promises, whoever carries it out and       *)
(* however often it is stopped and resumed: every account is settled once, *)
(* either by one invoice or, when its bill is worth nothing, by none, and  *)
(* the books of the run are closed when all of them are.                   *)
(***************************************************************************)
EXTENDS Naturals

CONSTANTS
    Account,    \* the accounts approval left to be invoiced
    Worthless   \* those whose bill is zero in subtotal and total

VARIABLES
    issued,     \* invoices in the ledger, per account
    passed,     \* accounts passed over
    booked      \* the run's revenue is booked

avars == <<issued, passed, booked>>

Settled(b) == issued[b] > 0 \/ b \in passed

Init ==
    /\ issued = [b \in Account |-> 0]
    /\ passed = {}
    /\ booked = FALSE

Invoice(b) ==
    /\ ~booked /\ ~Settled(b) /\ b \notin Worthless
    /\ issued' = [issued EXCEPT ![b] = 1]
    /\ UNCHANGED <<passed, booked>>

PassOver(b) ==
    /\ ~booked /\ ~Settled(b) /\ b \in Worthless
    /\ passed' = passed \cup {b}
    /\ UNCHANGED <<issued, booked>>

Book ==
    /\ ~booked
    /\ \A b \in Account : Settled(b)
    /\ booked' = TRUE
    /\ UNCHANGED <<issued, passed>>

Next == Book \/ \E b \in Account : Invoice(b) \/ PassOver(b)

Spec == Init /\ [][Next]_avars

=============================================================================
