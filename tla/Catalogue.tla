----------------------------- MODULE Catalogue -----------------------------
(***************************************************************************)
(* The product catalogue (services/product): versions of offerings, their  *)
(* families and their prices.                                              *)
(*                                                                         *)
(* An operation locks the version's row, tests its status and writes, in   *)
(* one transaction: it is one step.  The services for specifications do    *)
(* not lock the version they branch, and take two: meanwhile it may go off *)
(* sale.                                                                   *)
(*                                                                         *)
(* Abstractions.  A price row is a base rate or a modifier; the checks of  *)
(* currency, dates and lanes, which may just refuse, are left out, and so  *)
(* are names, sellability and specifications.  Editing one of these shows  *)
(* here only where it branches, and submission for testing may be refused  *)
(* for a specification that is not resolved.                               *)
(***************************************************************************)

CONSTANTS
    Version,    \* ids of offering versions, never used twice
    Price,      \* price rows
    Modifier    \* those that need a base rate beside them

ASSUME CatalogueAssumption == Modifier \subseteq Price

VARIABLE
    offering    \* rows of versions

-----------------------------------------------------------------------------
LifecycleStatus == {"DRAFT", "TESTING", "ACTIVE", "OBSOLETE", "RETIRED"}

OfferingRow ==
    [status : LifecycleStatus \cup {"none", "deleted", "copying"}, root : Version,
     prices : SUBSET Price]

CatalogueTypeOK == offering \in [Version -> OfferingRow]

CatalogueInit ==
    offering = [v \in Version |-> [status |-> "none", root |-> v, prices |-> {}]]

Exists(v) == offering[v].status \in LifecycleStatus
Open(v) == offering[v].status \in {"DRAFT", "TESTING"}
Family(v) == {w \in Version : Exists(w) /\ offering[w].root = offering[v].root}

Becomes(v, status) == offering' = [offering EXCEPT ![v].status = status]

-----------------------------------------------------------------------------
\* Mutant of ValidComponents: the rows as they were before the write.
ValidAsItWas(P, Q) == P \cap Modifier # {} => P \ Modifier # {}

\* validateOfferingComponents: the rows Q as they would be after the write.
ValidComponents(P, Q) == Q \cap Modifier # {} => Q \ Modifier # {}

\* insertPrice, deletePrice and updatePrice, as far as they are not refused.
Inserted(P) == {Q \in {P \cup {p} : p \in Price} : ValidComponents(P, Q)}
Deleted(P) == {Q \in {P \ {p} : p \in P} : ValidComponents(P, Q)}
Updated(P) == {Q \in {(P \ {p}) \cup {q} : p \in P, q \in Price} : ValidComponents(P, Q)}

CreateOffering(v) ==
    /\ offering[v].status = "none"
    /\ Becomes(v, "DRAFT")

\* The index that allows one open version a family.
NoneOpen(v) == \A w \in Family(v) : ~Open(w)

\* branchOfferingAsDraft.
Branchable(v) == offering[v].status \in {"DRAFT", "ACTIVE"} /\ NoneOpen(v)

\* An edit of a version on sale goes to a copy: it changes what is not modelled
\* (updateOffering) or inserts a price.
Branch(v, w) ==
    /\ Branchable(v) /\ offering[w].status = "none"
    /\ \E Q \in {offering[v].prices} \cup Inserted(offering[v].prices) :
          offering' = [offering EXCEPT ![w] =
                          [status |-> "DRAFT", root |-> offering[v].root, prices |-> Q]]

\* An edit of its specifications (add, update, delete): the version was on sale
\* when it was read, unlocked; the copy appears later, or never.
ReadSource(v, w) ==
    /\ offering[v].status = "ACTIVE" /\ offering[w].status = "none"
    /\ offering' = [offering EXCEPT ![w] = [offering[v] EXCEPT !.status = "copying"]]

InsertCopy(w) == offering[w].status = "copying" /\ NoneOpen(w) /\ Becomes(w, "DRAFT")

\* Mutant of Editable: prices of a version on sale are edited in place.
EditableUntilOffSale(v) == Open(v) \/ offering[v].status = "ACTIVE"

\* The status under the lock, which the trigger on the rows tests again.
Editable(v) == offering[v].status = "DRAFT"

EditPrices(v) ==
    /\ Editable(v)
    /\ \E Q \in Inserted(offering[v].prices) \cup Deleted(offering[v].prices)
                    \cup Updated(offering[v].prices) :
          offering' = [offering EXCEPT ![v].prices = Q]

-----------------------------------------------------------------------------
SubmitForTesting(v) ==
    /\ offering[v].status = "DRAFT" /\ offering[v].prices # {}
    /\ Becomes(v, "TESTING")

\* Mutant of Returnable: a version can be taken back from sale.
ReturnableFromSale(v) == offering[v].status \in {"TESTING", "ACTIVE"}

Returnable(v) == offering[v].status = "TESTING"

ReturnToDraft(v) == Returnable(v) /\ Becomes(v, "DRAFT")

\* Under the lock on the family: the version sold so far goes off sale.
Activated(v) ==
    [w \in Version |->
        IF w = v THEN [offering[w] EXCEPT !.status = "ACTIVE"]
        ELSE IF w \in Family(v) /\ offering[w].status = "ACTIVE"
        THEN [offering[w] EXCEPT !.status = "OBSOLETE"] ELSE offering[w]]

ActivateOffering(v) ==
    /\ offering[v].status = "TESTING"
    /\ offering' = Activated(v)

ObsoleteOffering(v) == offering[v].status = "ACTIVE" /\ Becomes(v, "OBSOLETE")

\* live: some subscription still bills from the version.
RetireOffering(v, live) ==
    /\ offering[v].status = "OBSOLETE" /\ ~live
    /\ Becomes(v, "RETIRED")

\* What was never released is discarded.
DeleteOffering(v) == Open(v) /\ Becomes(v, "deleted")

\* Every operation but retirement, which asks the inventory.
CatalogueStep(v) ==
    \/ CreateOffering(v) \/ EditPrices(v) \/ SubmitForTesting(v) \/ ReturnToDraft(v)
    \/ ActivateOffering(v) \/ ObsoleteOffering(v) \/ DeleteOffering(v)
    \/ InsertCopy(v) \/ \E w \in Version : Branch(v, w) \/ ReadSource(v, w)

=============================================================================
