----------------------------- MODULE MCOffice -----------------------------
(***************************************************************************)
(* Small instances of Ledger, Sales and Templates for TLC.                 *)
(*                                                                         *)
(* The ledger, the catalogue, the customer with its accounts, the orders   *)
(* and the invoice templates hardly touch each other.  To check them in    *)
(* one run without multiplying their states, a behaviour is of one desk:   *)
(* the steps that are not its own are not taken.  At the ordering desk the *)
(* customer has been onboarded, two versions are used, and nobody closes   *)
(* the customer or its accounts; the proofs are about all steps together.  *)
(***************************************************************************)
EXTENDS SalesProps, MCLedger, MCTemplates

officeVars == <<lvars, salesVars, tvars, desk>>

\* Not used at the ordering desk.
Spare == CHOOSE v \in Version : TRUE

OfficeInit ==
    /\ desk \in {"catalogue", "customers", "ordering", "types", "drafting", "binding",
                "reversing", "closing"}
    /\ LedgerInit
    /\ TemplatesAt(desk)
    /\ IF desk = "ordering"
       THEN /\ SalesTables /\ CatalogueInit
            /\ customer = "ACTIVE" /\ financial = "active" /\ billing = "active"
            /\ form = NoForm
       ELSE SalesInit

OfficeNext ==
    \/ LedgerDesksNext /\ UNCHANGED <<salesVars, tvars>>
    \/ /\ desk' = desk /\ UNCHANGED lvars
       /\ \/ /\ desk = "catalogue"
             /\ \E v \in Version : Stock(v) \/ Retire(v)
             /\ UNCHANGED tvars
          \/ desk = "customers" /\ Care /\ UNCHANGED tvars
          \/ /\ desk = "ordering" /\ SalesNext
             /\ form' = NoForm /\ billing' = "active" /\ offering'[Spare].status = "none"
             /\ UNCHANGED tvars
          \/ desk = "types" /\ TypesDesk /\ UNCHANGED salesVars
          \/ desk = "drafting" /\ DraftingDesk /\ UNCHANGED salesVars
          \/ desk = "binding" /\ BindingDesk /\ UNCHANGED salesVars

OfficeSpec == OfficeInit /\ [][OfficeNext]_officeVars

\* One desk of the office.
DraftingSpec == OfficeInit /\ desk = "drafting" /\ [][OfficeNext]_officeVars

=============================================================================
