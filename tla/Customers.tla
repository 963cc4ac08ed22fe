----------------------------- MODULE Customers -----------------------------
(***************************************************************************)
(* One customer and its accounts: status transitions, onboarding and       *)
(* closing (services/customer, services/accounts).                         *)
(*                                                                         *)
(* Status updates compare last_modified with the form they were sent from, *)
(* and one that no longer matches changes nothing.  Closing a customer is  *)
(* modelled from its form on, because it looks at the accounts before its  *)
(* transaction and outside it.                                             *)
(*                                                                         *)
(* Abstractions.  One financial account and one billing account, as        *)
(* onboarding creates them; that their balances are zero when they close   *)
(* is not modelled here.                                                   *)
(***************************************************************************)

VARIABLES
    customer,   \* status of the customer's role
    financial,  \* state of the financial account
    billing,    \* state of the billing account
    form        \* the form a closing is sent from

customerVars == <<customer, financial, billing, form>>

-----------------------------------------------------------------------------
CustomerTransitions ==
    {<<"INITIALIZED", "VALIDATED">>, <<"VALIDATED", "ACTIVE">>,
     <<"ACTIVE", "SUSPENDED">>, <<"SUSPENDED", "ACTIVE">>}
        \cup {<<s, "CLOSED">> : s \in {"INITIALIZED", "VALIDATED", "ACTIVE", "SUSPENDED"}}

CustomersTypeOK ==
    /\ customer \in {"INITIALIZED", "VALIDATED", "ACTIVE", "SUSPENDED", "CLOSED"}
    /\ financial \in {"none", "active", "closed"}
    /\ billing \in {"none", "active", "closed"}
    /\ form \in [row : {"none", "current", "stale"}, cleared : BOOLEAN]

NoForm == [row |-> "none", cleared |-> FALSE]

CustomersInit ==
    /\ customer = "INITIALIZED" /\ financial = "none" /\ billing = "none"
    /\ form = NoForm

\* The customer's row is written, and last_modified with it.
SetCustomer(s) ==
    /\ customer' = s
    /\ form' = IF form.row = "current" THEN [form EXCEPT !.row = "stale"] ELSE form

TransitionCustomer(s) ==
    /\ s # "CLOSED" /\ <<customer, s>> \in CustomerTransitions
    /\ SetCustomer(s)
    /\ UNCHANGED <<financial, billing>>

OnboardCustomerAccounts ==
    /\ customer = "INITIALIZED"
    /\ SetCustomer("VALIDATED")
    /\ financial' = "active" /\ billing' = "active"

-----------------------------------------------------------------------------
OpenForm ==
    /\ form' = [row |-> "current", cleared |-> FALSE]
    /\ form = NoForm
    /\ UNCHANGED <<customer, financial, billing>>

\* customerHasOpenAccounts.
ClearForm ==
    /\ form.row # "none" /\ ~form.cleared
    /\ "active" \notin {financial, billing}
    /\ form' = [form EXCEPT !.cleared = TRUE]
    /\ UNCHANGED <<customer, financial, billing>>

\* Mutant of FormHolds: the row is not compared with the form.
FormHoldsAnyway == form.cleared

\* compareAndUpdateStatus finds the row as the form read it.
FormHolds == form.cleared /\ form.row = "current"

CloseCustomer ==
    /\ FormHolds
    /\ <<customer, "CLOSED">> \in CustomerTransitions
    /\ customer' = "CLOSED" /\ form' = NoForm
    /\ UNCHANGED <<financial, billing>>

\* Refused, or never sent.
DropForm ==
    /\ form # NoForm /\ form' = NoForm
    /\ UNCHANGED <<customer, financial, billing>>

CloseBillingAccount ==
    /\ billing = "active" /\ billing' = "closed"
    /\ UNCHANGED <<customer, financial, form>>

CloseFinancialAccount ==
    /\ financial = "active" /\ billing = "closed"
    /\ financial' = "closed"
    /\ UNCHANGED <<customer, billing, form>>

CustomersStep ==
    \/ OnboardCustomerAccounts \/ OpenForm \/ ClearForm \/ CloseCustomer \/ DropForm
    \/ CloseBillingAccount \/ CloseFinancialAccount
    \/ \E s \in {"VALIDATED", "ACTIVE", "SUSPENDED"} : TransitionCustomer(s)

=============================================================================
