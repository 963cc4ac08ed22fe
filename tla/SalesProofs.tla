---------------------------- MODULE SalesProofs ----------------------------
(***************************************************************************)
(* What SalesProps asks holds for any number of versions, prices, clerks,  *)
(* orders and days.                                                        *)
(*                                                                         *)
(* CatalogueInv is about the versions alone, OrdersInv relates them to     *)
(* orders and subscriptions, HistoriesInv is about the latter alone, and   *)
(* CustomersInv about the customer.                                        *)
(***************************************************************************)
EXTENDS SalesProps, TLAPS

ReleasedStatus == {"ACTIVE", "OBSOLETE", "RETIRED"}
Released(v) == offering[v].status \in ReleasedStatus

\* What may be discarded is no root of others, copies to come included.
Present(v) == Exists(v) \/ offering[v].status = "copying"

RootsReleased ==
    \A v \in Version :
        Present(v) /\ offering[v].root # v =>
            Released(offering[v].root) /\ offering[offering[v].root].root = offering[v].root

OwnRoots == \A v \in Version : offering[v].status = "none" => offering[v].root = v

CatalogueInv ==
    CatalogueTypeOK /\ OneOnSale /\ ModifiersRated /\ RootsReleased /\ OwnRoots

FormTrue ==
    form.cleared /\ form.row = "current" => "active" \notin {financial, billing}

CustomersInv == CustomersTypeOK /\ FormTrue /\ ClosedLeavesNothingOpen

\* Subscriptions are those of completed orders.
SoldCompleted == \A o \in Order : Sold(o) <=> order[o].status = "COMPLETED"

OrderVersions == \A o \in Order : order[o].status # "none" => order[o].version \in Version

OrdersInv ==
    /\ order \in [Order -> OrderRow] /\ today \in Day
    /\ SoldCompleted /\ OrderVersions
    /\ SoldIsReleased /\ RetiredBillsNothing /\ NegotiatedAgreed

\* Days do not decrease, a suspension is followed by something else and a
\* cease by nothing, and the row and its last transition agree.
Ordered(row) ==
    LET h == row.history
    IN  /\ Len(h) > 0 /\ row.status = h[Len(h)].to
        /\ row.status = "TERMINATED" => row.end = h[Len(h)].on
        /\ \A i, j \in 1..Len(h) : i <= j => h[i].on <= h[j].on
        /\ \A i \in 1..Len(h) :
              /\ h[i].to = "TERMINATED" => i = Len(h)
              /\ h[i].to = "SUSPENDED" /\ i < Len(h) => h[i + 1].to # "SUSPENDED"

HistoryOrdered == \A o \in Order : Sold(o) => Ordered(sub[o])

HistoriesInv ==
    /\ sub \in [Order -> SubRow]
    /\ \A o \in Order : sub[o].end = Forever <=> sub[o].status # "TERMINATED"
    /\ HistoryOrdered

SalesInv == CatalogueInv /\ CustomersInv /\ OrdersInv /\ HistoriesInv


-----------------------------------------------------------------------------
\* How a step may change a version.
Kept(w) ==
    /\ offering[w].status # "none" => offering'[w].root = offering[w].root
    /\ Released(w) => Released(w)' /\ offering'[w].prices = offering[w].prices
    /\ offering[w].status = "RETIRED" => offering'[w].status = "RETIRED"

LegalBecomes ==
    {<<"none", "DRAFT">>, <<"DRAFT", "TESTING">>, <<"TESTING", "DRAFT">>,
     <<"ACTIVE", "OBSOLETE">>, <<"OBSOLETE", "RETIRED">>,
     <<"copying", "DRAFT">>, <<"DRAFT", "deleted">>, <<"TESTING", "deleted">>}

LEMMA BecomesKeeps ==
  ASSUME CatalogueInv, NEW v \in Version, NEW s, Becomes(v, s),
         <<offering[v].status, s>> \in LegalBecomes
  PROVE  CatalogueInv' /\ \A w \in Version : Kept(w)
<1>1. /\ offering \in [Version -> OfferingRow]
      /\ offering' = [offering EXCEPT ![v].status = s]
  BY DEF Becomes, CatalogueInv, CatalogueTypeOK
<1>2. /\ s \in LifecycleStatus \cup {"deleted"} /\ s # "ACTIVE"
      /\ offering[v].status \in LifecycleStatus \cup {"none", "copying"}
      /\ s = "RETIRED" <=> offering[v].status = "OBSOLETE"
      /\ s = "OBSOLETE" <=> offering[v].status = "ACTIVE"
      /\ offering[v].status # "RETIRED"
  BY DEF LegalBecomes, LifecycleStatus
<1>3. offering' \in [Version -> OfferingRow]
  BY <1>1, <1>2 DEF OfferingRow
<1>4. ASSUME NEW w \in Version
      PROVE  /\ offering'[w].root = offering[w].root
             /\ offering'[w].prices = offering[w].prices
             /\ offering'[w].status = IF w = v THEN s ELSE offering[w].status
  BY <1>1 DEF OfferingRow
<1>5. OneOnSale'
  BY <1>2, <1>4 DEF OneOnSale, CatalogueInv
<1>6. ModifiersRated'
  BY <1>4 DEF ModifiersRated, CatalogueInv
<1>7. RootsReleased'
  <2> SUFFICES ASSUME NEW w \in Version, Present(w)', offering'[w].root # w
               PROVE  /\ offering'[offering'[w].root].status \in ReleasedStatus
                      /\ offering'[offering'[w].root].root = offering'[w].root
    BY DEF RootsReleased, Released
  <2>1. Present(w) /\ offering[w].root # w
    BY <1>2, <1>4 DEF Present, Exists, CatalogueInv, OwnRoots
  <2>2. /\ Released(offering[w].root) /\ offering[w].root \in Version
        /\ offering[offering[w].root].root = offering[w].root
    BY <1>1, <2>1 DEF CatalogueInv, RootsReleased, OfferingRow
  <2>3. Released(offering[w].root)'
    BY <1>2, <1>4, <2>2 DEF Released, ReleasedStatus
  <2> QED BY <1>4, <2>2, <2>3 DEF Released, ReleasedStatus
<1>8. OwnRoots'
  BY <1>2, <1>4 DEF OwnRoots, CatalogueInv, LifecycleStatus
<1>9. ASSUME NEW w \in Version PROVE Kept(w)
  BY <1>2, <1>4 DEF Kept, Released, ReleasedStatus
<1> QED BY <1>3, <1>5, <1>6, <1>7, <1>8, <1>9 DEF CatalogueInv, CatalogueTypeOK

LEMMA ActivateKeeps ==
  ASSUME CatalogueInv, NEW v \in Version, ActivateOffering(v)
  PROVE  CatalogueInv' /\ \A w \in Version : Kept(w)
<1>1. /\ offering \in [Version -> OfferingRow] /\ offering[v].status = "TESTING"
      /\ offering' = [w \in Version |->
                        IF w = v THEN [offering[w] EXCEPT !.status = "ACTIVE"]
                        ELSE IF w \in Family(v) /\ offering[w].status = "ACTIVE"
                        THEN [offering[w] EXCEPT !.status = "OBSOLETE"] ELSE offering[w]]
  BY DEF ActivateOffering, Activated, CatalogueInv, CatalogueTypeOK
<1>2. offering' \in [Version -> OfferingRow]
  BY <1>1 DEF OfferingRow, LifecycleStatus
<1>3. ASSUME NEW w \in Version
      PROVE  /\ offering'[w].root = offering[w].root
             /\ offering'[w].prices = offering[w].prices
             /\ offering'[w].status =
                  IF w = v THEN "ACTIVE"
                  ELSE IF w \in Family(v) /\ offering[w].status = "ACTIVE"
                  THEN "OBSOLETE" ELSE offering[w].status
  BY <1>1 DEF OfferingRow
<1>4. OneOnSale'
  <2> SUFFICES ASSUME NEW w \in Version, NEW x \in Version,
                      offering'[w].status = "ACTIVE", offering'[x].status = "ACTIVE",
                      offering'[w].root = offering'[x].root
               PROVE  w = x
    BY DEF OneOnSale
  <2>1. offering[w].root = offering[x].root
    BY <1>3
  <2>2. ASSUME NEW y \in Version, y # v, offering[y].root = offering[v].root
        PROVE  offering'[y].status # "ACTIVE"
    BY <1>3, <2>2 DEF Family, Present, Exists, LifecycleStatus
  <2>3. CASE w # v /\ x # v
    BY <1>3, <2>1, <2>3 DEF CatalogueInv, OneOnSale
  <2> QED BY <2>1, <2>2, <2>3
<1>5. ModifiersRated'
  BY <1>3 DEF ModifiersRated, CatalogueInv
<1>6. ASSUME NEW w \in Version
      PROVE  /\ Released(w) => Released(w)'
             /\ offering[w].status = "none" <=> offering'[w].status = "none"
             /\ Present(w)' <=> Present(w)
  BY <1>1, <1>3 DEF Released, ReleasedStatus, Present, Exists, LifecycleStatus
<1>7. RootsReleased'
  <2> SUFFICES ASSUME NEW w \in Version, Present(w)', offering'[w].root # w
               PROVE  /\ offering'[offering'[w].root].status \in ReleasedStatus
                      /\ offering'[offering'[w].root].root = offering'[w].root
    BY DEF RootsReleased, Released
  <2>1. /\ Released(offering[w].root) /\ offering[w].root \in Version
        /\ offering[offering[w].root].root = offering[w].root
    BY <1>1, <1>3, <1>6 DEF CatalogueInv, RootsReleased, OfferingRow
  <2> QED BY <1>3, <1>6, <2>1 DEF Released, ReleasedStatus
<1>8. OwnRoots'
  BY <1>3, <1>6 DEF OwnRoots, CatalogueInv
<1>9. ASSUME NEW w \in Version PROVE Kept(w)
  BY <1>1, <1>3, <1>6 DEF Kept
<1> QED BY <1>2, <1>4, <1>5, <1>7, <1>8, <1>9 DEF CatalogueInv, CatalogueTypeOK

LEMMA EditKeeps ==
  ASSUME CatalogueInv, NEW v \in Version, EditPrices(v)
  PROVE  CatalogueInv' /\ \A w \in Version : Kept(w)
<1>1. PICK Q : /\ Q \in Inserted(offering[v].prices) \cup Deleted(offering[v].prices)
                            \cup Updated(offering[v].prices)
               /\ offering' = [offering EXCEPT ![v].prices = Q]
  BY DEF EditPrices
<1>2. /\ offering \in [Version -> OfferingRow] /\ offering[v].status = "DRAFT"
      /\ Q \in SUBSET Price /\ (Q \cap Modifier # {} => Q \ Modifier # {})
  BY <1>1 DEF EditPrices, Editable, CatalogueInv, CatalogueTypeOK, OfferingRow, Inserted,
              Deleted, Updated, ValidComponents
<1>3. offering' \in [Version -> OfferingRow]
  BY <1>1, <1>2 DEF OfferingRow
<1>4. ASSUME NEW w \in Version
      PROVE  /\ offering'[w].root = offering[w].root
             /\ offering'[w].prices = IF w = v THEN Q ELSE offering[w].prices
             /\ offering'[w].status = offering[w].status
  BY <1>1, <1>2 DEF OfferingRow
<1>5. OneOnSale' /\ RootsReleased' /\ OwnRoots'
  <2>1. OneOnSale' /\ OwnRoots'
    BY <1>4 DEF OneOnSale, OwnRoots, CatalogueInv
  <2>2. \A w \in Version : offering[w].root \in Version
    BY <1>2 DEF OfferingRow
  <2> QED BY <1>4, <2>1, <2>2 DEF RootsReleased, Released, ReleasedStatus, Present, Exists, CatalogueInv
<1>6. ModifiersRated'
  BY <1>2, <1>4 DEF ModifiersRated, CatalogueInv
<1>7. ASSUME NEW w \in Version PROVE Kept(w)
  BY <1>2, <1>4 DEF Kept, Released, ReleasedStatus
<1> QED BY <1>3, <1>5, <1>6, <1>7 DEF CatalogueInv, CatalogueTypeOK

LEMMA BranchKeeps ==
  ASSUME CatalogueInv, NEW v \in Version, NEW w \in Version,
         Branch(v, w) \/ ReadSource(v, w)
  PROVE  CatalogueInv' /\ \A x \in Version : Kept(x)
<1>1. PICK s \in {"DRAFT", "copying"},
           Q \in {offering[v].prices} \cup Inserted(offering[v].prices) :
         offering' = [offering EXCEPT ![w] =
                        [status |-> s, root |-> offering[v].root, prices |-> Q]]
  BY DEF Branch, ReadSource, CatalogueInv, CatalogueTypeOK, OfferingRow
<1>2. /\ offering \in [Version -> OfferingRow] /\ offering[w].status = "none"
      /\ offering[v].status \in {"DRAFT", "ACTIVE"} /\ w # v
      /\ Q \in SUBSET Price /\ (Q \cap Modifier # {} => Q \ Modifier # {})
  BY <1>1 DEF Branch, ReadSource, Branchable, CatalogueInv, CatalogueTypeOK, OfferingRow, Inserted,
              ValidComponents, ModifiersRated
<1>3. offering' \in [Version -> OfferingRow]
  BY <1>1, <1>2 DEF OfferingRow, LifecycleStatus
<1>4. /\ offering'[w] = [status |-> s, root |-> offering[v].root, prices |-> Q]
      /\ \A x \in Version \ {w} : offering'[x] = offering[x]
  BY <1>1, <1>2
<1>5. OneOnSale'
  BY <1>4 DEF OneOnSale, CatalogueInv
<1>6. ModifiersRated'
  BY <1>2, <1>4 DEF ModifiersRated, CatalogueInv
<1>7. /\ Exists(v) /\ offering[v].status = "ACTIVE"
      /\ offering[v].root \in Version /\ offering[v].root # w
      /\ Released(offering[v].root)
      /\ offering[offering[v].root].root = offering[v].root
  <2>1. Exists(v) /\ offering[v].status = "ACTIVE" /\ Released(v)
    <3>1. v \in Family(v)
      BY <1>2 DEF Family, Present, Exists, LifecycleStatus
    <3> QED BY <1>2, <3>1 DEF Branch, ReadSource, Branchable, NoneOpen, Open, Present, Exists,
                              LifecycleStatus, Released, ReleasedStatus
  <2>2. offering[v].root \in Version
    BY <1>2 DEF OfferingRow
  <2>3. Released(offering[v].root) /\ offering[offering[v].root].root = offering[v].root
    BY <2>1 DEF CatalogueInv, RootsReleased, Present
  <2> QED BY <1>2, <2>1, <2>2, <2>3 DEF Released, ReleasedStatus
<1>8. RootsReleased'
  <2> SUFFICES ASSUME NEW x \in Version, Present(x)', offering'[x].root # x
               PROVE  /\ offering'[offering'[x].root].status \in ReleasedStatus
                      /\ offering'[offering'[x].root].root = offering'[x].root
    BY DEF RootsReleased, Released
  <2>1. CASE x = w
    BY <1>4, <1>7, <2>1 DEF Released, ReleasedStatus
  <2>2. CASE x # w
    <3>1. /\ offering'[x] = offering[x] /\ offering[x].root \in Version
          /\ Released(offering[x].root)
          /\ offering[offering[x].root].root = offering[x].root
      BY <1>2, <1>4, <2>2 DEF CatalogueInv, RootsReleased, Present, Exists, OfferingRow
    <3>2. offering[x].root # w
      BY <1>2, <3>1 DEF Released, ReleasedStatus
    <3> QED BY <1>4, <3>1, <3>2 DEF Released, ReleasedStatus
  <2> QED BY <2>1, <2>2
<1>9. OwnRoots'
  BY <1>4 DEF OwnRoots, CatalogueInv
<1>10. ASSUME NEW x \in Version PROVE Kept(x)
  BY <1>2, <1>4 DEF Kept, Released, ReleasedStatus
<1> QED BY <1>3, <1>5, <1>6, <1>8, <1>9, <1>10 DEF CatalogueInv, CatalogueTypeOK

LEMMA CatalogueKeeps ==
  ASSUME CatalogueInv, NEW v \in Version, NEW live,
         CatalogueStep(v) \/ RetireOffering(v, live)
  PROVE  CatalogueInv' /\ \A w \in Version : Kept(w)
<1>1. CASE CreateOffering(v) \/ SubmitForTesting(v) \/ ReturnToDraft(v) \/ ObsoleteOffering(v)
             \/ DeleteOffering(v) \/ RetireOffering(v, live) \/ InsertCopy(v)
  <2>1. PICK s : Becomes(v, s) /\ <<offering[v].status, s>> \in LegalBecomes
    BY <1>1 DEF CreateOffering, SubmitForTesting, ReturnToDraft, Returnable, ObsoleteOffering,
                DeleteOffering, Open, RetireOffering, InsertCopy, LegalBecomes
  <2> QED BY <2>1, BecomesKeeps
<1> QED BY <1>1, ActivateKeeps, EditKeeps, BranchKeeps DEF CatalogueStep


\* Nothing but retirement retires a version.
LEMMA RetiredByRetire ==
  ASSUME CatalogueInv, NEW v \in Version, NEW live,
         CatalogueStep(v) \/ RetireOffering(v, live),
         NEW w \in Version, offering'[w].status = "RETIRED", offering[w].status # "RETIRED"
  PROVE  w = v /\ RetireOffering(v, live)
<1>1. offering \in [Version -> OfferingRow]
  BY DEF CatalogueInv, CatalogueTypeOK
<1>2. ~(CreateOffering(v) \/ SubmitForTesting(v) \/ ReturnToDraft(v) \/ ObsoleteOffering(v)
          \/ DeleteOffering(v) \/ InsertCopy(v))
  BY <1>1 DEF CreateOffering, SubmitForTesting, ReturnToDraft, ObsoleteOffering, DeleteOffering,
              InsertCopy, Becomes, OfferingRow
<1>3. ~ActivateOffering(v)
  BY <1>1 DEF ActivateOffering, Activated, OfferingRow
<1>4. ~EditPrices(v)
  BY <1>1 DEF EditPrices, OfferingRow
<1>5. ~\E x \in Version : Branch(v, x) \/ ReadSource(v, x)
  BY <1>1 DEF Branch, ReadSource, OfferingRow
<1>6. RetireOffering(v, live)
  BY <1>2, <1>3, <1>4, <1>5 DEF CatalogueStep
<1>7. w = v
  BY <1>1, <1>6 DEF RetireOffering, Becomes, OfferingRow
<1> QED BY <1>6, <1>7

-----------------------------------------------------------------------------
LEMMA StockKeeps ==
  ASSUME SalesInv, NEW v \in Version, Stock(v) \/ Retire(v)
  PROVE  SalesInv'
<1> DEFINE live == \E o \in Order : order[o].version = v /\ Live(o)
<1>1. /\ CatalogueStep(v) \/ RetireOffering(v, live)
      /\ UNCHANGED <<customerVars, today, order, sub>>
  BY DEF Stock, Retire
<1>2. CatalogueInv
  BY DEF SalesInv
<1> HIDE DEF live
<1>3. CatalogueInv' /\ \A w \in Version : Kept(w)
  BY <1>1, <1>2, CatalogueKeeps
<1>4. CustomersInv' /\ HistoriesInv'
  BY <1>1 DEF SalesInv, CustomersInv, CustomersTypeOK, FormTrue, ClosedLeavesNothingOpen,
              customerVars, HistoriesInv, HistoryOrdered, Ordered, Sold
<1>5. (order \in [Order -> OrderRow] /\ today \in Day /\ SoldCompleted /\ OrderVersions
         /\ NegotiatedAgreed)'
  BY <1>1 DEF SalesInv, OrdersInv, SoldCompleted, OrderVersions, NegotiatedAgreed, Sold
<1>6. SoldIsReleased'
  <2> SUFFICES ASSUME NEW o \in Order, Sold(o)
               PROVE  /\ offering'[order[o].version].status \in {"ACTIVE", "OBSOLETE", "RETIRED"}
                      /\ offering'[order[o].version].prices # {}
    BY <1>1 DEF SoldIsReleased, Sold
  <2>1. order[o].version \in Version
    BY DEF SalesInv, OrdersInv, SoldCompleted, OrderVersions
  <2>2. Released(order[o].version) /\ offering[order[o].version].prices # {}
    BY DEF SalesInv, OrdersInv, SoldIsReleased, Released, ReleasedStatus
  <2> QED BY <1>3, <2>1, <2>2 DEF Kept, Released, ReleasedStatus
<1>7. RetiredBillsNothing'
  <2> SUFFICES ASSUME NEW o \in Order, order[o].version # Nil, Sold(o),
                      offering'[order[o].version].status = "RETIRED"
               PROVE  ~(sub[o].end >= today)
    BY <1>1 DEF RetiredBillsNothing, Sold
  <2>1. order[o].version \in Version
    BY DEF SalesInv, OrdersInv, SoldCompleted, OrderVersions
  <2>2. CASE offering[order[o].version].status = "RETIRED"
    BY <2>2 DEF SalesInv, OrdersInv, RetiredBillsNothing
  <2>3. CASE offering[order[o].version].status # "RETIRED"
    <3>1. order[o].version = v /\ RetireOffering(v, live)
      BY <1>1, <1>2, <2>1, <2>3, RetiredByRetire
    <3>2. ~Live(o)
      BY <3>1 DEF RetireOffering, live
    <3> QED BY <3>2 DEF Live, Sold
  <2> QED BY <2>2, <2>3
<1> QED BY <1>3, <1>4, <1>5, <1>6, <1>7 DEF SalesInv, OrdersInv

LEMMA CareKeeps ==
  ASSUME SalesInv, Care
  PROVE  SalesInv'
<1>1. CustomersStep /\ UNCHANGED <<offering, today, order, sub>> /\ CustomersInv
  BY DEF Care, SalesInv
<1>2. CatalogueInv' /\ OrdersInv' /\ HistoriesInv'
  BY <1>1 DEF SalesInv, CatalogueInv, CatalogueTypeOK, OneOnSale, ModifiersRated, RootsReleased,
              OwnRoots, Released, Present, Exists, OrdersInv, SoldCompleted, OrderVersions, SoldIsReleased,
              RetiredBillsNothing, NegotiatedAgreed, Sold, HistoriesInv, HistoryOrdered, Ordered
<1>3. CustomersInv'
  <2> USE DEF CustomersInv, CustomersTypeOK, FormTrue, ClosedLeavesNothingOpen
  <2>1. ASSUME NEW s \in {"VALIDATED", "ACTIVE", "SUSPENDED"}, TransitionCustomer(s)
        PROVE  CustomersInv'
    BY <1>1, <2>1 DEF TransitionCustomer, SetCustomer, CustomerTransitions
  <2>2. CASE OnboardCustomerAccounts
    BY <1>1, <2>2 DEF OnboardCustomerAccounts, SetCustomer
  <2>3. CASE OpenForm
    BY <1>1, <2>3 DEF OpenForm
  <2>4. CASE ClearForm
    BY <1>1, <2>4 DEF ClearForm
  <2>5. CASE CloseCustomer
    BY <1>1, <2>5 DEF CloseCustomer, FormHolds, NoForm
  <2>6. CASE DropForm
    BY <1>1, <2>6 DEF DropForm, NoForm
  <2>7. CASE CloseBillingAccount \/ CloseFinancialAccount
    BY <1>1, <2>7 DEF CloseBillingAccount, CloseFinancialAccount
  <2> QED BY <1>1, <2>1, <2>2, <2>3, <2>4, <2>5, <2>6, <2>7 DEF CustomersStep
<1> QED BY <1>2, <1>3 DEF SalesInv

LEMMA NextDayKeeps ==
  ASSUME SalesInv, NextDay
  PROVE  SalesInv'
<1>1. /\ UNCHANGED <<offering, customerVars, order, sub>>
      /\ today < Horizon /\ today' = today + 1 /\ today \in Day /\ Horizon \in Nat
  BY SalesAssumption DEF NextDay, SalesInv, OrdersInv
<1>2. today' \in Day
  BY <1>1 DEF Day
<1>3. RetiredBillsNothing'
  <2> SUFFICES ASSUME NEW o \in Order, order[o].version # Nil, Sold(o),
                      offering[order[o].version].status = "RETIRED"
               PROVE  ~(sub[o].end >= today')
    BY <1>1 DEF RetiredBillsNothing, Sold
  <2>1. ~(sub[o].end >= today) /\ sub[o].end \in Day \cup {Forever}
    BY DEF SalesInv, OrdersInv, RetiredBillsNothing, HistoriesInv, SubRow
  <2> QED BY <1>1, <2>1 DEF Day, Forever
<1> QED BY <1>1, <1>2, <1>3
        DEF SalesInv, CatalogueInv, CatalogueTypeOK, OneOnSale, ModifiersRated, RootsReleased,
            OwnRoots, Released, Present, Exists, CustomersInv, CustomersTypeOK, FormTrue,
            ClosedLeavesNothingOpen, customerVars, OrdersInv, SoldCompleted, OrderVersions,
            SoldIsReleased, NegotiatedAgreed, Sold, HistoriesInv, HistoryOrdered, Ordered

-----------------------------------------------------------------------------
\* A step that leaves the versions, the customer and the day alone.
Aside == UNCHANGED <<offering, customerVars, today>>

LEMMA AsideKeeps ==
  ASSUME SalesInv, Aside
  PROVE  CatalogueInv' /\ CustomersInv'
  BY DEF SalesInv, Aside, CatalogueInv, CatalogueTypeOK, OneOnSale, ModifiersRated, RootsReleased,
         OwnRoots, Released, Present, Exists, CustomersInv, CustomersTypeOK, FormTrue,
         ClosedLeavesNothingOpen, customerVars

\* An order is completed as row, which was orderable.
LEMMA InstantiateKeeps ==
  ASSUME SalesInv, Aside, NEW o \in Order, NEW row \in OrderRow, row.version \in Version,
         Orderable(row), Instantiate(o, row), ~Sold(o),
         row.special => row.reviewer \in Manager /\ row.reviewer # row.by
  PROVE  SalesInv'
<1> DEFINE new == [status |-> "ACTIVE", end |-> Forever,
                   history |-> <<[to |-> "ACTIVE", on |-> row.start]>>]
           done == [row EXCEPT !.status = "COMPLETED"]
<1>1. /\ order \in [Order -> OrderRow] /\ sub \in [Order -> SubRow] /\ today \in Day
      /\ order' = [order EXCEPT ![o] = done] /\ sub' = [sub EXCEPT ![o] = new]
      /\ UNCHANGED <<offering, today>>
  BY DEF Instantiate, SalesInv, OrdersInv, HistoriesInv, Aside
<1>2. done \in OrderRow /\ done.status = "COMPLETED" /\ done.version = row.version
        /\ done.special = row.special /\ done.by = row.by /\ done.reviewer = row.reviewer
  BY DEF OrderRow
<1>3. new \in SubRow
  <2>1. [to |-> "ACTIVE", on |-> row.start] \in Move
    BY DEF OrderRow, Move
  <2>2. <<[to |-> "ACTIVE", on |-> row.start]>> \in Seq(Move)
    BY <2>1
  <2> QED BY <2>2 DEF SubRow
<1>4. /\ order'[o] = done /\ sub'[o] = new
      /\ \A x \in Order \ {o} : order'[x] = order[x] /\ sub'[x] = sub[x]
  BY <1>1
<1>5. order' \in [Order -> OrderRow] /\ sub' \in [Order -> SubRow]
  <2> HIDE DEF done, new
  <2> QED BY <1>1, <1>2, <1>3
<1> HIDE DEF done
<1>6. (SoldCompleted /\ OrderVersions)'
  BY <1>2, <1>4 DEF SoldCompleted, OrderVersions, Sold, SalesInv, OrdersInv
<1>7. SoldIsReleased'
  BY <1>1, <1>2, <1>4 DEF SoldIsReleased, Sold, SalesInv, OrdersInv, Orderable
<1>8. RetiredBillsNothing'
  BY <1>1, <1>2, <1>4 DEF RetiredBillsNothing, Sold, SalesInv, OrdersInv, Orderable
<1>9. NegotiatedAgreed'
  BY <1>2, <1>4 DEF NegotiatedAgreed, Sold, SalesInv, OrdersInv
<1>10. HistoriesInv'
  <2>1. ASSUME NEW x \in Order
        PROVE  sub'[x].end = Forever <=> sub'[x].status # "TERMINATED"
    BY <1>4 DEF SalesInv, HistoriesInv
  <2>2. HistoryOrdered'
    <3> SUFFICES ASSUME NEW x \in Order, sub'[x].status # "none"
                 PROVE  Ordered(sub'[x])
      BY DEF HistoryOrdered, Sold, Ordered
    <3>1. CASE x # o
      BY <1>4, <3>1 DEF HistoryOrdered, Sold, SalesInv, HistoriesInv
    <3>2. CASE x = o
      <4>1. row.start \in Nat
        BY SalesAssumption DEF OrderRow, Day
      <4> QED BY <1>4, <3>2, <4>1 DEF Ordered
    <3> QED BY <3>1, <3>2
  <2> QED BY <1>5, <2>1, <2>2 DEF HistoriesInv
<1> QED BY <1>1, <1>5, <1>6, <1>7, <1>8, <1>9, <1>10, AsideKeeps DEF SalesInv, OrdersInv

\* An order that is not completed yet is written, and no subscription is.
LEMMA PendingKeeps ==
  ASSUME SalesInv, Aside, sub' = sub, NEW o \in Order, NEW row \in OrderRow,
         row.version \in Version, row.status # "COMPLETED", ~Sold(o),
         order' = [order EXCEPT ![o] = row]
  PROVE  SalesInv'
<1>1. /\ order \in [Order -> OrderRow] /\ today \in Day /\ UNCHANGED <<offering, today>>
  BY DEF SalesInv, OrdersInv, Aside
<1>2. order'[o] = row /\ \A x \in Order \ {o} : order'[x] = order[x]
  BY <1>1
<1>3. OrdersInv'
  <2>1. order' \in [Order -> OrderRow]
    BY <1>1
  <2>2. (SoldCompleted /\ OrderVersions)'
    BY <1>2 DEF SoldCompleted, OrderVersions, Sold, SalesInv, OrdersInv
  <2>3. (SoldIsReleased /\ RetiredBillsNothing /\ NegotiatedAgreed)'
    BY <1>1, <1>2
       DEF SoldIsReleased, RetiredBillsNothing, NegotiatedAgreed, Sold, SalesInv, OrdersInv
  <2> QED BY <1>1, <2>1, <2>2, <2>3 DEF OrdersInv
<1>4. HistoriesInv'
  BY DEF SalesInv, HistoriesInv, HistoryOrdered, Ordered, Sold
<1> QED BY <1>3, <1>4, AsideKeeps DEF SalesInv

LEMMA CreateOrderKeeps ==
  ASSUME SalesInv, NEW o \in Order, NEW v \in Version, NEW start \in Day,
         NEW special \in BOOLEAN, NEW c \in Clerk, CreateOrder(o, v, start, special, c)
  PROVE  SalesInv'
<1> DEFINE row == [status |-> "PENDING", version |-> v, start |-> start,
                   special |-> special, by |-> c, reviewer |-> Nil]
<1>1. /\ order[o].status = "none" /\ Orderable(row) /\ Aside
      /\ IF special THEN order' = [order EXCEPT ![o] = row] /\ sub' = sub
         ELSE Instantiate(o, row)
  BY DEF CreateOrder, Aside
<1>2. row \in OrderRow /\ row.version \in Version /\ row.status = "PENDING"
        /\ row.special = special
  BY DEF OrderRow
<1>3. ~Sold(o)
  BY <1>1 DEF SalesInv, OrdersInv, SoldCompleted
<1> HIDE DEF row
<1>4. CASE special
  BY <1>1, <1>2, <1>3, <1>4, PendingKeeps
<1>5. CASE ~special
  BY <1>1, <1>2, <1>3, <1>5, InstantiateKeeps
<1> QED BY <1>4, <1>5

LEMMA ReviewKeeps ==
  ASSUME SalesInv, NEW o \in Order, NEW c \in Clerk, ApproveOrder(o, c) \/ RejectOrder(o, c)
  PROVE  SalesInv'
<1>1. /\ order \in [Order -> OrderRow] /\ order[o].status = "PENDING" /\ Aside
      /\ c \in Manager /\ c # order[o].by
  BY DEF ApproveOrder, RejectOrder, Reviewable, Aside, SalesInv, OrdersInv
<1>2. ~Sold(o) /\ order[o].version \in Version
  BY <1>1 DEF SalesInv, OrdersInv, SoldCompleted, OrderVersions
<1>3. CASE ApproveOrder(o, c)
  <2> DEFINE row == [order[o] EXCEPT !.reviewer = c]
  <2>1. /\ row \in OrderRow /\ row.version = order[o].version /\ row.reviewer = c
        /\ row.by = order[o].by /\ Orderable(row) /\ Instantiate(o, row)
    BY <1>1, <1>3 DEF OrderRow, ApproveOrder, Orderable
  <2> HIDE DEF row
  <2> QED BY <1>1, <1>2, <2>1, InstantiateKeeps
<1>4. CASE RejectOrder(o, c)
  <2> DEFINE row == [order[o] EXCEPT !.status = "REJECTED", !.reviewer = c]
  <2>1. /\ row \in OrderRow /\ row.version = order[o].version /\ row.status = "REJECTED"
        /\ order' = [order EXCEPT ![o] = row] /\ sub' = sub
    BY <1>1, <1>4 DEF OrderRow, RejectOrder
  <2> HIDE DEF row
  <2> QED BY <1>1, <1>2, <2>1, PendingKeeps
<1> QED BY <1>3, <1>4


\* The history grows by a row that is not before the last.
LEMMA AppendOrdered ==
  ASSUME NEW row \in SubRow, Ordered(row), NEW to, NEW day \in Day,
         LegalTransition(row.status, to), row.history[Len(row.history)].on <= day,
         NEW new \in SubRow, new.status = to,
         new.history = Append(row.history, [to |-> to, on |-> day]),
         to = "TERMINATED" => new.end = day
  PROVE  Ordered(new)
<1> DEFINE h == row.history
           g == new.history
           n == Len(h)
           move == [to |-> to, on |-> day]
<1>1. h \in Seq(Move) /\ g \in Seq(Move) /\ n \in Nat /\ n > 0
  BY DEF SubRow, Ordered
<1>2. g = Append(h, move)
  OBVIOUS
<1>3. /\ Len(g) = n + 1 /\ g[n + 1].to = to /\ g[n + 1].on = day
      /\ \A i \in 1..n : g[i] = h[i] /\ h[i] \in Move
  <2> HIDE DEF h, g
  <2>1. Len(g) = n + 1 /\ g[n + 1] = move /\ \A i \in 1..n : g[i] = h[i]
    BY <1>1, <1>2
  <2>2. \A i \in 1..n : h[i] \in Move
    BY <1>1
  <2> QED BY <2>1, <2>2
<1>4. /\ row.status = h[n].to /\ h[n].on <= day
      /\ \A i, j \in 1..n : i <= j => h[i].on <= h[j].on
      /\ \A i \in 1..n :
            /\ h[i].to = "TERMINATED" => i = n
            /\ h[i].to = "SUSPENDED" /\ i < n => h[i + 1].to # "SUSPENDED"
  BY DEF Ordered
<1>5. /\ h[n].to # "TERMINATED"
      /\ h[n].to = "SUSPENDED" => to # "SUSPENDED"
  BY <1>4 DEF LegalTransition
<1>6. \A i \in 1..n : h[i].on \in Nat
  BY <1>3, SalesAssumption DEF Move, Day
<1>7. day \in Nat
  BY SalesAssumption DEF Day
<1> HIDE DEF h, g, n
<1>8. ASSUME NEW i \in 1..Len(g), NEW j \in 1..Len(g), i <= j
      PROVE  g[i].on <= g[j].on
  <2>1. CASE j = n + 1 /\ i = n + 1
    BY <1>3, <1>7, <2>1
  <2>2. CASE j = n + 1 /\ i # n + 1
    <3>1. i \in 1..n /\ n \in 1..n /\ i <= n
      BY <1>1, <1>3, <1>8, <2>2
    <3>2. h[i].on <= h[n].on /\ h[i].on \in Nat /\ h[n].on \in Nat
      BY <1>4, <1>6, <3>1
    <3> QED BY <1>3, <1>4, <1>7, <2>2, <3>1, <3>2
  <2>3. CASE j # n + 1
    <3>1. i \in 1..n /\ j \in 1..n
      BY <1>1, <1>3, <1>8, <2>3
    <3> QED BY <1>3, <1>4, <1>8, <3>1
  <2> QED BY <2>1, <2>2, <2>3
<1>9. ASSUME NEW i \in 1..Len(g)
      PROVE  /\ g[i].to = "TERMINATED" => i = Len(g)
             /\ g[i].to = "SUSPENDED" /\ i < Len(g) => g[i + 1].to # "SUSPENDED"
  <2>1. CASE i = n + 1
    BY <1>1, <1>3, <2>1
  <2>2. CASE i = n
    BY <1>1, <1>3, <1>5, <2>2
  <2>3. CASE i # n /\ i # n + 1
    <3>1. i \in 1..n /\ i + 1 \in 1..n /\ i < n
      BY <1>1, <1>3, <2>3
    <3> QED BY <1>3, <1>4, <3>1
  <2> QED BY <2>1, <2>2, <2>3
<1> QED BY <1>1, <1>3, <1>8, <1>9 DEF Ordered, g

LEMMA TransitionKeeps ==
  ASSUME SalesInv, NEW o \in Order, NEW day \in Day, NEW to, Transition(o, to, day)
  PROVE  SalesInv'
<1> DEFINE new == [sub[o] EXCEPT !.status = to,
                                 !.end = IF to = "TERMINATED" THEN day ELSE @,
                                 !.history = Append(@, [to |-> to, on |-> day])]
<1>1. /\ LegalTransition(sub[o].status, to) /\ sub[o].history[Len(sub[o].history)].on <= day
      /\ Aside /\ order' = order /\ sub \in [Order -> SubRow]
  BY DEF Transition, InOrder, Latest, Aside, SalesInv, HistoriesInv
<1>2. sub' = [sub EXCEPT ![o] = new]
  BY <1>1 DEF Transition
<1>3. /\ sub[o].status \in {"ACTIVE", "SUSPENDED"}
      /\ to \in {"ACTIVE", "SUSPENDED", "TERMINATED"} /\ Sold(o)
  BY <1>1 DEF LegalTransition, Sold
<1>4. new \in SubRow
  <2>1. [to |-> to, on |-> day] \in Move
    BY <1>3 DEF Move
  <2>2. Append(sub[o].history, [to |-> to, on |-> day]) \in Seq(Move)
    BY <1>1, <2>1 DEF SubRow
  <2> QED BY <1>1, <1>3, <2>2 DEF SubRow
<1>5. /\ new.status = to /\ new.end = IF to = "TERMINATED" THEN day ELSE sub[o].end
      /\ new.history = Append(sub[o].history, [to |-> to, on |-> day])
  BY <1>1 DEF SubRow
<1> HIDE DEF new
<1>6. sub'[o] = new /\ \A x \in Order \ {o} : sub'[x] = sub[x]
  BY <1>1, <1>2
<1>7. HistoriesInv'
  <2>1. sub' \in [Order -> SubRow]
    BY <1>1, <1>2, <1>4
  <2>2. ASSUME NEW x \in Order
        PROVE  sub'[x].end = Forever <=> sub'[x].status # "TERMINATED"
    <3>1. sub[o].end = Forever /\ day # Forever
      BY <1>3, SalesAssumption DEF SalesInv, HistoriesInv, Day, Forever
    <3> QED BY <1>5, <1>6, <3>1 DEF SalesInv, HistoriesInv
  <2>3. HistoryOrdered'
    <3> SUFFICES ASSUME NEW x \in Order, sub'[x].status # "none"
                 PROVE  Ordered(sub'[x])
      BY DEF HistoryOrdered, Sold, Ordered
    <3>1. CASE x # o
      BY <1>6, <3>1 DEF SalesInv, HistoriesInv, HistoryOrdered, Sold
    <3>2. CASE x = o
      <4>1. sub[o] \in SubRow /\ Ordered(sub[o])
        BY <1>1, <1>3 DEF SalesInv, HistoriesInv, HistoryOrdered
      <4> QED BY <1>1, <1>4, <1>5, <1>6, <3>2, <4>1, AppendOrdered
    <3> QED BY <3>1, <3>2
  <2> QED BY <2>1, <2>2, <2>3 DEF HistoriesInv
<1>8. OrdersInv'
  <2>1. \A x \in Order : Sold(x)' <=> Sold(x)
    BY <1>3, <1>5, <1>6 DEF Sold
  <2>2. (order \in [Order -> OrderRow] /\ today \in Day /\ SoldCompleted /\ OrderVersions
           /\ SoldIsReleased /\ NegotiatedAgreed)'
    BY <1>1, <2>1 DEF Aside, SoldCompleted, OrderVersions, SoldIsReleased, NegotiatedAgreed,
                      SalesInv, OrdersInv
  <2>3. RetiredBillsNothing'
    <3> SUFFICES ASSUME NEW x \in Order, order[x].version # Nil, Sold(x),
                        offering[order[x].version].status = "RETIRED"
                 PROVE  ~(sub'[x].end >= today)
      BY <1>1, <2>1 DEF RetiredBillsNothing, Aside
    <3>1. ~(sub[x].end >= today) /\ today \in Day
      BY DEF SalesInv, OrdersInv, RetiredBillsNothing
    <3>2. x # o
      <4>1. sub[o].end = Forever
        BY <1>3 DEF SalesInv, HistoriesInv
      <4> QED BY <3>1, <4>1, SalesAssumption DEF Day, Forever
    <3> QED BY <1>6, <3>1, <3>2
  <2> QED BY <2>2, <2>3 DEF OrdersInv
<1> QED BY <1>1, <1>7, <1>8, AsideKeeps DEF SalesInv

-----------------------------------------------------------------------------
LEMMA SalesInitInv == SalesInit => SalesInv
<1> SUFFICES ASSUME SalesInit PROVE SalesInv
  OBVIOUS
<1>1. CatalogueInv
  BY DEF SalesInit, CatalogueInit, CatalogueInv, CatalogueTypeOK, OfferingRow, OneOnSale,
         ModifiersRated, RootsReleased, OwnRoots, Present, Exists, LifecycleStatus
<1>2. CustomersInv
  BY DEF SalesInit, CustomersInit, CustomersInv, CustomersTypeOK, FormTrue,
         ClosedLeavesNothingOpen, NoForm
<1>3. 0 \in Day
  BY SalesAssumption DEF Day
<1>4. OrdersInv
  BY <1>3 DEF SalesInit, SalesTables, OrdersInv, OrderRow, SoldCompleted, OrderVersions,
              SoldIsReleased, RetiredBillsNothing, NegotiatedAgreed, Sold
<1>5. HistoriesInv
  <2>1. <<>> \in Seq(Move)
    OBVIOUS
  <2> QED BY <2>1 DEF SalesInit, SalesTables, HistoriesInv, HistoryOrdered, SubRow, Sold
<1> QED BY <1>1, <1>2, <1>4, <1>5 DEF SalesInv

LEMMA SalesNextInv == SalesInv /\ [SalesNext]_salesVars => SalesInv'
<1> SUFFICES ASSUME SalesInv, [SalesNext]_salesVars PROVE SalesInv'
  OBVIOUS
<1>1. CASE UNCHANGED salesVars
  <2>1. Aside /\ order' = order /\ sub' = sub
    BY <1>1 DEF salesVars, Aside
  <2>2. OrdersInv' /\ HistoriesInv'
    BY <2>1 DEF Aside, SalesInv, OrdersInv, SoldCompleted, OrderVersions, SoldIsReleased,
                RetiredBillsNothing, NegotiatedAgreed, Sold, HistoriesInv, HistoryOrdered, Ordered
  <2> QED BY <2>1, <2>2, AsideKeeps DEF SalesInv
<1>2. ASSUME NEW o \in Order, OrderStep(o) PROVE SalesInv'
  BY <1>2, ReviewKeeps, CreateOrderKeeps, TransitionKeeps
     DEF OrderStep, Suspend, Resume, Terminate
<1> QED BY <1>1, <1>2, StockKeeps, CareKeeps, NextDayKeeps DEF SalesNext

LEMMA SalesInvariant == SalesSpec => []SalesInv
  BY SalesInitInv, SalesNextInv, PTL DEF SalesSpec

\* Versions, prices, customer, orders and subscriptions have their types, and
\* a subscription has an end exactly if it has been terminated.
THEOREM SalesTypeCorrect == SalesSpec => []SalesTypeOK
<1>1. SalesInv => SalesTypeOK
  BY DEF SalesInv, SalesTypeOK, CatalogueInv, CustomersInv, OrdersInv, HistoriesInv
<1> QED BY <1>1, SalesInvariant, PTL

\* At most one version of a family is on sale.
THEOREM OneOnSaleTheorem == SalesSpec => []OneOnSale
  BY SalesInvariant, PTL DEF SalesInv, CatalogueInv

\* The root of a family is there as long as any of its versions is.
THEOREM FamilyRootedTheorem == SalesSpec => []FamilyRooted
<1>1. SalesInv => FamilyRooted
  BY DEF SalesInv, CatalogueInv, RootsReleased, FamilyRooted, Released, ReleasedStatus, Present, Exists,
         LifecycleStatus
<1> QED BY <1>1, SalesInvariant, PTL

\* No version has a modifier without a base rate.
THEOREM ModifiersRatedTheorem == SalesSpec => []ModifiersRated
  BY SalesInvariant, PTL DEF SalesInv, CatalogueInv

\* What has been sold is a version that was released with prices.
THEOREM SoldIsReleasedTheorem == SalesSpec => []SoldIsReleased
  BY SalesInvariant, PTL DEF SalesInv, OrdersInv

\* No subscription bills from a retired version today or later.
THEOREM RetiredBillsNothingTheorem == SalesSpec => []RetiredBillsNothing
  BY SalesInvariant, PTL DEF SalesInv, OrdersInv

\* A negotiated price bills after a second person agreed, a manager.
THEOREM NegotiatedAgreedTheorem == SalesSpec => []NegotiatedAgreed
  BY SalesInvariant, PTL DEF SalesInv, OrdersInv

\* At most one version of a family is on sale, its root is there, and every
\* modifier has a base rate beside it.
THEOREM CatalogueSoundTheorem == SalesSpec => []CatalogueSound
  BY OneOnSaleTheorem, FamilyRootedTheorem, ModifiersRatedTheorem, PTL DEF CatalogueSound

\* What has been sold was released, with prices, and agreed to if negotiated.
THEOREM SoldAsAgreedTheorem == SalesSpec => []SoldAsAgreed
  BY SoldIsReleasedTheorem, NegotiatedAgreedTheorem, PTL DEF SoldAsAgreed

\* A closed customer has no open account.
THEOREM ClosedLeavesNothingOpenTheorem == SalesSpec => []ClosedLeavesNothingOpen
  BY SalesInvariant, PTL DEF SalesInv, CustomersInv

\* No step changes the prices of a version that has been sold.
THEOREM SoldPricesStayTheorem == SalesSpec => SoldPricesStay
<1>1. ASSUME SalesInv, SalesNext, NEW o \in Order, Sold(o)
      PROVE  offering'[order[o].version].prices = offering[order[o].version].prices
  <2>1. order[o].version \in Version /\ Released(order[o].version)
    BY <1>1 DEF SalesInv, OrdersInv, SoldCompleted, OrderVersions, SoldIsReleased, Released,
                ReleasedStatus
  <2>2. ASSUME NEW v \in Version, Stock(v) \/ Retire(v)
        PROVE  offering'[order[o].version].prices = offering[order[o].version].prices
    <3>1. PICK live : CatalogueStep(v) \/ RetireOffering(v, live)
      BY <2>2 DEF Stock, Retire
    <3>2. CatalogueInv
      BY <1>1 DEF SalesInv
    <3> QED BY <2>1, <3>1, <3>2, CatalogueKeeps DEF Kept
  <2>3. CASE Care \/ NextDay
    BY <2>3 DEF Care, NextDay
  <2>4. ASSUME NEW x \in Order, OrderStep(x) PROVE offering' = offering
    BY <2>4 DEF OrderStep, ApproveOrder, RejectOrder, CreateOrder, Suspend, Resume, Terminate,
                Transition
  <2> QED BY <1>1, <2>2, <2>3, <2>4 DEF SalesNext
<1>2. SalesInv /\ [SalesNext]_salesVars =>
        [\A o \in Order :
            Sold(o) => offering'[order[o].version].prices
                          = offering[order[o].version].prices]_salesVars
  BY <1>1
<1> QED BY <1>2, SalesInvariant, PTL DEF SalesSpec, SoldPricesStay


-----------------------------------------------------------------------------
\* What a history in order says of the days it names.
LEMMA HistoryFacts ==
  ASSUME SalesInv, NEW o \in Order, Sold(o), NEW h, h = sub[o].history
  PROVE  /\ Len(h) \in Nat /\ Len(h) > 0 /\ Horizon \in Nat
         /\ \A i \in 1..Len(h) : h[i].on \in Nat /\ h[i].on <= Horizon
                                   /\ h[i].to \in {"ACTIVE", "SUSPENDED", "TERMINATED"}
         /\ \A i, j \in 1..Len(h) : i <= j => h[i].on <= h[j].on
         /\ \A i \in 1..Len(h) :
               /\ h[i].on <= sub[o].end
               /\ h[i].to = "TERMINATED" => i = Len(h) /\ sub[o].end = h[i].on
               /\ h[i].to = "SUSPENDED" /\ i < Len(h) => h[i + 1].to # "SUSPENDED"
               /\ h[i].to = "SUSPENDED" /\ i = Len(h) => sub[o].end = Forever
         /\ sub[o].end \in Nat /\ sub[o].end <= Forever /\ Forever = Horizon + 1
<1>1. /\ sub[o] \in SubRow /\ Ordered(sub[o])
      /\ sub[o].end = Forever <=> sub[o].status # "TERMINATED"
  BY DEF SalesInv, HistoriesInv, HistoryOrdered
<1>2. /\ Len(h) \in Nat /\ Len(h) > 0 /\ sub[o].status = h[Len(h)].to
      /\ sub[o].status = "TERMINATED" => sub[o].end = h[Len(h)].on
      /\ \A i, j \in 1..Len(h) : i <= j => h[i].on <= h[j].on
      /\ \A i \in 1..Len(h) :
            /\ h[i].to = "TERMINATED" => i = Len(h)
            /\ h[i].to = "SUSPENDED" /\ i < Len(h) => h[i + 1].to # "SUSPENDED"
  BY <1>1 DEF Ordered, SubRow
<1>3. \A i \in 1..Len(h) : h[i] \in Move
  BY <1>1 DEF SubRow
<1>4. Horizon \in Nat
  BY SalesAssumption
<1>5. \A i \in 1..Len(h) : h[i].on \in Nat /\ h[i].on <= Horizon
                             /\ h[i].to \in {"ACTIVE", "SUSPENDED", "TERMINATED"}
  BY <1>3, <1>4 DEF Move, Day
<1>6. sub[o].end \in Nat /\ sub[o].end <= Forever /\ Forever = Horizon + 1
  BY <1>1, <1>4 DEF SubRow, Day, Forever
<1>7. ASSUME NEW i \in 1..Len(h)
      PROVE  /\ h[i].on <= sub[o].end
             /\ h[i].to = "TERMINATED" => i = Len(h) /\ sub[o].end = h[i].on
             /\ h[i].to = "SUSPENDED" /\ i = Len(h) => sub[o].end = Forever
  <2>1. Len(h) \in 1..Len(h) /\ i <= Len(h)
    BY <1>2
  <2>2. h[i].on <= h[Len(h)].on
    BY <1>2, <2>1
  <2>3. CASE sub[o].status = "TERMINATED"
    BY <1>2, <2>1, <2>2, <2>3
  <2>4. CASE sub[o].status # "TERMINATED"
    BY <1>1, <1>2, <1>4, <1>5, <1>6, <2>1, <2>4
  <2> QED BY <2>3, <2>4
<1> QED BY <1>2, <1>4, <1>5, <1>6, <1>7

\* The suspensions in a history lie in the life of the subscription and do not
\* overlap.
THEOREM SuspensionsInLifeTheorem == SalesSpec => []SuspensionsInLife
<1>1. SalesInv => SuspensionsInLife
  <2> SUFFICES ASSUME SalesInv, NEW o \in Order, Sold(o), NEW w \in Windows(o)
               PROVE  /\ sub[o].history[1].on <= w.from /\ w.from <= w.upto
                      /\ w.upto <= sub[o].end
                      /\ \A x \in Windows(o) : w.from < x.from => w.upto <= x.from
    BY DEF SuspensionsInLife
  <2> DEFINE h == sub[o].history
  <2>1. PICK i \in 1..Len(h) :
          /\ h[i].to = "SUSPENDED"
          /\ w = [from |-> h[i].on, upto |-> IF i < Len(h) THEN h[i + 1].on ELSE Forever]
    BY DEF Windows
  <2>2. w.from = h[i].on /\ w.upto = IF i < Len(h) THEN h[i + 1].on ELSE Forever
    BY <2>1
  <2>3. ASSUME NEW x \in Windows(o) PROVE \E j \in 1..Len(h) : x.from = h[j].on
    BY <2>3 DEF Windows
  <2> HIDE DEF h
  <2>4. /\ Len(h) \in Nat /\ Len(h) > 0 /\ Horizon \in Nat
        /\ \A j \in 1..Len(h) : h[j].on \in Nat /\ h[j].on <= Horizon
        /\ \A j, k \in 1..Len(h) : j <= k => h[j].on <= h[k].on
        /\ \A j \in 1..Len(h) : h[j].on <= sub[o].end
        /\ i = Len(h) => sub[o].end = Forever
        /\ Forever = Horizon + 1
    BY <2>1, HistoryFacts DEF h
  <2>5. h[1].on <= w.from /\ w.from <= w.upto /\ w.upto <= sub[o].end
    <3>1. 1 \in 1..Len(h) /\ 1 <= i
      BY <2>1, <2>4
    <3>2. CASE i < Len(h)
      <4>1. i + 1 \in 1..Len(h) /\ i <= i + 1
        BY <2>1, <2>4, <3>2
      <4> QED BY <2>1, <2>2, <2>4, <3>1, <3>2, <4>1
    <3>3. CASE i = Len(h)
      <4>1. w.upto = Forever /\ sub[o].end = Forever
        BY <2>2, <2>4, <3>3
      <4> QED BY <2>1, <2>2, <2>4, <3>1, <4>1
    <3> QED BY <2>1, <2>4, <3>2, <3>3
  <2>6. ASSUME NEW x \in Windows(o), w.from < x.from PROVE w.upto <= x.from
    <3>1. PICK j \in 1..Len(h) : x.from = h[j].on
      BY <2>3
    <3>2. i < j
      BY <2>1, <2>2, <2>4, <2>6, <3>1
    <3>3. i < Len(h) /\ i + 1 \in 1..Len(h) /\ i + 1 <= j
      BY <2>1, <2>4, <3>1, <3>2
    <3> QED BY <2>2, <2>4, <3>1, <3>3
  <2> QED BY <2>5, <2>6 DEF h
<1> QED BY <1>1, SalesInvariant, PTL

\* A period with no partial mark bills on the days it bills on any.
LEMMA BillsAlike ==
  ASSUME SalesInv, NEW o \in Order, Sold(o), NEW s \in Day, NEW e \in Day,
         s < e, ~Partial(o, s, e), NEW x \in s..(e - 1), NEW y \in s..(e - 1),
         Bills(o, x), ~Bills(o, y)
  PROVE  FALSE
<1> DEFINE h == sub[o].history
<1>1. /\ Len(h) \in Nat /\ Len(h) > 0 /\ Horizon \in Nat
      /\ \A i \in 1..Len(h) : h[i].on \in Nat /\ h[i].on <= Horizon
                                /\ h[i].to \in {"ACTIVE", "SUSPENDED", "TERMINATED"}
      /\ \A i \in 1..Len(h) :
            /\ h[i].to = "TERMINATED" => i = Len(h) /\ sub[o].end = h[i].on
            /\ h[i].to = "SUSPENDED" /\ i < Len(h) => h[i + 1].to # "SUSPENDED"
      /\ sub[o].end \in Nat /\ Forever = Horizon + 1
  BY HistoryFacts
<1>2. /\ ~(s < h[1].on /\ h[1].on <= e)
      /\ ~(s <= sub[o].end /\ sub[o].end < e)
      /\ \A i \in 1..Len(h) : SuspendOrResume(h, i) => ~(s < h[i].on /\ h[i].on < e)
  BY DEF Partial
<1>3. /\ h[1].on <= x /\ x <= sub[o].end
      /\ \A w \in Windows(o) : ~(w.from <= x /\ x < w.upto)
  BY DEF Bills
<1>4. s \in Nat /\ e \in Nat /\ e <= Horizon /\ x \in Nat /\ y \in Nat
        /\ s <= x /\ x < e /\ s <= y /\ y < e
  BY <1>1 DEF Day
<1>5. h[1].on <= y /\ y <= sub[o].end
  <2>1. 1 \in 1..Len(h)
    BY <1>1
  <2> HIDE DEF h
  <2> QED BY <1>1, <1>2, <1>3, <1>4, <2>1
<1>6. PICK w \in Windows(o) : w.from <= y /\ y < w.upto
  BY <1>5 DEF Bills
<1>7. PICK i \in 1..Len(h) :
        /\ h[i].to = "SUSPENDED"
        /\ w = [from |-> h[i].on, upto |-> IF i < Len(h) THEN h[i + 1].on ELSE Forever]
  BY DEF Windows
<1>8. w.from = h[i].on /\ w.upto = IF i < Len(h) THEN h[i + 1].on ELSE Forever
  BY <1>7
<1>9. SuspendOrResume(h, i)
  BY <1>7 DEF SuspendOrResume
<1>10. ASSUME i < Len(h), h[i + 1].to = "ACTIVE" PROVE SuspendOrResume(h, i + 1)
  <2>1. i + 1 > 1 /\ (i + 1) - 1 = i
    BY <1>1, <1>7
  <2> HIDE DEF h
  <2> QED BY <1>7, <1>10, <2>1 DEF SuspendOrResume
<1> HIDE DEF h
<1>11. CASE x < w.from
  <2>1. h[i].on \in Nat
    BY <1>1, <1>7
  <2>2. s < h[i].on /\ h[i].on < e
    BY <1>4, <1>6, <1>8, <1>11, <2>1
  <2> QED BY <1>2, <1>7, <1>9, <2>2
<1>12. CASE w.upto <= x
  <2>1. i < Len(h) /\ i + 1 \in 1..Len(h) /\ w.upto = h[i + 1].on
    BY <1>1, <1>4, <1>7, <1>8, <1>12
  <2>2. CASE h[i + 1].to = "ACTIVE"
    <3>1. s < h[i + 1].on /\ h[i + 1].on < e
      BY <1>1, <1>4, <1>6, <1>8, <1>12, <2>1
    <3> QED BY <1>2, <1>10, <2>1, <2>2, <3>1
  <2>3. CASE h[i + 1].to = "TERMINATED"
    BY <1>1, <1>2, <1>3, <1>4, <1>12, <2>1, <2>3
  <2> QED BY <1>1, <1>7, <2>1, <2>2, <2>3
<1>13. w.from \in Nat /\ w.upto \in Nat
  BY <1>1, <1>7, <1>8
<1> QED BY <1>3, <1>4, <1>11, <1>12, <1>13

\* What isPartialPeriod takes for whole is whole.
THEOREM WholePeriodsTheorem == SalesSpec => []WholePeriods
<1>1. SalesInv => WholePeriods
  <2> SUFFICES ASSUME SalesInv, NEW o \in Order, Sold(o), NEW s \in Day, NEW e \in Day,
                      s < e, ~Partial(o, s, e), NEW x \in s..(e - 1), NEW y \in s..(e - 1)
               PROVE  Bills(o, x) = Bills(o, y)
    BY DEF WholePeriods
  <2>1. Bills(o, x) => Bills(o, y)
    BY BillsAlike
  <2>2. Bills(o, y) => Bills(o, x)
    BY BillsAlike
  <2>3. Bills(o, x) \in BOOLEAN /\ Bills(o, y) \in BOOLEAN
    BY DEF Bills
  <2> QED BY <2>1, <2>2, <2>3
<1> QED BY <1>1, SalesInvariant, PTL

=============================================================================
