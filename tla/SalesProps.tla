---------------------------- MODULE SalesProps ----------------------------
(***************************************************************************)
(* What ordering, the catalogue and billing rely on from each other.       *)
(***************************************************************************)
EXTENDS Sales

Sold(o) == sub[o].status # "none"

\* One version of a family is on sale at most, however versions are branched,
\* tested and activated (activateOffering supersedes under the family's lock).
OneOnSale ==
    \A v, w \in Version :
        /\ offering[v].status = "ACTIVE" /\ offering[w].status = "ACTIVE"
        /\ offering[v].root = offering[w].root
        => v = w

\* No version is without the root of its family: what may be discarded has no
\* branches, so that deleteOffering never meets the foreign key it relies on
\* never to meet (delete-offering.ts).
FamilyRooted == \A v \in Version : Exists(v) => Exists(offering[v].root)

\* No modifier is left without a base rate, on a draft or after it, whichever
\* rows are inserted, changed, removed or branched (validateOfferingComponents).
ModifiersRated ==
    \A v \in Version :
        offering[v].prices \cap Modifier # {} => offering[v].prices \ Modifier # {}

\* The catalogue as ordering and rating read it: families are rooted and sell
\* once, and modifiers have something to modify.
CatalogueSound == OneOnSale /\ FamilyRooted /\ ModifiersRated

\* A subscription is on a version that was released with prices, and still is
\* there: no draft, no test, nothing discarded (Inv. 17 and 23).
SoldIsReleased ==
    \A o \in Order :
        Sold(o) => /\ offering[order[o].version].status \in {"ACTIVE", "OBSOLETE", "RETIRED"}
                   /\ offering[order[o].version].prices # {}

\* The prices of a version somebody has subscribed to never change.
SoldPricesStay ==
    [][\A o \in Order :
          Sold(o) => offering'[order[o].version].prices
                        = offering[order[o].version].prices]_salesVars

\* Nothing bills from a retired version today or later, also a subscription
\* terminated to a day that is still to come (retireOffering's gate).
RetiredBillsNothing ==
    \A o \in Order :
        order[o].version # Nil /\ offering[order[o].version].status = "RETIRED"
            => ~(Sold(o) /\ sub[o].end >= today)

\* A price that was negotiated bills only after a manager other than the one
\* who submitted it has agreed (approveOrder; Inv. 22).
NegotiatedAgreed ==
    \A o \in Order :
        Sold(o) /\ order[o].special =>
            order[o].reviewer \in Manager /\ order[o].reviewer # order[o].by

\* What is sold is what the catalogue released and, if its price was special, a
\* manager agreed to, whatever became of the order or the version meanwhile.
SoldAsAgreed == SoldIsReleased /\ NegotiatedAgreed

\* The suspensions a history shows lie in the subscription's life, one after
\* the other, however their days were backdated (lifecycle-guards).
SuspensionsInLife ==
    \A o \in Order :
        Sold(o) => \A w \in Windows(o) :
            /\ sub[o].history[1].on <= w.from /\ w.from <= w.upto
            /\ w.upto <= sub[o].end
            /\ \A x \in Windows(o) : w.from < x.from => w.upto <= x.from

\* The subscription is to be billed for day x.
Bills(o, x) ==
    /\ sub[o].history[1].on <= x /\ x <= sub[o].end
    /\ \A w \in Windows(o) : ~(w.from <= x /\ x < w.upto)

\* A period the bill run takes for whole is: the subscription bills on all of
\* its days or on none, but for its last, where a cease counts as none
\* (isPartialPeriod over the histories the lifecycle operations write).
WholePeriods ==
    \A o \in Order : Sold(o) =>
        \A s, e \in Day :
            s < e /\ ~Partial(o, s, e) =>
                \A x, y \in s..(e - 1) : Bills(o, x) = Bills(o, y)

\* A closed customer has no open account, whatever was onboarded while its
\* closing was under way (customerHasOpenAccounts before, last_modified in the
\* transaction).
ClosedLeavesNothingOpen == customer = "CLOSED" => "active" \notin {financial, billing}

=============================================================================
