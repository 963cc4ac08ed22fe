------------------------------- MODULE Sales -------------------------------
(***************************************************************************)
(* Orders and the subscriptions they become (services/ordering,            *)
(* services/inventory), over the catalogue they sell from and the customer *)
(* they sell to.                                                           *)
(*                                                                         *)
(* Ordering, review and the lifecycle operations lock the rows they test   *)
(* (the order, the customer, the billing account, the version, or the      *)
(* subscription) and write in the same transaction: each is one step.      *)
(*                                                                         *)
(* Abstractions.  An order has one item, as in the code; quantities,       *)
(* characteristics and amounts are left out, and of overrides only that    *)
(* there are some.  Days are numbers, and the business day and the day of  *)
(* the database are one.                                                   *)
(***************************************************************************)
EXTENDS Catalogue, Customers, Naturals, Sequences

CONSTANTS
    Order,      \* ids of orders, and of the subscription each may become
    Clerk,      \* who submit and review orders
    Manager,    \* those with the role of a manager
    Nil,        \* no clerk, no version
    Tolerance,  \* days a date may lie back
    Horizon,    \* bound: the last day there is
    MaxMoves    \* bound: rows in the history of a subscription

ASSUME SalesAssumption ==
    /\ Manager \subseteq Clerk
    /\ Nil \notin Clerk \cup Version
    /\ {Tolerance, Horizon, MaxMoves} \subseteq Nat

VARIABLES
    today,
    order,      \* rows of orders
    sub         \* rows of subscriptions, with their histories

salesVars == <<offering, customerVars, today, order, sub>>

-----------------------------------------------------------------------------
Day == 0..Horizon
Forever == Horizon + 1      \* an end date that is not set

OrderRow ==
    [status : {"none", "PENDING", "COMPLETED", "REJECTED"},
     version : Version \cup {Nil}, start : Day, special : BOOLEAN,
     by : Clerk \cup {Nil}, reviewer : Clerk \cup {Nil}]

Move == [to : {"ACTIVE", "SUSPENDED", "TERMINATED"}, on : Day]

SubRow ==
    [status : {"none", "ACTIVE", "SUSPENDED", "TERMINATED"},
     end : Day \cup {Forever}, history : Seq(Move)]

SalesTypeOK ==
    /\ CatalogueTypeOK /\ CustomersTypeOK
    /\ today \in Day
    /\ order \in [Order -> OrderRow]
    /\ sub \in [Order -> SubRow]
    /\ \A o \in Order : sub[o].end = Forever <=> sub[o].status # "TERMINATED"

SalesTables ==
    /\ today = 0
    /\ order = [o \in Order |-> [status |-> "none", version |-> Nil, start |-> 0,
                                 special |-> FALSE, by |-> Nil, reviewer |-> Nil]]
    /\ sub = [o \in Order |-> [status |-> "none", end |-> Forever, history |-> <<>>]]

SalesInit == CatalogueInit /\ CustomersInit /\ SalesTables

BackdatedTooFar(day) == day + Tolerance < today

-----------------------------------------------------------------------------
\* checkOrderPreconditions.
Orderable(row) ==
    /\ customer = "ACTIVE" /\ billing = "active"
    /\ offering[row.version].status = "ACTIVE"
    /\ offering[row.version].prices # {}
    /\ ~BackdatedTooFar(row.start)

\* instantiateOrder.
Instantiate(o, row) ==
    /\ order' = [order EXCEPT ![o] = [row EXCEPT !.status = "COMPLETED"]]
    /\ sub' = [sub EXCEPT ![o] = [status |-> "ACTIVE", end |-> Forever,
                                  history |-> <<[to |-> "ACTIVE", on |-> row.start]>>]]

CreateOrder(o, v, start, special, c) ==
    /\ order[o].status = "none"
    /\ LET row == [status |-> "PENDING", version |-> v, start |-> start,
                   special |-> special, by |-> c, reviewer |-> Nil]
       IN  /\ Orderable(row)
           /\ IF special
              THEN order' = [order EXCEPT ![o] = row] /\ sub' = sub
              ELSE Instantiate(o, row)
    /\ UNCHANGED <<offering, customerVars, today>>

\* lockPendingOrderForReview.
Reviewable(o, c) ==
    /\ order[o].status = "PENDING"
    /\ c \in Manager /\ c # order[o].by

ApproveOrder(o, c) ==
    /\ Reviewable(o, c)
    /\ Orderable(order[o])
    /\ Instantiate(o, [order[o] EXCEPT !.reviewer = c])
    /\ UNCHANGED <<offering, customerVars, today>>

RejectOrder(o, c) ==
    /\ Reviewable(o, c)
    /\ order' = [order EXCEPT ![o].status = "REJECTED", ![o].reviewer = c]
    /\ UNCHANGED <<offering, customerVars, today, sub>>

-----------------------------------------------------------------------------
\* Mutant of LegalTransition: a subscription that has ended can be resumed.
LegalOrReopened(from, to) == from # "none" /\ from # to

LegalTransition(from, to) ==
    <<from, to>> \in {<<"ACTIVE", "SUSPENDED">>, <<"SUSPENDED", "ACTIVE">>,
                      <<"ACTIVE", "TERMINATED">>, <<"SUSPENDED", "TERMINATED">>}

Latest(o) == sub[o].history[Len(sub[o].history)].on

\* Mutant of InOrder: the day is compared with the start only.
InOrderOfStart(o, day) == sub[o].history[1].on <= day

\* Not before the latest effective date.
InOrder(o, day) == Latest(o) <= day

\* suspendSubscription, resumeSubscription and terminateSubscription.
Transition(o, to, day) ==
    /\ LegalTransition(sub[o].status, to)
    /\ ~BackdatedTooFar(day) /\ InOrder(o, day)
    /\ Len(sub[o].history) < MaxMoves
    /\ sub' = [sub EXCEPT ![o].status = to,
                          ![o].end = IF to = "TERMINATED" THEN day ELSE @,
                          ![o].history = Append(@, [to |-> to, on |-> day])]
    /\ UNCHANGED <<offering, customerVars, today, order>>

Suspend(o, day) == Transition(o, "SUSPENDED", day)
Resume(o, day) == Transition(o, "ACTIVE", day)
Terminate(o, day) == sub[o].status # "none" /\ Transition(o, "TERMINATED", day)

\* Mutant of Live: an end that is still to come is not looked at.
LiveByStatus(o) == sub[o].status \in {"ACTIVE", "SUSPENDED"}

\* liveSubscriptionWhere: it bills today or later.
Live(o) ==
    /\ sub[o].status # "none"
    /\ sub[o].status = "TERMINATED" => sub[o].end >= today

Retire(v) ==
    /\ RetireOffering(v, \E o \in Order : order[o].version = v /\ Live(o))
    /\ UNCHANGED <<customerVars, today, order, sub>>

NextDay ==
    /\ today < Horizon /\ today' = today + 1
    /\ UNCHANGED <<offering, customerVars, order, sub>>

-----------------------------------------------------------------------------
\* deriveSuspensionWindows: each suspension up to the next transition.
Windows(o) ==
    LET h == sub[o].history
    IN  {[from |-> h[i].on, upto |-> IF i < Len(h) THEN h[i + 1].on ELSE Forever] :
            i \in {i \in 1..Len(h) : h[i].to = "SUSPENDED"}}

\* Mutant of SuspendOrResume: a resumption does not count.
SuspendOnly(h, i) == h[i].to = "SUSPENDED"

SuspendOrResume(h, i) ==
    \/ h[i].to = "SUSPENDED"
    \/ i > 1 /\ h[i - 1].to = "SUSPENDED" /\ h[i].to = "ACTIVE"

\* isPartialPeriod, of the period from s to e.
Partial(o, s, e) ==
    LET h == sub[o].history
    IN  \/ s < h[1].on /\ h[1].on <= e
        \/ s <= sub[o].end /\ sub[o].end < e
        \/ \E i \in 1..Len(h) : SuspendOrResume(h, i) /\ s < h[i].on /\ h[i].on < e

-----------------------------------------------------------------------------
OrderStep(o) ==
    \/ \E c \in Clerk : ApproveOrder(o, c) \/ RejectOrder(o, c)
    \/ \E v \in Version, start \in Day, special \in BOOLEAN, c \in Clerk :
          CreateOrder(o, v, start, special, c)
    \/ \E day \in Day : Suspend(o, day) \/ Resume(o, day) \/ Terminate(o, day)

Stock(v) == CatalogueStep(v) /\ UNCHANGED <<customerVars, today, order, sub>>
Care == CustomersStep /\ UNCHANGED <<offering, today, order, sub>>

SalesNext ==
    \/ \E o \in Order : OrderStep(o)
    \/ \E v \in Version : Stock(v) \/ Retire(v)
    \/ Care \/ NextDay

SalesSpec == SalesInit /\ [][SalesNext]_salesVars

=============================================================================
