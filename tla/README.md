# Verification of the billing application

TLA+ models of the parts of this repository whose correctness depends on the order in which
things happen, checked with TLC on small instances and, where it matters most, proved with TLAPS
for every instance.

| Module | What it is |
| --- | --- |
| `BillRun.tla` | one bill run from SCHEDULED to APPROVED: handlers, workflow engine, claims, trial bills, period |
| `Posting.tla` | an approved run posted by any number of workers: invoices, parks, renderings, completion |
| `Invoicing.tla` | the abstract specification of posting: every account settled exactly once |
| `Distribution.tla` | delivery of what was posted, in rounds; composed with `Posting` |
| `Ledger.tla` | documents of a financial account as transactions: enter, submit, approve, redate, cancel, reverse, refund |
| `Catalogue.tla` | versions, families and prices of product offerings |
| `Customers.tla` | a customer, its accounts, onboarding and closing |
| `Sales.tla` | orders and subscriptions over the catalogue and the customer they are for |
| `Templates.tla` | invoice templates: layouts, settings, drafts, bindings, under the code's locks and tokens |
| `Rating.tla` | usage files claimed, parsed, loaded, superseded and archived, beside bill runs that hold rows |
| `RateCards.tla` | versions of a rate card: upload, activation and roll-back as transactions of several statements |
| `*Props.tla` | the properties of `BillRun`, `Distribution` (with `Posting`), `Ledger`, `Sales` (with its parts), `Templates`, `Rating`, `RateCards` |
| `MC*.tla` | small instances for TLC: `MCBillRun`, `MCDistribution`, `MCRating`, `MCLedger`, `MCTemplates`; `MCWorks`, which puts distribution, rating and `RateCards` side by side, and `MCOffice`, which does so with the ledger, `Sales` and the templates; one `.cfg` per run |
| `*Proofs.tla` | theorems and their proofs: `BillRunProofs`, `OrderlyProofs`, `PostingProofs`, `LedgerProofs`, `SalesProofs`, `RatingProofs`, `RateCardProofs`, `TemplateProofs` |

`PROJECT.json` maps every definition to the source lines it stands for and lists the runs, the
mutants that show each property can fail, the hazards and the theorems.

## Inventory of the system

The application (Next.js server actions and routes over PostgreSQL) manages customers, product
catalogue, orders and subscriptions, an accounts-receivable ledger, and the monthly bill run. A
rating engine writes rated usage records; a workflow engine (Kestra) runs the flows that turn
them into bills, deliver invoices and produce reports. Application and engine share the database
and talk by HTTP: the application starts, polls and kills executions; a flow posts stage and
status callbacks.

| Component | State | Operations | Hard part | What makes it correct | Status |
| --- | --- | --- | --- | --- | --- |
| Bill-run handlers (`services/billing`) | `bill_run`, `bill_run_account`, `bill_run_account_stage` | trigger, stage signal, status push, cancel, rerun, reject, approve, check status | two writers, callbacks in any order, an engine call inside a transaction | usage is neither lost nor billed twice; stale callbacks are harmless; four eyes | `BillRun` |
| Processor flow | executions, task states | validation, collection, aggregation, taxation, verification per account; failure handlers | not under the run's lock; retries; kills | what it reports is what it did | `BillRun` |
| Usage claims | `rating.udr_rated` claim columns | claim, release, approve | claim by the engine, release by the application | every claim belongs to a live attempt | `BillRun` |
| Engine client | none | start, status, kill | timeouts, kill takes effect late | an execution per attempt | `BillRun`, `Distribution` |
| Posting (`post-run.ts`) | posted bills, ledger, stored invoices | post, park, complete, render | two workers, stop and resume | each account invoiced once | `Posting`, `Invoicing` |
| Distribution (`distribute-run.ts`, distributor flow) | `bill_run_distribution` | trigger, outcome, finish, rerun, force complete | rounds, lost and repeated outcomes, late renderings | COMPLETED means delivered | `Distribution` |
| Ledger documents, payments, notes, deposits, refunds, write-off (`services/accounts`) | documents, lines, transfers | enter, submit, redate, cancel, approve, post, reverse, refund | READ COMMITTED, compare-and-swap, two reversals at once | money moves once, through posted documents, with four eyes | `Ledger` |
| Period close | `accounting_period` | close | checks and acts without a lock on what it checked | nothing is billed into a closed period | partly: `BillRun`, `Ledger` |
| Account closure | account states | close billing and financial account | eligibility read unlocked | customers close last | partly: `Customers`, `Ledger` |
| Product catalogue (`services/product`) | `product_offering`, prices | create, branch, edit, submit, return, activate, obsolete, retire, delete | families, versions in use | one version on sale; what is sold does not change | `Catalogue` |
| Rate cards (`services/product/ratecard`) | `ratecard_version` | upload, activate, roll back | statements of several transactions interleave; a lock that returns another row than was found | one version in force, a lineage that ends at it, unbroken numbers, truthful events | `RateCards` |
| Ordering (`services/ordering`) | orders, items | create, approve, reject | checks repeated at approval | a negotiated price is agreed by a second person | `Sales` |
| Subscription lifecycle (`services/inventory`) | subscriptions, histories | suspend, resume, terminate | backdating | suspensions and partial periods agree with the history | `Sales` |
| Customers and onboarding | customer, accounts | transition, onboard, close | the check before the transaction | a closed customer has no open account | partly: `Customers` |
| Run materialisation | `bill_run` rows | lazy insert | concurrent page views | one run per cycle and period (a unique key) | not modelled |
| Invoice templates, profile | types, layout and settings versions, bindings | save, upload, restore, discard, activate, bind, retire | tokens of pages, reads before locks | what is activated was shown; what accounts are bound to is usable | partly: `Templates` |
| Users, roles, configuration, audit log | rows | create, update | little: single transactions | constraints of the schema | not modelled |
| Rating engine (`worker/workflow-engine/runtime`, rating flows) | `udr_batch`, `udr_rated`, raw files | claim, parse, rate, load, supersede, archive, reconcile | stops and restarts, reissues, claims of bill runs | one live version of a delivery; held rows stay; no raw file is lost | partly: `Rating` |
| Reporting flows | none | extract | | | not modelled |
| Rendering, UI, routes, migrations | none | | pure formatting or I/O | | not modelled |

How they interact: an operator's action calls a handler; trigger and rerun call the engine
*inside* their transaction; the engine writes `udr_rated` and `customer_bill` directly and posts
`/stage/{stage}/complete` and `/status`; approval freezes the claims that posting will invoice;
posting writes ledger documents and stored invoices, and its last worker starts the distribution
of them; period close looks at the runs, and re-trigger, approval and document posting look at the
period. Orders check the customer, its billing account and the offering, and become subscriptions;
retiring an offering asks for the subscriptions that still bill; a bill run asks the history of a
subscription whether its period is whole; closing goes from billing account to financial account
to customer.

## BillRun

### State

| Variable | Code |
| --- | --- |
| `run` | the `bill_run` row: status, tracked execution, approver; `drivers` are the actors of its trigger and rerun audit rows, which the four-eyes check reads |
| `acct[b]` | the `bill_run_account` row of account `b`: status, attempt, whether a template version was captured; `latch` and `rejected` are the current attempt's stage rows and their marker |
| `exec[i]` | an engine execution: state, attempt, accounts; per account the stages done (`ran`), posted (`sent`) and how it ended (`fate`); `push` is a run-level status push still to be delivered; `known` says a committed transaction of the application recorded it |
| `udr[u]` | status and claiming attempt of a usage record |
| `bill[b]` | the usage records the account's trial bill covers |
| `period` | the accounting period the run posts into |
| `txn` | a trigger or rerun transaction whose engine call has gone out and which has not committed |

### Actions

Every handler takes `findByIdForUpdate` on the run first, so a handler is one action, the counters
and audit rows it writes included in that step and abstracted. `Trigger`, `Cancel`, `Rerun`,
`Reject`, `Approve`, `Reconcile`, `ClosePeriod` are the operators'; `HandleStageSignal` and
`HandleStatusPush` are the callbacks, called by the engine's `PostSignal`, `PostFailed`,
`Redeliver` and `StatusPush`. `Collect`, `Aggregate`, `Verify`, `OtherStage` are the stages of the
flow: their database work happens in one step and the callback in another. `ClosePeriod` takes no
lock on the run: it looks at the runs and closes in two statements, which are two steps (the period
is `closing` in between) under the fault `late_close` and one without it.

`Trigger` and `Rerun` as single actions are the case in which the engine starts work only after
the commit. `OpenTrigger`/`OpenRerun` and `CommitTrigger`/`CommitRerun`/`RollBack` split the
transaction at the engine call. While it is open no handler gets the run's lock, and neither does
aggregation, whose new bill has a foreign key to the run.

The constant `Faults` selects what the environment does: `raise`, `crash`, `loss`, `delay` (of a
callback already sent, so also duplication), `late_push` (an operator acts while an old
execution's push is in flight), `zombie` (cancel's kill fails or takes effect late), `early` (the
engine starts before the commit), `rollback`, `late_close` (a period close is slow between its look
and its write). Without `late_push` and `zombie` an operator starts
an execution only when those he knows of have ended and delivered their push; nothing in the code
enforces that, which is what the violation runs are about.

### Abstractions

- A bill is the set of records its lines cover; prices, recurring lines and totals are left out.
  Verification sees lines that no claimed record backs and not a missing line, like the code.
- The flow works through the accounts with a ForEach; the model interleaves them freely, which
  includes every order the engine may choose.
- Approval checks on data that is not modelled (GL mappings, negative totals) can only refuse, and
  `Approve` need not happen.
- Stage rows of superseded attempts are dropped. That is sound because every reader joins on the
  current attempt and, by `AttemptFresh`, a superseded number never becomes current again.
- The SKIPPED and INFRA outcomes are sent by no flow in the repository and are left out.

## Posting and distribution

`Posting` is `postRun` as its steps are seen from other workers. The transaction of one account
holds the row lock of its bill from the first read to the commit and is one step; the list of
accounts, the park after a roll-back, rendering, the upload, the row that records it and the
completion of the run are steps of their own. A `worker` is a call under way: `pc` is the next
step, `queue` the list it read, `sum` the checksum it is about to record. `Mishaps` says what may
fail; `Die` stops a worker anywhere, and resuming is a new call. Who rendered a document stands for
its bytes, because two renderings of one invoice differ.

`Distribution` extends it. `bill_run.status` is two variables, because posting's worker goes on
with `HandOver` while the run is already in its next status: `phase` up to INVOICED and
`delivery.status` from DISTRIBUTING on. The handlers lock the run and are one action each; `flow[i]`
is an engine execution, with the pairs it was given, uploaded (`delivered`, `failed`) and told the
application about (`told`); `log` is `bill_run_distribution`; `sink` is what is really at the
targets, which no handler reads. `Derived` is `recomputeDistributionStatus` with the counts the
SQL makes. `Invoicing` is the abstract specification of posting and `Books` in `DistributionProps`
the refinement mapping.

## Rating

| Variable | Code |
| --- | --- |
| `landing`, `archive` | the raw files by name, as content or `Absent`; `dropped`, a history variable, is what was last delivered under a name |
| `pending` | names the landing trigger has yet to start an execution for |
| `batch[b]` | the `udr_batch` row: status, file, checksum of the claim, content parsed (the manifest), archive stamp |
| `rated[b][r]` | the status of the `udr_rated` row a batch loaded for a record |
| `job` | the execution under way, of which the flow allows one, and its next step |

`ClaimBatch`, `Parse` and `RefuseFile` are `prp.py`; `Probe`, `Guard`, `RefuseLoad`, `CommitLoad`,
`ReconImbalance` are the steps of the load in `rl.py`; `CopyToArchive`, `Unlink`, `StampArchived`
(or `AlreadyArchived`) what follows its commit. `Stop` may come at any of them, `RestartLoad` starts
`rl.py` again with the manifest it had, `ResolveStranded` is the five-minute reconcile, which runs
beside all this, and `CollectUsage`, `ReleaseUsage` and `ApproveUsage` are what bill runs do to the
rows. The load is two steps because the collision check reads what a bill run may change before the
supersede writes it; what closes that gap is the trigger `rating_status_guard` (`NoneInFlight`), and
what closes the gap between keys is the unique index on live rows (`SlotsFree`). A content stands
for the bytes of a file, its checksum and the rows that survive parsing and rating. Runs of a key
are numbered in the order of their claims, so a batch's number stands for both. A batch that failed
and one whose file was refused keep their claims: a later delivery of the same bytes is discarded
(`Redelivered`), which the repository lists as an open point (ratemgmt-progress-tracker).

`Lapses` names two things an operator may do that nothing in the code stops and that break what the
module promises. TLC finds both when `posting.cfg` allows them; as it stands, it excludes them, and so do the
theorems, but for `HeldStays`, which holds all the same:

- `late_restart`: the execution of run 1 of a key is stopped after parsing; a reissue that moved a
  record to another month is loaded as run 2; then the load of run 1 is restarted. The supersede
  looks only at earlier runs and the index only at one month, so both versions are live
  (`LiveIsLatest`), although `rl.py:72` says that a double load is impossible. Under the same file
  name, the restarted run archives and deletes the correction, which was never loaded (`RawKept`).
- `overwrite`: a file is replaced under its name between parsing and archiving. The archiver does
  not compare it with what was parsed, so what is archived and deleted was never loaded (`RawKept`),
  although Inv. 9 has a raw file archived only after its load commits.

## Rate cards

`card[v]` is the `ratecard_version` row: status, number, `superseded_by_version_id`. `upkeep[m]` is
a manager's transaction: its operation, its next statement, the rows it found, was returned and
compared with. A statement reads what is committed; `Locked` are the rows a transaction holds; its
writes show in the step that commits, `Flip` or `InsertVersion`, which the unique indexes may refuse
(`AloneInForce`, `Insertable`). `SeekActive` and `HoldActive` are one statement, `findActiveForUpdate`:
it finds the row, waits for it, and returns nothing if it is no longer ACTIVE by then. The service
then goes on as for a first activation, with a difference against a version it has not locked; that
it never commits is due to the index alone, which `ActivationTells` shows. `RollBack` stands for
every refusal and failure after the first lock.

## Ledger

Every operation is a READ COMMITTED transaction and two steps, `Begin` (its reads and checks) and
`Commit` (its writes). A document's update is a compare-and-swap on the row that was read, repeated
at the commit; a line's update waits for the row lock, which `Held` describes. `stamp` is
`reversed_by_line_id`, `legs` counts a document's transfers in the ledger. Entering a document,
submitting, approving, redating, cancelling, reversing whole or in part and refunding are actions
or cases of one, per service. The account and the period may close between the two steps. Whether a
document is above its limit is decided anew whenever it is submitted, because the limit of a reason
code can be edited (`reason-code.ts`). A refund names allocation lines of any documents
(`Refundable`), or none.

That both may happen between the steps means that a document can be posted just after its period
closed: the period is read without a lock (`post-document.ts:162`), whatever its comment says of a
close that cannot interleave (75). The properties below hold all the same.

The model shows a behaviour that is no violation of anything the repository states: two reversals
of different lines both re-read the lines before the other commits, neither sees all of them
stamped, and the document stays posted with nothing left to reverse (`reverse-line.ts:207`).

## Catalogue, Customers, Sales

Operations of the catalogue, of ordering and of the lifecycle lock the rows they test and are one
step each, but for edits of a specification: they read the version unlocked, and its copy appears
later (`ReadSource`, `InsertCopy`), when it may be off sale. Closing a customer looks at the accounts before its transaction, so `Customers` follows
the form it is sent from. `Sales` composes the two with orders and subscriptions: an order checks
the customer and the version, retirement asks the inventory (`Retire`), and `Windows` and `Partial`
are the pure functions that the bill run applies to the histories.

## Templates

A version's token is the number of the write that made it. An operation reads the draft and the
layout outside its transaction, where the code does, then takes the locks of its `Plan` one by one
(rows of types shared or for update, then the kinds of versions) and finishes in one step under
them; binding and retirement, which hold a type shared while they read, have a `Judge` step before
the write. `page` is what a manager's browser shows, tokens included. `Standard` is the type of an
account that is bound to none (a null in the code).

## Runs

| Run | Question | Bounds | Result |
| --- | --- | --- | --- |
| `orderly` | Is usage ever lost, a claim ever stranded, an approval ever wrong or disturbed, with failing stages and callbacks that come late or twice? | 2 accounts, 2 operators, 2 executions, 3 stages | holds |
| `hostile` | What survives when everything goes wrong at once? | 1 account, 1 operator, 2 executions, 4 stages, 7 faults | attempt isolation and evidence hold |
| `live` | Does a run settle by itself? | 2 accounts, 2 executions, crashes | holds under fairness |
| `posting` | Usage: is one version of a delivery live, are held rows left alone and raw files kept, wherever executions stop? Rate cards: one in force, whoever races? Invoices: are bills, books, stored invoices and deliveries one, whoever posts and dies? | 3 file names of 2 keys, 2 contents, 2 batches, 2 months; 4 versions, 2 managers; 3 accounts (one with nothing to bill), 2 workers, 4 mishaps, 1 round | holds, refinement of `Invoicing` included |
| `distribution` | Does a round end by itself? | 1 account, 2 executions, all faults of the flow | holds under fairness |
| `office` | Do the ledger, the catalogue, the subscriptions, the customer and the templates keep what they owe each other? | per desk, below | holds |
| `stale_push` | `handle-status-push.ts:26`: a status not of the current execution is rejected | 1 account, 2 executions | violated |
| `zombie` | Inv. 19: no claim outlives its attempt | 1 account, 2 executions | violated |
| `early_start` | `rerun-run.ts:168`: the release is not raced by the processor | 1 account, 2 executions | violated |
| `wedge` | `bill_run_distribution.yml:193`: a run never wedges in DISTRIBUTING | 1 account, 2 executions, lost callbacks | violated under fairness, operators included |
| `double_refund` | `document-line.repository.ts:80`: no allocation line is refunded twice | 3 documents, 2 lines, 2 people | violated |
| `blind_save` | `types/billing.ts:1236`: never last-writer-wins | drafting desk | violated |

`office` checks models that hardly share anything. So as not to multiply their states a
behaviour is of one `desk` and takes only its steps (`posting` has three `end`s in the same way,
rate cards and rating before the bill run and invoices after it): three documents of two lines and
two people; three catalogue versions with a base rate and a modifier; a customer and its accounts;
one order, two clerks (one a manager), four days, three moves of its subscription; and, for
templates, three types, two managers and one account, up to five writes. The ledger has two desks:
at one nothing closes, so that no document is left as a draft for that reason; at the other account
and period may close and one of the three documents stays unused. The proofs are about all steps
together.

Why the bounds are enough. *Bill run:* two accounts give partial reruns and rejections, accounts on
different attempts, and a run that waits for one of them. Two executions give an old one and a new
one. `Exec` bounds triggers plus reruns, and is the only bound on the length of a history. One usage
record per account suffices because collection, release and approval treat an account's records
alike. `Pipeline3` has the stages that write or decide; `Pipeline4` adds a stage that only reads, so
that an account can be under way and hold nothing. *Posting:* two workers give every race on an
account's latch, park and rendering; the third account is the one that is skipped. *Rating:* a file,
a reissue under another name and a file of another key with the same records give every relation of
two deliveries; two batches are a predecessor and its successor, or two that compete for a live row;
the two contents differ in what they hold and in its month, so a correction shrinks a delivery and
moves it. *Rate cards:* two managers are every pair of operations, and one of them may do several
while the other waits; four versions give a chain of successors, roll-backs within it and a draft.
*Distribution:* two executions give a second round or an orphan of the first. *Ledger:* an
entry and two documents that take it back, whole, in part or as refunds, at the same time; a refund
of two documents; two documents, one countering the other, beside closes.
*Catalogue:* a version, its branch and a third that takes over. *Sales:* four days hold a period
with a change inside, on its first and on its last day; three moves are suspend, resume and cease.
*Templates:* two managers are every pair of operations; three types give a retirement a target and
the locks an order. Symmetry is used for safety only.

`CHECK_DEADLOCK FALSE` everywhere: a run ends, in APPROVED or COMPLETED, or when executions,
documents, moves or writes are used up.

### The six violations

They are disagreements between what the repository says and what its code does, each in a setting
named by the fault or the desk that produces it; `PROJECT.json` quotes the lines.

1. `stale_push`. The killed execution's push arrives after the re-trigger and fails the new
   execution's run. Nothing in the push or its handler names an execution.
2. `zombie`. Cancel releases and proceeds whatever the kill did. The old execution then claims
   for an abandoned attempt, and a re-trigger does not release.
3. `early_start`. The rerun's release is in the transaction that makes the engine call. An engine
   that collects before the commit finds nothing; the account ends PROCESSED with an empty bill.
4. `wedge`. An outcome lost in the first round leaves the run DISTRIBUTING with a flow that ended
   well. Rerun and force-completion want DISTRIBUTION_FAILED, and a status check only reports.
5. `double_refund`. The line is tested before the transaction, and the result of the conditional
   stamp inside it is ignored.
6. `blind_save`. A mismatch is answered "only the layout was replaced" if the last write was an
   upload, whatever was written before it; the form adopts the token and saves over settings it
   never saw.

With `late_close` among the faults `ApprovedIsPostable` fails too: a close finds the run scheduled,
the run is triggered, processed and approved, and then the close writes. Nothing in the code
prevents it, but the close must stall between two statements for that long, so `orderly` leaves the
fault out and `hostile` has it.

A trigger whose transaction rolls back after the engine has accepted leaves an execution nobody
tracks: no idempotency key is sent (`engine-client.ts:181`). That is the fault `rollback` of
`hostile` and `orphan` of `distribution`, and what holds, holds in spite of it.

### Fairness

`FairSpec` of `BillRun` has weak fairness of `Work(i, b)` for each execution and account, and of
`StatusPush(i)`; that of `Distribution` weak fairness of `Work(i)` for each execution: the engine
schedules runnable tasks and retries its callbacks, and an operator who waits for the lock gets it
since every transaction ends. Nothing is assumed of people, and no fault is obliged to happen.
`RunSettles` is conditional on `Carried`: a partial rerun of a failed run leaves the unselected
accounts PROCESSING in no execution, and then only an operator's cancel moves the run on
(`rerun-run.ts:215`). `RoundSettles` is conditional on nothing having come between a round and its
record (`Hampered`). `TendedSpec`, which only `wedge` uses, adds operators who do whatever the
user interface offers for a hanging run, so that the counterexample is not their idleness.

## Theorems

For arbitrary sets of accounts, records, people, documents, versions, orders, targets, a finite set
of executions, every pipeline that collects before it aggregates and verifies last, and, but for
`OrderlyProofs` and where a table says so, **every set of faults and mishaps**. The assumptions are
the named `ASSUME`s of the modules, which the runs evaluate. Every proof has the same shape: an inductive invariant, a lemma per action that keeps it,
and the property as a consequence.

`BillRunProofs`:

| Theorem | Property | Argument |
| --- | --- | --- |
| `TypeCorrect` | `TypeOK` | inductive by itself |
| `FourEyesTheorem` | `SeparationOfDuties` | approval establishes it; `LockInv` (an open transaction began in a status from which approval is out of reach, and the row lock keeps it there) means no commit follows an approval, so nobody drives an approved run |
| `PostableTheorem` | `ApprovedIsPostable` | likewise: a run that is APPROVED changes neither its accounts nor, since the close sees it active, its period. Assumes no `late_close`, under which the close saw it before |
| `SettledTheorem` | `ProcessedMeansSettled` | only `ComputeRunStatus` yields PROCESSED, and no handler outside PROCESSING makes an account unsettled |
| `EvidenceTheorem` | `ProcessedHasEvidence` | `PipelineInv`: a stage is posted only after it ran, and runs only after the earlier ones were posted; so verification's signal is evidence of all stages, and an execution never loses progress |
| `AttemptTheorem` | `AttemptFresh` | `AttemptInv`: the account rows remember the highest attempt of every known execution (`RowsRemember`), and an open transaction commits a number past all of them (`OpenTxnInv`); a single `AttemptFresh` is not inductive because it does not say the next number is new |

`OrderlyProofs`, for a bill run whose kills work and whose executions start after the commit
(`Orderly`: neither `zombie` nor `early` among the faults; the others may all happen):

| Theorem | Property | Argument |
| --- | --- | --- |
| `UnderbilledTheorem`, `StrandedTheorem` | `NothingUnderbilled`, `NothingStranded` | `OneEngine`: only the execution the run tracks works, and only for accounts of its attempt. `AccountRight`: the execution of an account's attempt, working or not, has left all of its usage claimed once it has collected and the bill complete once it has aggregated; where there is none, or the account was sent back, all is free. So a release frees an account as a whole, and `ProcessedHasEvidence` with `AttemptFresh` says which execution a PROCESSED account owes its state to |
| `FrozenTheorem` | `ApprovedIsFrozen` | an account is PROCESSED or failed only when its execution is `AtRest` with it, so no task of it is left that writes; an approval finds all accounts so |
| `FailedTheorem` | `FailedOnlyIfDead` | `PushesRight`: a push still to come is of the execution the run tracks, and that is dead, or the run is cancelled. Assumes no `late_push` either |

The hypotheses are needed. Added to `raise`, `crash`, `loss` and `delay`, `zombie` lets TLC violate
each of the four properties on one account and two executions, and so does `early` with `rollback`;
`late_push` violates `FailedOnlyIfDead` and none of the others. Three of these counterexamples are
the runs `zombie`, `early_start` and `stale_push`.

`PostingProofs`, for `Posting` and `Distribution` together:

| Theorem | Property | Argument |
| --- | --- | --- |
| `BooksAgreeTheorem` | `BooksAgree` | `PostingInv`: bill, ledger and account row change together, and the park tests again what a failed worker remembers |
| `StoredAuthenticTheorem` | `StoredAuthentic` | `AtHand`: what a renderer is about to record is what the container holds, which a write-once store never takes back |
| `ExactlyOnceTheorem` | `ExactlyOnce` | the refinement of `Invoicing`: a step settles one account that was not settled, closes the books when all are, or maps to a stutter |
| `DistributionTypeCorrect` | `TypeOK` | part of `DeliveryInv` |
| `DeliveredTheorem` | `CompletedMeansDelivered` | `DeliveryInv`: an outcome DELIVERED on record was delivered (`LogInv`, through `FlowInv` for a callback still to come), so a pair confirmed by its latest round is at its target. `CountDecides`: the handler only compares two numbers, and a subset of the pairs to be delivered that has as many elements is all of them. After INVOICED nothing more is posted and nothing stored is taken back |

`LedgerProofs` (`LedgerInv`: the rows, and that every transaction under way still fits them, so
that a commit does what its beginning checked unless its compare-and-swap fails):
`LedgerTypeCorrect`, `PostedOnceTheorem`, `DocumentFourEyes`, `ReversalsTheorem`,
`StampsStayTheorem`.

`SalesProofs` (`SalesInv`: a part per module, and the histories):
`SalesTypeCorrect`, `CatalogueSoundTheorem` (from `OneOnSaleTheorem`, `FamilyRootedTheorem` and
`ModifiersRatedTheorem`), `SoldAsAgreedTheorem` (from `SoldIsReleasedTheorem` and
`NegotiatedAgreedTheorem`), `RetiredBillsNothingTheorem`, `ClosedLeavesNothingOpenTheorem` (because
a form that has been cleared and is current says the accounts cannot have been opened since),
`SoldPricesStayTheorem`, `SuspensionsInLifeTheorem` and `WholePeriodsTheorem` (a history is ordered
by day and alternates legally, so that a day's billing can only change where a move falls, which is
what `Partial` looks for).

`RatingProofs`, for any names, keys, contents, records and number of batches:

| Theorem | Property | Argument |
| --- | --- | --- |
| `RatingTypeCorrect`, `LiveIsLatestTheorem` | `RatingTypeOK`, `LiveIsLatest` | `LoadInv`: rows and statuses fit, claims are in order, and the execution's batch has no later run of its key that loaded (`JobInv`), so the load that retires all earlier ones becomes the latest. Assumes no `late_restart` |
| `HeldStaysTheorem` | `HeldStays` | the trigger forbids the one step that supersedes; no assumption on lapses |
| `RawKeptTheorem` | `RawKept` | `FileInv`: what is in `landing/` is what was delivered last, and from the probe to the stamp the batch's file is what it parsed, or gone; a loaded batch stays loaded. Assumes no lapse |

`RateCardProofs` (`CardInv`: `DeskInv` says that the rows a transaction has locked are as it found
them and lockers do not overlap; so what was compared is what is demoted): `CardSoundTheorem` and
`ActivationTellsTheorem`, for any number of managers and versions. That every chain of successors
ends at the version in force is put without recursion, as "no set of superseded versions is
superseded only from within", which a roll-back keeps because every such set either holds the
version just demoted or was one before.

`TemplateProofs`, for any types, managers, accounts and number of writes (at least one account):

| Theorem | Property | Argument |
| --- | --- | --- |
| `LayoutsStayPaired` | `LayoutsPaired` | `DraftInv`: only the last version of a type may be a draft, and every settings version is right over the layouts of its type |
| `ActivatedWasShown` | `ActivatedAsShown` | a draft is known by its token, which every write that makes or changes it takes anew (`TokensPast`). So what a page shows (`PageRight`) and what an activation has read without a lock (`ActivationRight`) is still so as long as the token is the page's, which the last step compares |
| `RetiredTypesStay` | `RetiredStays` | every write asks under its lock whether the type is still open |
| `BoundTypesServe` | `BoundIsUsable` | `BoundInv`: two transactions never hold locks that conflict (`HeldApart`), so what a binding or a retirement judged under its locks (`JudgedRight`) is still true when it writes; activation, saving and discarding keep a type that has a version in use usable |
| `LocksAlwaysResolve` | `LocksResolve` | locks are taken in ascending rank (types by id, then kinds of versions), so of those who wait, the one that asks for the highest rank is blocked by somebody who is not. Assumes that the ids are those of some number of types, as a maximum is needed |

Only model-checked: `RunSettles` and `RoundSettles` (liveness under fairness is out of the prover's
reach, as are ENABLED and induction over what a recursive definition computes). Every safety
property of a passing run is a theorem.

## Not modelled

- Amounts: pricing in aggregation, taxation arithmetic, balances, and the payment status derived
  from them. What they can do to the modelled control is refuse, which is a choice in the models.
- The company profile, compliance settings and previews of the invoice templates: the profile has
  the draft protocol of `Templates` without layout and lock order, the others write nothing.
- Specifications and characteristics, and the rows of a rate card: data that validations and rating
  read.
- Run materialisation: one `INSERT ... ON CONFLICT DO NOTHING` per cycle and period.
- The arithmetic of `rp.py`, the resolution of subscribers and rate cards in `prp.py` (they can only
  refuse a file, or leave a record out), and the completeness and logger flows, which report. An
  execution for each key at the same time: the flow has one at a time.
- The reporting flows: read-only extracts.
- Users, roles, sessions, system configuration, audit log: single guarded rows; authentication is a
  library's. The actors the audit log keeps for the four-eyes check are in `BillRun`.
- Rendering, user interface, server actions and routes: formatting, validation and authorisation in
  front of the services.

## Plan

1. `BillRun` over the rows of `Rating` instead of a fixed set of records, so that a correction may
   arrive while a run is under way.
2. The profile's draft protocol beside that of the templates, and run materialisation.
