------------------------------ MODULE Posting ------------------------------
(***************************************************************************)
(* Posting an approved bill run (services/billing/post-run.ts): one        *)
(* transaction per account, then a render outside of it, then the run-level*)
(* check that nothing is left.  The operation may be run by several people *)
(* at once, may die anywhere, and is resumed by calling it again.          *)
(*                                                                         *)
(* The transaction of an account holds the row lock of its bill from the   *)
(* first read to the commit and publishes everything at the commit, so it  *)
(* is one step; the list of accounts, the park after a roll-back, the      *)
(* render, the store and the completion are steps of their own.            *)
(*                                                                         *)
(* Abstractions.  Why a document would not post (closed account, missing   *)
(* mapping, conflict) is one nondeterministic failure.  Invoice numbers    *)
(* are left out: a number burnt by a roll-back is a gap the code accepts.  *)
(* A template version missing at posting is excluded by approval           *)
(* (ApprovedIsPostable of BillRunProps).  The bytes of a rendering are     *)
(* known by who made it: PDFs of one invoice need not be identical.        *)
(***************************************************************************)
EXTENDS Naturals, FiniteSets

CONSTANTS
    Account,    \* accounts PROCESSED at approval
    Worthless,  \* those whose bill is zero in subtotal and total
    Worker,     \* calls of postRun and retryRenderInvoice under way
    Mishaps,    \* what may go wrong, see MishapKind
    NoOne

(***************************************************************************)
(* "post"    the document engine refuses or fails                          *)
(* "park"    the write that records a failure fails too                    *)
(* "render"  rendering or storing fails                                    *)
(* "die"     the process dies between two steps                            *)
(***************************************************************************)
MishapKind == {"post", "park", "render", "die"}

ASSUME PostingAssumption ==
    /\ IsFiniteSet(Account) /\ Worthless \subseteq Account
    /\ Mishaps \subseteq MishapKind
    /\ NoOne \notin Worker \cup Account

VARIABLES
    phase,    \* bill_run.status up to INVOICED
    account,  \* bill_run_account: status, and whether an error is recorded
    bill,     \* customer_bill: its ref_inv_document_id is set
    ledger,   \* posted INV documents, per bill
    blob,     \* the invoice container: who rendered what is stored
    stored,   \* bill_run_invoices: the checksum recorded
    worker    \* calls under way

pvars == <<phase, account, bill, ledger, blob, stored, worker>>

-----------------------------------------------------------------------------
Idle == [pc |-> "idle", op |-> "none", queue |-> {}, at |-> NoOne, sum |-> NoOne]

AccountState ==
    [status : {"PROCESSED", "INVOICED", "SKIPPED"}, error : BOOLEAN]
WorkerState ==
    [pc : {"idle", "list", "loop", "park", "put", "store", "distribute"},
     op : {"none", "post", "render"}, queue : SUBSET Account,
     at : Account \cup {NoOne}, sum : Worker \cup {NoOne}]

PostingTypeOK ==
    /\ phase \in {"APPROVED", "POSTING", "INVOICED"}
    /\ account \in [Account -> AccountState]
    /\ bill \in [Account -> BOOLEAN]
    /\ ledger \in [Account -> Nat]
    /\ blob \in [Account -> Worker \cup {NoOne}]
    /\ stored \in [Account -> Worker \cup {NoOne}]
    /\ worker \in [Worker -> WorkerState]

PostingInit ==
    /\ phase = "APPROVED"
    /\ account = [b \in Account |-> [status |-> "PROCESSED", error |-> FALSE]]
    /\ bill = [b \in Account |-> FALSE]
    /\ ledger = [b \in Account |-> 0]
    /\ blob = [b \in Account |-> NoOne]
    /\ stored = [b \in Account |-> NoOne]
    /\ worker = [w \in Worker |-> Idle]

Waiting == {b \in Account : account[b].status = "PROCESSED"}

Goto(w, pc, b) ==
    worker' = [worker EXCEPT ![w].pc = pc, ![w].at = b, ![w].sum = NoOne,
                             ![w].queue = @ \ {b}]

\* A worker is done with an account: on to the next, or out.
Continue(w) ==
    worker' = [worker EXCEPT ![w] = IF @.op = "post"
                                    THEN [@ EXCEPT !.pc = "loop", !.at = NoOne,
                                                   !.sum = NoOne]
                                    ELSE Idle]

-----------------------------------------------------------------------------
\* postRun's first transaction: APPROVED becomes POSTING once, POSTING resumes.
Begin(w) ==
    /\ worker[w].pc = "idle"
    /\ phase \in {"APPROVED", "POSTING"}
    /\ phase' = "POSTING"
    /\ worker' = [worker EXCEPT ![w] = [Idle EXCEPT !.pc = "list", !.op = "post"]]
    /\ UNCHANGED <<account, bill, ledger, blob, stored>>

\* The list of accounts to post, read outside any lock.
List(w) ==
    /\ worker[w].pc = "list"
    /\ worker' = [worker EXCEPT ![w].pc = "loop", ![w].queue = Waiting]
    /\ UNCHANGED <<phase, account, bill, ledger, blob, stored>>

\* Mutant of Unposted: the resume check is missing.
AlwaysUnposted(b) == b \in Account

\* The finalization latch, as lockBillForPosting reads it under the row lock
\* and stampPosted and the unique index on the document enforce it again.
Unposted(b) == ~bill[b]

\* Resume: the bill already carries an invoice, nothing to do.
Resume(w, b) ==
    /\ worker[w].pc = "loop" /\ b \in worker[w].queue
    /\ ~Unposted(b)
    /\ Goto(w, "loop", b)
    /\ UNCHANGED <<phase, account, bill, ledger, blob, stored>>

\* A zero bill: skipAccount, guarded on PROCESSED.  Somebody else's skip makes
\* it throw, and the account goes to the park.
Skip(w, b) ==
    /\ worker[w].pc = "loop" /\ b \in worker[w].queue
    /\ Unposted(b) /\ b \in Worthless
    /\ IF account[b].status = "PROCESSED"
       THEN /\ account' = [account EXCEPT ![b] = [status |-> "SKIPPED", error |-> TRUE]]
            /\ Goto(w, "loop", b)
       ELSE /\ Goto(w, "park", b)
            /\ UNCHANGED account
    /\ UNCHANGED <<phase, bill, ledger, blob, stored>>

\* The account's transaction commits: INV and legs, stamped bill, account.
PostAccount(w, b) ==
    /\ worker[w].pc = "loop" /\ b \in worker[w].queue
    /\ Unposted(b) /\ b \notin Worthless
    /\ ledger' = [ledger EXCEPT ![b] = @ + 1]
    /\ bill' = [bill EXCEPT ![b] = TRUE]
    /\ account' = [account EXCEPT ![b] = [status |-> "INVOICED", error |-> FALSE]]
    /\ Goto(w, "put", b)
    /\ UNCHANGED <<phase, blob, stored>>

\* The transaction rolls back, whatever the reason.
FailAccount(w, b) ==
    /\ "post" \in Mishaps
    /\ worker[w].pc = "loop" /\ b \in worker[w].queue
    /\ Goto(w, "park", b)
    /\ UNCHANGED <<phase, account, bill, ledger, blob, stored>>

\* Mutant of Parkable: the park is not guarded, and takes back an account
\* another worker has posted since the roll-back.
ParkAnyway(b) == b \in Account

\* expectedStatus of the park's update.
Parkable(b) == account[b].status = "PROCESSED"

\* The failure is recorded in a transaction of its own.
Park(w) ==
    /\ worker[w].pc = "park"
    /\ account' = [account EXCEPT ![worker[w].at] =
                      IF Parkable(worker[w].at)
                      THEN [status |-> "PROCESSED", error |-> TRUE] ELSE @]
    /\ Continue(w)
    /\ UNCHANGED <<phase, bill, ledger, blob, stored>>

LosePark(w) ==
    /\ "park" \in Mishaps
    /\ worker[w].pc = "park"
    /\ Continue(w)
    /\ UNCHANGED <<phase, account, bill, ledger, blob, stored>>

\* retryRenderInvoice up to its existence check; not gated on the run.
RetryRender(w, b) ==
    /\ worker[w].pc = "idle"
    /\ bill[b] /\ stored[b] = NoOne
    /\ worker' = [worker EXCEPT ![w] = [Idle EXCEPT !.pc = "put", !.op = "render",
                                                    !.at = b]]
    /\ UNCHANGED <<phase, account, bill, ledger, blob, stored>>

\* Mutant of Adopt: the later rendering overwrites the earlier one.
Overwrite(w, b) == [blob EXCEPT ![b] = w]

\* putInvoice is write-once: a second rendering adopts what is there.
Adopt(w, b) == [blob EXCEPT ![b] = IF @ = NoOne THEN w ELSE @]

\* Render and upload; the checksum is of what the store now holds.
Put(w) ==
    /\ worker[w].pc = "put"
    /\ blob' = Adopt(w, worker[w].at)
    /\ worker' = [worker EXCEPT ![w].pc = "store",
                                ![w].sum = Adopt(w, worker[w].at)[worker[w].at]]
    /\ UNCHANGED <<phase, account, bill, ledger, stored>>

\* The bill_run_invoices row; its unique key refuses a second one, and both
\* callers take that for done.
Store(w) ==
    /\ worker[w].pc = "store"
    /\ stored' = [stored EXCEPT ![worker[w].at] = IF @ = NoOne THEN worker[w].sum ELSE @]
    /\ Continue(w)
    /\ UNCHANGED <<phase, account, bill, ledger, blob>>

\* A failed render is logged and leaves no row.
FailRender(w) ==
    /\ "render" \in Mishaps
    /\ worker[w].pc \in {"put", "store"}
    /\ Continue(w)
    /\ UNCHANGED <<phase, account, bill, ledger, blob, stored>>

\* Mutant of NothingWaits: what this call left unposted is all that counts.
NothingQueued(w) == worker[w].queue = {}

\* completePosting's condition, read under the run's lock.
NothingWaits(w) == Waiting = {} /\ worker[w].queue = {}

\* The run-level completion at the end of postRun.
Complete(w) ==
    /\ worker[w].pc = "loop" /\ worker[w].queue = {}
    /\ IF phase = "POSTING" /\ NothingWaits(w)
       THEN /\ phase' = "INVOICED"
            /\ worker' = [worker EXCEPT ![w] = [Idle EXCEPT !.pc = "distribute",
                                                            !.op = "post"]]
       ELSE /\ worker' = [worker EXCEPT ![w] = Idle]
            /\ UNCHANGED phase
    /\ UNCHANGED <<account, bill, ledger, blob, stored>>

\* The caller of triggerDistribution returns, whatever came of it.
HandOver(w) ==
    /\ worker[w].pc = "distribute"
    /\ worker' = [worker EXCEPT ![w] = Idle]
    /\ UNCHANGED <<phase, account, bill, ledger, blob, stored>>

\* The process dies between two steps; what has been committed stays.
Die(w) ==
    /\ "die" \in Mishaps
    /\ worker[w].pc # "idle"
    /\ worker' = [worker EXCEPT ![w] = Idle]
    /\ UNCHANGED <<phase, account, bill, ledger, blob, stored>>

-----------------------------------------------------------------------------
\* What a worker does once it has started.
Proceed(w) ==
    \/ List(w) \/ Park(w) \/ Put(w) \/ Store(w) \/ Complete(w)
    \/ \E b \in Account : Resume(w, b) \/ Skip(w, b) \/ PostAccount(w, b)

PostingStep(w) ==
    \/ Begin(w) \/ Proceed(w)
    \/ LosePark(w) \/ FailRender(w) \/ Die(w)
    \/ \E b \in Account : FailAccount(w, b) \/ RetryRender(w, b)

PostingNext == \E w \in Worker : PostingStep(w) \/ HandOver(w)

PostingSpec == PostingInit /\ [][PostingNext]_pvars

=============================================================================
