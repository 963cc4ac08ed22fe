------------------------------- MODULE Ledger -------------------------------
(***************************************************************************)
(* The documents of one financial account and what they put into the       *)
(* ledger (services/accounts): entries (payments, allocations, notes,      *)
(* deposits, write-offs, adjustments), reversals of selected lines, and    *)
(* refunds of allocation lines; submitted, approved, redated, cancelled.   *)
(*                                                                         *)
(* Every operation is one READ COMMITTED transaction.  It is two steps     *)
(* here: Begin, what it reads and checks, and Commit, where its writes     *)
(* appear at once.  An update waits for the transaction that wrote the row *)
(* and then tests its condition again: on a document that is the           *)
(* compare-and-swap at the commit, on a line the lock that Held describes. *)
(*                                                                         *)
(* Abstractions.  Limits are edited at any time, that of every reason, so  *)
(* each submission finds the amount above or below.  To compare            *)
(* last_modified is to compare rows.  Amounts are left out, and with them  *)
(* the checks of write-off and refund against a balance, which may just    *)
(* refuse.  Entries and refunds have all the line numbers there are, and   *)
(* any line may be an allocation.  Invoices are posted by Posting and      *)
(* cannot be reversed.                                                     *)
(***************************************************************************)
EXTENDS Naturals

CONSTANTS
    Doc,        \* document ids
    Line,       \* line numbers of an entry
    Person,     \* operators, each in one operation at a time
    Nobody

ASSUME LedgerAssumption == Nobody \notin Doc \cup Person

VARIABLES
    doc,        \* document rows
    stamp,      \* reversed_by_line_id: the document whose line took a line back
    legs,       \* how often a document's transfers are in pgledger
    account,    \* state of the account
    period,     \* state of the accounting period entries are first dated in
    job         \* transactions under way

lvars == <<doc, stamp, legs, account, period, job>>

-----------------------------------------------------------------------------
DocState == {"none", "draft", "pending_approval", "posted", "reversed", "cancelled"}

Document ==
    [state : DocState, kind : {"entry", "reversal", "refund"},
     of : Doc \cup {Nobody},   \* what a reversal reverses
     lines : SUBSET Line,      \* its own, a reversal's by the number they reverse
     refunded : SUBSET (Doc \X Line),   \* the allocations a refund releases
     large : BOOLEAN,   \* above the auto_post_limit when it was submitted
     early : BOOLEAN,   \* dated in the period that may be closed
     creator : Person \cup {Nobody}, approver : Person \cup {Nobody}]

NoDocument ==
    [state |-> "none", kind |-> "entry", of |-> Nobody, lines |-> {},
     refunded |-> {}, large |-> FALSE, early |-> FALSE,
     creator |-> Nobody, approver |-> Nobody]

Job ==
    [doc : Doc \cup {Nobody}, was : Document, row : Document, flip : BOOLEAN]

NoJob == [doc |-> Nobody, was |-> NoDocument, row |-> NoDocument, flip |-> FALSE]

LedgerTypeOK ==
    /\ doc \in [Doc -> Document]
    /\ stamp \in [Doc -> [Line -> Doc \cup {Nobody}]]
    /\ legs \in [Doc -> Nat]
    /\ account \in {"active", "closed"}
    /\ period \in {"open", "closed"}
    /\ job \in [Person -> Job]
    /\ \A d \in Doc :
          /\ doc[d].state # "none" => doc[d].lines # {}
          /\ doc[d].kind = "reversal" => doc[d].of # Nobody

LedgerInit ==
    /\ doc = [d \in Doc |-> NoDocument]
    /\ stamp = [d \in Doc |-> [l \in Line |-> Nobody]]
    /\ legs = [d \in Doc |-> 0]
    /\ account = "active"
    /\ period = "open"
    /\ job = [p \in Person |-> NoJob]

-----------------------------------------------------------------------------
\* guardAndLoad: neither the account nor the period of the document is closed.
Postable(row) == account = "active" /\ (row.early => period = "open")

\* submitDocument: at or below the limit it is posted, above it waits.
Submittable(row, large) == large \/ Postable(row)
Submitted(row, large) ==
    [row EXCEPT !.large = large, !.state = IF large THEN "pending_approval" ELSE "posted"]

\* A transaction of p: it will write row, if d is still as it was.
Begin(p, d, row, flip) ==
    /\ job[p] = NoJob
    /\ job' = [job EXCEPT ![p] = [doc |-> d, was |-> doc[d], row |-> row,
                                  flip |-> flip]]
    /\ UNCHANGED <<doc, stamp, legs, account, period>>

\* A number from the sequence: nobody else has it.
Fresh(d) == doc[d].state = "none" /\ \A q \in Person : job[q].doc # d

NewDocument(p, kind) ==
    [NoDocument EXCEPT !.state = "draft", !.kind = kind, !.lines = Line,
                       !.early = TRUE, !.creator = p]

-----------------------------------------------------------------------------
\* The services that enter a document and submit it in one transaction.
Enter(p, d, large) ==
    /\ Fresh(d) /\ Line # {}
    /\ LET row == NewDocument(p, "entry")
       IN  Submittable(row, large) /\ Begin(p, d, Submitted(row, large), FALSE)

\* The document a service could not post, committed as a draft.
LeaveDraft(p, d) ==
    /\ Fresh(d) /\ Line # {}
    /\ LET row == NewDocument(p, "entry")
       IN  ~Postable(row) /\ Begin(p, d, row, FALSE)

EnterOrLeave(p, d) == LeaveDraft(p, d) \/ \E large \in BOOLEAN : Enter(p, d, large)

CapturePayment(p, d) == EnterOrLeave(p, d)
AllocatePayment(p, d) == EnterOrLeave(p, d)
RaiseCreditNote(p, d) == EnterOrLeave(p, d)
RaiseDebitNote(p, d) == EnterOrLeave(p, d)

\* refundPayment without an allocation.
RefundUnapplied(p, d) == EnterOrLeave(p, d)

\* These throw, and leave nothing, where submission is refused.
EnterOrThrow(p, d) == \E large \in BOOLEAN : Enter(p, d, large)

CaptureDeposit(p, d) == EnterOrThrow(p, d)
RoundingAdjustment(p, d) == EnterOrThrow(p, d)
RefundDeposit(p, d) == EnterOrThrow(p, d)
ReverseDeposit(p, d) == EnterOrThrow(p, d)
WriteOff(p, d) == EnterOrThrow(p, d)

EntryStep(p, d) ==
    \/ CapturePayment(p, d) \/ AllocatePayment(p, d)
    \/ RaiseCreditNote(p, d) \/ RaiseDebitNote(p, d) \/ RefundUnapplied(p, d)
    \/ CaptureDeposit(p, d) \/ RefundDeposit(p, d) \/ ReverseDeposit(p, d)
    \/ WriteOff(p, d) \/ RoundingAdjustment(p, d)

\* A draft is submitted, dated as it is or as row says.
Resubmit(p, d, row) ==
    /\ doc[d].state = "draft"
    /\ \E large \in BOOLEAN :
          Submittable(row, large) /\ Begin(p, d, Submitted(row, large), FALSE)

SubmitStandalone(p, d) == Resubmit(p, d, doc[d])

\* redateAndResubmit: to a period that is open.
RedateAndResubmit(p, d) == Resubmit(p, d, [doc[d] EXCEPT !.early = FALSE])

Cancel(p, d) ==
    /\ doc[d].state = "draft"
    /\ Begin(p, d, [doc[d] EXCEPT !.state = "cancelled"], FALSE)

\* Mutant of Approvable: the approver is not compared with the creator.
ApprovableByAll(p, d) == doc[d].state = "pending_approval" /\ p \in Person

Approvable(p, d) == doc[d].state = "pending_approval" /\ p # doc[d].creator

\* The approver is recorded, and stays where the posting is refused.
Approve(p, d) ==
    /\ Approvable(p, d)
    /\ LET row == [doc[d] EXCEPT !.approver = p]
       IN  Begin(p, d, IF Postable(row) THEN [row EXCEPT !.state = "posted"] ELSE row, FALSE)

\* A line that a transaction has stamped and not yet committed.
Held(d, l) ==
    \E q \in Person : /\ job[q].row.kind = "reversal" /\ job[q].was.state = "none"
                      /\ job[q].row.of = d /\ l \in job[q].row.lines

\* Mutant of Claimable: the state of the document is taken to say it all.
ClaimableIfPosted(d, S) == S # {} /\ \A l \in S : l \in doc[d].lines /\ ~Held(d, l)

\* Mutant of Claimable: an empty selection is let through.
ClaimableIfEmpty(d, S) ==
    \A l \in S : l \in doc[d].lines /\ stamp[d][l] = Nobody /\ ~Held(d, l)

\* The selected lines are the document's and nobody has reversed them, tested
\* again by the conditional stamp.
Claimable(d, S) ==
    /\ S # {}
    /\ \A l \in S : l \in doc[d].lines /\ stamp[d][l] = Nobody /\ ~Held(d, l)

\* Mutant of Exhausts: any reversal turns the document.
ExhaustsAtOnce(d, S) == S \subseteq doc[d].lines

\* The re-read after the stamps: the own ones and those committed by now.
Exhausts(d, S) == \A l \in doc[d].lines : l \in S \/ stamp[d][l] # Nobody

\* reverseLine, and reverseDocument where S is all that is left.
Reverse(p, c, d, S, large) ==
    /\ Fresh(c) /\ doc[d].state = "posted"
    /\ Claimable(d, S)
    /\ LET row == [NewDocument(p, "reversal") EXCEPT !.of = d, !.lines = S]
       IN  /\ Submittable(row, large)
           /\ Begin(p, c, Submitted(row, large), Exhausts(d, S))

\* The lines a refund may name: those nobody has reversed, of any document but
\* a refund; the document they are of is not looked at.
Refundable ==
    {t \in Doc \X Line :
        /\ doc[t[1]].state # "none" /\ doc[t[1]].kind # "refund"
        /\ t[2] \in doc[t[1]].lines /\ stamp[t[1]][t[2]] = Nobody}

\* refundPayment: its lines are tested before the transaction and not in it;
\* refused, it stays as a draft.
Refund(p, c) ==
    /\ Fresh(c) /\ Line # {}
    /\ \E T \in SUBSET Refundable \ {{}}, large \in BOOLEAN :
          LET row == [NewDocument(p, "refund") EXCEPT !.refunded = T]
          IN  Begin(p, c, IF Submittable(row, large) THEN Submitted(row, large) ELSE row,
                    FALSE)

-----------------------------------------------------------------------------
\* Mutant of Current: the update of the document is not conditional.
CurrentOrLater(j) == doc[j.doc].state # "cancelled"

\* compareAndUpdateState finds the row as it was read.
Current(j) == doc[j.doc] = j.was

\* The lines of other documents that a document reverses or releases.
TakesBack(row) == IF row.kind = "reversal" THEN {row.of} \X row.lines ELSE row.refunded

\* setReversedByLineId: only where there is none.
StampLines(c, row) ==
    [d \in Doc |-> [l \in Line |->
        IF <<d, l>> \in TakesBack(row) /\ stamp[d][l] = Nobody THEN c ELSE stamp[d][l]]]

\* The transaction counters another document with a new one.
Counters(j) == j.was.state = "none" /\ j.row.kind # "entry"

\* A refund's stamps wait for the lines a reversal holds.
Waits(j) ==
    /\ Counters(j) /\ j.row.kind = "refund"
    /\ \E t \in j.row.refunded : Held(t[1], t[2])

Commit(p) ==
    LET j == job[p]
    IN  /\ j # NoJob
        /\ Current(j) /\ ~Waits(j)
        /\ doc' = [d \in Doc |->
                      IF d = j.doc THEN j.row
                      ELSE IF j.flip /\ d = j.row.of
                           THEN [doc[d] EXCEPT !.state = "reversed"] ELSE doc[d]]
        /\ legs' = IF j.row.state = "posted" THEN [legs EXCEPT ![j.doc] = @ + 1] ELSE legs
        /\ stamp' = IF Counters(j) THEN StampLines(j.doc, j.row) ELSE stamp
        /\ job' = [job EXCEPT ![p] = NoJob]
        /\ UNCHANGED <<account, period>>

\* A conflict, or any other failure: nothing remains.
RollBack(p) ==
    /\ job[p] # NoJob
    /\ job' = [job EXCEPT ![p] = NoJob]
    /\ UNCHANGED <<doc, stamp, legs, account, period>>

\* Closing looks at balances and runs, and takes no lock a posting waits for.
CloseAccount ==
    /\ account = "active" /\ account' = "closed"
    /\ UNCHANGED <<doc, stamp, legs, period, job>>

ClosePeriod ==
    /\ period = "open" /\ period' = "closed"
    /\ UNCHANGED <<doc, stamp, legs, account, job>>

-----------------------------------------------------------------------------
LedgerStep(p) ==
    \/ Commit(p) \/ RollBack(p)
    \/ \E d \in Doc :
          \/ EntryStep(p, d) \/ SubmitStandalone(p, d) \/ RedateAndResubmit(p, d)
          \/ Cancel(p, d) \/ Approve(p, d)
          \/ Refund(p, d)
          \/ \E c \in Doc, S \in SUBSET Line, large \in BOOLEAN : Reverse(p, c, d, S, large)

LedgerNext == CloseAccount \/ ClosePeriod \/ \E p \in Person : LedgerStep(p)

LedgerSpec == LedgerInit /\ [][LedgerNext]_lvars

=============================================================================
