--------------------------- MODULE LedgerProofs ---------------------------
(***************************************************************************)
(* The ledger's documents keep what LedgerProps asks of them, for any      *)
(* number of documents, lines and people.                                  *)
(*                                                                         *)
(* The properties speak of documents; the strengthening JobsFit speaks of  *)
(* the transactions that are still to commit: what they read of the rows   *)
(* they do not lock stays true until they do.                              *)
(***************************************************************************)
EXTENDS LedgerProps, TLAPS

\* What never changes of a document once it exists.
SameEntry(r, s) ==
    /\ r.kind = s.kind /\ r.of = s.of /\ r.lines = s.lines
    /\ r.refunded = s.refunded /\ r.creator = s.creator

Reversing(j) == j.was.state = "none" /\ j.row.kind = "reversal"

\* The new document of a transaction is its own.
OwnNumber(p, j) ==
    j.was.state = "none" =>
        doc[j.doc].state = "none" /\ \A q \in Person \ {p} : job[q].doc # j.doc

\* The document a transaction changes has not changed but in what Current tests.
OwnRow(j) ==
    j.was.state # "none" =>
        doc[j.doc].state # "none" /\ SameEntry(doc[j.doc], j.row) /\ ~j.flip

\* The lines a reversal holds are free, and nobody else holds them.
OwnLines(p, j) ==
    Reversing(j) =>
        /\ j.row.of \in Doc /\ Booked(j.row.of)
        /\ \A l \in j.row.lines : stamp[j.row.of][l] = Nobody
        /\ \A q \in Person \ {p} :
              Reversing(job[q]) /\ job[q].row.of = j.row.of
                  => job[q].row.lines \cap j.row.lines = {}

FlipsCovered(j) ==
    j.flip => /\ Reversing(j)
              /\ \A l \in doc[j.row.of].lines :
                    l \in j.row.lines \/ stamp[j.row.of][l] # Nobody

RowFits(j) ==
    /\ j.doc \in Doc /\ j.row.lines # {}
    /\ j.row.kind = "reversal" => j.row.of # Nobody
    /\ j.was.state \in {"none", "draft", "pending_approval"}
    /\ j.row.state \in {"draft", "pending_approval", "posted", "cancelled"}
    /\ j.row.state = "posted" /\ j.row.large =>
          j.row.approver \notin {Nobody, j.row.creator}

JobFits(p, j) ==
    RowFits(j) /\ OwnNumber(p, j) /\ OwnRow(j) /\ OwnLines(p, j) /\ FlipsCovered(j)

JobsFit == \A p \in Person : job[p] # NoJob => JobFits(p, job[p])

LedgerInv ==
    /\ LedgerTypeOK /\ JobsFit
    /\ PostedOnce /\ FourEyes /\ ReversedOnce /\ ReversedCovered


-----------------------------------------------------------------------------
LEMMA InitInv == LedgerInit => LedgerInv
  BY LedgerAssumption
     DEF LedgerInit, LedgerInv, LedgerTypeOK, JobsFit, PostedOnce, FourEyes, ReversedOnce,
         ReversedCovered, Booked, NoDocument, NoJob, Document, Job, DocState

LEMMA RowComplete ==
  ASSUME LedgerInv, NEW d \in Doc
  PROVE  /\ doc[d] \in Document
         /\ doc[d].state # "none" => doc[d].lines # {}
         /\ doc[d].kind = "reversal" => doc[d].of # Nobody
  BY DEF LedgerInv, LedgerTypeOK

\* A transaction that fits and begins disturbs no other.
LEMMA BeginKeeps ==
  ASSUME LedgerInv, NEW p \in Person, NEW d \in Doc, NEW row \in Document,
         NEW flip \in BOOLEAN, Begin(p, d, row, flip),
         JobFits(p, [doc |-> d, was |-> doc[d], row |-> row, flip |-> flip])
  PROVE  LedgerInv'
<1> DEFINE new == [doc |-> d, was |-> doc[d], row |-> row, flip |-> flip]
<1>1. /\ job' = [job EXCEPT ![p] = new] /\ job[p] = NoJob
      /\ UNCHANGED <<doc, stamp, legs, account, period>>
  BY DEF Begin
<1>2. new \in Job
  BY DEF LedgerInv, LedgerTypeOK, Job, Document
<1>3. LedgerTypeOK'
  BY <1>1, <1>2 DEF LedgerInv, LedgerTypeOK
<1>4. JobsFit'
  <2> SUFFICES ASSUME NEW q \in Person, job'[q] # NoJob
               PROVE  JobFits(q, job[q])'
    BY DEF JobsFit
  <2>1. job'[p] = new /\ \A r \in Person \ {p} : job'[r] = job[r]
    BY <1>1 DEF LedgerInv, LedgerTypeOK
  <2>2. ~Reversing(job[p])
    BY <1>1 DEF NoJob, NoDocument, Reversing
  <2>3. CASE q = p
    BY <1>1, <2>1, <2>3
       DEF JobFits, RowFits, OwnNumber, OwnRow, OwnLines, FlipsCovered, Reversing, Booked
  <2>4. CASE q # p
    <3>1. job'[q] = job[q] /\ JobFits(q, job[q])
      BY <2>1, <2>4 DEF LedgerInv, JobsFit
    <3>2. RowFits(job[q])' /\ OwnRow(job[q])' /\ FlipsCovered(job[q])'
      BY <1>1, <3>1 DEF JobFits, RowFits, OwnRow, FlipsCovered, Reversing
    <3>3. OwnNumber(q, job[q])'
      <4>1. job[q].was.state = "none" => d # job[q].doc
        BY <2>4, <3>1 DEF JobFits, OwnNumber, OwnRow
      <4> QED BY <1>1, <2>1, <2>4, <3>1, <4>1 DEF JobFits, OwnNumber
    <3>4. OwnLines(q, job[q])'
      <4>1. Reversing(job[q]) /\ Reversing(new) /\ new.row.of = job[q].row.of
              => new.row.lines \cap job[q].row.lines = {}
        BY <2>4, <3>1 DEF JobFits, OwnLines
      <4> QED BY <1>1, <2>1, <2>4, <3>1, <4>1 DEF JobFits, OwnLines, Reversing, Booked
    <3> QED BY <3>2, <3>3, <3>4 DEF JobFits
  <2> QED BY <2>3, <2>4
<1>5. (PostedOnce /\ FourEyes /\ ReversedOnce /\ ReversedCovered)'
  BY <1>1 DEF LedgerInv, PostedOnce, FourEyes, ReversedOnce, ReversedCovered, Booked
<1> QED BY <1>3, <1>4, <1>5 DEF LedgerInv

-----------------------------------------------------------------------------
\* A new document, posted on its creator's word only below the limit.
LEMMA NewRowFits ==
  ASSUME LedgerInv, NEW p \in Person, NEW c \in Doc, Fresh(c), Line # {},
         NEW draft \in Document, draft.state = "draft", draft.lines # {},
         draft.kind = "reversal" => draft.of # Nobody,
         NEW large \in BOOLEAN,
         NEW row \in {draft, Submitted(draft, large)}, draft.large => large,
         NEW flip \in BOOLEAN
  PROVE  LET new == [doc |-> c, was |-> doc[c], row |-> row, flip |-> flip]
         IN  /\ row \in Document /\ row.kind = draft.kind
             /\ row.of = draft.of /\ row.lines = draft.lines
             /\ RowFits(new) /\ OwnNumber(p, new) /\ OwnRow(new)
<1>1. /\ row \in Document /\ row.kind = draft.kind
      /\ row.of = draft.of /\ row.lines = draft.lines
      /\ row.state \in {"draft", "pending_approval", "posted"}
      /\ row.state = "posted" => ~row.large
  BY DEF Submitted, Document, DocState
<1>2. doc[c].state = "none" /\ \A q \in Person : job[q].doc # c
  BY DEF Fresh
<1> QED BY <1>1, <1>2 DEF RowFits, OwnNumber, OwnRow

LEMMA NewDraft ==
  ASSUME NEW p \in Person, NEW kind \in {"entry", "reversal", "refund"}
  PROVE  LET new == NewDocument(p, kind)
         IN  /\ new \in Document /\ new.state = "draft" /\ new.kind = kind
             /\ new.lines = Line /\ new.of = Nobody /\ ~new.large
BY DEF NewDocument, NoDocument, Document, DocState

\* Every service enters a document or leaves a draft.
LEMMA EntrySteps ==
  ASSUME NEW p, NEW d, EntryStep(p, d)
  PROVE  LeaveDraft(p, d) \/ \E large \in BOOLEAN : Enter(p, d, large)
BY DEF EntryStep, EnterOrLeave, CapturePayment, AllocatePayment, RaiseCreditNote,
       RaiseDebitNote, RefundUnapplied, EnterOrThrow, CaptureDeposit, RefundDeposit, ReverseDeposit, WriteOff,
       RoundingAdjustment

LEMMA EntryKeeps ==
  ASSUME LedgerInv, NEW p \in Person, NEW d \in Doc, EntryStep(p, d)
  PROVE  LedgerInv'
<1>. LeaveDraft(p, d) \/ \E large \in BOOLEAN : Enter(p, d, large)
  BY EntrySteps
<1> DEFINE draft == NewDocument(p, "entry")
<1>0. PICK large \in BOOLEAN :
         \E row \in {draft, Submitted(draft, large)} :
            Fresh(d) /\ Line # {} /\ Begin(p, d, row, FALSE)
  BY DEF Enter, LeaveDraft
<1>1. PICK row \in {draft, Submitted(draft, large)} :
         Fresh(d) /\ Line # {} /\ Begin(p, d, row, FALSE)
  BY <1>0
<1> DEFINE flip == FALSE
           new == [doc |-> d, was |-> doc[d], row |-> row, flip |-> flip]
<1>2. /\ row \in Document /\ row.kind = "entry"
      /\ RowFits(new) /\ OwnNumber(p, new) /\ OwnRow(new)
  <2>1. /\ draft \in Document /\ draft.state = "draft" /\ draft.kind = "entry"
        /\ draft.lines # {} /\ ~draft.large /\ flip \in BOOLEAN
    BY <1>1, NewDraft
  <2> HIDE DEF flip, draft
  <2> QED BY <1>1, <2>1, NewRowFits
<1>3. OwnLines(p, new) /\ FlipsCovered(new)
  BY <1>2 DEF OwnLines, FlipsCovered, Reversing
<1> QED BY <1>1, <1>2, <1>3, BeginKeeps DEF JobFits

\* submitDocument, redateAndResubmit, cancelDocument and approveDocument.
LEMMA ChangeKeeps ==
  ASSUME LedgerInv, NEW p \in Person, NEW d \in Doc,
         \/ SubmitStandalone(p, d) \/ RedateAndResubmit(p, d)
         \/ Cancel(p, d) \/ Approve(p, d)
  PROVE  LedgerInv'
<1>1. PICK row \in Document :
         /\ Begin(p, d, row, FALSE)
         /\ doc[d].state \in {"draft", "pending_approval"} /\ SameEntry(doc[d], row)
         /\ row.state \in {"pending_approval", "posted", "cancelled"}
         /\ row.state = "posted" /\ row.large => row.approver \notin {Nobody, row.creator}
  <2>1. doc[d] \in Document
    BY DEF LedgerInv, LedgerTypeOK
  <2>2. CASE SubmitStandalone(p, d) \/ RedateAndResubmit(p, d)
    <3>1. PICK dated \in {doc[d], [doc[d] EXCEPT !.early = FALSE]} :
                 Resubmit(p, d, dated)
      BY <2>2 DEF SubmitStandalone, RedateAndResubmit
    <3>2. dated \in Document /\ SameEntry(doc[d], dated)
      BY <2>1 DEF SameEntry, Document, DocState
    <3>a. PICK large \in BOOLEAN : Begin(p, d, Submitted(dated, large), FALSE)
      BY <3>1 DEF Resubmit
    <3> DEFINE row == Submitted(dated, large)
    <3>3. /\ row \in Document /\ SameEntry(doc[d], row)
          /\ row.state \in {"pending_approval", "posted"}
          /\ row.state = "posted" => ~row.large
      BY <3>2 DEF Submitted, SameEntry, Document, DocState
    <3> QED BY <3>1, <3>a, <3>3 DEF Resubmit
  <2>3. CASE Cancel(p, d)
    <3> DEFINE row == [doc[d] EXCEPT !.state = "cancelled"]
    <3>1. row \in Document /\ SameEntry(doc[d], row) /\ row.state = "cancelled"
      BY <2>1 DEF SameEntry, Document, DocState
    <3> QED BY <2>3, <3>1 DEF Cancel
  <2>4. CASE Approve(p, d)
    <3> DEFINE seen == [doc[d] EXCEPT !.approver = p]
               row == IF Postable(seen) THEN [seen EXCEPT !.state = "posted"] ELSE seen
    <3>1. /\ row \in Document /\ SameEntry(doc[d], row)
          /\ row.state \in {doc[d].state, "posted"}
          /\ row.approver = p /\ row.creator = doc[d].creator
      BY <2>1 DEF SameEntry, Document, DocState
    <3>2. p # Nobody /\ p # doc[d].creator /\ doc[d].state = "pending_approval"
      BY <2>4, LedgerAssumption DEF Approve, Approvable
    <3> QED BY <2>4, <3>1, <3>2 DEF Approve
  <2> QED BY <2>2, <2>3, <2>4
<1> DEFINE new == [doc |-> d, was |-> doc[d], row |-> row, flip |-> FALSE]
<1>2. RowFits(new)
  <2>1. doc[d].lines # {} /\ (doc[d].kind = "reversal" => doc[d].of # Nobody)
    BY <1>1, RowComplete
  <2> QED BY <1>1, <2>1 DEF RowFits, SameEntry
<1>3. OwnNumber(p, new) /\ OwnRow(new) /\ OwnLines(p, new) /\ FlipsCovered(new)
  BY <1>1 DEF OwnNumber, OwnRow, OwnLines, FlipsCovered, Reversing
<1> QED BY <1>1, <1>2, <1>3, BeginKeeps DEF JobFits

LEMMA ReverseKeeps ==
  ASSUME LedgerInv, NEW p \in Person, NEW c \in Doc, NEW d \in Doc,
         NEW S \in SUBSET Line, NEW large \in BOOLEAN, Reverse(p, c, d, S, large)
  PROVE  LedgerInv'
<1> DEFINE draft == [NewDocument(p, "reversal") EXCEPT !.of = d, !.lines = S]
           row == Submitted(draft, large)
           flip == Exhausts(d, S)
           new == [doc |-> c, was |-> doc[c], row |-> row, flip |-> flip]
<1>1. Fresh(c) /\ doc[d].state = "posted" /\ Claimable(d, S) /\ Begin(p, c, row, flip)
  BY DEF Reverse
<1>2. flip \in BOOLEAN /\ S # {}
  BY <1>1 DEF Exhausts, Claimable
<1>3. /\ row \in Document /\ row.kind = "reversal" /\ row.of = d /\ row.lines = S
      /\ RowFits(new) /\ OwnNumber(p, new) /\ OwnRow(new)
  <2>1. /\ draft \in Document /\ draft.state = "draft" /\ draft.kind = "reversal"
        /\ draft.lines = S /\ draft.of = d /\ d # Nobody /\ ~draft.large
    <3>1. /\ NewDocument(p, "reversal") \in Document /\ ~NewDocument(p, "reversal").large
          /\ NewDocument(p, "reversal").state = "draft"
          /\ NewDocument(p, "reversal").kind = "reversal"
      BY NewDraft
    <3> QED BY <3>1, LedgerAssumption DEF Document
  <2>2. Line # {}
    BY <1>2
  <2> HIDE DEF flip, draft
  <2> QED BY <1>1, <1>2, <2>1, <2>2, NewRowFits
<1>4. OwnLines(p, new)
  <2> SUFFICES /\ Booked(d)
               /\ \A l \in S : stamp[d][l] = Nobody
               /\ \A q \in Person \ {p} :
                     Reversing(job[q]) /\ job[q].row.of = d => job[q].row.lines \cap S = {}
    BY <1>3 DEF OwnLines
  <2> QED BY <1>1 DEF Booked, Claimable, Held, Reversing
<1>5. FlipsCovered(new)
  <2>1. doc[c].state = "none"
    BY <1>1 DEF Fresh
  <2> QED BY <1>3, <2>1 DEF FlipsCovered, Reversing, Exhausts
<1>6. JobFits(p, new)
  BY <1>3, <1>4, <1>5 DEF JobFits
<1> HIDE DEF row, flip
<1> QED BY <1>1, <1>2, <1>3, <1>6, BeginKeeps

LEMMA RefundKeeps ==
  ASSUME LedgerInv, NEW p \in Person, NEW c \in Doc, Refund(p, c)
  PROVE  LedgerInv'
<1>1. PICK T \in SUBSET Refundable, large \in BOOLEAN :
         LET draft == [NewDocument(p, "refund") EXCEPT !.refunded = T]
         IN  /\ Fresh(c) /\ Line # {}
             /\ \E row \in {draft, Submitted(draft, large)} : Begin(p, c, row, FALSE)
  BY DEF Refund
<1> DEFINE draft == [NewDocument(p, "refund") EXCEPT !.refunded = T]
<1>a. PICK row \in {draft, Submitted(draft, large)} : Begin(p, c, row, FALSE)
  BY <1>1
<1> DEFINE flip == FALSE
           new == [doc |-> c, was |-> doc[c], row |-> row, flip |-> flip]
<1>2. /\ row \in Document /\ row.kind = "refund"
      /\ RowFits(new) /\ OwnNumber(p, new) /\ OwnRow(new)
  <2>1. /\ draft \in Document /\ draft.state = "draft" /\ draft.kind = "refund"
        /\ draft.lines # {} /\ ~draft.large /\ flip \in BOOLEAN
    <3>1. /\ NewDocument(p, "refund") \in Document /\ ~NewDocument(p, "refund").large
          /\ NewDocument(p, "refund").state = "draft" /\ NewDocument(p, "refund").lines = Line
          /\ NewDocument(p, "refund").kind = "refund"
      BY NewDraft
    <3>2. T \subseteq Doc \X Line
      BY DEF Refundable
    <3> QED BY <1>1, <3>1, <3>2 DEF Document
  <2> HIDE DEF flip, draft
  <2> QED BY <1>1, <1>a, <2>1, NewRowFits
<1>3. OwnLines(p, new) /\ FlipsCovered(new)
  BY <1>2 DEF OwnLines, FlipsCovered, Reversing
<1>4. JobFits(p, new)
  BY <1>2, <1>3 DEF JobFits
<1>5. Begin(p, c, row, flip) /\ flip \in BOOLEAN
  BY <1>a
<1> HIDE DEF flip, draft
<1> QED BY <1>2, <1>4, <1>5, BeginKeeps

-----------------------------------------------------------------------------
\* Whatever a commit adds, the documents there were keep what they are.
LEMMA CommitKeepsEntries ==
  ASSUME LedgerInv, NEW p \in Person, Commit(p), NEW d \in Doc
  PROVE  /\ d # job[p].doc =>
               /\ SameEntry(doc[d], doc'[d]) /\ doc'[d].approver = doc[d].approver
               /\ doc'[d].large = doc[d].large
               /\ doc'[d].state = "none" <=> doc[d].state = "none"
               /\ Booked(d)' <=> Booked(d)
               /\ doc'[d].state = "reversed" <=>
                     doc[d].state = "reversed" \/ (job[p].flip /\ d = job[p].row.of)
         /\ d = job[p].doc => doc'[d] = job[p].row /\ ~Booked(d)
         /\ doc[d].state # "none" =>
               /\ SameEntry(doc[d], doc'[d]) /\ doc'[d].state # "none"
               /\ Booked(d) => Booked(d)'
         /\ doc'[d] \in Document
<1> DEFINE j == job[p]
<1>1. /\ JobFits(p, j) /\ j \in Job /\ doc[d] \in Document
      /\ doc' = [e \in Doc |-> IF e = j.doc THEN j.row
                               ELSE IF j.flip /\ e = j.row.of
                               THEN [doc[e] EXCEPT !.state = "reversed"] ELSE doc[e]]
      /\ doc[j.doc] = j.was
  BY DEF Commit, Current, LedgerInv, LedgerTypeOK, JobsFit
<1> HIDE DEF j
<1>2. j.flip => Booked(j.row.of)
  BY <1>1 DEF JobFits, FlipsCovered, OwnLines
<1>3. /\ j.row \in Document /\ j.flip \in BOOLEAN
      /\ j.row.state \in {"draft", "pending_approval", "posted", "cancelled"}
      /\ j.was.state \in {"none", "draft", "pending_approval"}
  BY <1>1 DEF JobFits, RowFits, Job
<1>4. CASE d = j.doc
  <2>1. doc'[d] = j.row /\ ~Booked(d)
    BY <1>1, <1>3, <1>4 DEF Booked
  <2>2. doc[d].state # "none" => SameEntry(doc[d], doc'[d]) /\ doc'[d].state # "none"
    BY <1>1, <1>3, <1>4, <2>1 DEF JobFits, OwnRow
  <2> QED BY <1>3, <1>4, <2>1, <2>2 DEF j
<1>5. CASE d # j.doc /\ j.flip /\ d = j.row.of
  <2>1. doc'[d] = [doc[d] EXCEPT !.state = "reversed"]
    BY <1>1, <1>5
  <2>2. /\ SameEntry(doc[d], doc'[d]) /\ doc'[d].approver = doc[d].approver
        /\ doc'[d].large = doc[d].large
        /\ doc'[d].state = "reversed" /\ doc'[d] \in Document
    BY <1>1, <2>1 DEF SameEntry, Document, DocState
  <2>3. Booked(d) /\ Booked(d)' /\ doc[d].state # "none"
    BY <1>2, <1>5, <2>2 DEF Booked
  <2>4. doc'[d].state # "none"
    BY <2>2
  <2> HIDE DEF Booked, SameEntry
  <2> QED BY <1>5, <2>2, <2>3, <2>4 DEF j
<1>6. CASE d # j.doc /\ ~(j.flip /\ d = j.row.of)
  <2>1. doc'[d] = doc[d]
    BY <1>1, <1>6
  <2>2. SameEntry(doc[d], doc'[d]) /\ (Booked(d)' <=> Booked(d))
    BY <2>1 DEF SameEntry, Booked
  <2> HIDE DEF SameEntry, Booked
  <2> QED BY <1>1, <1>3, <1>6, <2>1, <2>2 DEF j
<1> QED BY <1>4, <1>5, <1>6

\* A commit stamps the lines of its reversal or refund that are free.
LEMMA CommitStamps ==
  ASSUME LedgerInv, NEW p \in Person, Commit(p), NEW d \in Doc, NEW l \in Line
  PROVE  /\ stamp' \in [Doc -> [Line -> Doc \cup {Nobody}]]
         /\ stamp[d][l] # Nobody => stamp'[d][l] = stamp[d][l]
         /\ stamp'[d][l] # stamp[d][l] =>
               Counters(job[p]) /\ <<d, l>> \in TakesBack(job[p].row)
         /\ Counters(job[p]) /\ <<d, l>> \in TakesBack(job[p].row)
               /\ stamp[d][l] = Nobody => stamp'[d][l] = job[p].doc
<1>1. /\ stamp \in [Doc -> [Line -> Doc \cup {Nobody}]] /\ job[p].doc \in Doc
      /\ stamp' = IF Counters(job[p]) THEN StampLines(job[p].doc, job[p].row) ELSE stamp
  BY DEF Commit, LedgerInv, LedgerTypeOK, JobsFit, JobFits, RowFits
<1> QED BY <1>1 DEF StampLines

\* The transactions that are left fit as before.
LEMMA CommitKeepsJobs ==
  ASSUME LedgerInv, NEW p \in Person, Commit(p)
  PROVE  JobsFit'
<1> DEFINE j == job[p]
<1>1. /\ JobFits(p, j) /\ ~Waits(j)
      /\ job' = [job EXCEPT ![p] = NoJob] /\ job \in [Person -> Job]
  BY DEF Commit, LedgerInv, LedgerTypeOK, JobsFit
<1> SUFFICES ASSUME NEW q \in Person, job'[q] # NoJob
             PROVE  JobFits(q, job[q])'
  BY DEF JobsFit
<1> DEFINE k == job[q]
<1>2. /\ q # p /\ job'[q] = k /\ JobFits(q, k) /\ k \in Job
      /\ \A r \in Person : job'[r] = job[r] \/ job'[r] = NoJob
  BY <1>1 DEF LedgerInv, JobsFit
<1>3. k.doc # j.doc \/ k.was.state # "none"
  BY <1>1, <1>2 DEF JobFits, OwnNumber, OwnRow
<1>4. RowFits(k)'
  BY <1>2 DEF JobFits, RowFits
<1>5. OwnNumber(q, k)'
  <2> SUFFICES ASSUME k.was.state = "none"
               PROVE  doc'[k.doc].state = "none" /\ \A r \in Person \ {q} : job'[r].doc # k.doc
    BY <1>2 DEF OwnNumber
  <2>1. k.doc \in Doc /\ NoJob.doc = Nobody
    BY <1>2 DEF JobFits, RowFits, NoJob
  <2> QED BY <1>2, <1>3, <2>1, CommitKeepsEntries, LedgerAssumption DEF JobFits, OwnNumber
<1>6. OwnRow(k)'
  <2>1. k.doc \in Doc
    BY <1>2 DEF JobFits, RowFits
  <2> QED BY <1>2, <2>1, CommitKeepsEntries DEF JobFits, OwnRow, SameEntry
<1>7. OwnLines(q, k)'
  <2> SUFFICES ASSUME Reversing(k)
               PROVE  /\ k.row.of \in Doc /\ Booked(k.row.of)'
                      /\ \A l \in k.row.lines : stamp'[k.row.of][l] = Nobody
                      /\ \A r \in Person \ {q} :
                            Reversing(job'[r]) /\ job'[r].row.of = k.row.of
                               => job'[r].row.lines \cap k.row.lines = {}
    BY <1>2 DEF OwnLines, Reversing
  <2>1. OwnLines(q, k) /\ k.row.of \in Doc /\ Booked(k.row.of) /\ k.row.lines \subseteq Line
    BY <1>2 DEF JobFits, OwnLines, Job, Document
  <2>2. Booked(k.row.of)'
    <3>1. ASSUME NEW d \in Doc, Booked(d) PROVE Booked(d)'
      <4>1. doc[d].state # "none"
        BY <3>1 DEF Booked
      <4> QED BY <3>1, <4>1, CommitKeepsEntries
    <3> QED BY <1>2, <2>1, <3>1 DEF Booked
  <2>3. ASSUME NEW l \in k.row.lines PROVE stamp'[k.row.of][l] = Nobody
    <3>1. stamp[k.row.of][l] = Nobody
      BY <2>1 DEF OwnLines
    <3>2. ~(Counters(j) /\ <<k.row.of, l>> \in TakesBack(j.row))
      <4>1. j.row.kind = "reversal" /\ Counters(j) => <<k.row.of, l>> \notin TakesBack(j.row)
        BY <1>1, <1>2, <2>1 DEF OwnLines, JobFits, Counters, Reversing, TakesBack
      <4>2. j.row.kind = "refund" /\ Counters(j) => <<k.row.of, l>> \notin TakesBack(j.row)
        BY <1>1 DEF Waits, Held, Reversing, TakesBack
      <4>3. j.row.kind \in {"entry", "reversal", "refund"}
        BY <1>1 DEF Job, Document
      <4> QED BY <4>1, <4>2, <4>3 DEF Counters
    <3> QED BY <2>1, <3>1, <3>2, CommitStamps
  <2>4. ~Reversing(NoJob)
    BY DEF NoJob, NoDocument, Reversing
  <2> QED BY <1>2, <2>1, <2>2, <2>3, <2>4 DEF OwnLines
<1>8. FlipsCovered(k)'
  <2> SUFFICES ASSUME k.flip
               PROVE  /\ Reversing(k)
                      /\ \A l \in doc'[k.row.of].lines :
                            l \in k.row.lines \/ stamp'[k.row.of][l] # Nobody
    BY <1>2 DEF FlipsCovered, Reversing
  <2>1. /\ Reversing(k) /\ k.row.of \in Doc /\ Booked(k.row.of)
        /\ \A l \in doc[k.row.of].lines : l \in k.row.lines \/ stamp[k.row.of][l] # Nobody
    BY <1>2 DEF JobFits, FlipsCovered, OwnLines
  <2>2. doc'[k.row.of].lines = doc[k.row.of].lines
    BY <2>1, CommitKeepsEntries DEF Booked, SameEntry
  <2>3. doc[k.row.of].lines \subseteq Line
    BY <2>1 DEF LedgerInv, LedgerTypeOK, Document
  <2>4. ASSUME NEW l \in doc'[k.row.of].lines
        PROVE  l \in k.row.lines \/ stamp'[k.row.of][l] # Nobody
    <3>1. l \in Line /\ l \in doc[k.row.of].lines
      BY <2>2, <2>3, <2>4
    <3>2. CASE stamp[k.row.of][l] = Nobody
      BY <2>1, <3>1, <3>2
    <3>3. CASE stamp[k.row.of][l] # Nobody
      <4>1. PICK d \in Doc : d = k.row.of
        BY <2>1
      <4>2. stamp[d][l] # Nobody
        BY <3>3, <4>1
      <4>3. stamp'[d][l] = stamp[d][l]
        BY <3>1, <4>2, CommitStamps
      <4> QED BY <4>1, <4>2, <4>3
    <3> QED BY <3>2, <3>3
  <2> HIDE DEF k
  <2> QED BY <2>1, <2>4
<1> QED BY <1>2, <1>4, <1>5, <1>6, <1>7, <1>8 DEF JobFits

LEMMA CommitKeeps ==
  ASSUME LedgerInv, NEW p \in Person, Commit(p)
  PROVE  LedgerInv'
<1> DEFINE j == job[p]
<1>1. /\ JobFits(p, j) /\ j.doc \in Doc /\ job \in [Person -> Job]
      /\ legs' = IF j.row.state = "posted" THEN [legs EXCEPT ![j.doc] = @ + 1] ELSE legs
      /\ legs \in [Doc -> Nat]
  BY DEF Commit, LedgerInv, LedgerTypeOK, JobsFit, JobFits, RowFits
<1>2. LedgerTypeOK'
  <2>1. doc' \in [Doc -> Document]
    <3>1. \A d \in Doc : doc'[d] \in Document
      BY CommitKeepsEntries
    <3>2. \E f : doc' = [e \in Doc |-> f[e]]
      <4> DEFINE f == [e \in Doc |-> IF e = j.doc THEN j.row
                          ELSE IF j.flip /\ e = j.row.of
                          THEN [doc[e] EXCEPT !.state = "reversed"] ELSE doc[e]]
      <4>1. doc' = f
        BY DEF Commit
      <4> QED BY <4>1
    <3> QED BY <3>1, <3>2
  <2>2. stamp' \in [Doc -> [Line -> Doc \cup {Nobody}]]
    <3>1. stamp' = IF Counters(j) THEN StampLines(j.doc, j.row) ELSE stamp
      BY DEF Commit
    <3> QED BY <1>1, <3>1 DEF StampLines, LedgerInv, LedgerTypeOK
  <2>3. legs' \in [Doc -> Nat]
    BY <1>1
  <2>4. job' \in [Person -> Job]
    <3>1. NoJob \in Job
      BY DEF NoJob, Job, NoDocument, Document, DocState
    <3> QED BY <1>1, <3>1 DEF Commit
  <2>5. ASSUME NEW d \in Doc
        PROVE  /\ doc'[d].state # "none" => doc'[d].lines # {}
               /\ doc'[d].kind = "reversal" => doc'[d].of # Nobody
    <3>1. CASE d = j.doc
      <4>1. doc'[d] = j.row
        BY <3>1, CommitKeepsEntries
      <4> QED BY <1>1, <4>1 DEF JobFits, RowFits
    <3>2. CASE d # j.doc
      <4>1. SameEntry(doc[d], doc'[d]) /\ (doc'[d].state = "none" <=> doc[d].state = "none")
        BY <3>2, CommitKeepsEntries
      <4>2. /\ doc[d].state # "none" => doc[d].lines # {}
            /\ doc[d].kind = "reversal" => doc[d].of # Nobody
        BY RowComplete
      <4> QED BY <4>1, <4>2 DEF SameEntry
    <3> QED BY <3>1, <3>2
  <2> QED BY <2>1, <2>2, <2>3, <2>4, <2>5 DEF Commit, LedgerInv, LedgerTypeOK
<1>3. PostedOnce'
  <2> SUFFICES ASSUME NEW d \in Doc
               PROVE  legs'[d] = IF Booked(d)' THEN 1 ELSE 0
    BY DEF PostedOnce
  <2>1. CASE d = j.doc
    <3>1. doc'[d] = j.row /\ legs[d] = 0
      BY <2>1, CommitKeepsEntries DEF LedgerInv, PostedOnce
    <3> QED BY <1>1, <2>1, <3>1 DEF Booked, JobFits, RowFits
  <2>2. CASE d # j.doc
    BY <1>1, <2>2, CommitKeepsEntries DEF LedgerInv, PostedOnce
  <2> QED BY <2>1, <2>2
<1>4. FourEyes'
  <2> SUFFICES ASSUME NEW d \in Doc, Booked(d)', doc'[d].large
               PROVE  doc'[d].approver \notin {Nobody, doc'[d].creator}
    BY DEF FourEyes
  <2>1. CASE d = j.doc
    <3>1. doc'[d] = j.row
      BY <2>1, CommitKeepsEntries
    <3> QED BY <1>1, <3>1 DEF Booked, JobFits, RowFits
  <2>2. CASE d # j.doc
    BY <2>2, CommitKeepsEntries DEF LedgerInv, FourEyes, SameEntry
  <2> QED BY <2>1, <2>2
<1>5. ReversedOnce'
  <2> SUFFICES ASSUME NEW c \in Doc, doc'[c].state # "none", doc'[c].kind = "reversal",
                      NEW l \in doc'[c].lines
               PROVE  stamp'[doc'[c].of][l] = c
    BY DEF ReversedOnce
  <2>1. doc'[c] \in Document /\ doc'[c].of \in Doc /\ l \in Line
    BY <1>2 DEF LedgerTypeOK, Document
  <2>2. CASE doc[c].state # "none"
    <3>1. /\ doc[c].kind = "reversal" /\ doc[c].of = doc'[c].of /\ l \in doc[c].lines
      BY <2>2, CommitKeepsEntries DEF SameEntry
    <3>2. stamp[doc'[c].of][l] = c /\ c # Nobody
      BY <2>2, <3>1, LedgerAssumption DEF LedgerInv, ReversedOnce
    <3> QED BY <2>1, <3>2, CommitStamps
  <2>3. CASE doc[c].state = "none"
    <3>1. c = j.doc /\ doc'[c] = j.row
      BY <2>3, CommitKeepsEntries
    <3>2. Reversing(j)
      BY <1>1, <2>3, <3>1 DEF JobFits, OwnRow, Reversing
    <3>3. stamp[j.row.of][l] = Nobody /\ Counters(j)
      BY <1>1, <3>1, <3>2 DEF JobFits, OwnLines, Reversing, Counters
    <3>4. <<j.row.of, l>> \in TakesBack(j.row)
      BY <3>1, <3>2 DEF Reversing, TakesBack
    <3> QED BY <2>1, <3>1, <3>3, <3>4, CommitStamps
  <2> QED BY <2>2, <2>3
<1>6. ReversedCovered'
  <2> SUFFICES ASSUME NEW d \in Doc, doc'[d].state = "reversed", NEW l \in doc'[d].lines
               PROVE  stamp'[d][l] # Nobody
    BY DEF ReversedCovered
  <2>1. d # j.doc
    BY <1>1, CommitKeepsEntries DEF JobFits, RowFits
  <2>2. l \in doc[d].lines /\ l \in Line
    BY <1>2, <2>1, CommitKeepsEntries DEF SameEntry, LedgerTypeOK, Document
  <2>3. CASE doc[d].state = "reversed"
    BY <2>2, <2>3, CommitStamps DEF LedgerInv, ReversedCovered
  <2>4. CASE j.flip /\ d = j.row.of
    <3>1. Counters(j) /\ (<<d, l>> \in TakesBack(j.row) \/ stamp[d][l] # Nobody)
      BY <1>1, <2>2, <2>4 DEF JobFits, FlipsCovered, Reversing, Counters, TakesBack
    <3> QED BY <1>1, <2>2, <2>4, <3>1, CommitStamps, LedgerAssumption
  <2> QED BY <2>1, <2>3, <2>4, CommitKeepsEntries
<1> QED BY <1>2, <1>3, <1>4, <1>5, <1>6, CommitKeepsJobs DEF LedgerInv

LEMMA RollBackKeeps ==
  ASSUME LedgerInv, NEW p \in Person, RollBack(p)
  PROVE  LedgerInv'
<1>1. /\ job' = [job EXCEPT ![p] = NoJob] /\ UNCHANGED <<doc, stamp, legs, account, period>>
      /\ NoJob \in Job /\ job \in [Person -> Job]
  BY DEF RollBack, NoJob, Job, NoDocument, Document, DocState, LedgerInv, LedgerTypeOK
<1>2. LedgerTypeOK'
  BY <1>1 DEF LedgerInv, LedgerTypeOK
<1>3. JobsFit'
  <2> SUFFICES ASSUME NEW q \in Person, job'[q] # NoJob
               PROVE  JobFits(q, job[q])'
    BY DEF JobsFit
  <2>1. /\ job'[q] = job[q] /\ JobFits(q, job[q])
        /\ \A r \in Person : job'[r] = job[r] \/ job'[r] = NoJob
    BY <1>1 DEF LedgerInv, JobsFit
  <2>2. ~Reversing(NoJob) /\ NoJob.doc = Nobody /\ job[q].doc \in Doc
    BY <2>1 DEF NoJob, NoDocument, Reversing, JobFits, RowFits
  <2>3. OwnNumber(q, job[q])'
    BY <1>1, <2>1, <2>2, LedgerAssumption DEF JobFits, OwnNumber
  <2>4. OwnLines(q, job[q])'
    BY <1>1, <2>1, <2>2 DEF JobFits, OwnLines, Reversing, Booked
  <2>5. RowFits(job[q])' /\ OwnRow(job[q])' /\ FlipsCovered(job[q])'
    BY <1>1, <2>1 DEF JobFits, RowFits, OwnRow, FlipsCovered, Reversing
  <2> QED BY <2>3, <2>4, <2>5 DEF JobFits
<1>4. (PostedOnce /\ FourEyes /\ ReversedOnce /\ ReversedCovered)'
  BY <1>1 DEF LedgerInv, PostedOnce, FourEyes, ReversedOnce, ReversedCovered, Booked
<1> QED BY <1>2, <1>3, <1>4 DEF LedgerInv

-----------------------------------------------------------------------------
LEMMA NextInv == LedgerInv /\ [LedgerNext]_lvars => LedgerInv'
<1> SUFFICES ASSUME LedgerInv, [LedgerNext]_lvars PROVE LedgerInv'
  OBVIOUS
<1>1. CASE CloseAccount \/ ClosePeriod \/ UNCHANGED lvars
  <2>1. UNCHANGED <<doc, stamp, legs, job>> /\ account' \in {"active", "closed"}
        /\ period' \in {"open", "closed"}
    BY <1>1 DEF CloseAccount, ClosePeriod, lvars, LedgerInv, LedgerTypeOK
  <2> QED BY <2>1
          DEF LedgerInv, LedgerTypeOK, JobsFit, JobFits, RowFits, OwnNumber, OwnRow, OwnLines,
              FlipsCovered, Reversing, PostedOnce, FourEyes, ReversedOnce, ReversedCovered, Booked
<1>2. ASSUME NEW p \in Person, LedgerStep(p) PROVE LedgerInv'
  BY <1>2, CommitKeeps, RollBackKeeps, EntryKeeps, ChangeKeeps, ReverseKeeps, RefundKeeps
     DEF LedgerStep
<1> QED BY <1>1, <1>2 DEF LedgerNext

LEMMA LedgerInvariant == LedgerSpec => []LedgerInv
  BY InitInv, NextInv, PTL DEF LedgerSpec

\* The rows of documents, lines, transfers and transactions have their types.
THEOREM LedgerTypeCorrect == LedgerSpec => []LedgerTypeOK
  BY LedgerInvariant, PTL DEF LedgerInv

\* The transfers of a document are in pgledger once if it was posted and not
\* otherwise.
THEOREM PostedOnceTheorem == LedgerSpec => []PostedOnce
  BY LedgerInvariant, PTL DEF LedgerInv

\* What is above its limit is posted only with a second person's approval.
THEOREM DocumentFourEyes == LedgerSpec => []FourEyes
  BY LedgerInvariant, PTL DEF LedgerInv

\* No line is in two reversals, each is stamped with the one it is in, and a
\* document that is reversed is reversed in all of its lines.
THEOREM ReversalsTheorem == LedgerSpec => []ReversalsAgree
  BY LedgerInvariant, PTL DEF LedgerInv, ReversalsAgree

\* A stamp on a line is never taken away or overwritten.
THEOREM StampsStayTheorem == LedgerSpec => StampsStay
<1>1. ASSUME LedgerInv, LedgerNext, NEW d \in Doc, NEW l \in Line, stamp[d][l] # Nobody
      PROVE  stamp'[d][l] = stamp[d][l]
  <2>1. CASE CloseAccount \/ ClosePeriod
    BY <1>1, <2>1 DEF CloseAccount, ClosePeriod
  <2>2. ASSUME NEW p \in Person, LedgerStep(p) PROVE stamp'[d][l] = stamp[d][l]
    <3>1. CASE Commit(p)
      BY <1>1, <3>1, CommitStamps
    <3>2. CASE RollBack(p)
      BY <3>2 DEF RollBack
    <3>3. ASSUME NEW c \in Doc, NEW row, NEW flip, Begin(p, c, row, flip)
          PROVE  stamp' = stamp
      BY <3>3 DEF Begin
    <3> QED BY <2>2, <3>1, <3>2, <3>3, EntrySteps
            DEF LedgerStep, LeaveDraft, Enter, Cancel, Approve, SubmitStandalone,
                RedateAndResubmit, Resubmit, Refund, Reverse
  <2> QED BY <1>1, <2>1, <2>2 DEF LedgerNext
<1>2. LedgerInv /\ [LedgerNext]_lvars =>
        [\A d \in Doc, l \in Line :
            stamp[d][l] # Nobody => stamp'[d][l] = stamp[d][l]]_lvars
  BY <1>1
<1> QED BY <1>2, LedgerInvariant, PTL DEF LedgerSpec, StampsStay

=============================================================================
