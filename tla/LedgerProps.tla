---------------------------- MODULE LedgerProps ----------------------------
(***************************************************************************)
(* What the documents owe the books.                                       *)
(***************************************************************************)
EXTENDS Ledger

Booked(d) == doc[d].state \in {"posted", "reversed"}

\* Money moves only through posted documents: the transfers of a document are
\* in the ledger exactly once if it was posted and never otherwise, however
\* many people submit, redate, cancel and approve it at once (finalizePosting's
\* compare-and-swap after the transfers).
PostedOnce == \A d \in Doc : legs[d] = IF Booked(d) THEN 1 ELSE 0

\* Nothing that was above its limit when it was submitted reaches the ledger on
\* one person's word, reversals and refunds included, however the limit is
\* edited before and after (approveDocument; acctmgmt-architecture Inv. 6).
FourEyes ==
    \A d \in Doc :
        Booked(d) /\ doc[d].large => doc[d].approver \notin {Nobody, doc[d].creator}

\* No line of a document is taken back by two reversals, waiting ones included,
\* and a line a reversal takes back is stamped with it: whole or in part, at
\* the same time or later (the re-validation and conditional stamp of
\* reverseDocument and reverseLine).
ReversedOnce ==
    \A c \in Doc :
        doc[c].state # "none" /\ doc[c].kind = "reversal" =>
            \A l \in doc[c].lines : stamp[doc[c].of][l] = c

\* A document shown as reversed has nothing left to reverse (the re-read after
\* the stamps in reverseLine).
ReversedCovered ==
    \A d \in Doc :
        doc[d].state = "reversed" => \A l \in doc[d].lines : stamp[d][l] # Nobody

\* Reversals add up from either side: every line a reversal takes back is its
\* own, and every line of a reversed document has been taken back.
ReversalsAgree == ReversedOnce /\ ReversedCovered

\* A line once taken back stays taken back by the same document, also when a
\* refund that read it earlier commits later (setReversedByLineId).
StampsStay ==
    [][\A d \in Doc, l \in Line :
          stamp[d][l] # Nobody => stamp'[d][l] = stamp[d][l]]_lvars

\* document-line.repository.ts:79-84: the stamp "guards against refunding the
\* same allocation line twice".
RefundedOnce ==
    \A c, d \in Doc :
        c # d => doc[c].refunded \cap doc[d].refunded = {}

=============================================================================
