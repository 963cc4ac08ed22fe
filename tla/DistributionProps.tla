------------------------- MODULE DistributionProps -------------------------
(***************************************************************************)
(* What posting and distribution owe the customers and the books.          *)
(***************************************************************************)
EXTENDS Distribution

-----------------------------------------------------------------------------
(* Posting, with any number of workers that fail, die and resume.          *)

\* The abstract specification of posting, over what it leaves in the ledger.
Books ==
    INSTANCE Invoicing WITH
        issued <- ledger,
        passed <- {b \in Account : account[b].status = "SKIPPED"},
        booked <- (phase = "INVOICED")

\* Every account is settled exactly once, and the run is INVOICED when and
\* only when all of them are, whichever worker gets there and wherever the
\* others died (postAccount's latch, completePosting's condition).
ExactlyOnce == Books!Spec

\* Bill, ledger and account row never disagree about what was posted, though
\* a failure is recorded outside the transaction that failed: no account that
\* has an invoice is shown as failed or waiting (the park's expectedStatus).
BooksAgree ==
    \A b \in Account :
        /\ bill[b] <=> account[b].status = "INVOICED"
        /\ bill[b] <=> ledger[b] = 1
        /\ bill[b] => ~account[b].error

\* The checksum on record is that of the bytes in the store, whoever of two
\* renderers wrote first and wherever one of them failed (getStoredInvoice
\* refuses to serve the invoice otherwise).
StoredAuthentic == \A b \in Stored : bill[b] /\ blob[b] = stored[b]

-----------------------------------------------------------------------------
(* Distribution, whatever the environment does.                            *)

\* A run that is COMPLETED, and not because somebody gave up on it, has
\* brought the register and the invoice of every posted account to every
\* mandatory target: over all rounds, late renderings, orphaned executions
\* and repeated callbacks (recomputeDistributionStatus).
CompletedMeansDelivered ==
    delivery.status = "COMPLETED" /\ ~delivery.forced =>
        /\ Posted \subseteq Stored
        /\ Mandatory \X (Posted \cup {Report}) \subseteq sink

-----------------------------------------------------------------------------
(* Liveness.                                                               *)

\* Something came between a round and its record: a callback of its execution
\* was lost or cut off by a crash, or an invoice was stored after the launch.
Hampered ==
    \/ flow[delivery.exec].lost
    \/ ~(Mandatory \X (Stored \cup {Report})
            \subseteq flow[delivery.exec].pairs \cup Attempted)

\* A round that nothing comes between ends by itself, delivered or failed.
RoundSettles ==
    delivery.status = "DISTRIBUTING" ~> (delivery.status # "DISTRIBUTING" \/ Hampered)

\* bill_run_distribution.yml: "A run therefore never wedges in DISTRIBUTING
\* even if a transport step failed."  With operators who check on it, rerun
\* what failed and abandon what cannot be delivered.
NeverWedges ==
    delivery.status = "DISTRIBUTING" ~> delivery.status # "DISTRIBUTING"

=============================================================================
