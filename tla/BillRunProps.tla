---------------------------- MODULE BillRunProps ----------------------------
(***************************************************************************)
(* What a bill run owes the people who approve it and pay it.              *)
(***************************************************************************)
EXTENDS BillRun

-----------------------------------------------------------------------------
(* With stages that raise, executions that crash and callbacks lost, late  *)
(* or repeated, but kills that work and executions that start after the    *)
(* commit: Faults without "zombie" and "early".  (For FailedOnlyIfDead     *)
(* "late_push" as well.)                                                   *)

\* No silent under-billing.  An account that is PROCESSED, and not waiting to
\* be reprocessed, has all its usage claimed and all of it on its bill, and so
\* does every account an approved run is about to invoice: then the usage is
\* BILL_APPROVED.  No usage of any other account is consumed by an approved
\* run.  (claim in the engine, release in cancel, rerun, reject and approve;
\* known-issues 27 was the last clause failing.)
NothingUnderbilled ==
    \A b \in Ban :
        /\ acct[b].status = "PROCESSED" /\ ~acct[b].rejected =>
              /\ bill[b] = UsageOf(b)
              /\ \A u \in UsageOf(b) :
                    udr[u].status = IF run.status = "APPROVED"
                                    THEN "BILL_APPROVED" ELSE "BILL_DRAFT"
        /\ acct[b].status # "PROCESSED" /\ run.status = "APPROVED" =>
              \A u \in UsageOf(b) : udr[u].status = "RATED"

\* Inv. 19 of billmgmt-architecture.md: no claim outlives its attempt.  A
\* claimed row belongs to the account's current attempt, and neither a
\* cancelled run nor a rejected account holds any; a row left over would be
\* unclaimable by the next attempt.
NothingStranded ==
    \A u \in Usage : udr[u].status = "BILL_DRAFT" =>
        /\ run.status \notin {"SCHEDULED", "CANCELLED"}
        /\ udr[u].attempt = acct[BanOf[u]].attempt
        /\ ~acct[BanOf[u]].rejected

\* Approval is final although the engine is not under the run's lock: once a
\* run is approved no straggling task or callback changes what was approved.
ApprovedIsFrozen ==
    [][run.status = "APPROVED" => UNCHANGED <<run, acct, udr, bill>>]_vars

\* The status push is about the execution the run tracks (handle-status-push:
\* "a status that doesn't match the run's current execution is rejected"): a
\* run is PROCESSING_FAILED only when the execution it tracks is dead.
FailedOnlyIfDead ==
    run.status = "PROCESSING_FAILED" =>
        exec[run.exec].state \in {"FAILED", "KILLED"}

-----------------------------------------------------------------------------
(* Whatever the environment does: all of FaultKind.                        *)

\* A run leaves PROCESSING for PROCESSED only when every account is settled,
\* and nothing that arrives later unsettles an account under the approver.
ProcessedMeansSettled ==
    run.status = "PROCESSED" =>
        /\ Scoped # {}
        /\ \A b \in Scoped : acct[b].status \in Terminal

\* An account is PROCESSED on evidence of its own attempt: some execution of
\* that attempt has put the account through every stage.  A verification
\* signal of a superseded attempt, or one repeated after a rerun, is not enough
\* (handle-stage-signal's attempt guard, rerun's attempt bump).
ProcessedHasEvidence ==
    \A b \in Ban : acct[b].status = "PROCESSED" =>
        \E i \in Used : /\ b \in exec[i].bans
                        /\ exec[i].attempt = acct[b].attempt
                        /\ exec[i].ran[b] = Stage

\* An attempt number names one execution per account, across cancels that
\* throw the snapshot away and reruns of accounts on different attempts: the
\* latch and the stale-signal guard depend on it (Inv. 5).
AttemptFresh ==
    \A i, j \in Used :
        i # j /\ exec[i].known /\ exec[j].known /\ exec[i].attempt = exec[j].attempt
            => exec[i].bans \cap exec[j].bans = {}

\* Four eyes: nobody who triggered or reran the run at any time, in any
\* attempt, has approved it.
SeparationOfDuties ==
    run.status = "APPROVED" =>
        run.approver # None /\ run.approver \notin run.drivers

\* What is approved can be posted: an account to be invoiced is not one the
\* operators sent back, its invoice template version was captured at the start
\* of its current attempt, and the period it posts into is still open, though
\* a cancelled run lets the period close.  (For the period: Faults without
\* "late_close".)
ApprovedIsPostable ==
    run.status = "APPROVED" =>
        \A b \in Ban : acct[b].status = "PROCESSED" =>
            ~acct[b].rejected /\ acct[b].version /\ period # "closed"

-----------------------------------------------------------------------------
(* When nothing is lost: Faults = {}.                                      *)

\* Every account the run still waits for is in the execution it waits on.  A
\* partial rerun of a failed run can leave an account outside it; then only
\* an operator's cancel moves the run on.
Carried == \A b \in Scoped : acct[b].status \notin Terminal =>
                                 b \in exec[run.exec].bans

\* A run being processed settles without an operator: PROCESSED when the
\* engine gets through, PROCESSING_FAILED when it dies.
RunSettles ==
    (run.status = "PROCESSING" /\ Carried) ~> (run.status # "PROCESSING")

=============================================================================
