------------------------------ MODULE BillRun ------------------------------
(***************************************************************************)
(* One bill run, from SCHEDULED to APPROVED: the application's handlers    *)
(* (services/billing), the two tables of claims and trial bills, and the   *)
(* workflow engine that does the billing work and reports it by HTTP.      *)
(*                                                                         *)
(* The application serialises on the bill_run row: every handler opens one *)
(* transaction with findByIdForUpdate, so a handler is one action.  The    *)
(* engine is not under that lock.  It writes usage claims and trial bills  *)
(* directly and then posts a signal; between the two, and between the      *)
(* stages of different accounts, anything may happen.                      *)
(*                                                                         *)
(* Abstractions.  A bill is the set of usage records its lines cover.      *)
(* Superseded rows of bill_run_account_stage are dropped: the latch, the   *)
(* marker and the approval check all join on the current attempt, and      *)
(* AttemptFresh says a superseded attempt number never becomes current     *)
(* again.  Counters, totals, heartbeats and audit texts are left out,      *)
(* except the actors the four-eyes check reads.  Approval checks that only *)
(* read data not modelled here (GL mappings, currencies, negative totals)  *)
(* can only refuse; Approve simply does not happen then.                   *)
(***************************************************************************)
EXTENDS Naturals, Sequences, FiniteSets

CONSTANTS
    Ban,        \* billing accounts
    Usage,      \* rated usage records of the run's period
    BanOf,      \* the account a record correlates to (product_inventory)
    Operator,   \* people who trigger, rerun and approve
    Exec,       \* engine executions; bounds triggers plus reruns
    Pipeline,   \* the flow's stages, in order
    Captures,   \* template versions trigger and rerun may capture: SUBSET BOOLEAN
    Faults,     \* what the environment may do, see FaultKind
    None

(***************************************************************************)
(* "raise"     a stage finds a HARD problem in an account's data           *)
(* "crash"     a whole execution fails                                     *)
(* "loss"      a callback (stage signal or status push) never arrives      *)
(* "delay"     a callback already sent arrives (again) at any later time   *)
(* "late_push" an operator acts while an old execution's push is in flight *)
(* "zombie"    cancel's kill fails, or takes effect late                   *)
(* "early"     the engine starts before the trigger transaction commits    *)
(* "rollback"  ... and that transaction then rolls back                    *)
(* "late_close" a period close is slow between its look and its write      *)
(***************************************************************************)
FaultKind == {"raise", "crash", "loss", "delay", "late_push", "zombie",
              "early", "rollback", "late_close"}

Stage == {Pipeline[k] : k \in DOMAIN Pipeline}

\* The stages the flow completes before it starts s.
Earlier(s) ==
    {t \in Stage : \E j, k \in DOMAIN Pipeline :
                       j < k /\ Pipeline[j] = t /\ Pipeline[k] = s}

ASSUME UsageAssumption == BanOf \in [Usage -> Ban]
ASSUME NoneAssumption == None \notin Exec \cup Operator
ASSUME ExecAssumption == IsFiniteSet(Exec)
ASSUME FaultAssumption == Faults \subseteq FaultKind /\ Captures \subseteq BOOLEAN
ASSUME PipelineAssumption ==
    /\ {"collection", "aggregation", "verification"} \subseteq Stage
    /\ "collection" \in Earlier("aggregation")
    /\ Earlier("verification") = Stage \ {"verification"}
    /\ \A s \in Stage : s \notin Earlier(s)

VARIABLES
    run,     \* the bill_run row
    acct,    \* the bill_run_account rows, with the current attempt's stage rows
    exec,    \* engine executions
    udr,     \* rating.udr_rated claim columns
    bill,    \* customer_bill lines
    period,  \* the accounting period the run posts into
    txn      \* the trigger or rerun transaction whose engine call is out

vars == <<run, acct, exec, udr, bill, period, txn>>

-----------------------------------------------------------------------------
RunStatus == {"SCHEDULED", "PROCESSING", "PROCESSED", "PROCESSING_FAILED",
              "CANCELLED", "APPROVED"}
\* "NONE": the account has no row in this run's snapshot.
AccountStatus == {"NONE", "PENDING", "PROCESSING", "PROCESSED",
                  "PROCESSING_FAILED", "EXCLUDED", "SKIPPED"}

Unscoped == [status |-> "NONE", attempt |-> 0, latch |-> {},
             rejected |-> FALSE, version |-> FALSE]
Unused == [state |-> "UNUSED", known |-> FALSE, attempt |-> 0, bans |-> {},
           ran |-> [b \in Ban |-> {}], sent |-> [b \in Ban |-> {}],
           fate |-> [b \in Ban |-> "ok"], push |-> FALSE]
Rated == [status |-> "RATED", attempt |-> 0]
NoTxn == [kind |-> "none", op |-> None, exec |-> None, bans |-> {},
          excluded |-> {}, attempt |-> 0, version |-> FALSE, released |-> {}]

Scoped == {b \in Ban : acct[b].status # "NONE"}
UsageOf(b) == {u \in Usage : BanOf[u] = b}
Draft(b) == {u \in UsageOf(b) : udr[u].status = "BILL_DRAFT"}
Used == {i \in Exec : exec[i].state # "UNUSED"}

Terminal == {"PROCESSED", "PROCESSING_FAILED", "EXCLUDED"}

\* Mutants of ComputeRunStatus: one settled account is enough; an excluded
\* account is waited for.
SomeAccountTerminal(a) ==
    IF \E b \in Ban : a[b].status \in Terminal THEN "PROCESSED" ELSE "PROCESSING"
ExcludedNotTerminal(a) ==
    IF \A b \in Ban : a[b].status \in {"NONE", "PROCESSED", "PROCESSING_FAILED"}
    THEN "PROCESSED" ELSE "PROCESSING"

\* compute-run-status.ts: PROCESSED once every account of the run is
\* terminal, else no change to a PROCESSING run.
ComputeRunStatus(a) ==
    LET scoped == {b \in Ban : a[b].status # "NONE"} IN
    IF scoped # {} /\ \A b \in scoped : a[b].status \in Terminal
    THEN "PROCESSED" ELSE "PROCESSING"

\* Mutant of Advance: DONE of any stage completes an account under way.
AnyStageCompletes(current, s, outcome) ==
    IF current \in {"PROCESSING_FAILED", "EXCLUDED"} THEN current
    ELSE IF outcome = "FAILED" THEN "PROCESSING_FAILED"
    ELSE IF current = "PENDING" THEN "PROCESSING" ELSE "PROCESSED"

\* advanceAccountStatus for the two outcomes the flow sends: DONE, and
\* FAILED with error class HARD.
Advance(current, s, outcome) ==
    IF current \in {"PROCESSING_FAILED", "EXCLUDED"} THEN current
    ELSE IF outcome = "FAILED" THEN "PROCESSING_FAILED"
    ELSE IF current = "PENDING" THEN "PROCESSING"
    ELSE IF s = "verification" THEN "PROCESSED" ELSE current

\* Mutant of IsHighest: every snapshot starts at attempt 1 again.
NoPriorAttempt(n, S) == n = 0

\* n is the highest attempt among the accounts in S, 0 if there are none.
IsHighest(n, S) ==
    /\ n \in {0} \cup {acct[b].attempt : b \in S}
    /\ \A b \in S : acct[b].attempt <= n

\* Mutants of Release: the rows are parked as REJECTED, which no collection
\* claims; the rows of accounts still under way are forgotten.
ParkAsRejected(S) ==
    [u \in Usage |-> IF u \in UNION {Draft(b) : b \in S}
                     THEN [status |-> "REJECTED", attempt |-> 0] ELSE udr[u]]
ReleaseProcessedOnly(S) ==
    [u \in Usage |-> IF \E b \in S : u \in Draft(b) /\ acct[b].status = "PROCESSED"
                     THEN Rated ELSE udr[u]]

\* udr-status.repository release / markRejected / releaseSkipped: the
\* accounts' BILL_DRAFT rows go back to RATED, claim columns cleared.
Release(S) ==
    [u \in Usage |-> IF u \in UNION {Draft(b) : b \in S} THEN Rated ELSE udr[u]]

\* A bill_run row; drivers are the actors of its trigger and rerun audit rows.
RunRow ==
    [status : RunStatus, exec : Exec \cup {None}, drivers : SUBSET Operator,
     approver : Operator \cup {None}]
AccountRow ==
    [status : AccountStatus, attempt : Nat, latch : SUBSET Stage,
     rejected : BOOLEAN, version : BOOLEAN]
Execution ==
    [state : {"UNUSED", "RUNNING", "SUCCESS", "FAILED", "KILLED"},
     known : BOOLEAN, attempt : Nat, bans : SUBSET Ban,
     ran : [Ban -> SUBSET Stage], sent : [Ban -> SUBSET Stage],
     fate : [Ban -> {"ok", "raised", "failed"}], push : BOOLEAN]
UdrRow ==
    [status : {"RATED", "BILL_DRAFT", "BILL_APPROVED"}, attempt : Nat]
Transaction ==
    {NoTxn} \cup
    [kind : {"trigger", "rerun"}, op : Operator, exec : Exec,
     bans : SUBSET Ban, excluded : SUBSET Ban, attempt : Nat,
     version : BOOLEAN, released : SUBSET Usage]

TypeOK ==
    /\ run \in RunRow
    /\ acct \in [Ban -> AccountRow]
    /\ exec \in [Exec -> Execution]
    /\ udr \in [Usage -> UdrRow]
    /\ bill \in [Ban -> SUBSET Usage]
    /\ period \in {"open", "closing", "closed"}
    /\ txn \in Transaction

Init ==
    /\ run = [status |-> "SCHEDULED", exec |-> None, drivers |-> {},
              approver |-> None]
    /\ acct = [b \in Ban |-> Unscoped]
    /\ exec = [i \in Exec |-> Unused]
    /\ udr = [u \in Usage |-> Rated]
    /\ bill = [b \in Ban |-> {}]
    /\ period = "open"
    /\ txn = NoTxn

-----------------------------------------------------------------------------
(***************************************************************************)
(* The application.  Every handler but the period close takes the run's    *)
(* row lock, so it waits while a trigger or rerun transaction is open.     *)
(***************************************************************************)
Unlocked == txn = NoTxn

\* What an orderly operator waits for before starting an execution: that those
\* he knows of have ended and had their say.
Quiescent ==
    \A i \in Exec : exec[i].known =>
        /\ "late_push" \in Faults \/ ~exec[i].push
        /\ "zombie" \in Faults \/ exec[i].state # "RUNNING"

\* engineRegistry.trigger: the engine accepts the execution.
StartExecution(i, bans, n, known) ==
    /\ exec[i].state = "UNUSED"
    /\ exec' = [exec EXCEPT ![i] = [Unused EXCEPT !.state = "RUNNING",
                                                  !.known = known,
                                                  !.attempt = n,
                                                  !.bans = bans]]

\* triggerRun's guards; pend and excl are what scopeAccounts returns, and n
\* the attempt of the new snapshot (1, or past the killed one's highest).
Triggerable(pend, excl, n) ==
    /\ \/ run.status = "SCHEDULED"
       \/ run.status = "CANCELLED" /\ period # "closed"
    /\ pend # {}
    /\ pend \cap excl = {}
    /\ n > 0 /\ IsHighest(n - 1, Scoped)

\* triggerRun's writes: a fresh snapshot with its template stamps, a killed
\* attempt's trial bills deleted, the run PROCESSING under the new
\* execution, the actor audited.
WriteTrigger(op, i, pend, excl, n, v) ==
    /\ acct' = [b \in Ban |->
                  IF b \in pend
                  THEN [Unscoped EXCEPT !.status = "PENDING", !.attempt = n,
                                        !.version = v]
                  ELSE IF b \in excl
                  THEN [Unscoped EXCEPT !.status = "EXCLUDED", !.attempt = n]
                  ELSE Unscoped]
    /\ bill' = IF run.status = "CANCELLED" THEN [b \in Ban |-> {}] ELSE bill
    /\ run' = [run EXCEPT !.status = "PROCESSING", !.exec = i,
                          !.drivers = @ \cup {op}]

Trigger(op, i, pend, excl, n, v) ==
    /\ Unlocked /\ Quiescent
    /\ Triggerable(pend, excl, n)
    /\ StartExecution(i, pend, n, TRUE)
    /\ WriteTrigger(op, i, pend, excl, n, v)
    /\ UNCHANGED <<udr, period, txn>>

\* Mutant of HandleStageSignal: no stale-attempt guard.
AcceptAnyAttempt(b, n, s, outcome) ==
    IF /\ run.status = "PROCESSING"
       /\ acct[b].status # "NONE"
       /\ s \notin acct[b].latch
    THEN /\ acct' = [acct EXCEPT ![b].latch = @ \cup {s},
                                 ![b].status = Advance(@, s, outcome)]
         /\ run' = [run EXCEPT !.status = ComputeRunStatus(acct')]
    ELSE UNCHANGED <<run, acct>>

\* The handler of POST /stage/{s}/complete for account b and attempt n.
\* Wrong run status (409), unscoped account (404), superseded attempt and
\* latched replay all leave the state as it is.
HandleStageSignal(b, n, s, outcome) ==
    IF /\ run.status = "PROCESSING"
       /\ acct[b].status # "NONE"
       /\ acct[b].attempt = n
       /\ s \notin acct[b].latch
    THEN /\ acct' = [acct EXCEPT ![b].latch = @ \cup {s},
                                 ![b].status = Advance(@, s, outcome)]
         /\ run' = [run EXCEPT !.status = ComputeRunStatus(acct')]
    ELSE UNCHANGED <<run, acct>>

\* The handler of POST /status with PROCESSING_FAILED; 409 unless PROCESSING.
HandleStatusPush ==
    run' = [run EXCEPT !.status = IF @ = "PROCESSING"
                                  THEN "PROCESSING_FAILED" ELSE @]

\* cancelRun: best-effort kill, every account but the excluded ones back to
\* PENDING, the run's claims released, the execution reference cleared.
Cancel(killed) ==
    /\ Unlocked
    /\ run.status = "PROCESSING"
    /\ killed \/ "zombie" \in Faults
    /\ exec' = IF killed /\ exec[run.exec].state = "RUNNING"
               THEN [exec EXCEPT ![run.exec] = [@ EXCEPT !.state = "KILLED",
                                                         !.push = TRUE]]
               ELSE exec
    /\ acct' = [b \in Ban |->
                  IF acct[b].status \in {"NONE", "EXCLUDED"} THEN acct[b]
                  ELSE [acct[b] EXCEPT !.status = "PENDING"]]
    /\ udr' = Release(Ban)
    /\ run' = [run EXCEPT !.status = "CANCELLED", !.exec = None]
    /\ UNCHANGED <<bill, period, txn>>

\* rerunRun's guards: sel is the eligible set, n one past its highest attempt.
Rerunnable(sel, n) ==
    /\ run.status \in {"PROCESSED", "PROCESSING_FAILED"}
    /\ sel # {}
    /\ \A b \in sel : acct[b].status \notin {"NONE", "EXCLUDED"}
    /\ n > 0 /\ IsHighest(n - 1, sel)

\* rerunRun's writes, but for the release.
WriteRerun(op, i, sel, n, v) ==
    /\ acct' = [b \in Ban |->
                  IF b \in sel
                  THEN [Unscoped EXCEPT !.status = "PROCESSING", !.attempt = n,
                                        !.version = v]
                  ELSE acct[b]]
    /\ run' = [run EXCEPT !.status = "PROCESSING", !.exec = i,
                          !.drivers = @ \cup {op}]

Rerun(op, i, sel, n, v) ==
    /\ Unlocked /\ Quiescent
    /\ Rerunnable(sel, n)
    /\ StartExecution(i, sel, n, TRUE)
    /\ WriteRerun(op, i, sel, n, v)
    /\ udr' = Release(sel)
    /\ UNCHANGED <<bill, period, txn>>

\* rejectRun: sel is the requested accounts that are PROCESSED.
Reject(sel) ==
    /\ Unlocked
    /\ run.status = "PROCESSED"
    /\ sel # {} /\ \A b \in sel : acct[b].status = "PROCESSED"
    /\ udr' = Release(sel)
    /\ bill' = [b \in Ban |-> IF b \in sel THEN {} ELSE bill[b]]
    /\ acct' = [b \in Ban |-> IF b \in sel
                              THEN [acct[b] EXCEPT !.rejected = TRUE]
                              ELSE acct[b]]
    /\ UNCHANGED <<run, exec, period, txn>>

\* Mutants of FourEyes (some driver, not every) and of
\* TemplateVersionsCaptured (looks at the accounts that are skipped).
DiffersFromSomeDriver(op) == run.drivers # {} /\ run.drivers # {op}
SkippedHaveVersions ==
    \A b \in Ban : acct[b].status = "PROCESSING_FAILED" => acct[b].version

\* The blocking pre-approval checks.  The period is looked up per currency of
\* the postable bills, so it is not looked up when there are none.
PeriodOpen == (\E b \in Ban : acct[b].status = "PROCESSED") => period # "closed"

FourEyes(op) == run.drivers # {} /\ op \notin run.drivers

AccountsTerminal == \A b \in Scoped : acct[b].status \in Terminal
NoRejectedPending == \A b \in Scoped : ~acct[b].rejected
TemplateVersionsCaptured ==
    \A b \in Ban : acct[b].status = "PROCESSED" => acct[b].version

\* Mutant of Skipped: a failed account is forgotten (known-issues 27).
OnlyExcluded == {b \in Ban : acct[b].status = "EXCLUDED"}

\* markSkippedForRun
Skipped == {b \in Ban : acct[b].status \in {"PROCESSING_FAILED", "EXCLUDED"}}

\* udr-status.repository markApproved, after releaseSkipped.
MarkApproved(rows) ==
    [u \in Usage |-> IF rows[u].status = "BILL_DRAFT"
                     THEN [rows[u] EXCEPT !.status = "BILL_APPROVED"]
                     ELSE rows[u]]

Approve(op) ==
    /\ Unlocked
    /\ run.status = "PROCESSED"
    /\ PeriodOpen /\ FourEyes(op)
    /\ AccountsTerminal /\ NoRejectedPending /\ TemplateVersionsCaptured
    /\ acct' = [b \in Ban |-> IF b \in Skipped
                              THEN [acct[b] EXCEPT !.status = "SKIPPED"]
                              ELSE acct[b]]
    /\ udr' = MarkApproved(Release(Skipped))
    /\ run' = [run EXCEPT !.status = "APPROVED", !.approver = op]
    /\ UNCHANGED <<exec, bill, period, txn>>

\* Mutant of Reconcile: whatever has not succeeded has failed.
NotSuccessIsFailure ==
    /\ Unlocked
    /\ run.status = "PROCESSING"
    /\ run' = [run EXCEPT !.status = IF exec[run.exec].state = "SUCCESS"
                                     THEN ComputeRunStatus(acct)
                                     ELSE "PROCESSING_FAILED"]
    /\ UNCHANGED <<acct, exec, udr, bill, period, txn>>

\* reconcileRun on a PROCESSING run: ask the engine, settle a dead
\* execution as failed, recompute a finished one.
Reconcile ==
    /\ Unlocked
    /\ run.status = "PROCESSING"
    /\ exec[run.exec].state # "RUNNING"
    /\ run' = [run EXCEPT !.status =
                  IF exec[run.exec].state \in {"FAILED", "KILLED"}
                  THEN "PROCESSING_FAILED" ELSE ComputeRunStatus(acct)]
    /\ UNCHANGED <<acct, exec, udr, bill, period, txn>>

\* findActiveForPeriod does not return the run: it was never triggered
\* (gl_event_at is not set), or it is terminal.
NotActive == run.status \in {"SCHEDULED", "CANCELLED"}

\* closePeriod refuses while the run is active, and nothing reopens a period.
\* It looks without a lock on the run and closes in a later statement: "closing"
\* is in between, and open to all others.
ClosePeriod ==
    /\ \/ period = "open" /\ NotActive /\ period' = "closed"
       \/ /\ "late_close" \in Faults
          /\ \/ period = "open" /\ NotActive /\ period' = "closing"
             \/ period = "closing" /\ period' = "closed"
    /\ UNCHANGED <<run, acct, exec, udr, bill, txn>>

-----------------------------------------------------------------------------
(***************************************************************************)
(* Atomicity of the engine call.  trigger-run and rerun-run call the       *)
(* engine inside their transaction; the engine does not wait for the       *)
(* commit, and a commit need not follow (the call times out, a later       *)
(* write fails).  Trigger and Rerun above are the case in which the engine *)
(* starts work only after the commit; the actions below split the two.     *)
(* The open transaction holds the run's row lock, and its writes are seen  *)
(* by nobody until it commits.                                             *)
(***************************************************************************)
OpenTrigger(op, i, pend, excl, n, v) ==
    /\ "early" \in Faults
    /\ Unlocked /\ Quiescent
    /\ Triggerable(pend, excl, n)
    /\ StartExecution(i, pend, n, FALSE)
    /\ txn' = [kind |-> "trigger", op |-> op, exec |-> i, bans |-> pend,
               excluded |-> excl, attempt |-> n, version |-> v,
               released |-> {}]
    /\ UNCHANGED <<run, acct, udr, bill, period>>

OpenRerun(op, i, sel, n, v) ==
    /\ "early" \in Faults
    /\ Unlocked /\ Quiescent
    /\ Rerunnable(sel, n)
    /\ StartExecution(i, sel, n, FALSE)
    /\ txn' = [kind |-> "rerun", op |-> op, exec |-> i, bans |-> sel,
               excluded |-> {}, attempt |-> n, version |-> v,
               released |-> UNION {Draft(b) : b \in sel}]
    /\ UNCHANGED <<run, acct, udr, bill, period>>

CommitTrigger ==
    /\ txn.kind = "trigger"
    /\ WriteTrigger(txn.op, txn.exec, txn.bans, txn.excluded, txn.attempt,
                    txn.version)
    /\ exec' = [exec EXCEPT ![txn.exec].known = TRUE]
    /\ txn' = NoTxn
    /\ UNCHANGED <<udr, period>>

CommitRerun ==
    /\ txn.kind = "rerun"
    /\ WriteRerun(txn.op, txn.exec, txn.bans, txn.attempt, txn.version)
    /\ udr' = [u \in Usage |-> IF u \in txn.released THEN Rated ELSE udr[u]]
    /\ exec' = [exec EXCEPT ![txn.exec].known = TRUE]
    /\ txn' = NoTxn
    /\ UNCHANGED <<bill, period>>

\* EngineUnreachableSignal, or any other failure before the commit.
RollBack ==
    /\ "rollback" \in Faults
    /\ ~Unlocked
    /\ txn' = NoTxn
    /\ UNCHANGED <<run, acct, exec, udr, bill, period>>

-----------------------------------------------------------------------------
(***************************************************************************)
(* The engine's flow (bill_run_processing.yml).  Per account, stage by     *)
(* stage: do the stage's work, post DONE, go on whether or not the post    *)
(* got through.  A raise ends the account, which then posts a HARD FAILED. *)
(***************************************************************************)
InPipeline(i, b) ==
    /\ exec[i].state = "RUNNING"
    /\ b \in exec[i].bans
    /\ exec[i].fate[b] = "ok"

\* The next stage of account b is s.
NextStage(i, b, s) ==
    /\ InPipeline(i, b)
    /\ s \notin exec[i].ran[b]
    /\ Earlier(s) \subseteq exec[i].sent[b]

\* The rows aggregation and verification read: run, account and attempt.
ClaimedBy(i, b) == {u \in Draft(b) : udr[u].attempt = exec[i].attempt}

Ran(i, b, s) == exec' = [exec EXCEPT ![i].ran[b] = @ \cup {s}]

\* Collection claims the account's RATED rows, and only those.
Collect(i, b) ==
    /\ NextStage(i, b, "collection")
    /\ udr' = [u \in Usage |->
                 IF BanOf[u] = b /\ udr[u].status = "RATED"
                 THEN [status |-> "BILL_DRAFT", attempt |-> exec[i].attempt]
                 ELSE udr[u]]
    /\ Ran(i, b, "collection")
    /\ UNCHANGED <<run, acct, bill, period, txn>>

\* Aggregation replaces the account's whole trial bill; once the run is
\* posted it could not (posting is outside this module).  The new bill's
\* foreign key locks the run FOR KEY SHARE, which waits for the row lock.
Aggregate(i, b) ==
    /\ NextStage(i, b, "aggregation")
    /\ Unlocked
    /\ bill' = [bill EXCEPT ![b] = ClaimedBy(i, b)]
    /\ Ran(i, b, "aggregation")
    /\ UNCHANGED <<run, acct, udr, period, txn>>

\* Verification replays every line the bill has against the claimed rows; a
\* line that is missing altogether goes unnoticed.
Verify(i, b) ==
    /\ NextStage(i, b, "verification")
    /\ IF bill[b] \subseteq ClaimedBy(i, b)
       THEN Ran(i, b, "verification")
       ELSE exec' = [exec EXCEPT ![i].fate[b] = "raised"]
    /\ UNCHANGED <<run, acct, udr, bill, period, txn>>

\* Validation reads, and taxation is a stub: neither writes what is modelled.
OtherStage(i, b) ==
    \E s \in Stage \ {"collection", "aggregation", "verification"} :
        /\ NextStage(i, b, s)
        /\ Ran(i, b, s)
        /\ UNCHANGED <<run, acct, udr, bill, period, txn>>

\* A HARD finding: the stage's transaction rolls back and the task fails.
Raise(i, b) ==
    /\ "raise" \in Faults
    /\ \E s \in Stage : NextStage(i, b, s)
    /\ exec' = [exec EXCEPT ![i].fate[b] = "raised"]
    /\ UNCHANGED <<run, acct, udr, bill, period, txn>>

\* signal_<stage>_done; the handler needs the run's lock.
PostSignal(i, b) ==
    \E s \in Stage :
        /\ InPipeline(i, b) /\ s \in exec[i].ran[b] \ exec[i].sent[b]
        /\ Unlocked
        /\ exec' = [exec EXCEPT ![i].sent[b] = @ \cup {s}]
        /\ HandleStageSignal(b, exec[i].attempt, s, "DONE")
        /\ UNCHANGED <<udr, bill, period, txn>>

\* allowFailure: a post that fails for good does not stop the account.
LoseSignal(i, b) ==
    /\ "loss" \in Faults
    /\ \E s \in Stage :
        /\ InPipeline(i, b) /\ s \in exec[i].ran[b] \ exec[i].sent[b]
        /\ exec' = [exec EXCEPT ![i].sent[b] = @ \cup {s}]
    /\ UNCHANGED <<run, acct, udr, bill, period, txn>>

Raised(i, b) == exec[i].state = "RUNNING" /\ exec[i].fate[b] = "raised"

\* signal_account_failed reports on the verification stage, whichever raised.
PostFailed(i, b) ==
    /\ Raised(i, b) /\ Unlocked
    /\ exec' = [exec EXCEPT ![i].fate[b] = "failed"]
    /\ HandleStageSignal(b, exec[i].attempt, "verification", "FAILED")
    /\ UNCHANGED <<udr, bill, period, txn>>

LoseFailed(i, b) ==
    /\ "loss" \in Faults
    /\ Raised(i, b)
    /\ exec' = [exec EXCEPT ![i].fate[b] = "failed"]
    /\ UNCHANGED <<run, acct, udr, bill, period, txn>>

\* A callback that was sent, lost or not, is delivered now.
Redeliver(i, b) ==
    /\ "delay" \in Faults
    /\ Unlocked
    /\ \/ \E s \in exec[i].sent[b] :
              HandleStageSignal(b, exec[i].attempt, s, "DONE")
       \/ /\ exec[i].fate[b] = "failed"
          /\ HandleStageSignal(b, exec[i].attempt, "verification", "FAILED")
    /\ UNCHANGED <<exec, udr, bill, period, txn>>

\* SUCCESS, or WARNING when an account was contained: the app maps both to
\* SUCCESS.
Finish(i) ==
    /\ exec[i].state = "RUNNING"
    /\ \A b \in exec[i].bans : \/ exec[i].sent[b] = Stage
                               \/ exec[i].fate[b] = "failed"
    /\ exec' = [exec EXCEPT ![i].state = "SUCCESS"]
    /\ UNCHANGED <<run, acct, udr, bill, period, txn>>

\* The whole execution fails; on_error will push PROCESSING_FAILED.
Crash(i) ==
    /\ "crash" \in Faults
    /\ exec[i].state = "RUNNING"
    /\ exec' = [exec EXCEPT ![i] = [@ EXCEPT !.state = "FAILED", !.push = TRUE]]
    /\ UNCHANGED <<run, acct, udr, bill, period, txn>>

\* on_error after FAILED, on_killed after KILLED.  The push names the run,
\* not the execution.
StatusPush(i) ==
    /\ exec[i].push /\ Unlocked
    /\ exec' = [exec EXCEPT ![i].push = FALSE]
    /\ HandleStatusPush
    /\ UNCHANGED <<acct, udr, bill, period, txn>>

LosePush(i) ==
    /\ "loss" \in Faults
    /\ exec[i].push
    /\ exec' = [exec EXCEPT ![i].push = FALSE]
    /\ UNCHANGED <<run, acct, udr, bill, period, txn>>

-----------------------------------------------------------------------------
Operate ==
    \/ /\ run.status \in {"SCHEDULED", "CANCELLED"} /\ Unlocked /\ Quiescent
       /\ \E op \in Operator, i \in Exec, v \in Captures,
             pend, excl \in SUBSET Ban, n \in 1..Cardinality(Exec) :
             \/ Trigger(op, i, pend, excl, n, v)
             \/ OpenTrigger(op, i, pend, excl, n, v)
    \/ /\ run.status \in {"PROCESSED", "PROCESSING_FAILED"} /\ Unlocked /\ Quiescent
       /\ \E op \in Operator, i \in Exec, v \in Captures,
             sel \in SUBSET Ban, n \in 1..Cardinality(Exec) :
             \/ Rerun(op, i, sel, n, v)
             \/ OpenRerun(op, i, sel, n, v)
    \/ CommitTrigger \/ CommitRerun \/ RollBack
    \/ \E killed \in BOOLEAN : Cancel(killed)
    \/ \E sel \in SUBSET Ban : Reject(sel)
    \/ \E op \in Operator : Approve(op)
    \/ Reconcile
    \/ ClosePeriod

\* What the engine does for account b of execution i without being made to.
Work(i, b) ==
    \/ Collect(i, b) \/ Aggregate(i, b) \/ Verify(i, b) \/ OtherStage(i, b)
    \/ PostSignal(i, b) \/ PostFailed(i, b)

Engine ==
    \E i \in Exec :
        \/ \E b \in exec[i].bans : \/ Work(i, b)
                                   \/ Raise(i, b)
                                   \/ LoseSignal(i, b) \/ LoseFailed(i, b)
                                   \/ Redeliver(i, b)
        \/ Finish(i) \/ Crash(i) \/ StatusPush(i) \/ LosePush(i)

Next == Operate \/ Engine

Spec == Init /\ [][Next]_vars

(***************************************************************************)
(* The engine schedules every runnable task and retries its callbacks.     *)
(* Nothing is assumed of people: no operator action is fair, and nothing   *)
(* obliges a task to raise or an execution to crash.                       *)
(***************************************************************************)
Fairness ==
    \A i \in Exec : /\ \A b \in Ban : WF_vars(b \in exec[i].bans /\ Work(i, b))
                    /\ WF_vars(StatusPush(i))

FairSpec == Spec /\ Fairness

=============================================================================
