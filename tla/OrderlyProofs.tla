---------------------------- MODULE OrderlyProofs ----------------------------
(***************************************************************************)
(* What a bill run owes when nobody runs ahead of the engine: a kill works *)
(* before the next execution starts, and an execution starts after the     *)
(* commit.  All the other faults may happen: callbacks are lost, late and  *)
(* repeated, stages raise, executions crash.                               *)
(*                                                                         *)
(* The invariant ties what the engine has done for an account to its rows. *)
(* An execution of the account's current attempt, working or not, has left *)
(* all of the account's usage claimed once it has collected, and the bill  *)
(* complete once it has aggregated; every other execution has left nothing.*)
(***************************************************************************)
EXTENDS BillRunProofs

Orderly == "zombie" \notin Faults /\ "early" \notin Faults

\* A run that has been triggered and is neither cancelled nor approved.
Live == run.status \in {"PROCESSING", "PROCESSED", "PROCESSING_FAILED"}

\* Execution i bills account b, or has billed it, in b's attempt.
Current(i, b) ==
    /\ b \in Scoped \cap exec[i].bans
    /\ exec[i].attempt = acct[b].attempt

\* Only the execution the run tracks works, for accounts of its attempt.
OneEngine ==
    /\ txn = NoTxn
    /\ run.exec = None <=> run.status \in {"SCHEDULED", "CANCELLED"}
    /\ \A i \in Exec \ Used : exec[i].bans = {}
    /\ \A i \in Used :
          /\ exec[i].known
          /\ exec[i].state = "RUNNING" =>
                run.exec = i /\ \A b \in exec[i].bans : Current(i, b)

\* Only a dead execution has a push to deliver: to its own run, or to one that
\* is cancelled.
PushesRight ==
    /\ \A i \in Exec : exec[i].push =>
          exec[i].state \in {"FAILED", "KILLED"} /\ run.exec \in {i, None}
    /\ FailedOnlyIfDead

\* None of an account's usage is claimed; all of it is, by its attempt.
Free(b) == \A u \in UsageOf(b) : udr[u].status = "RATED"
Held(b) ==
    \A u \in UsageOf(b) : udr[u] = [status |-> "BILL_DRAFT", attempt |-> acct[b].attempt]

\* What execution i has left behind for account b.
Left(i, b) ==
    /\ IF "collection" \in exec[i].ran[b] THEN Held(b) ELSE Free(b)
    /\ "aggregation" \in exec[i].ran[b] => bill[b] = UsageOf(b)

\* Execution i will not write for b again.
AtRest(i, b) == exec[i].ran[b] = Stage \/ exec[i].fate[b] = "failed"

\* An account's claims and bill while the run is under way ...
Claims(b) ==
    IF acct[b].rejected
    THEN Free(b) /\ \A i \in Exec : Current(i, b) => AtRest(i, b)
    ELSE /\ \A i \in Exec : Current(i, b) => Left(i, b)
         /\ (\A i \in Exec : ~Current(i, b)) => Free(b)

\* ... and once it is approved.
Settled(b) ==
    /\ IF acct[b].status = "PROCESSED"
       THEN bill[b] = UsageOf(b) /\ \A u \in UsageOf(b) : udr[u].status = "BILL_APPROVED"
       ELSE Free(b)
    /\ \A i \in Exec : Current(i, b) => AtRest(i, b)

AccountRight(b) ==
    /\ run.status \in {"SCHEDULED", "CANCELLED"} =>
          Free(b) /\ acct[b].status # "PROCESSED"
    /\ Live => Claims(b)
    /\ run.status = "APPROVED" => Settled(b)
    /\ acct[b].status \in {"PROCESSING_FAILED", "EXCLUDED"} =>
          \A i \in Exec : Current(i, b) => exec[i].fate[b] = "failed"

\* What holds under all faults and is proved in BillRunProofs.
Known == TypeOK /\ PipelineInv /\ ProcessedHasEvidence /\ AttemptInv

OrderlyInv == OneEngine /\ \A b \in Ban : AccountRight(b)

-----------------------------------------------------------------------------
(* What the invariant says at once.                                        *)

\* An attempt of an account is one execution's.
LEMMA CurrentUnique ==
  ASSUME Known, OneEngine, NEW b \in Ban, NEW i \in Exec, NEW j \in Exec,
         Current(i, b), Current(j, b)
  PROVE  i = j
<1>1. i \in Used /\ j \in Used
  BY DEF OneEngine, Current
<1> QED BY <1>1 DEF Known, AttemptInv, AttemptFresh, Current, OneEngine

\* A PROCESSED account has its execution, and that one is done with it.
LEMMA ProcessedByCurrent ==
  ASSUME Known, OneEngine, NEW b \in Ban, acct[b].status = "PROCESSED"
  PROVE  /\ \E i \in Exec : Current(i, b)
         /\ \A i \in Exec : Current(i, b) => exec[i].ran[b] = Stage
<1>1. PICK i \in Used : /\ b \in exec[i].bans
                        /\ exec[i].attempt = acct[b].attempt
                        /\ exec[i].ran[b] = Stage
  BY DEF Known, ProcessedHasEvidence
<1>2. i \in Exec /\ Current(i, b)
  BY <1>1 DEF Current, Used, Scoped
<1> QED BY <1>1, <1>2, CurrentUnique

\* While the run is under way an account's usage is claimed or free as a whole.
LEMMA HeldOrFree ==
  ASSUME NEW b \in Ban, AccountRight(b), Live
  PROVE  Held(b) \/ Free(b)
BY DEF AccountRight, Claims, Left

\* A PROCESSED account that was not sent back is claimed and billed in full.
LEMMA ProcessedIsBilled ==
  ASSUME Known, OneEngine, NEW b \in Ban, AccountRight(b), Live,
         acct[b].status = "PROCESSED", ~acct[b].rejected
  PROVE  Held(b) /\ bill[b] = UsageOf(b)
<1>1. PICK i \in Exec : Current(i, b) /\ exec[i].ran[b] = Stage
  BY ProcessedByCurrent
<1>2. Left(i, b)
  BY <1>1 DEF AccountRight, Claims
<1> QED BY <1>1, <1>2, PipelineAssumption DEF Left

LEMMA LiveOrNot ==
  ASSUME TypeOK
  PROVE  \/ Live /\ run.status \notin {"SCHEDULED", "CANCELLED", "APPROVED"}
         \/ ~Live /\ run.status \in {"SCHEDULED", "CANCELLED"}
         \/ ~Live /\ run.status = "APPROVED"
BY DEF TypeOK, RunRow, RunStatus, Live

\* The properties follow.
LEMMA OrderlyInvImplies ==
  ASSUME Known, OrderlyInv
  PROVE  NothingUnderbilled /\ NothingStranded
<1>1. NothingUnderbilled
  <2>1. SUFFICES ASSUME NEW b \in Ban
                 PROVE  /\ acct[b].status = "PROCESSED" /\ ~acct[b].rejected =>
                              /\ bill[b] = UsageOf(b)
                              /\ \A u \in UsageOf(b) :
                                    udr[u].status = IF run.status = "APPROVED"
                                                    THEN "BILL_APPROVED" ELSE "BILL_DRAFT"
                        /\ acct[b].status # "PROCESSED" /\ run.status = "APPROVED" =>
                              \A u \in UsageOf(b) : udr[u].status = "RATED"
    BY DEF NothingUnderbilled
  <2>2. OneEngine /\ AccountRight(b)
    BY DEF OrderlyInv
  <2>3. CASE Live
    <3>1. acct[b].status = "PROCESSED" /\ ~acct[b].rejected =>
             Held(b) /\ bill[b] = UsageOf(b)
      BY <2>2, <2>3, ProcessedIsBilled
    <3> QED BY <2>3, <3>1 DEF Held, Live
  <2>4. CASE run.status \in {"SCHEDULED", "CANCELLED"}
    BY <2>2, <2>4 DEF AccountRight
  <2>5. CASE run.status = "APPROVED"
    BY <2>2, <2>5 DEF AccountRight, Settled, Free
  <2> QED BY <2>3, <2>4, <2>5, LiveOrNot DEF Known
<1>2. NothingStranded
  <2>1. SUFFICES ASSUME NEW u \in Usage, udr[u].status = "BILL_DRAFT"
                 PROVE  /\ run.status \notin {"SCHEDULED", "CANCELLED"}
                        /\ udr[u].attempt = acct[BanOf[u]].attempt
                        /\ ~acct[BanOf[u]].rejected
    BY DEF NothingStranded
  <2>2. BanOf[u] \in Ban /\ u \in UsageOf(BanOf[u])
    BY UsageAssumption DEF UsageOf
  <2>3. AccountRight(BanOf[u]) /\ ~Free(BanOf[u])
    BY <2>1, <2>2 DEF OrderlyInv, Free
  <2>4. Live
    <3>1. CASE run.status = "APPROVED"
      BY <2>1, <2>2, <2>3, <3>1 DEF AccountRight, Settled, Free
    <3> QED BY <2>3, <3>1, LiveOrNot DEF Known, AccountRight
  <2>5. Held(BanOf[u]) /\ ~acct[BanOf[u]].rejected
    BY <2>2, <2>3, <2>4, HeldOrFree DEF AccountRight, Claims
  <2> QED BY <2>2, <2>4, <2>5 DEF Held, Live
<1> QED BY <1>1, <1>2

-----------------------------------------------------------------------------
(* Steps.                                                                  *)

\* Work is done by the run's execution, for accounts of its attempt that it
\* has not finished with.
LEMMA WorkIsCurrent ==
  ASSUME TypeOK, OneEngine, NEW i \in Exec, NEW b, InPipeline(i, b)
  PROVE  Current(i, b) /\ run.exec = i /\ run.status \notin {"SCHEDULED", "CANCELLED"}
BY NoneAssumption DEF InPipeline, OneEngine, Used

LEMMA WorkLeft ==
  ASSUME NEW i \in Exec, NEW b, NEW s \in Stage, NextStage(i, b, s)
  PROVE  ~AtRest(i, b)
BY DEF NextStage, InPipeline, AtRest

\* With every transaction committed as it is opened.
LEMMA NoneOpen == txn = NoTxn => ~CommitTrigger /\ ~CommitRerun /\ LockInv
BY DEF NoTxn, CommitTrigger, CommitRerun, LockInv

\* Of the engine's steps collection and aggregation write claims and bills.
LEMMA EngineWrites ==
  ASSUME TypeOK, Engine
  PROVE  \/ UNCHANGED <<udr, bill>>
         \/ \E i \in Exec, b \in Ban : Collect(i, b) \/ Aggregate(i, b)
<1>1. PICK i \in Exec :
              \/ \E b \in exec[i].bans :
                    \/ Collect(i, b) \/ Aggregate(i, b) \/ Verify(i, b)
                    \/ OtherStage(i, b) \/ Raise(i, b)
                    \/ PostSignal(i, b) \/ LoseSignal(i, b)
                    \/ PostFailed(i, b) \/ LoseFailed(i, b)
                    \/ Redeliver(i, b)
              \/ Finish(i) \/ Crash(i) \/ StatusPush(i) \/ LosePush(i)
  BY EngineCases
<1>2. exec[i].bans \subseteq Ban
  BY DEF TypeOK, Execution
<1>3. ASSUME NEW b \in exec[i].bans,
             \/ Verify(i, b) \/ OtherStage(i, b) \/ Raise(i, b)
             \/ PostSignal(i, b) \/ LoseSignal(i, b)
             \/ PostFailed(i, b) \/ LoseFailed(i, b) \/ Redeliver(i, b)
      PROVE  UNCHANGED <<udr, bill>>
  BY <1>3 DEF Verify, OtherStage, Raise, PostSignal, LoseSignal, PostFailed, LoseFailed, Redeliver
<1>4. CASE Finish(i) \/ Crash(i) \/ StatusPush(i) \/ LosePush(i)
  BY <1>4 DEF Finish, Crash, StatusPush, LosePush
<1> QED BY <1>1, <1>2, <1>3, <1>4

\* A straggling task does not write for an approved run, since every account's
\* execution is at rest.
LEMMA ApprovedWritesNothing ==
  ASSUME Known, OrderlyInv, [Next]_vars, run.status = "APPROVED"
  PROVE  UNCHANGED <<run, acct, udr, bill>>
<1>1. UNCHANGED <<run, acct>>
  BY NoneOpen, ApprovedRests DEF Known, OrderlyInv, OneEngine
<1>2. CASE UNCHANGED vars
  BY <1>2 DEF vars
<1>3. CASE Operate
  <2>1. ~CommitTrigger /\ ~CommitRerun
    BY NoneOpen DEF OrderlyInv, OneEngine
  <2> QED
    BY <1>1, <1>3, <2>1, OperateCases DEF RollBack, Trigger, OpenTrigger, Triggerable, Rerun,
       OpenRerun, Rerunnable, Cancel, Reject, Approve, Reconcile, ClosePeriod
<1>4. CASE Engine
  <2>1. ASSUME NEW i \in Exec, NEW b \in Ban
        PROVE  ~Collect(i, b) /\ ~Aggregate(i, b)
    <3>1. ASSUME NEW s \in Stage, NextStage(i, b, s)
          PROVE  FALSE
      BY <3>1, WorkLeft, WorkIsCurrent DEF NextStage, Known, OrderlyInv, AccountRight, Settled
    <3> QED BY <3>1, PipelineAssumption DEF Collect, Aggregate
  <2> QED BY <1>1, <1>4, <2>1, EngineWrites DEF Known
<1> QED BY <1>2, <1>3, <1>4 DEF Next

\* An account keeps its claims and its bill through every step that leaves them
\* and the attempt alone, as long as it fails only when its execution has.
LEMMA KeptAccount ==
  ASSUME TypeOK, TypeOK', NEW b \in Ban, AccountRight(b),
         \A i \in Exec :
            /\ Current(i, b)' <=> Current(i, b)
            /\ Current(i, b) =>
                  /\ "collection" \in exec'[i].ran[b] <=> "collection" \in exec[i].ran[b]
                  /\ "aggregation" \in exec'[i].ran[b] <=> "aggregation" \in exec[i].ran[b]
                  /\ AtRest(i, b) => AtRest(i, b)'
                  /\ exec[i].fate[b] = "failed" => exec'[i].fate[b] = "failed",
         acct'[b].attempt = acct[b].attempt, acct'[b].rejected = acct[b].rejected,
         \A u \in UsageOf(b) : udr'[u] = udr[u],
         bill'[b] = bill[b],
         run'.status = run.status \/ (Live /\ Live'),
         Live \/ acct'[b].status = acct[b].status,
         \/ acct'[b].status \notin {"PROCESSING_FAILED", "EXCLUDED"}
         \/ acct[b].status \in {"PROCESSING_FAILED", "EXCLUDED"}
         \/ \A i \in Exec : Current(i, b) => exec'[i].fate[b] = "failed"
  PROVE  AccountRight(b)'
<1>1. /\ Free(b)' <=> Free(b)
      /\ Held(b)' <=> Held(b)
  BY DEF Free, Held, UsageOf
<1>2. \A i \in Exec : Current(i, b) => (Left(i, b)' <=> Left(i, b))
  BY <1>1 DEF Left, UsageOf
<1>3. Claims(b) => Claims(b)'
  BY <1>1, <1>2 DEF Claims
<1>4. Live' => Live
  BY DEF Live
<1>5. acct'[b].status = acct[b].status => (Settled(b) => Settled(b)')
  BY <1>1 DEF Settled, UsageOf
<1>6. /\ Live => run.status \notin {"SCHEDULED", "CANCELLED", "APPROVED"}
      /\ Live' => run'.status \notin {"SCHEDULED", "CANCELLED", "APPROVED"}
  BY DEF Live
<1> QED BY <1>1, <1>3, <1>4, <1>5, <1>6 DEF AccountRight

\* The order of executions is kept by steps that neither start one nor cancel.
LEMMA KeptEngine ==
  ASSUME TypeOK, TypeOK', OneEngine, txn' = NoTxn, run'.exec = run.exec,
         \/ run'.status = run.status
         \/ {run.status, run'.status} \cap {"SCHEDULED", "CANCELLED"} = {},
         \A i \in Exec :
            /\ exec'[i].bans = exec[i].bans /\ exec'[i].known = exec[i].known
            /\ \/ exec'[i].state = exec[i].state
               \/ exec[i].state = "RUNNING" /\ exec'[i].state \in {"SUCCESS", "FAILED"}
            /\ \A b \in exec[i].bans : Current(i, b) => Current(i, b)'
  PROVE  OneEngine'
<1>1. Used' = Used
  BY DEF Used
<1>2. ASSUME NEW i \in Used
      PROVE  /\ exec'[i].known
             /\ exec'[i].state = "RUNNING" =>
                   run'.exec = i /\ \A b \in exec'[i].bans : Current(i, b)'
  BY <1>2 DEF OneEngine, Used
<1>3. \A i \in Exec \ Used : exec'[i].bans = {}
  BY DEF OneEngine
<1>4. run'.exec = None <=> run'.status \in {"SCHEDULED", "CANCELLED"}
  BY DEF OneEngine
<1> QED BY <1>1, <1>2, <1>3, <1>4 DEF OneEngine

LEMMA KeptCurrent ==
  ASSUME NEW i, NEW b \in Ban,
         exec'[i].bans = exec[i].bans, exec'[i].attempt = exec[i].attempt,
         acct'[b].attempt = acct[b].attempt,
         acct'[b].status = "NONE" <=> acct[b].status = "NONE"
  PROVE  Current(i, b)' <=> Current(i, b)
BY DEF Current, Scoped

-----------------------------------------------------------------------------
(* The engine's steps.                                                     *)

\* Only what execution i has done for b changes.
OnlyProgress(i, b) ==
    \A j \in Exec :
        /\ exec'[j].bans = exec[j].bans /\ exec'[j].attempt = exec[j].attempt
        /\ exec'[j].known = exec[j].known
        /\ exec'[j].state = exec[j].state
        /\ \A c \in Ban : j # i \/ c # b =>
              exec'[j].ran[c] = exec[j].ran[c] /\ exec'[j].fate[c] = exec[j].fate[c]

\* A stage signal fails an account only on its execution's word.
LEMMA SignalFails ==
  ASSUME TypeOK, NEW b \in Ban, NEW n, NEW s \in Stage, NEW outcome,
         HandleStageSignal(b, n, s, outcome), NEW c \in Ban,
         acct'[c].status \in {"PROCESSING_FAILED", "EXCLUDED"}
  PROVE  \/ acct[c].status \in {"PROCESSING_FAILED", "EXCLUDED"}
         \/ c = b /\ acct[b].attempt = n /\ acct[b].status # "NONE" /\ outcome = "FAILED"
<1>1. CASE UNCHANGED acct
  BY <1>1
<1>2. CASE /\ acct[b].status # "NONE"
           /\ acct[b].attempt = n
           /\ acct' = [acct EXCEPT ![b].latch = @ \cup {s},
                                   ![b].status = Advance(@, s, outcome)]
  <2>1. /\ acct'[b].status = Advance(acct[b].status, s, outcome)
        /\ c # b => acct'[c] = acct[c]
    BY <1>2 DEF TypeOK, AccountRow
  <2>2. CASE c = b
    BY <1>2, <2>1, <2>2 DEF Advance
  <2> QED BY <2>1, <2>2
<1> QED BY <1>1, <1>2 DEF HandleStageSignal

\* Progress that claims and bills nothing keeps everything in order.
LEMMA ProgressKeeps ==
  ASSUME Known, TypeOK', OrderlyInv, NEW i \in Exec, NEW b \in Ban, b \in exec[i].bans,
         OnlyProgress(i, b),
         \/ exec'[i].ran[b] = exec[i].ran[b]
         \/ \E s \in Stage \ {"collection", "aggregation"} :
               exec'[i].ran[b] = exec[i].ran[b] \cup {s},
         exec[i].fate[b] = "failed" => exec'[i].fate[b] = "failed",
         UNCHANGED <<udr, bill, txn>>,
         \/ UNCHANGED <<run, acct>>
         \/ \E s \in Stage, o \in {"DONE", "FAILED"} :
               /\ HandleStageSignal(b, exec[i].attempt, s, o)
               /\ o = "FAILED" => exec'[i].fate[b] = "failed"
  PROVE  OrderlyInv'
<1>1. TypeOK /\ OneEngine
  BY DEF Known, OrderlyInv
<1>2. ASSUME NEW c \in Ban
      PROVE  /\ acct'[c].attempt = acct[c].attempt /\ acct'[c].rejected = acct[c].rejected
             /\ acct'[c].status = "NONE" <=> acct[c].status = "NONE"
             /\ \/ acct'[c].status \notin {"PROCESSING_FAILED", "EXCLUDED"}
                \/ acct[c].status \in {"PROCESSING_FAILED", "EXCLUDED"}
                \/ c = b /\ Current(i, b) /\ exec'[i].fate[b] = "failed"
  <2>1. CASE UNCHANGED acct
    BY <2>1
  <2>2. ASSUME NEW s \in Stage, NEW o \in {"DONE", "FAILED"},
               HandleStageSignal(b, exec[i].attempt, s, o),
               o = "FAILED" => exec'[i].fate[b] = "failed"
        PROVE  /\ acct'[c].attempt = acct[c].attempt /\ acct'[c].rejected = acct[c].rejected
               /\ acct'[c].status = "NONE" <=> acct[c].status = "NONE"
               /\ \/ acct'[c].status \notin {"PROCESSING_FAILED", "EXCLUDED"}
                  \/ acct[c].status \in {"PROCESSING_FAILED", "EXCLUDED"}
                  \/ c = b /\ Current(i, b) /\ exec'[i].fate[b] = "failed"
    <3>1. /\ acct'[c].attempt = acct[c].attempt /\ acct'[c].rejected = acct[c].rejected
          /\ acct'[c].status = "NONE" <=> acct[c].status = "NONE"
      BY <1>1, <2>2, SignalAccounts
    <3>2. \/ acct'[c].status \notin {"PROCESSING_FAILED", "EXCLUDED"}
          \/ acct[c].status \in {"PROCESSING_FAILED", "EXCLUDED"}
          \/ /\ c = b /\ acct[b].attempt = exec[i].attempt
             /\ acct[b].status # "NONE" /\ o = "FAILED"
      BY <1>1, <2>2, SignalFails
    <3> QED BY <2>2, <3>1, <3>2 DEF Current, Scoped
  <2> QED BY <2>1, <2>2
<1>3. \A j \in Exec, c \in Ban : Current(j, c)' <=> Current(j, c)
  BY <1>2, KeptCurrent DEF OnlyProgress
<1>4. /\ run'.exec = run.exec
      /\ \/ run'.status = run.status
         \/ Live /\ Live' /\ run'.status # "PROCESSING_FAILED"
      /\ ~Live => UNCHANGED <<run, acct>>
  <2>1. ASSUME NEW s \in Stage, NEW o \in {"DONE", "FAILED"},
               HandleStageSignal(b, exec[i].attempt, s, o)
        PROVE  /\ run'.exec = run.exec
               /\ run.status # "PROCESSING" => UNCHANGED <<run, acct>>
               /\ run.status = "PROCESSING" => run'.status \in {"PROCESSING", "PROCESSED"}
    <3>1. run' = [run EXCEPT !.status = run'.status]
      BY <1>1, <2>1, SignalRun
    <3> QED BY <1>1, <2>1, <3>1, SignalRun DEF TypeOK, RunRow
  <2>2. CASE UNCHANGED <<run, acct>>
    BY <2>2
  <2>3. CASE run.status = "PROCESSING" /\ ~UNCHANGED <<run, acct>>
    BY <2>1, <2>3 DEF Live
  <2> QED BY <2>1, <2>2, <2>3
<1>5. OneEngine'
  <2>1. \A j \in Exec : exec[j].bans \subseteq Ban
    BY <1>1 DEF TypeOK, Execution
  <2>2. txn' = NoTxn
    BY <1>1 DEF OneEngine
  <2>3. \/ run'.status = run.status
        \/ {run.status, run'.status} \cap {"SCHEDULED", "CANCELLED"} = {}
    BY <1>4 DEF Live
  <2>4. \A j \in Exec :
           /\ exec'[j].bans = exec[j].bans /\ exec'[j].known = exec[j].known
           /\ \/ exec'[j].state = exec[j].state
              \/ exec[j].state = "RUNNING" /\ exec'[j].state \in {"SUCCESS", "FAILED"}
           /\ \A c \in exec[j].bans : Current(j, c) => Current(j, c)'
    BY <1>3, <2>1 DEF OnlyProgress
  <2> QED BY <1>1, <1>4, <2>2, <2>3, <2>4, KeptEngine
<1>6. ASSUME NEW c \in Ban
      PROVE  AccountRight(c)'
  <2>1. ASSUME NEW j \in Exec
        PROVE  /\ "collection" \in exec'[j].ran[c] <=> "collection" \in exec[j].ran[c]
               /\ "aggregation" \in exec'[j].ran[c] <=> "aggregation" \in exec[j].ran[c]
               /\ AtRest(j, c) => AtRest(j, c)'
               /\ exec[j].fate[c] = "failed" => exec'[j].fate[c] = "failed"
    <3>1. CASE j # i \/ c # b
      BY <3>1 DEF OnlyProgress, AtRest
    <3>2. CASE j = i /\ c = b
      BY <3>2 DEF AtRest
    <3> QED BY <3>1, <3>2
  <2>2. \/ acct'[c].status \notin {"PROCESSING_FAILED", "EXCLUDED"}
        \/ acct[c].status \in {"PROCESSING_FAILED", "EXCLUDED"}
        \/ \A j \in Exec : Current(j, c) => exec'[j].fate[c] = "failed"
    BY <1>1, <1>2, CurrentUnique
  <2>3. AccountRight(c)
    BY DEF OrderlyInv
  <2> QED BY <1>1, <1>2, <1>3, <1>4, <2>1, <2>2, <2>3, KeptAccount
<1> QED BY <1>5, <1>6 DEF OrderlyInv

\* So does the end of an execution, and a status push that is delivered or lost.
LEMMA EndKeeps ==
  ASSUME Known, TypeOK', OrderlyInv, NEW i \in Exec,
         Finish(i) \/ Crash(i) \/ StatusPush(i) \/ LosePush(i)
  PROVE  OrderlyInv'
<1>1. TypeOK /\ OneEngine
  BY DEF Known, OrderlyInv
<1>2. UNCHANGED <<acct, udr, bill, txn>>
  BY DEF Finish, Crash, StatusPush, LosePush
<1>3. /\ exec[i] \in Execution
      /\ \/ exec' = [exec EXCEPT ![i].state = "SUCCESS"] /\ exec[i].state = "RUNNING"
         \/ /\ exec' = [exec EXCEPT ![i] = [@ EXCEPT !.state = "FAILED", !.push = TRUE]]
            /\ exec[i].state = "RUNNING"
         \/ exec' = [exec EXCEPT ![i].push = FALSE]
  BY <1>1 DEF Finish, Crash, StatusPush, LosePush, TypeOK
<1>4. ASSUME NEW j \in Exec
      PROVE  /\ exec'[j].bans = exec[j].bans /\ exec'[j].known = exec[j].known
             /\ exec'[j].attempt = exec[j].attempt
             /\ exec'[j].ran = exec[j].ran /\ exec'[j].fate = exec[j].fate
             /\ \/ exec'[j].state = exec[j].state
                \/ exec[j].state = "RUNNING" /\ exec'[j].state \in {"SUCCESS", "FAILED"}
  <2>1. exec'[i] \in Execution /\ exec \in [Exec -> Execution]
    BY <1>1, <1>3 DEF TypeOK
  <2>2. CASE j # i
    BY <1>3, <2>1, <2>2
  <2>3. CASE exec' = [exec EXCEPT ![i].state = "SUCCESS"] /\ exec[i].state = "RUNNING"
    BY <1>3, <2>1, <2>2, <2>3 DEF Execution
  <2>4. CASE /\ exec' = [exec EXCEPT ![i] = [@ EXCEPT !.state = "FAILED", !.push = TRUE]]
             /\ exec[i].state = "RUNNING"
    BY <1>3, <2>1, <2>2, <2>4 DEF Execution
  <2>5. CASE exec' = [exec EXCEPT ![i].push = FALSE]
    BY <1>3, <2>1, <2>2, <2>5 DEF Execution
  <2> QED BY <1>3, <2>3, <2>4, <2>5
<1>5. /\ run'.exec = run.exec
      /\ \/ run'.status = run.status
         \/ Live /\ Live'
  BY <1>1 DEF Finish, Crash, LosePush, StatusPush, HandleStatusPush, Live, TypeOK, RunRow
<1>6. \A j \in Exec, c \in Ban : Current(j, c)' <=> Current(j, c)
  BY <1>2, <1>4, KeptCurrent
<1>7. OneEngine'
  <2>1. \A j \in Exec : exec[j].bans \subseteq Ban
    BY <1>1 DEF TypeOK, Execution
  <2>2. txn' = NoTxn
    BY <1>1, <1>2 DEF OneEngine
  <2>3. \/ run'.status = run.status
        \/ {run.status, run'.status} \cap {"SCHEDULED", "CANCELLED"} = {}
    BY <1>5 DEF Live
  <2>4. \A j \in Exec :
           /\ exec'[j].bans = exec[j].bans /\ exec'[j].known = exec[j].known
           /\ \/ exec'[j].state = exec[j].state
              \/ exec[j].state = "RUNNING" /\ exec'[j].state \in {"SUCCESS", "FAILED"}
           /\ \A c \in exec[j].bans : Current(j, c) => Current(j, c)'
    BY <1>4, <1>6, <2>1
  <2> QED BY <1>1, <1>5, <2>2, <2>3, <2>4, KeptEngine
<1>8. ASSUME NEW c \in Ban
      PROVE  AccountRight(c)'
  <2>1. \A j \in Exec : AtRest(j, c) => AtRest(j, c)'
    BY <1>4 DEF AtRest
  <2>2. AccountRight(c)
    BY DEF OrderlyInv
  <2> QED BY <1>1, <1>2, <1>4, <1>5, <1>6, <2>1, <2>2, KeptAccount
<1> QED BY <1>7, <1>8 DEF OrderlyInv

\* An account whose next stage is due is as its execution has left it.
LEMMA DueIsLeft ==
  ASSUME Known, OrderlyInv, NEW i \in Exec, NEW b \in Ban, NEW s \in Stage, NextStage(i, b, s)
  PROVE  Current(i, b) /\ Live /\ ~acct[b].rejected /\ Left(i, b)
<1>1. TypeOK /\ OneEngine /\ AccountRight(b)
  BY DEF Known, OrderlyInv
<1>2. Current(i, b) /\ run.status \notin {"SCHEDULED", "CANCELLED"}
  BY <1>1, WorkIsCurrent DEF NextStage
<1>3. ~AtRest(i, b)
  BY WorkLeft
<1>4. Live
  BY <1>1, <1>2, <1>3, LiveOrNot DEF AccountRight, Settled
<1> QED BY <1>1, <1>2, <1>3, <1>4 DEF AccountRight, Claims

\* A stage's step keeps the order of executions, and the other accounts.
LEMMA StageKeeps ==
  ASSUME Known, TypeOK', OrderlyInv, NEW i \in Exec, NEW b \in Ban,
         NEW s \in Stage, Ran(i, b, s), UNCHANGED <<run, acct, txn>>,
         \A c \in Ban \ {b} : /\ bill'[c] = bill[c]
                              /\ \A u \in UsageOf(c) : udr'[u] = udr[u]
  PROVE  /\ OneEngine'
         /\ \A c \in Ban \ {b} : AccountRight(c)'
         /\ \A j \in Exec : Current(j, b)' <=> Current(j, b)
         /\ \A j \in Exec : exec'[j].fate[b] = exec[j].fate[b]
         /\ exec'[i].ran[b] = exec[i].ran[b] \cup {s}
<1>1. TypeOK /\ OneEngine
  BY DEF Known, OrderlyInv
<1>2. /\ OnlyProgress(i, b)
      /\ exec'[i].ran[b] = exec[i].ran[b] \cup {s}
      /\ exec'[i].fate[b] = exec[i].fate[b]
  <2>1. exec[i] \in Execution
    BY <1>1 DEF TypeOK
  <2> QED BY <1>1, <2>1 DEF Ran, OnlyProgress, TypeOK, Execution
<1>3. \A j \in Exec, c \in Ban : Current(j, c)' <=> Current(j, c)
  BY <1>2, KeptCurrent DEF OnlyProgress
<1>4. OneEngine'
  <2>1. \A j \in Exec : exec[j].bans \subseteq Ban
    BY <1>1 DEF TypeOK, Execution
  <2>2. txn' = NoTxn
    BY <1>1 DEF OneEngine
  <2>3. \A j \in Exec :
           /\ exec'[j].bans = exec[j].bans /\ exec'[j].known = exec[j].known
           /\ \/ exec'[j].state = exec[j].state
              \/ exec[j].state = "RUNNING" /\ exec'[j].state \in {"SUCCESS", "FAILED"}
           /\ \A c \in exec[j].bans : Current(j, c) => Current(j, c)'
    BY <1>2, <1>3, <2>1 DEF OnlyProgress
  <2> QED BY <1>1, <2>2, <2>3, KeptEngine
<1>5. ASSUME NEW c \in Ban \ {b}
      PROVE  AccountRight(c)'
  <2>1. \A j \in Exec : /\ exec'[j].ran[c] = exec[j].ran[c]
                        /\ exec'[j].fate[c] = exec[j].fate[c]
    BY <1>2 DEF OnlyProgress
  <2>2. \A j \in Exec : AtRest(j, c) => AtRest(j, c)'
    BY <2>1 DEF AtRest
  <2>3. AccountRight(c)
    BY DEF OrderlyInv
  <2> QED BY <1>1, <1>3, <2>1, <2>2, <2>3, KeptAccount
<1> QED BY <1>2, <1>3, <1>4, <1>5 DEF OnlyProgress

\* The account of the stage is right if it is as the execution now leaves it.
LEMMA StageLeaves ==
  ASSUME Known, OrderlyInv, NEW i \in Exec, NEW b \in Ban,
         Current(i, b), Live, ~acct[b].rejected, UNCHANGED <<run, acct>>,
         \A j \in Exec : Current(j, b)' <=> Current(j, b),
         \A j \in Exec : exec'[j].fate[b] = exec[j].fate[b],
         Left(i, b)'
  PROVE  AccountRight(b)'
<1>1. Claims(b)'
  <2>1. \A j \in Exec : Current(j, b)' => j = i
    BY CurrentUnique DEF OrderlyInv
  <2> QED BY <2>1 DEF Claims
<1>2. AccountRight(b)
  BY DEF OrderlyInv
<1> QED BY <1>1, <1>2 DEF AccountRight, Live

\* Collection claims all of an account's usage, for its attempt.
LEMMA CollectKeeps ==
  ASSUME Known, TypeOK', OrderlyInv, NEW i \in Exec, NEW b \in Ban, Collect(i, b)
  PROVE  OrderlyInv'
<1>1. /\ NextStage(i, b, "collection") /\ Ran(i, b, "collection")
      /\ "collection" \in Stage /\ UNCHANGED <<run, acct, bill, txn>>
  BY PipelineAssumption DEF Collect
<1>2. Current(i, b) /\ Live /\ ~acct[b].rejected /\ Left(i, b)
  BY <1>1, DueIsLeft
<1>3. \A c \in Ban \ {b} : \A u \in UsageOf(c) : udr'[u] = udr[u]
  BY DEF Collect, UsageOf
<1>4. /\ OneEngine'
      /\ \A c \in Ban \ {b} : AccountRight(c)'
      /\ \A j \in Exec : Current(j, b)' <=> Current(j, b)
      /\ \A j \in Exec : exec'[j].fate[b] = exec[j].fate[b]
      /\ exec'[i].ran[b] = exec[i].ran[b] \cup {"collection"}
  BY <1>1, <1>3, StageKeeps
<1>5. Free(b) /\ "collection" \notin exec[i].ran[b]
  BY <1>1, <1>2 DEF NextStage, Left
<1>6. Held(b)'
  BY <1>1, <1>2, <1>5 DEF Held, Free, Collect, UsageOf, Current
<1>7. Left(i, b)'
  BY <1>1, <1>2, <1>4, <1>6 DEF Left, UsageOf
<1>8. AccountRight(b)'
  BY <1>1, <1>2, <1>4, <1>7, StageLeaves
<1> QED BY <1>4, <1>8 DEF OrderlyInv

\* Aggregation finds all of it.
LEMMA AggregateKeeps ==
  ASSUME Known, TypeOK', OrderlyInv, NEW i \in Exec, NEW b \in Ban, Aggregate(i, b)
  PROVE  OrderlyInv'
<1>1. /\ NextStage(i, b, "aggregation") /\ Ran(i, b, "aggregation")
      /\ "aggregation" \in Stage /\ UNCHANGED <<run, acct, udr, txn>>
      /\ bill' = [bill EXCEPT ![b] = ClaimedBy(i, b)] /\ bill \in [Ban -> SUBSET Usage]
  BY PipelineAssumption DEF Aggregate, Known, TypeOK
<1>2. Current(i, b) /\ Live /\ ~acct[b].rejected /\ Left(i, b)
  BY <1>1, DueIsLeft
<1>3. \A c \in Ban \ {b} : bill'[c] = bill[c]
  BY <1>1
<1>4. /\ OneEngine'
      /\ \A c \in Ban \ {b} : AccountRight(c)'
      /\ \A j \in Exec : Current(j, b)' <=> Current(j, b)
      /\ \A j \in Exec : exec'[j].fate[b] = exec[j].fate[b]
      /\ exec'[i].ran[b] = exec[i].ran[b] \cup {"aggregation"}
  BY <1>1, <1>3, StageKeeps
<1>5. "collection" \in exec[i].ran[b]
  BY <1>1, PipelineAssumption DEF NextStage, Known, PipelineInv
<1>6. Held(b) /\ Held(b)'
  BY <1>1, <1>2, <1>5 DEF Left, Held, UsageOf
<1>7. ClaimedBy(i, b) = UsageOf(b)
  BY <1>2, <1>6 DEF ClaimedBy, Draft, Held, Current
<1>8. Left(i, b)'
  BY <1>1, <1>4, <1>5, <1>6, <1>7 DEF Left, UsageOf
<1>9. AccountRight(b)'
  BY <1>1, <1>2, <1>4, <1>8, StageLeaves
<1> QED BY <1>4, <1>9 DEF OrderlyInv

\* Whatever the engine does next.
LEMMA EngineKeeps ==
  ASSUME Known, TypeOK', OrderlyInv, Engine
  PROVE  OrderlyInv'
<1>1. PICK i \in Exec :
              \/ \E b \in exec[i].bans :
                    \/ Collect(i, b) \/ Aggregate(i, b) \/ Verify(i, b)
                    \/ OtherStage(i, b) \/ Raise(i, b)
                    \/ PostSignal(i, b) \/ LoseSignal(i, b)
                    \/ PostFailed(i, b) \/ LoseFailed(i, b)
                    \/ Redeliver(i, b)
              \/ Finish(i) \/ Crash(i) \/ StatusPush(i) \/ LosePush(i)
  BY EngineCases
<1>2. TypeOK /\ exec[i] \in Execution /\ exec[i].bans \subseteq Ban
  BY DEF Known, TypeOK, Execution
<1>3. ASSUME NEW b \in exec[i].bans, Verify(i, b) \/ OtherStage(i, b) \/ Raise(i, b)
      PROVE  OrderlyInv'
  <2>1. /\ \/ \E s \in Stage \ {"collection", "aggregation"} : Ran(i, b, s)
           \/ exec' = [exec EXCEPT ![i].fate[b] = "raised"]
        /\ exec[i].fate[b] = "ok"
    BY <1>3, PipelineAssumption DEF Verify, OtherStage, Raise, NextStage, InPipeline
  <2>2. UNCHANGED <<run, acct, udr, bill, txn>>
    BY <1>3 DEF Verify, OtherStage, Raise
  <2>3. /\ OnlyProgress(i, b)
        /\ \/ exec'[i].ran[b] = exec[i].ran[b]
           \/ \E s \in Stage \ {"collection", "aggregation"} :
                 exec'[i].ran[b] = exec[i].ran[b] \cup {s}
    <3>1. ASSUME NEW s \in Stage \ {"collection", "aggregation"}, Ran(i, b, s)
          PROVE  OnlyProgress(i, b) /\ exec'[i].ran[b] = exec[i].ran[b] \cup {s}
      BY <1>2, <3>1 DEF Ran, OnlyProgress, TypeOK, Execution
    <3>2. CASE exec' = [exec EXCEPT ![i].fate[b] = "raised"]
      <4>1. OnlyProgress(i, b) /\ exec'[i].ran[b] = exec[i].ran[b]
        BY <1>2, <3>2 DEF OnlyProgress, TypeOK, Execution
      <4> QED BY <4>1
    <3> QED BY <2>1, <3>1, <3>2
  <2> QED BY <1>2, <2>1, <2>2, <2>3, ProgressKeeps
<1>4. ASSUME NEW b \in exec[i].bans,
             \/ PostSignal(i, b) \/ LoseSignal(i, b)
             \/ PostFailed(i, b) \/ LoseFailed(i, b)
      PROVE  OrderlyInv'
  <2>1. UNCHANGED <<udr, bill, txn>>
    BY <1>4 DEF PostSignal, LoseSignal, PostFailed, LoseFailed
  <2>2. CASE PostSignal(i, b) \/ LoseSignal(i, b)
    <3>1. PICK s \in Stage :
             /\ exec' = [exec EXCEPT ![i].sent[b] = @ \cup {s}]
             /\ \/ UNCHANGED <<run, acct>>
                \/ HandleStageSignal(b, exec[i].attempt, s, "DONE")
      BY <2>2 DEF PostSignal, LoseSignal
    <3>2. /\ OnlyProgress(i, b)
          /\ exec'[i].ran[b] = exec[i].ran[b] /\ exec'[i].fate[b] = exec[i].fate[b]
      BY <1>2, <3>1 DEF OnlyProgress, TypeOK, Execution
    <3> QED BY <1>2, <2>1, <3>1, <3>2, ProgressKeeps
  <2>3. CASE PostFailed(i, b) \/ LoseFailed(i, b)
    <3>1. /\ exec' = [exec EXCEPT ![i].fate[b] = "failed"]
          /\ \/ UNCHANGED <<run, acct>>
             \/ HandleStageSignal(b, exec[i].attempt, "verification", "FAILED")
      BY <2>3 DEF PostFailed, LoseFailed
    <3>2. /\ OnlyProgress(i, b)
          /\ exec'[i].ran[b] = exec[i].ran[b] /\ exec'[i].fate[b] = "failed"
      BY <1>2, <3>1 DEF OnlyProgress, TypeOK, Execution
    <3> QED BY <1>2, <2>1, <3>1, <3>2, ProgressKeeps, PipelineAssumption
  <2> QED BY <1>4, <2>2, <2>3
<1>5. ASSUME NEW b \in exec[i].bans, Redeliver(i, b)
      PROVE  OrderlyInv'
  <2>1. UNCHANGED <<exec, udr, bill, txn>>
    BY <1>5 DEF Redeliver
  <2>2. exec[i].sent[b] \subseteq Stage
    BY <1>2 DEF TypeOK, Execution
  <2>3. \E s \in Stage, o \in {"DONE", "FAILED"} :
           /\ HandleStageSignal(b, exec[i].attempt, s, o)
           /\ o = "FAILED" => exec'[i].fate[b] = "failed"
    BY <1>5, <2>1, <2>2, PipelineAssumption DEF Redeliver
  <2>4. OnlyProgress(i, b)
    BY <2>1 DEF OnlyProgress
  <2> QED BY <1>2, <2>1, <2>3, <2>4, ProgressKeeps
<1> QED BY <1>1, <1>2, <1>3, <1>4, <1>5, CollectKeeps, AggregateKeeps, EndKeeps

-----------------------------------------------------------------------------
(* The operators' steps.                                                   *)

\* An operator who is about to start an execution finds none at work.
LEMMA NobodyAtWork ==
  ASSUME Orderly, OneEngine, Quiescent, NEW j \in Exec
  PROVE  exec[j].state # "RUNNING"
BY DEF Orderly, OneEngine, Quiescent, Used

\* Executions that were known before have attempts below a new snapshot's.
LEMMA OlderAttempts ==
  ASSUME Known, OneEngine, NEW j \in Exec, exec[j].bans # {}, NEW n \in Nat,
         \A b \in Scoped : acct[b].attempt < n
  PROVE  exec[j].attempt < n
<1>1. PICK b \in Scoped : exec[j].attempt <= acct[b].attempt
  BY DEF OneEngine, Known, AttemptInv, RowsRemember
<1>2. exec[j].attempt \in Nat /\ acct[b].attempt \in Nat
  BY DEF Known, TypeOK, Execution, AccountRow, Scoped
<1> QED BY <1>1, <1>2

\* The order of executions after a start.
LEMMA StartOrder ==
  ASSUME Orderly, Known, OneEngine, Quiescent, NEW i \in Exec, NEW bans \in SUBSET Ban, NEW n,
         StartExecution(i, bans, n, TRUE), UNCHANGED txn,
         run'.exec = i, run'.status = "PROCESSING", \A b \in bans : Current(i, b)'
  PROVE  OneEngine'
<1>1. /\ i \notin Used
      /\ \A j \in Exec \ {i} : exec'[j] = exec[j]
      /\ exec'[i].state = "RUNNING" /\ exec'[i].known
      /\ exec'[i].bans = bans /\ exec'[i].attempt = n
  BY DEF Known, TypeOK, StartExecution, Unused, Used
<1>2. Used' = Used \cup {i}
  BY <1>1 DEF Used
<1>3. \A j \in Used : exec[j].known /\ exec[j].state # "RUNNING"
  BY NobodyAtWork DEF OneEngine, Used
<1>4. ASSUME NEW j \in Used'
      PROVE  /\ exec'[j].known
             /\ exec'[j].state = "RUNNING" =>
                   run'.exec = j /\ \A b \in exec'[j].bans : Current(j, b)'
  <2>1. CASE j = i
    BY <1>1, <2>1
  <2>2. CASE j # i
    BY <1>1, <1>2, <1>3, <2>2 DEF Used
  <2> QED BY <2>1, <2>2
<1>5. \A j \in Exec \ Used' : exec'[j].bans = {}
  BY <1>1, <1>2 DEF OneEngine
<1> QED BY <1>4, <1>5, NoneAssumption DEF OneEngine

\* A trigger's snapshot begins with free usage and one execution.
LEMMA TriggerKeeps ==
  ASSUME Orderly, Known, TypeOK', OrderlyInv, NEW op \in Operator, NEW i \in Exec,
         NEW v \in BOOLEAN, NEW pend \in SUBSET Ban, NEW excl \in SUBSET Ban, NEW n \in Nat,
         Trigger(op, i, pend, excl, n, v)
  PROVE  OrderlyInv'
<1>1. TypeOK /\ OneEngine
  BY DEF Known, OrderlyInv
<1>2. /\ Quiescent /\ StartExecution(i, pend, n, TRUE) /\ UNCHANGED <<udr, txn>>
      /\ run.status \in {"SCHEDULED", "CANCELLED"} /\ pend \cap excl = {}
      /\ n > 0 /\ IsHighest(n - 1, Scoped)
      /\ WriteTrigger(op, i, pend, excl, n, v)
  BY DEF Trigger, Triggerable
<1>3. /\ i \notin Used
      /\ \A j \in Exec \ {i} : exec'[j] = exec[j]
      /\ exec'[i].bans = pend /\ exec'[i].attempt = n
      /\ \A b \in Ban : exec'[i].ran[b] = {}
  BY <1>1, <1>2 DEF TypeOK, StartExecution, Unused, Used
<1>4. run'.exec = i /\ run'.status = "PROCESSING"
  BY <1>1, <1>2 DEF WriteTrigger, TypeOK, RunRow
<1>5. ASSUME NEW b \in Ban
      PROVE  /\ b \in Scoped' => acct'[b].attempt = n
             /\ b \in pend => b \in Scoped' /\ acct'[b].status = "PENDING"
             /\ acct'[b].status \in {"PENDING", "EXCLUDED", "NONE"} /\ ~acct'[b].rejected
             /\ acct'[b].status = "EXCLUDED" => b \notin pend
  BY <1>2 DEF WriteTrigger, Unscoped, Scoped
<1>6. \A b \in pend : Current(i, b)'
  BY <1>3, <1>5 DEF Current
<1>7. ASSUME NEW j \in Exec, NEW b \in Ban, Current(j, b)'
      PROVE  j = i /\ b \in pend
  <2>1. CASE j # i
    <3>1. exec[j].bans # {} /\ exec[j].attempt = n
      BY <1>3, <1>5, <1>7, <2>1 DEF Current
    <3>2. \A c \in Scoped : acct[c].attempt < n
      BY <1>1, <1>2, NewerThan DEF Scoped
    <3>3. exec[j].attempt < n
      BY <1>1, <3>1, <3>2, OlderAttempts
    <3> QED BY <3>1, <3>3
  <2> QED BY <1>3, <1>7, <2>1 DEF Current
<1>8. OneEngine'
  BY <1>1, <1>2, <1>4, <1>6, StartOrder
<1>9. ASSUME NEW b \in Ban
      PROVE  AccountRight(b)'
  <2>1. Free(b)'
    BY <1>2 DEF OrderlyInv, AccountRight, Free, UsageOf
  <2>2. Claims(b)'
    BY <1>3, <1>5, <1>7, <2>1 DEF Claims, Left
  <2> QED BY <1>4, <1>5, <1>7, <2>2 DEF AccountRight
<1> QED BY <1>8, <1>9 DEF OrderlyInv

\* The release: an account's usage, claimed or free as a whole, becomes free.
LEMMA Released ==
  ASSUME NEW S \in SUBSET Ban, NEW b \in Ban
  PROVE  /\ b \in S /\ (Held(b) \/ Free(b)) =>
               \A u \in UsageOf(b) : Release(S)[u].status = "RATED"
         /\ b \notin S => \A u \in UsageOf(b) : Release(S)[u] = udr[u]
BY DEF Release, Held, Free, UsageOf, Draft, Rated

\* A rerun starts its accounts afresh and leaves the others as they are.
LEMMA RerunKeeps ==
  ASSUME Orderly, Known, TypeOK', OrderlyInv, NEW op \in Operator, NEW i \in Exec,
         NEW v \in BOOLEAN, NEW sel \in SUBSET Ban, NEW n \in Nat,
         Rerun(op, i, sel, n, v)
  PROVE  OrderlyInv'
<1>1. TypeOK /\ OneEngine
  BY DEF Known, OrderlyInv
<1>2. /\ Quiescent /\ StartExecution(i, sel, n, TRUE) /\ UNCHANGED <<bill, txn>>
      /\ run.status \in {"PROCESSED", "PROCESSING_FAILED"}
      /\ \A b \in sel : acct[b].status \notin {"NONE", "EXCLUDED"}
      /\ n > 0 /\ IsHighest(n - 1, sel)
      /\ WriteRerun(op, i, sel, n, v)
      /\ udr' = Release(sel)
  BY DEF Rerun, Rerunnable
<1>3. /\ i \notin Used
      /\ \A j \in Exec \ {i} : exec'[j] = exec[j]
      /\ exec'[i].bans = sel /\ exec'[i].attempt = n
      /\ \A b \in Ban : exec'[i].ran[b] = {}
  BY <1>1, <1>2 DEF TypeOK, StartExecution, Unused, Used
<1>4. /\ run'.exec = i /\ run'.status = "PROCESSING"
      /\ Live /\ Live'
  BY <1>1, <1>2 DEF WriteRerun, TypeOK, RunRow, Live
<1>5. ASSUME NEW b \in sel
      PROVE  /\ b \in Scoped' /\ acct'[b].attempt = n
             /\ acct'[b].status = "PROCESSING" /\ ~acct'[b].rejected
  BY <1>2 DEF WriteRerun, Unscoped, Scoped
<1>6. \A b \in Ban \ sel : acct'[b] = acct[b]
  BY <1>2 DEF WriteRerun
<1>7. \A b \in sel : Current(i, b)'
  BY <1>3, <1>5 DEF Current
<1>8. ASSUME NEW j \in Exec, NEW b \in sel, Current(j, b)'
      PROVE  j = i
  <2>1. CASE j # i
    <3>1. b \in exec[j].bans /\ exec[j].attempt = n
      BY <1>3, <1>5, <1>8, <2>1 DEF Current
    <3>2. b \in Scoped /\ acct[b].attempt < n
      BY <1>1, <1>2, NewerThan DEF Scoped
    <3>3. exec[j].attempt <= acct[b].attempt
      BY <1>1, <3>1, <3>2 DEF OneEngine, Known, AttemptInv, RowsRemember
    <3>4. exec[j].attempt \in Nat /\ acct[b].attempt \in Nat
      BY <1>1 DEF TypeOK, Execution, AccountRow
    <3> QED BY <3>1, <3>2, <3>3, <3>4
  <2> QED BY <2>1
<1>9. OneEngine'
  BY <1>1, <1>2, <1>4, <1>7, StartOrder
<1>10. ASSUME NEW b \in sel
       PROVE  AccountRight(b)'
  <2>1. Free(b)'
    BY <1>2, <1>4, HeldOrFree, Released DEF OrderlyInv, Free, UsageOf
  <2>2. Claims(b)'
    BY <1>3, <1>5, <1>8, <2>1 DEF Claims, Left
  <2> QED BY <1>4, <1>5, <2>2 DEF AccountRight
<1>11. ASSUME NEW b \in Ban \ sel
       PROVE  AccountRight(b)'
  <2>1. \A j \in Exec : Current(j, b)' <=> Current(j, b)
    BY <1>1, <1>3, <1>6 DEF Current, Scoped, OneEngine
  <2>2. \A j \in Exec : Current(j, b) => exec'[j] = exec[j]
    BY <1>1, <1>3 DEF Current, OneEngine
  <2>3. \A j \in Exec : Current(j, b) => (AtRest(j, b) => AtRest(j, b)')
    BY <2>2 DEF AtRest
  <2>4. \A u \in UsageOf(b) : udr'[u] = udr[u]
    BY <1>2, Released
  <2>5. AccountRight(b)
    BY DEF OrderlyInv
  <2> QED BY <1>1, <1>2, <1>4, <1>6, <2>1, <2>2, <2>3, <2>4, <2>5, KeptAccount
<1> QED BY <1>9, <1>10, <1>11 DEF OrderlyInv

\* A cancel stops the engine and frees everything.
LEMMA CancelKeeps ==
  ASSUME Orderly, Known, TypeOK', OrderlyInv, NEW killed \in BOOLEAN, Cancel(killed)
  PROVE  OrderlyInv'
<1>1. TypeOK /\ OneEngine
  BY DEF Known, OrderlyInv
<1>2. /\ run.status = "PROCESSING" /\ Live /\ UNCHANGED <<bill, txn>>
      /\ udr' = Release(Ban)
      /\ run'.status = "CANCELLED" /\ run'.exec = None
      /\ exec' = IF exec[run.exec].state = "RUNNING"
                 THEN [exec EXCEPT ![run.exec] = [@ EXCEPT !.state = "KILLED", !.push = TRUE]]
                 ELSE exec
  BY <1>1 DEF Cancel, Orderly, Live, TypeOK, RunRow
<1>3. run.exec \in Exec
  BY <1>1, <1>2 DEF OneEngine, TypeOK, RunRow
<1>4. ASSUME NEW b \in Ban
      PROVE  /\ acct'[b].attempt = acct[b].attempt
             /\ acct'[b].status = "NONE" <=> acct[b].status = "NONE"
             /\ acct'[b].status \notin {"PROCESSED", "PROCESSING_FAILED"}
             /\ acct'[b].status = "EXCLUDED" => acct[b].status = "EXCLUDED"
  BY <1>1 DEF Cancel, TypeOK, AccountRow
<1>5. ASSUME NEW j \in Exec
      PROVE  /\ exec'[j].bans = exec[j].bans /\ exec'[j].known = exec[j].known
             /\ exec'[j].attempt = exec[j].attempt /\ exec'[j].fate = exec[j].fate
             /\ exec'[j].state = "UNUSED" <=> exec[j].state = "UNUSED"
             /\ exec[j].state # "RUNNING" => exec'[j] = exec[j]
             /\ exec[j].state = "RUNNING" => exec'[j].state = "KILLED"
  <2>1. exec[run.exec] \in Execution /\ exec \in [Exec -> Execution]
    BY <1>1, <1>3 DEF TypeOK
  <2>2. CASE j = run.exec
    BY <1>2, <2>1, <2>2 DEF Execution
  <2>3. CASE j # run.exec
    <3>1. exec[j].state # "RUNNING"
      BY <1>1, <2>3 DEF OneEngine, Used
    <3> QED BY <1>2, <2>1, <2>3, <3>1
  <2> QED BY <2>2, <2>3
<1>6. \A j \in Exec, b \in Ban : Current(j, b)' <=> Current(j, b)
  BY <1>4, <1>5, KeptCurrent
<1>7. OneEngine'
  <2>1. Used' = Used
    BY <1>5 DEF Used
  <2>2. ASSUME NEW j \in Used
        PROVE  exec'[j].known /\ exec'[j].state # "RUNNING"
    BY <1>1, <1>5 DEF OneEngine, Used
  <2>3. \A j \in Exec \ Used : exec'[j] = exec[j]
    BY <1>5 DEF Used
  <2> QED BY <1>1, <1>2, <2>1, <2>2, <2>3 DEF OneEngine
<1>8. ASSUME NEW b \in Ban
      PROVE  AccountRight(b)'
  <2>1. AccountRight(b)
    BY DEF OrderlyInv
  <2>2. Free(b)'
    BY <1>2, <2>1, HeldOrFree, Released DEF Free, UsageOf
  <2>3. acct'[b].status = "EXCLUDED" => \A j \in Exec : Current(j, b)' => exec'[j].fate[b] = "failed"
    BY <1>4, <1>5, <1>6, <2>1 DEF AccountRight
  <2> QED BY <1>2, <1>4, <2>2, <2>3 DEF AccountRight, Live
<1> QED BY <1>7, <1>8 DEF OrderlyInv

\* A rejection frees its accounts, whose executions have finished with them.
LEMMA RejectKeeps ==
  ASSUME Known, TypeOK', OrderlyInv, NEW sel \in SUBSET Ban, Reject(sel)
  PROVE  OrderlyInv'
<1>1. TypeOK /\ OneEngine
  BY DEF Known, OrderlyInv
<1>2. /\ Live /\ Live' /\ UNCHANGED <<run, exec, txn>> /\ udr' = Release(sel)
      /\ \A b \in sel : acct[b].status = "PROCESSED"
  BY DEF Reject, Live
<1>3. /\ \A b \in Ban : acct'[b].attempt = acct[b].attempt /\ acct'[b].status = acct[b].status
      /\ \A b \in sel : acct'[b].rejected
      /\ \A b \in Ban \ sel : acct'[b] = acct[b] /\ bill'[b] = bill[b]
  BY <1>1 DEF Reject, TypeOK, AccountRow
<1>4. \A j \in Exec, b \in Ban : Current(j, b)' <=> Current(j, b)
  BY <1>2, <1>3, KeptCurrent
<1>5. OneEngine'
  <2>1. \A j \in Exec : exec[j].bans \subseteq Ban
    BY <1>1 DEF TypeOK, Execution
  <2>2. txn' = NoTxn /\ run' = run /\ exec' = exec
    BY <1>1, <1>2 DEF OneEngine
  <2> QED BY <1>1, <1>4, <2>1, <2>2, KeptEngine
<1>6. ASSUME NEW b \in sel
      PROVE  AccountRight(b)'
  <2>1. Free(b)'
    BY <1>2, HeldOrFree, Released DEF OrderlyInv, Free, UsageOf
  <2>2. \A j \in Exec : Current(j, b)' => AtRest(j, b)'
    BY <1>1, <1>2, <1>4, ProcessedByCurrent DEF AtRest
  <2> QED BY <1>2, <1>3, <2>1, <2>2 DEF AccountRight, Claims, Live
<1>7. ASSUME NEW b \in Ban \ sel
      PROVE  AccountRight(b)'
  <2>1. \A u \in UsageOf(b) : udr'[u] = udr[u]
    BY <1>2, Released
  <2>2. AccountRight(b) /\ \A j \in Exec : AtRest(j, b)' <=> AtRest(j, b)
    BY <1>2 DEF OrderlyInv, AtRest
  <2>3. exec' = exec /\ run' = run
    BY <1>2
  <2> QED BY <1>1, <1>3, <1>4, <2>1, <2>2, <2>3, KeptAccount
<1> QED BY <1>5, <1>6, <1>7 DEF OrderlyInv

\* An approval consumes what is billed and frees what is skipped.
LEMMA ApproveKeeps ==
  ASSUME Known, TypeOK', OrderlyInv, NEW op \in Operator, Approve(op)
  PROVE  OrderlyInv'
<1>1. TypeOK /\ OneEngine
  BY DEF Known, OrderlyInv
<1>2. /\ Live /\ run.status = "PROCESSED" /\ UNCHANGED <<exec, bill, txn>>
      /\ run'.status = "APPROVED" /\ run'.exec = run.exec
      /\ udr' = MarkApproved(Release(Skipped))
      /\ \A b \in Scoped : acct[b].status \in Terminal /\ ~acct[b].rejected
  BY <1>1 DEF Approve, Live, AccountsTerminal, NoRejectedPending, TypeOK, RunRow
<1>3. ASSUME NEW b \in Ban
      PROVE  /\ acct'[b].attempt = acct[b].attempt
             /\ acct'[b].status = "NONE" <=> acct[b].status = "NONE"
             /\ acct'[b].status = "PROCESSED" <=> acct[b].status = "PROCESSED"
             /\ acct'[b].status \notin {"PROCESSING_FAILED", "EXCLUDED"}
  BY <1>1 DEF Approve, Skipped, TypeOK, AccountRow
<1>4. \A j \in Exec, b \in Ban : Current(j, b)' <=> Current(j, b)
  BY <1>2, <1>3, KeptCurrent
<1>5. OneEngine'
  <2>1. \A j \in Exec : exec[j].bans \subseteq Ban
    BY <1>1 DEF TypeOK, Execution
  <2>2. txn' = NoTxn /\ exec' = exec
    BY <1>1, <1>2 DEF OneEngine
  <2> QED BY <1>1, <1>2, <1>4, <2>1, <2>2, KeptEngine
<1>6. ASSUME NEW b \in Ban
      PROVE  AccountRight(b)'
  <2>1. AccountRight(b)
    BY DEF OrderlyInv
  <2>2. \/ acct[b].status = "PROCESSED" /\ ~acct[b].rejected /\ b \notin Skipped
        \/ acct[b].status \in {"PROCESSING_FAILED", "EXCLUDED"} /\ b \in Skipped
        \/ acct[b].status = "NONE" /\ b \notin Skipped
    BY <1>2 DEF Scoped, Terminal, Skipped
  <2>3. CASE acct[b].status = "PROCESSED" /\ ~acct[b].rejected /\ b \notin Skipped
    <3>1. Held(b) /\ bill[b] = UsageOf(b)
      BY <1>1, <1>2, <2>1, <2>3, ProcessedIsBilled
    <3>2. \A u \in UsageOf(b) : udr'[u].status = "BILL_APPROVED"
      <4>1. \A u \in UsageOf(b) : Release(Skipped)[u] = udr[u] /\ u \in Usage
        BY <2>3, Released DEF UsageOf, Skipped
      <4> QED BY <1>1, <1>2, <3>1, <4>1 DEF MarkApproved, Held
    <3>3. \A j \in Exec : Current(j, b)' => AtRest(j, b)'
      BY <1>1, <1>2, <1>4, <2>3, ProcessedByCurrent DEF AtRest
    <3> QED BY <1>2, <1>3, <2>3, <3>1, <3>2, <3>3 DEF AccountRight, Settled, Live, UsageOf
  <2>4. CASE acct[b].status \in {"PROCESSING_FAILED", "EXCLUDED"} /\ b \in Skipped
    <3>1. \A u \in UsageOf(b) : Release(Skipped)[u].status = "RATED" /\ u \in Usage
      BY <1>2, <2>1, <2>4, HeldOrFree, Released DEF UsageOf, Skipped
    <3>2. Free(b)'
      BY <1>2, <3>1 DEF MarkApproved, Free, UsageOf
    <3>3. \A j \in Exec : Current(j, b)' => AtRest(j, b)'
      BY <1>2, <1>4, <2>1, <2>4 DEF AtRest, AccountRight
    <3> QED BY <1>2, <1>3, <2>4, <3>2, <3>3 DEF AccountRight, Settled, Live
  <2>5. CASE acct[b].status = "NONE" /\ b \notin Skipped
    <3>1. \A j \in Exec : ~Current(j, b)
      BY <2>5 DEF Current, Scoped
    <3>2. Free(b)
      BY <1>2, <2>1, <3>1 DEF AccountRight, Claims
    <3>3. \A u \in UsageOf(b) : Release(Skipped)[u] = udr[u] /\ u \in Usage
      BY <2>5, Released DEF UsageOf, Skipped
    <3>4. Free(b)'
      BY <1>2, <3>2, <3>3 DEF MarkApproved, Free, UsageOf
    <3> QED BY <1>2, <1>3, <1>4, <2>5, <3>1, <3>4 DEF AccountRight, Settled, Live
  <2> QED BY <2>2, <2>3, <2>4, <2>5
<1> QED BY <1>5, <1>6 DEF OrderlyInv

\* A status check settles a run, and a close is not concerned with it.
LEMMA ReconcileKeeps ==
  ASSUME Known, TypeOK', OrderlyInv, Reconcile \/ ClosePeriod \/ UNCHANGED vars
  PROVE  OrderlyInv'
<1>1. TypeOK /\ OneEngine
  BY DEF Known, OrderlyInv
<1>2. /\ UNCHANGED <<acct, exec, udr, bill, txn>> /\ run'.exec = run.exec
      /\ \/ run'.status = run.status
         \/ Live /\ Live'
  <2>1. CASE Reconcile
    BY <1>1, <2>1 DEF Reconcile, ComputeRunStatus, Live, TypeOK, RunRow
  <2>2. CASE ClosePeriod \/ UNCHANGED vars
    BY <2>2 DEF ClosePeriod, vars
  <2> QED BY <2>1, <2>2
<1>3. \A j \in Exec, b \in Ban : Current(j, b)' <=> Current(j, b)
  BY <1>2, KeptCurrent
<1>4. OneEngine'
  <2>1. \A j \in Exec : exec[j].bans \subseteq Ban
    BY <1>1 DEF TypeOK, Execution
  <2>2. txn' = NoTxn /\ exec' = exec
    BY <1>1, <1>2 DEF OneEngine
  <2>3. \/ run'.status = run.status
        \/ {run.status, run'.status} \cap {"SCHEDULED", "CANCELLED"} = {}
    BY <1>2 DEF Live
  <2> QED BY <1>1, <1>2, <1>3, <2>1, <2>2, <2>3, KeptEngine
<1>5. ASSUME NEW b \in Ban
      PROVE  AccountRight(b)'
  <2>1. AccountRight(b) /\ \A j \in Exec : AtRest(j, b)' <=> AtRest(j, b)
    BY <1>2 DEF OrderlyInv, AtRest
  <2> QED BY <1>1, <1>2, <1>3, <2>1, KeptAccount
<1> QED BY <1>4, <1>5 DEF OrderlyInv

LEMMA OrderlyStep ==
  ASSUME Orderly, Known, TypeOK', OrderlyInv, [Next]_vars
  PROVE  OrderlyInv'
<1>1. ASSUME Operate
      PROVE  OrderlyInv'
  <2>1. ~CommitTrigger /\ ~CommitRerun
    BY NoneOpen DEF OrderlyInv, OneEngine
  <2>2. "early" \notin Faults
    BY DEF Orderly
  <2>3. ~RollBack
    BY DEF RollBack, Unlocked, OrderlyInv, OneEngine
  <2>4. ASSUME NEW op \in Operator, NEW i \in Exec, NEW v \in BOOLEAN,
               NEW S \in SUBSET Ban, NEW T \in SUBSET Ban, NEW n \in Nat
        PROVE  ~OpenTrigger(op, i, S, T, n, v) /\ ~OpenRerun(op, i, S, n, v)
    BY <2>2 DEF OpenTrigger, OpenRerun
  <2>5. \/ \E op \in Operator, i \in Exec, v \in BOOLEAN,
           pend, excl \in SUBSET Ban, n \in Nat : Trigger(op, i, pend, excl, n, v)
        \/ \E op \in Operator, i \in Exec, v \in BOOLEAN,
           sel \in SUBSET Ban, n \in Nat : Rerun(op, i, sel, n, v)
        \/ \E killed \in BOOLEAN : Cancel(killed)
        \/ \E sel \in SUBSET Ban : Reject(sel)
        \/ \E op \in Operator : Approve(op)
        \/ Reconcile \/ ClosePeriod
    BY <1>1, <2>1, <2>3, <2>4, OperateCases
  <2> QED BY <2>5, TriggerKeeps, RerunKeeps, CancelKeeps, RejectKeeps, ApproveKeeps,
             ReconcileKeeps
<1> QED BY <1>1, EngineKeeps, ReconcileKeeps DEF Next

-----------------------------------------------------------------------------
(* The theorems.                                                           *)

LEMMA OrderlyInit == Init => OrderlyInv
BY NoneAssumption DEF Init, OrderlyInv, OneEngine, AccountRight, Free, Unscoped, Unused, Used,
   Rated, UsageOf, Live

LEMMA KnownInvariant == Spec => []Known
<1>1. Init => AttemptInv
  <2>1. Init => Used = {} /\ txn.kind = "none"
    BY DEF Init, Used, Unused, NoTxn
  <2> QED BY <2>1 DEF AttemptInv, AttemptFresh, RowsRemember, OpenTxnInv
<1>2. Spec => [](TypeOK /\ PipelineInv)
  BY PipelineInit, PipelineStep, TypeCorrect, PTL DEF Spec
<1>3. Spec => []AttemptInv
  BY <1>1, <1>2, AttemptStep, TypeCorrect, PTL DEF Spec
<1> QED BY <1>2, <1>3, EvidenceTheorem, PTL DEF Known

LEMMA OrderlyInvariant ==
  ASSUME Orderly
  PROVE  Spec => []OrderlyInv
<1>1. Known /\ TypeOK' /\ OrderlyInv /\ [Next]_vars => OrderlyInv'
  BY OrderlyStep
<1> QED BY <1>1, OrderlyInit, KnownInvariant, TypeCorrect, PTL DEF Spec

\* No silent under-billing: an account that is PROCESSED has all its usage
\* claimed and billed, and an approved run has consumed what it invoices and
\* nothing else, wherever stages raise, executions crash and callbacks go astray.
THEOREM UnderbilledTheorem ==
  ASSUME Orderly
  PROVE  Spec => []NothingUnderbilled
BY OrderlyInvariant, KnownInvariant, OrderlyInvImplies, PTL

\* No claim outlives its attempt (Inv. 19 of billmgmt-architecture.md).
THEOREM StrandedTheorem ==
  ASSUME Orderly
  PROVE  Spec => []NothingStranded
BY OrderlyInvariant, KnownInvariant, OrderlyInvImplies, PTL

\* Nothing that still runs changes what was approved: claims and bills are
\* written without the run's lock.
THEOREM FrozenTheorem ==
  ASSUME Orderly
  PROVE  Spec => ApprovedIsFrozen
<1>1. Known /\ OrderlyInv /\ [Next]_vars =>
         [run.status = "APPROVED" => UNCHANGED <<run, acct, udr, bill>>]_vars
  BY ApprovedWritesNothing
<1> QED BY <1>1, OrderlyInvariant, KnownInvariant, PTL DEF Spec, ApprovedIsFrozen

-----------------------------------------------------------------------------
(* Pushes, when an operator also waits for those of the executions he knows. *)

\* A push is delivered to the run of its execution, or finds it cancelled.
LEMMA PushesOperate ==
  ASSUME Orderly, "late_push" \notin Faults, Known, OrderlyInv, PushesRight, Operate
  PROVE  PushesRight'
<1>1. TypeOK /\ OneEngine /\ ~CommitTrigger /\ ~CommitRerun
  BY NoneOpen DEF Known, OrderlyInv, OneEngine
<1>2. run.status \notin {"SCHEDULED", "CANCELLED"} => run.exec \in Exec
  BY <1>1 DEF OneEngine, TypeOK, RunRow
<1>3. ASSUME NEW i \in Exec, NEW bans, NEW n, Quiescent, StartExecution(i, bans, n, TRUE),
             run'.status = "PROCESSING"
      PROVE  PushesRight'
  <2>1. \A j \in Exec : ~exec[j].push
    BY <1>1, <1>3 DEF Quiescent, OneEngine, PushesRight, Used
  <2>2. exec' = [exec EXCEPT ![i] = exec'[i]] /\ ~exec'[i].push
    BY <1>1, <1>3 DEF StartExecution, TypeOK, Unused
  <2> QED BY <1>1, <1>3, <2>1, <2>2 DEF PushesRight, FailedOnlyIfDead, TypeOK
<1>4. ASSUME NEW op \in Operator, NEW i \in Exec, NEW v \in BOOLEAN,
             NEW S \in SUBSET Ban, NEW T \in SUBSET Ban, NEW n \in Nat,
             Trigger(op, i, S, T, n, v) \/ Rerun(op, i, S, n, v)
      PROVE  PushesRight'
  BY <1>1, <1>3, <1>4 DEF Trigger, Rerun, WriteTrigger, WriteRerun, TypeOK, RunRow
<1>5. ASSUME NEW killed \in BOOLEAN, Cancel(killed)
      PROVE  PushesRight'
  <2>1. run'.status = "CANCELLED" /\ run'.exec = None /\ run.exec \in Exec
    BY <1>1, <1>2, <1>5 DEF Cancel, TypeOK, RunRow
  <2>2. \/ exec' = exec
        \/ exec' = [exec EXCEPT ![run.exec] = [@ EXCEPT !.state = "KILLED", !.push = TRUE]]
    BY <1>5 DEF Cancel
  <2>3. \A j \in Exec : exec'[j].push => exec'[j].state \in {"FAILED", "KILLED"}
    <3>1. exec[run.exec] \in Execution /\ exec \in [Exec -> Execution]
      BY <1>1, <2>1 DEF TypeOK
    <3>2. CASE exec' = [exec EXCEPT ![run.exec] = [@ EXCEPT !.state = "KILLED", !.push = TRUE]]
      BY <2>1, <3>1, <3>2 DEF PushesRight, Execution
    <3> QED BY <2>2, <3>2 DEF PushesRight
  <2> QED BY <2>1, <2>3 DEF PushesRight, FailedOnlyIfDead
<1>6. ASSUME \/ \E sel \in SUBSET Ban : Reject(sel)
             \/ \E op \in Operator : Approve(op)
             \/ Reconcile \/ ClosePeriod
      PROVE  PushesRight'
  <2>1. UNCHANGED exec /\ run'.exec = run.exec
    BY <1>1, <1>6 DEF Reject, Approve, Reconcile, ClosePeriod, TypeOK, RunRow
  <2>2. run'.status = "PROCESSING_FAILED" =>
           \/ run.status = "PROCESSING_FAILED"
           \/ exec[run.exec].state \in {"FAILED", "KILLED"}
    BY <1>1, <1>6 DEF Reject, Approve, Reconcile, ClosePeriod, ComputeRunStatus, TypeOK, RunRow
  <2> QED BY <2>1, <2>2 DEF PushesRight, FailedOnlyIfDead
<1>7. ~RollBack
  BY <1>1 DEF RollBack, Unlocked, OneEngine
<1>8. ASSUME NEW op \in Operator, NEW i \in Exec, NEW v \in BOOLEAN,
             NEW S \in SUBSET Ban, NEW T \in SUBSET Ban, NEW n \in Nat
      PROVE  ~OpenTrigger(op, i, S, T, n, v) /\ ~OpenRerun(op, i, S, n, v)
  BY DEF OpenTrigger, OpenRerun, Orderly
<1> QED BY <1>1, <1>4, <1>5, <1>6, <1>7, <1>8, OperateCases

LEMMA PushesEngine ==
  ASSUME Known, OrderlyInv, PushesRight, Engine
  PROVE  PushesRight'
<1>1. TypeOK /\ OneEngine
  BY DEF Known, OrderlyInv
<1>2. PICK i \in Exec :
              \/ \E b \in exec[i].bans :
                    \/ Collect(i, b) \/ Aggregate(i, b) \/ Verify(i, b)
                    \/ OtherStage(i, b) \/ Raise(i, b)
                    \/ PostSignal(i, b) \/ LoseSignal(i, b)
                    \/ PostFailed(i, b) \/ LoseFailed(i, b)
                    \/ Redeliver(i, b)
              \/ Finish(i) \/ Crash(i) \/ StatusPush(i) \/ LosePush(i)
  BY EngineCases
<1>3. exec[i] \in Execution /\ exec[i].bans \subseteq Ban
  BY <1>1 DEF TypeOK, Execution
<1>4. CASE Finish(i) \/ Crash(i) \/ LosePush(i)
  <2>1. /\ run' = run
        /\ \/ exec' = [exec EXCEPT ![i].state = "SUCCESS"] /\ exec[i].state = "RUNNING"
           \/ /\ exec' = [exec EXCEPT ![i] = [@ EXCEPT !.state = "FAILED", !.push = TRUE]]
              /\ exec[i].state = "RUNNING"
           \/ exec' = [exec EXCEPT ![i].push = FALSE]
    BY <1>4 DEF Finish, Crash, LosePush
  <2>2. exec[i].state = "RUNNING" => run.exec = i /\ ~exec[i].push
    BY <1>1 DEF OneEngine, PushesRight, Used
  <2>3. ASSUME NEW j \in Exec
        PROVE  /\ exec[j].state \in {"FAILED", "KILLED"} => exec'[j].state = exec[j].state
               /\ exec'[j].push => exec'[j].state \in {"FAILED", "KILLED"} /\ run.exec \in {j, None}
    <3>1. exec \in [Exec -> Execution]
      BY <1>1 DEF TypeOK
    <3>2. CASE exec' = [exec EXCEPT ![i].state = "SUCCESS"] /\ exec[i].state = "RUNNING"
      BY <1>3, <2>2, <3>1, <3>2 DEF Execution, PushesRight
    <3>3. CASE /\ exec' = [exec EXCEPT ![i] = [@ EXCEPT !.state = "FAILED", !.push = TRUE]]
               /\ exec[i].state = "RUNNING"
      BY <1>3, <2>2, <3>1, <3>3 DEF Execution, PushesRight
    <3>4. CASE exec' = [exec EXCEPT ![i].push = FALSE]
      BY <1>3, <3>1, <3>4 DEF Execution, PushesRight
    <3> QED BY <2>1, <3>2, <3>3, <3>4
  <2>4. FailedOnlyIfDead'
    <3>1. SUFFICES ASSUME run.status = "PROCESSING_FAILED"
                   PROVE  exec'[run.exec].state \in {"FAILED", "KILLED"}
      BY <2>1 DEF FailedOnlyIfDead
    <3>2. run.exec \in Exec /\ exec[run.exec].state \in {"FAILED", "KILLED"}
      BY <1>1, <3>1 DEF OneEngine, PushesRight, FailedOnlyIfDead, TypeOK, RunRow
    <3> QED BY <2>3, <3>2
  <2> QED BY <2>1, <2>3, <2>4 DEF PushesRight
<1>5. CASE StatusPush(i)
  <2>1. /\ exec[i].push /\ exec' = [exec EXCEPT ![i].push = FALSE]
        /\ run'.exec = run.exec
        /\ \/ run'.status = run.status
           \/ run.status = "PROCESSING"
    BY <1>1, <1>5 DEF StatusPush, HandleStatusPush, TypeOK, RunRow
  <2>2. \A j \in Exec : exec'[j].state = exec[j].state /\ (exec'[j].push => exec[j].push)
    BY <1>1, <1>3, <2>1 DEF TypeOK, Execution
  <2>3. /\ run.status = "PROCESSING" => run.exec = i
        /\ run.status \notin {"SCHEDULED", "CANCELLED"} => run.exec \in Exec
    BY <1>1, <2>1 DEF PushesRight, OneEngine, TypeOK, RunRow
  <2>4. exec[i].state \in {"FAILED", "KILLED"}
    BY <2>1 DEF PushesRight
  <2>5. FailedOnlyIfDead'
    BY <2>1, <2>2, <2>3, <2>4 DEF PushesRight, FailedOnlyIfDead
  <2> QED BY <2>1, <2>2, <2>5 DEF PushesRight
<1>6. ASSUME NEW b \in exec[i].bans,
             \/ Collect(i, b) \/ Aggregate(i, b) \/ Verify(i, b)
             \/ OtherStage(i, b) \/ Raise(i, b)
             \/ PostSignal(i, b) \/ LoseSignal(i, b)
             \/ PostFailed(i, b) \/ LoseFailed(i, b)
             \/ Redeliver(i, b)
      PROVE  PushesRight'
  <2>1. \A j \in Exec : exec'[j].state = exec[j].state /\ exec'[j].push = exec[j].push
    <3>1. \/ \E s \in Stage : \/ exec' = [exec EXCEPT ![i].ran[b] = @ \cup {s}]
                           \/ exec' = [exec EXCEPT ![i].sent[b] = @ \cup {s}]
          \/ exec' = [exec EXCEPT ![i].fate[b] = "raised"]
          \/ exec' = [exec EXCEPT ![i].fate[b] = "failed"]
          \/ exec' = exec
      BY <1>6, PipelineAssumption DEF Collect, Aggregate, Verify, OtherStage, Raise, PostSignal,
         LoseSignal, PostFailed, LoseFailed, Redeliver, Ran
    <3>2. exec \in [Exec -> Execution]
      BY <1>1 DEF TypeOK
    <3>3. ASSUME NEW s \in Stage, exec' = [exec EXCEPT ![i].ran[b] = @ \cup {s}]
          PROVE  exec'[i].state = exec[i].state /\ exec'[i].push = exec[i].push
      BY <1>3, <3>2, <3>3 DEF Execution
    <3>4. ASSUME NEW s \in Stage, exec' = [exec EXCEPT ![i].sent[b] = @ \cup {s}]
          PROVE  exec'[i].state = exec[i].state /\ exec'[i].push = exec[i].push
      BY <1>3, <3>2, <3>4 DEF Execution
    <3>5. ASSUME exec' = [exec EXCEPT ![i].fate[b] = "raised"]
          PROVE  exec'[i].state = exec[i].state /\ exec'[i].push = exec[i].push
      BY <1>3, <3>2, <3>5 DEF Execution
    <3>6. ASSUME exec' = [exec EXCEPT ![i].fate[b] = "failed"]
          PROVE  exec'[i].state = exec[i].state /\ exec'[i].push = exec[i].push
      BY <1>3, <3>2, <3>6 DEF Execution
    <3>7. \A j \in Exec \ {i} : exec'[j] = exec[j]
      BY <3>1, <3>2
    <3> QED BY <3>1, <3>3, <3>4, <3>5, <3>6, <3>7
  <2>2. /\ run'.exec = run.exec
        /\ run'.status = "PROCESSING_FAILED" => run.status = "PROCESSING_FAILED"
    <3>1. ASSUME NEW s \in Stage, NEW o, HandleStageSignal(b, exec[i].attempt, s, o)
          PROVE  /\ run'.exec = run.exec
                 /\ run'.status = "PROCESSING_FAILED" => run.status = "PROCESSING_FAILED"
      BY <1>1, <1>3, <3>1 DEF HandleStageSignal, ComputeRunStatus, TypeOK, RunRow
    <3>2. \/ UNCHANGED run
          \/ \E s \in Stage, o \in {"DONE", "FAILED"} : HandleStageSignal(b, exec[i].attempt, s, o)
      BY <1>1, <1>3, <1>6, PipelineAssumption DEF Collect, Aggregate, Verify, OtherStage, Raise,
         PostSignal, LoseSignal, PostFailed, LoseFailed, Redeliver, TypeOK, Execution
    <3> QED BY <3>1, <3>2
  <2>3. run.status = "PROCESSING_FAILED" => run.exec \in Exec
    BY <1>1 DEF OneEngine, TypeOK, RunRow
  <2> QED BY <2>1, <2>2, <2>3 DEF PushesRight, FailedOnlyIfDead
<1> QED BY <1>2, <1>4, <1>5, <1>6

\* A run is PROCESSING_FAILED only when the execution it tracks is dead
\* (handle-status-push, reconcileRun), if no operator acts while the push of an
\* execution he knows is still to come.
THEOREM FailedTheorem ==
  ASSUME Orderly, "late_push" \notin Faults
  PROVE  Spec => []FailedOnlyIfDead
<1>1. Init => PushesRight
  BY DEF Init, PushesRight, FailedOnlyIfDead, Unused
<1>2. Known /\ OrderlyInv /\ PushesRight /\ [Next]_vars => PushesRight'
  <2>1. PushesRight /\ UNCHANGED vars => PushesRight'
    BY DEF vars, PushesRight, FailedOnlyIfDead
  <2> QED BY <2>1, PushesOperate, PushesEngine DEF Next
<1>3. PushesRight => FailedOnlyIfDead
  BY DEF PushesRight
<1> QED BY <1>1, <1>2, <1>3, OrderlyInvariant, KnownInvariant, PTL DEF Spec

=============================================================================
