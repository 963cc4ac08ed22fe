---------------------------- MODULE BillRunProofs ----------------------------
(***************************************************************************)
(* Proofs about BillRun for every set of accounts, records, operators and  *)
(* executions, every pipeline PipelineAssumption admits and every set of   *)
(* faults.                                                                 *)
(***************************************************************************)
EXTENDS BillRunProps, FiniteSetTheorems, TLAPS

-----------------------------------------------------------------------------
(* What the operators return.                                              *)

\* The attempt numbers an operator may choose are natural numbers.
LEMMA AttemptNat == \A n \in 1..Cardinality(Exec) : n \in Nat
BY ExecAssumption, FS_CardinalityType

\* Unused values are well-typed.
LEMMA NeutralTypes ==
    /\ Unscoped \in AccountRow
    /\ Unused \in Execution
    /\ Rated \in UdrRow
    /\ NoTxn \in Transaction
<1>1. Unscoped \in AccountRow
  BY DEF Unscoped, AccountRow, AccountStatus
<1>2. Unused \in Execution
  BY DEF Unused, Execution
<1>3. Rated \in UdrRow
  BY DEF Rated, UdrRow
<1>4. NoTxn \in Transaction
  BY DEF NoTxn, Transaction
<1> QED
  BY <1>1, <1>2, <1>3, <1>4

\* A stage signal takes an account status to an account status, and to
\* PROCESSED only on verification's word.
LEMMA AdvanceType ==
    ASSUME NEW c \in AccountStatus, NEW s, NEW outcome
    PROVE  /\ Advance(c, s, outcome) \in AccountStatus
           /\ c # "NONE" => Advance(c, s, outcome) # "NONE"
           /\ Advance(c, s, outcome) = "PROCESSED" =>
                 c = "PROCESSED" \/ (s = "verification" /\ outcome # "FAILED")
BY DEF Advance, AccountStatus

\* Release keeps the claim columns well-typed.
LEMMA ReleaseType ==
    ASSUME udr \in [Usage -> UdrRow], NEW S
    PROVE  Release(S) \in [Usage -> UdrRow]
BY NeutralTypes DEF Release

\* A stage signal keeps the run and account rows well-typed.
LEMMA SignalType ==
    ASSUME TypeOK, NEW b \in Ban, NEW n, NEW s \in Stage, NEW outcome,
           HandleStageSignal(b, n, s, outcome)
    PROVE  run' \in RunRow /\ acct' \in [Ban -> AccountRow]
<1>1. CASE UNCHANGED <<run, acct>>
  BY <1>1 DEF TypeOK
<1>2. CASE /\ acct' = [acct EXCEPT ![b].latch = @ \cup {s},
                                   ![b].status = Advance(@, s, outcome)]
           /\ run' = [run EXCEPT !.status = ComputeRunStatus(acct')]
  <2>1. Advance(acct[b].status, s, outcome) \in AccountStatus
    BY AdvanceType DEF TypeOK, AccountRow
  <2>2. acct' \in [Ban -> AccountRow]
    BY <1>2, <2>1 DEF TypeOK, AccountRow
  <2>3. ComputeRunStatus(acct') \in RunStatus
    BY DEF ComputeRunStatus, RunStatus
  <2>4. run' \in RunRow
    BY <1>2, <2>3 DEF TypeOK, RunRow
  <2> QED
    BY <2>2, <2>4
<1> QED
  BY <1>1, <1>2 DEF HandleStageSignal

\* The single-field updates of an execution keep it well-typed.
LEMMA ExecutionUpdates ==
    ASSUME NEW e \in Execution
    PROVE  /\ [e EXCEPT !.known = TRUE] \in Execution
           /\ [e EXCEPT !.push = FALSE] \in Execution
           /\ [e EXCEPT !.state = "SUCCESS"] \in Execution
           /\ [e EXCEPT !.state = "FAILED", !.push = TRUE] \in Execution
           /\ [e EXCEPT !.state = "KILLED", !.push = TRUE] \in Execution
BY DEF Execution

\* Starting an execution keeps the executions well-typed.
LEMMA StartType ==
    ASSUME TypeOK, NEW i \in Exec, NEW bans \in SUBSET Ban, NEW n \in Nat,
           NEW known \in BOOLEAN, StartExecution(i, bans, n, known)
    PROVE  exec' \in [Exec -> Execution]
BY NeutralTypes DEF TypeOK, StartExecution, Execution

\* The writes of a trigger keep the rows well-typed.
LEMMA WriteTriggerType ==
    ASSUME TypeOK, NEW op \in Operator, NEW i \in Exec, NEW pend, NEW excl,
           NEW n \in Nat, NEW v \in BOOLEAN,
           WriteTrigger(op, i, pend, excl, n, v)
    PROVE  /\ run' \in RunRow
           /\ acct' \in [Ban -> AccountRow]
           /\ bill' \in [Ban -> SUBSET Usage]
<1>1. run' \in RunRow
  BY DEF TypeOK, WriteTrigger, RunRow, RunStatus
<1>2. acct' \in [Ban -> AccountRow]
  BY DEF WriteTrigger, Unscoped, AccountRow, AccountStatus
<1>3. bill' \in [Ban -> SUBSET Usage]
  BY DEF TypeOK, WriteTrigger
<1> QED
  BY <1>1, <1>2, <1>3

\* So do those of a rerun.
LEMMA WriteRerunType ==
    ASSUME TypeOK, NEW op \in Operator, NEW i \in Exec, NEW sel,
           NEW n \in Nat, NEW v \in BOOLEAN,
           WriteRerun(op, i, sel, n, v)
    PROVE  run' \in RunRow /\ acct' \in [Ban -> AccountRow]
<1>1. run' \in RunRow
  BY DEF TypeOK, WriteRerun, RunRow, RunStatus
<1>2. acct' \in [Ban -> AccountRow]
  BY DEF TypeOK, WriteRerun, Unscoped, AccountRow, AccountStatus
<1> QED
  BY <1>1, <1>2

-----------------------------------------------------------------------------
(* The cases of Next, once and for all: a step is one of the actions, taken *)
(* with well-typed arguments.                                               *)

\* The operators' steps.
LEMMA OperateCases ==
    ASSUME Operate
    PROVE  \/ \E op \in Operator, i \in Exec, v \in BOOLEAN,
              pend, excl \in SUBSET Ban, n \in Nat :
              \/ Trigger(op, i, pend, excl, n, v)
              \/ OpenTrigger(op, i, pend, excl, n, v)
           \/ \E op \in Operator, i \in Exec, v \in BOOLEAN,
              sel \in SUBSET Ban, n \in Nat :
              \/ Rerun(op, i, sel, n, v)
              \/ OpenRerun(op, i, sel, n, v)
           \/ CommitTrigger \/ CommitRerun \/ RollBack
           \/ \E killed \in BOOLEAN : Cancel(killed)
           \/ \E sel \in SUBSET Ban : Reject(sel)
           \/ \E op \in Operator : Approve(op)
           \/ Reconcile \/ ClosePeriod
BY AttemptNat, FaultAssumption DEF Operate

\* The engine's steps.
LEMMA EngineCases ==
    ASSUME Engine
    PROVE  \E i \in Exec :
              \/ \E b \in exec[i].bans :
                    \/ Collect(i, b) \/ Aggregate(i, b) \/ Verify(i, b)
                    \/ OtherStage(i, b) \/ Raise(i, b)
                    \/ PostSignal(i, b) \/ LoseSignal(i, b)
                    \/ PostFailed(i, b) \/ LoseFailed(i, b)
                    \/ Redeliver(i, b)
              \/ Finish(i) \/ Crash(i) \/ StatusPush(i) \/ LosePush(i)
BY DEF Engine, Work

-----------------------------------------------------------------------------
(* Type correctness.                                                       *)

\* Every row starts with a value of its type.
LEMMA TypeInit == Init => TypeOK
BY NeutralTypes DEF Init, TypeOK, RunRow, RunStatus

\* No operator's step breaks the types.
LEMMA TypeOperate ==
    ASSUME TypeOK, Operate
    PROVE  TypeOK'
<1>1. ASSUME NEW op \in Operator, NEW i \in Exec, NEW v \in BOOLEAN,
             NEW pend \in SUBSET Ban, NEW excl \in SUBSET Ban, NEW n \in Nat,
             Trigger(op, i, pend, excl, n, v)
      PROVE  TypeOK'
  <2>1. StartExecution(i, pend, n, TRUE) /\ WriteTrigger(op, i, pend, excl, n, v)
    BY <1>1 DEF Trigger
  <2>2. exec' \in [Exec -> Execution]
    BY <2>1, StartType
  <2>3. /\ run' \in RunRow
        /\ acct' \in [Ban -> AccountRow]
        /\ bill' \in [Ban -> SUBSET Usage]
    BY <2>1, WriteTriggerType
  <2> QED
    BY <1>1, <2>2, <2>3 DEF Trigger, TypeOK
<1>2. ASSUME NEW op \in Operator, NEW i \in Exec, NEW v \in BOOLEAN,
             NEW pend \in SUBSET Ban, NEW excl \in SUBSET Ban, NEW n \in Nat,
             OpenTrigger(op, i, pend, excl, n, v)
      PROVE  TypeOK'
  <2>1. exec' \in [Exec -> Execution]
    BY <1>2, StartType DEF OpenTrigger
  <2> QED
    BY <1>2, <2>1 DEF OpenTrigger, TypeOK, Transaction
<1>3. ASSUME NEW op \in Operator, NEW i \in Exec, NEW v \in BOOLEAN,
             NEW sel \in SUBSET Ban, NEW n \in Nat, Rerun(op, i, sel, n, v)
      PROVE  TypeOK'
  <2>1. StartExecution(i, sel, n, TRUE) /\ WriteRerun(op, i, sel, n, v)
    BY <1>3 DEF Rerun
  <2>2. exec' \in [Exec -> Execution]
    BY <2>1, StartType
  <2>3. run' \in RunRow /\ acct' \in [Ban -> AccountRow]
    BY <2>1, WriteRerunType
  <2> QED
    BY <1>3, <2>2, <2>3, ReleaseType DEF Rerun, TypeOK
<1>4. ASSUME NEW op \in Operator, NEW i \in Exec, NEW v \in BOOLEAN,
             NEW sel \in SUBSET Ban, NEW n \in Nat, OpenRerun(op, i, sel, n, v)
      PROVE  TypeOK'
  <2>1. exec' \in [Exec -> Execution]
    BY <1>4, StartType DEF OpenRerun
  <2>2. UNION {Draft(b) : b \in sel} \in SUBSET Usage
    BY DEF Draft, UsageOf
  <2> QED
    BY <1>4, <2>1, <2>2 DEF OpenRerun, TypeOK, Transaction
<1>5. CASE CommitTrigger
  <2>1. /\ txn.op \in Operator /\ txn.exec \in Exec /\ txn.attempt \in Nat
        /\ txn.version \in BOOLEAN
    BY <1>5 DEF CommitTrigger, TypeOK, Transaction, NoTxn
  <2>2. /\ run' \in RunRow
        /\ acct' \in [Ban -> AccountRow]
        /\ bill' \in [Ban -> SUBSET Usage]
    BY <1>5, <2>1, WriteTriggerType DEF CommitTrigger
  <2>3. exec' \in [Exec -> Execution]
    BY <1>5, <2>1, ExecutionUpdates DEF CommitTrigger, TypeOK
  <2> QED
    BY <1>5, <2>2, <2>3, NeutralTypes DEF CommitTrigger, TypeOK
<1>6. CASE CommitRerun
  <2>1. /\ txn.op \in Operator /\ txn.exec \in Exec /\ txn.attempt \in Nat
        /\ txn.version \in BOOLEAN
    BY <1>6 DEF CommitRerun, TypeOK, Transaction, NoTxn
  <2>2. run' \in RunRow /\ acct' \in [Ban -> AccountRow]
    BY <1>6, <2>1, WriteRerunType DEF CommitRerun
  <2>3. exec' \in [Exec -> Execution]
    BY <1>6, <2>1, ExecutionUpdates DEF CommitRerun, TypeOK
  <2>4. udr' \in [Usage -> UdrRow]
    BY <1>6, NeutralTypes DEF CommitRerun, TypeOK
  <2> QED
    BY <1>6, <2>2, <2>3, <2>4, NeutralTypes DEF CommitRerun, TypeOK
<1>7. CASE RollBack
  BY <1>7, NeutralTypes DEF RollBack, TypeOK
<1>8. ASSUME NEW killed \in BOOLEAN, Cancel(killed)
      PROVE  TypeOK'
  <2>1. exec' \in [Exec -> Execution]
    BY <1>8, ExecutionUpdates DEF Cancel, TypeOK
  <2>2. acct' \in [Ban -> AccountRow]
    BY <1>8 DEF Cancel, TypeOK, AccountRow, AccountStatus
  <2>3. run' \in RunRow
    BY <1>8 DEF Cancel, TypeOK, RunRow, RunStatus
  <2> QED
    BY <1>8, <2>1, <2>2, <2>3, ReleaseType DEF Cancel, TypeOK
<1>9. ASSUME NEW sel \in SUBSET Ban, Reject(sel)
      PROVE  TypeOK'
  <2>1. acct' \in [Ban -> AccountRow]
    BY <1>9 DEF Reject, TypeOK, AccountRow
  <2>2. bill' \in [Ban -> SUBSET Usage]
    BY <1>9 DEF Reject, TypeOK
  <2> QED
    BY <1>9, <2>1, <2>2, ReleaseType DEF Reject, TypeOK
<1>10. ASSUME NEW op \in Operator, Approve(op)
       PROVE  TypeOK'
  <2>1. acct' \in [Ban -> AccountRow]
    BY <1>10 DEF Approve, TypeOK, AccountRow, AccountStatus
  <2>2. Release(Skipped) \in [Usage -> UdrRow]
    BY ReleaseType DEF TypeOK
  <2>3. udr' \in [Usage -> UdrRow]
    BY <1>10, <2>2 DEF Approve, MarkApproved, UdrRow
  <2>4. run' \in RunRow
    BY <1>10 DEF Approve, TypeOK, RunRow, RunStatus
  <2> QED
    BY <1>10, <2>1, <2>3, <2>4 DEF Approve, TypeOK
<1>11. CASE Reconcile
  BY <1>11 DEF Reconcile, TypeOK, RunRow, RunStatus, ComputeRunStatus
<1>12. CASE ClosePeriod
  BY <1>12 DEF ClosePeriod, TypeOK
<1> QED
  BY OperateCases, <1>1, <1>2, <1>3, <1>4, <1>5, <1>6, <1>7, <1>8, <1>9,
     <1>10, <1>11, <1>12

\* Nor does a step of the engine.
LEMMA TypeEngine ==
    ASSUME TypeOK, Engine
    PROVE  TypeOK'
<1>1. PICK i \in Exec :
              \/ \E b \in exec[i].bans :
                    \/ Collect(i, b) \/ Aggregate(i, b) \/ Verify(i, b)
                    \/ OtherStage(i, b) \/ Raise(i, b)
                    \/ PostSignal(i, b) \/ LoseSignal(i, b)
                    \/ PostFailed(i, b) \/ LoseFailed(i, b)
                    \/ Redeliver(i, b)
              \/ Finish(i) \/ Crash(i) \/ StatusPush(i) \/ LosePush(i)
  BY EngineCases
<1>2. exec[i] \in Execution /\ exec[i].bans \subseteq Ban
  BY DEF TypeOK, Execution
<1>3. ASSUME NEW b \in exec[i].bans, NEW s \in Stage, Ran(i, b, s)
      PROVE  exec' \in [Exec -> Execution]
  BY <1>2, <1>3 DEF Ran, TypeOK, Execution
<1>4. ASSUME NEW b \in exec[i].bans, NEW f \in {"raised", "failed"},
             exec' = [exec EXCEPT ![i].fate[b] = f]
      PROVE  exec' \in [Exec -> Execution]
  BY <1>2, <1>4 DEF TypeOK, Execution
<1>5. ASSUME NEW b \in exec[i].bans, NEW s \in Stage,
             exec' = [exec EXCEPT ![i].sent[b] = @ \cup {s}]
      PROVE  exec' \in [Exec -> Execution]
  BY <1>2, <1>5 DEF TypeOK, Execution
<1>6. {"collection", "aggregation", "verification"} \subseteq Stage
  BY PipelineAssumption
<1>7. ASSUME NEW b \in exec[i].bans, Collect(i, b)
      PROVE  TypeOK'
  <2>1. udr' \in [Usage -> UdrRow]
    BY <1>2, <1>7 DEF Collect, TypeOK, UdrRow, Execution
  <2> QED
    BY <1>7, <2>1, <1>3, <1>6 DEF Collect, TypeOK
<1>8. ASSUME NEW b \in exec[i].bans, Aggregate(i, b)
      PROVE  TypeOK'
  BY <1>8, <1>3, <1>6, <1>2 DEF Aggregate, ClaimedBy, Draft, UsageOf, TypeOK
<1>9. ASSUME NEW b \in exec[i].bans, Verify(i, b)
      PROVE  TypeOK'
  BY <1>9, <1>3, <1>4, <1>6 DEF Verify, TypeOK
<1>10. ASSUME NEW b \in exec[i].bans, OtherStage(i, b)
       PROVE  TypeOK'
  BY <1>10, <1>3 DEF OtherStage, TypeOK
<1>11. ASSUME NEW b \in exec[i].bans, Raise(i, b)
       PROVE  TypeOK'
  BY <1>11, <1>4 DEF Raise, TypeOK
<1>12. ASSUME NEW b \in exec[i].bans, PostSignal(i, b)
       PROVE  TypeOK'
  BY <1>12, <1>2, <1>5, SignalType DEF PostSignal, TypeOK
<1>13. ASSUME NEW b \in exec[i].bans, LoseSignal(i, b)
       PROVE  TypeOK'
  BY <1>13, <1>5 DEF LoseSignal, TypeOK
<1>14. ASSUME NEW b \in exec[i].bans, PostFailed(i, b)
       PROVE  TypeOK'
  BY <1>14, <1>2, <1>4, <1>6, SignalType DEF PostFailed, TypeOK
<1>15. ASSUME NEW b \in exec[i].bans, LoseFailed(i, b)
       PROVE  TypeOK'
  BY <1>15, <1>4 DEF LoseFailed, TypeOK
<1>16. ASSUME NEW b \in exec[i].bans, Redeliver(i, b)
       PROVE  TypeOK'
  BY <1>16, <1>2, <1>6, SignalType DEF Redeliver, TypeOK, Execution
<1>17. CASE Finish(i) \/ Crash(i) \/ LosePush(i)
  <2>1. exec' \in [Exec -> Execution]
    <3>1. CASE Finish(i)
      BY <3>1, ExecutionUpdates DEF Finish, TypeOK
    <3>2. CASE Crash(i)
      BY <3>2, ExecutionUpdates DEF Crash, TypeOK
    <3>3. CASE LosePush(i)
      BY <3>3, ExecutionUpdates DEF LosePush, TypeOK
    <3> QED
      BY <1>17, <3>1, <3>2, <3>3
  <2> QED
    BY <1>17, <2>1 DEF Finish, Crash, LosePush, TypeOK
<1>18. CASE StatusPush(i)
  <2>1. exec' \in [Exec -> Execution]
    BY <1>18, ExecutionUpdates DEF StatusPush, TypeOK
  <2>2. run' \in RunRow
    BY <1>18 DEF StatusPush, HandleStatusPush, TypeOK, RunRow, RunStatus
  <2> QED
    BY <1>18, <2>1, <2>2 DEF StatusPush, TypeOK
<1> QED
  BY <1>1, <1>7, <1>8, <1>9, <1>10, <1>11, <1>12, <1>13, <1>14, <1>15,
     <1>16, <1>17, <1>18

\* Every variable keeps its type, whatever the environment does.
THEOREM TypeCorrect == Spec => []TypeOK
<1>1. TypeOK /\ UNCHANGED vars => TypeOK'
  BY DEF vars, TypeOK
<1>2. TypeOK /\ [Next]_vars => TypeOK'
  BY <1>1, TypeOperate, TypeEngine DEF Next
<1> QED
  BY <1>2, TypeInit, PTL DEF Spec

-----------------------------------------------------------------------------
(* What a step may do to the run and to the account rows.                  *)

\* A stage signal moves only a run that is PROCESSING, and settles it only with
\* every account terminal.
LEMMA SignalRun ==
    ASSUME TypeOK, NEW b \in Ban, NEW n, NEW s \in Stage, NEW outcome,
           HandleStageSignal(b, n, s, outcome)
    PROVE  /\ run' = [run EXCEPT !.status = run'.status]
           /\ run'.status = "PROCESSED" /\ run.status # "PROCESSED" =>
                 Scoped' # {} /\ \A c \in Scoped' : acct'[c].status \in Terminal
           /\ run.status # "PROCESSING" => UNCHANGED <<run, acct>>
           /\ run.status = "PROCESSING" =>
                 run'.status \in {"PROCESSING", "PROCESSED"}
<1>1. CASE UNCHANGED <<run, acct>>
  BY <1>1 DEF TypeOK, RunRow, RunStatus, HandleStageSignal
<1>2. CASE /\ run.status = "PROCESSING"
           /\ run' = [run EXCEPT !.status = ComputeRunStatus(acct')]
  <2>1. run'.status = ComputeRunStatus(acct')
    BY <1>2 DEF TypeOK, RunRow
  <2>2. run' = [run EXCEPT !.status = run'.status]
    BY <1>2, <2>1
  <2>3. run'.status = "PROCESSED" =>
           Scoped' # {} /\ \A c \in Scoped' : acct'[c].status \in Terminal
    BY <2>1 DEF ComputeRunStatus, Scoped
  <2>4. run'.status \in {"PROCESSING", "PROCESSED"}
    BY <2>1 DEF ComputeRunStatus
  <2> QED
    BY <1>2, <2>2, <2>3, <2>4
<1> QED
  BY <1>1, <1>2 DEF HandleStageSignal

\* A stage signal changes the latch and status of one account.  It makes an
\* account PROCESSED only if it reports verification DONE for the account's
\* attempt.
LEMMA SignalAccounts ==
    ASSUME TypeOK, NEW b \in Ban, NEW n, NEW s \in Stage, NEW outcome,
           HandleStageSignal(b, n, s, outcome), NEW c \in Ban
    PROVE  /\ acct'[c].attempt = acct[c].attempt
           /\ acct'[c].rejected = acct[c].rejected
           /\ acct'[c].status = "NONE" <=> acct[c].status = "NONE"
           /\ acct'[c].status = "PROCESSED" =>
                 \/ acct[c].status = "PROCESSED"
                 \/ /\ c = b /\ n = acct[b].attempt
                    /\ s = "verification" /\ outcome # "FAILED"
<1>1. CASE UNCHANGED acct
  BY <1>1
<1>2. CASE /\ acct[b].status # "NONE"
           /\ acct[b].attempt = n
           /\ acct' = [acct EXCEPT ![b].latch = @ \cup {s},
                                   ![b].status = Advance(@, s, outcome)]
  <2>1. /\ acct'[b].status = Advance(acct[b].status, s, outcome)
        /\ acct'[b].attempt = acct[b].attempt
        /\ acct'[b].rejected = acct[b].rejected
        /\ c # b => acct'[c] = acct[c]
    BY <1>2 DEF TypeOK, AccountRow
  <2>2. /\ acct'[b].status # "NONE"
        /\ acct'[b].status = "PROCESSED" =>
              \/ acct[b].status = "PROCESSED"
              \/ s = "verification" /\ outcome # "FAILED"
    BY <1>2, <2>1, AdvanceType DEF TypeOK, AccountRow
  <2>3. CASE c = b
    BY <1>2, <2>1, <2>2, <2>3
  <2>4. CASE c # b
    BY <2>1, <2>4
  <2> QED
    BY <2>3, <2>4
<1> QED
  BY <1>1, <1>2 DEF HandleStageSignal

\* To the rows of the application, the engine's steps are callbacks.
LEMMA EngineCallbacks ==
    ASSUME TypeOK, Engine
    PROVE  /\ UNCHANGED <<period, txn>>
           /\ \/ UNCHANGED <<run, acct>>
              \/ Unlocked /\ HandleStatusPush /\ UNCHANGED acct
              \/ /\ Unlocked
                 /\ \E i \in Exec : \E b \in exec[i].bans, s \in Stage :
                       \/ /\ HandleStageSignal(b, exec[i].attempt, s, "FAILED")
                       \/ /\ HandleStageSignal(b, exec[i].attempt, s, "DONE")
                          /\ s \in exec[i].ran[b] \cup exec[i].sent[b]
<1>1. PICK i \in Exec :
              \/ \E b \in exec[i].bans :
                    \/ Collect(i, b) \/ Aggregate(i, b) \/ Verify(i, b)
                    \/ OtherStage(i, b) \/ Raise(i, b)
                    \/ PostSignal(i, b) \/ LoseSignal(i, b)
                    \/ PostFailed(i, b) \/ LoseFailed(i, b)
                    \/ Redeliver(i, b)
              \/ Finish(i) \/ Crash(i) \/ StatusPush(i) \/ LosePush(i)
  BY EngineCases
<1>2. "verification" \in Stage
  BY PipelineAssumption
<1>3. ASSUME NEW b \in exec[i].bans, PostSignal(i, b)
      PROVE  /\ Unlocked /\ UNCHANGED <<period, txn>>
             /\ \E s \in Stage :
                   /\ HandleStageSignal(b, exec[i].attempt, s, "DONE")
                   /\ s \in exec[i].ran[b]
  BY <1>3 DEF PostSignal
<1>4. ASSUME NEW b \in exec[i].bans, PostFailed(i, b)
      PROVE  /\ Unlocked /\ UNCHANGED <<period, txn>>
             /\ HandleStageSignal(b, exec[i].attempt, "verification", "FAILED")
  BY <1>4 DEF PostFailed
<1>5. ASSUME NEW b \in exec[i].bans, Redeliver(i, b)
      PROVE  /\ Unlocked /\ UNCHANGED <<period, txn>>
             /\ \/ \E s \in exec[i].sent[b] :
                      HandleStageSignal(b, exec[i].attempt, s, "DONE")
                \/ HandleStageSignal(b, exec[i].attempt, "verification", "FAILED")
  BY <1>5 DEF Redeliver
<1>6. \A b \in exec[i].bans : exec[i].sent[b] \subseteq Stage
  BY DEF TypeOK, Execution
<1>7. ASSUME NEW b \in exec[i].bans,
             \/ Collect(i, b) \/ Aggregate(i, b) \/ Verify(i, b)
             \/ OtherStage(i, b) \/ Raise(i, b)
             \/ LoseSignal(i, b) \/ LoseFailed(i, b)
      PROVE  UNCHANGED <<run, acct, period, txn>>
  BY <1>7 DEF Collect, Aggregate, Verify, OtherStage, Raise, LoseSignal,
              LoseFailed
<1>8. CASE Finish(i) \/ Crash(i) \/ LosePush(i)
  BY <1>8 DEF Finish, Crash, LosePush
<1>9. CASE StatusPush(i)
  BY <1>9 DEF StatusPush
<1> QED
  BY <1>1, <1>2, <1>3, <1>4, <1>5, <1>6, <1>7, <1>8, <1>9

-----------------------------------------------------------------------------
(* The row lock.  While a trigger or rerun transaction is open the run     *)
(* cannot move, so its guards still hold when it commits.                  *)

LockInv ==
    /\ txn.kind = "trigger" => run.status \in {"SCHEDULED", "CANCELLED"}
    /\ txn.kind = "rerun" => run.status \in {"PROCESSED", "PROCESSING_FAILED"}

\* With no transaction open, neither commit action is enabled.
LEMMA UnlockedKind == Unlocked => txn.kind = "none"
BY DEF Unlocked, NoTxn

\* No transaction is open at the start.
LEMMA LockInit == Init => LockInv
BY DEF Init, LockInv, NoTxn

\* The row lock: no step changes the run's status under an open transaction.
LEMMA LockStep ==
    ASSUME TypeOK, LockInv, [Next]_vars
    PROVE  LockInv'
<1>1. CASE UNCHANGED vars
  BY <1>1 DEF vars, LockInv
<1>2. CASE Engine
  <2>1. UNCHANGED txn /\ (UNCHANGED run \/ Unlocked)
    BY <1>2, EngineCallbacks
  <2> QED
    BY <2>1 DEF LockInv, Unlocked, NoTxn
<1>3. CASE Operate
  <2>1. ASSUME NEW op \in Operator, NEW i \in Exec, NEW v \in BOOLEAN,
               NEW pend \in SUBSET Ban, NEW excl \in SUBSET Ban, NEW n \in Nat,
               \/ Trigger(op, i, pend, excl, n, v)
               \/ OpenTrigger(op, i, pend, excl, n, v)
        PROVE  LockInv'
    <3>1. CASE Trigger(op, i, pend, excl, n, v)
      BY <3>1, UnlockedKind DEF Trigger, LockInv
    <3>2. CASE OpenTrigger(op, i, pend, excl, n, v)
      BY <3>2 DEF OpenTrigger, Triggerable, LockInv
    <3> QED
      BY <2>1, <3>1, <3>2
  <2>2. ASSUME NEW op \in Operator, NEW i \in Exec, NEW v \in BOOLEAN,
               NEW sel \in SUBSET Ban, NEW n \in Nat,
               \/ Rerun(op, i, sel, n, v)
               \/ OpenRerun(op, i, sel, n, v)
        PROVE  LockInv'
    <3>1. CASE Rerun(op, i, sel, n, v)
      BY <3>1, UnlockedKind DEF Rerun, LockInv
    <3>2. CASE OpenRerun(op, i, sel, n, v)
      BY <3>2 DEF OpenRerun, Rerunnable, LockInv
    <3> QED
      BY <2>2, <3>1, <3>2
  <2>3. CASE CommitTrigger \/ CommitRerun \/ RollBack
    BY <2>3 DEF CommitTrigger, CommitRerun, RollBack, NoTxn, LockInv
  <2>4. CASE \/ \E killed \in BOOLEAN : Cancel(killed)
             \/ \E sel \in SUBSET Ban : Reject(sel)
             \/ \E op \in Operator : Approve(op)
             \/ Reconcile
    BY <2>4, UnlockedKind DEF Cancel, Reject, Approve, Reconcile, LockInv
  <2>5. CASE ClosePeriod
    BY <2>5 DEF ClosePeriod, LockInv
  <2> QED
    BY <1>3, OperateCases, <2>1, <2>2, <2>3, <2>4, <2>5
<1> QED
  BY <1>1, <1>2, <1>3 DEF Next

\* The run and its rows are at rest in every state in which it is APPROVED.
LEMMA ApprovedRests ==
    ASSUME TypeOK, LockInv, [Next]_vars, run.status = "APPROVED"
    PROVE  /\ UNCHANGED <<run, acct>>
           /\ "late_close" \notin Faults => UNCHANGED period
<1>1. CASE UNCHANGED vars
  BY <1>1 DEF vars
<1>2. CASE Engine
  <2>1. ASSUME HandleStatusPush
        PROVE  UNCHANGED run
    BY <2>1 DEF HandleStatusPush, TypeOK, RunRow
  <2>2. ASSUME NEW b \in Ban, NEW n, NEW s \in Stage, NEW o,
               HandleStageSignal(b, n, s, o)
        PROVE  UNCHANGED <<run, acct>>
    BY <2>2, SignalRun
  <2>3. \A i \in Exec : exec[i].bans \subseteq Ban
    BY DEF TypeOK, Execution
  <2> QED
    BY <1>2, <2>1, <2>2, <2>3, EngineCallbacks
<1>3. CASE Operate
  <2>1. ~ (CommitTrigger \/ CommitRerun)
    BY DEF CommitTrigger, CommitRerun, LockInv
  <2>2. \/ RollBack \/ \E op \in Operator, i \in Exec, v \in BOOLEAN,
           pend, excl \in SUBSET Ban, n \in Nat :
              \/ Trigger(op, i, pend, excl, n, v)
              \/ OpenTrigger(op, i, pend, excl, n, v)
        \/ \E op \in Operator, i \in Exec, v \in BOOLEAN,
           sel \in SUBSET Ban, n \in Nat :
              \/ Rerun(op, i, sel, n, v)
              \/ OpenRerun(op, i, sel, n, v)
        \/ \E killed \in BOOLEAN : Cancel(killed)
        \/ \E sel \in SUBSET Ban : Reject(sel)
        \/ \E op \in Operator : Approve(op)
        \/ Reconcile \/ ClosePeriod
    BY <1>3, <2>1, OperateCases
  <2> QED
    BY <2>2 DEF RollBack, Trigger, OpenTrigger, Triggerable, Rerun, OpenRerun,
           Rerunnable, Cancel, Reject, Approve, Reconcile, ClosePeriod, NotActive
<1> QED
  BY <1>1, <1>2, <1>3 DEF Next

\* The only step to APPROVED is approveRun's.
LEMMA ApprovedByApprove ==
    ASSUME TypeOK, LockInv, [Next]_vars,
           run.status # "APPROVED", run'.status = "APPROVED"
    PROVE  \E op \in Operator : Approve(op)
<1>1. CASE UNCHANGED vars
  BY <1>1 DEF vars
<1>2. CASE Engine
  <2>1. ASSUME HandleStatusPush
        PROVE  FALSE
    BY <2>1 DEF HandleStatusPush, TypeOK, RunRow
  <2>2. ASSUME NEW b \in Ban, NEW n, NEW s \in Stage, NEW o,
               HandleStageSignal(b, n, s, o)
        PROVE  FALSE
    BY <2>2, SignalRun
  <2>3. \A i \in Exec : exec[i].bans \subseteq Ban
    BY DEF TypeOK, Execution
  <2> QED
    BY <1>2, <2>1, <2>2, <2>3, EngineCallbacks
<1>3. CASE Operate
  <2>1. ASSUME NEW op, NEW i, NEW pend, NEW excl, NEW n, NEW v,
               WriteTrigger(op, i, pend, excl, n, v)
        PROVE  FALSE
    BY <2>1 DEF WriteTrigger, TypeOK, RunRow
  <2>2. ASSUME NEW op, NEW i, NEW sel, NEW n, NEW v,
               WriteRerun(op, i, sel, n, v)
        PROVE  FALSE
    BY <2>2 DEF WriteRerun, TypeOK, RunRow
  <2>3. CASE \/ \E killed \in BOOLEAN : Cancel(killed)
             \/ \E sel \in SUBSET Ban : Reject(sel)
             \/ Reconcile \/ ClosePeriod \/ RollBack
    BY <2>3 DEF Cancel, Reject, Reconcile, ClosePeriod, RollBack,
           ComputeRunStatus, TypeOK, RunRow
  <2> QED
    <3>1. ASSUME NEW op, NEW i, NEW v, NEW pend, NEW excl, NEW n,
                 Trigger(op, i, pend, excl, n, v) \/ OpenTrigger(op, i, pend, excl, n, v)
          PROVE  FALSE
      BY <3>1, <2>1 DEF Trigger, OpenTrigger
    <3>2. ASSUME NEW op, NEW i, NEW v, NEW sel, NEW n,
                 Rerun(op, i, sel, n, v) \/ OpenRerun(op, i, sel, n, v)
          PROVE  FALSE
      BY <3>2, <2>2 DEF Rerun, OpenRerun
    <3>3. CASE CommitTrigger \/ CommitRerun
      BY <3>3, <2>1, <2>2 DEF CommitTrigger, CommitRerun
    <3> QED
      BY <1>3, OperateCases, <2>3, <3>1, <3>2, <3>3
<1> QED
  BY <1>1, <1>2, <1>3 DEF Next

-----------------------------------------------------------------------------
(* Approval.                                                               *)

\* What approveRun checks holds of what it leaves behind.
LEMMA ApproveEstablishes ==
    ASSUME TypeOK, NEW op \in Operator, Approve(op)
    PROVE  SeparationOfDuties' /\ ApprovedIsPostable'
<1>1. run'.approver = op /\ run'.drivers = run.drivers /\ op \notin run.drivers
  BY DEF Approve, FourEyes, TypeOK, RunRow
<1>2. SeparationOfDuties'
  BY <1>1, NoneAssumption DEF SeparationOfDuties
<1>3. ASSUME NEW b \in Ban, acct'[b].status = "PROCESSED"
      PROVE  ~acct'[b].rejected /\ acct'[b].version /\ period' # "closed"
  <2>1. acct'[b] = acct[b]
    BY <1>3 DEF Approve, TypeOK, AccountRow
  <2>2. acct[b].status = "PROCESSED" /\ b \in Scoped
    BY <1>3, <2>1 DEF Scoped
  <2>3. ~acct[b].rejected /\ acct[b].version
    BY <2>2 DEF Approve, NoRejectedPending, TemplateVersionsCaptured
  <2>4. period' # "closed"
    BY <2>2 DEF Approve, PeriodOpen
  <2> QED
    BY <2>1, <2>3, <2>4
<1> QED
  BY <1>2, <1>3 DEF ApprovedIsPostable

ApprovalInv ==
    /\ SeparationOfDuties
    /\ "late_close" \notin Faults => ApprovedIsPostable

\* The two approval properties, from the lock and the rest of an approved run.
LEMMA ApprovalStep ==
    ASSUME TypeOK, LockInv, ApprovalInv, [Next]_vars
    PROVE  ApprovalInv'
<1>1. CASE run'.status # "APPROVED"
  BY <1>1 DEF ApprovalInv, SeparationOfDuties, ApprovedIsPostable
<1>2. CASE run.status # "APPROVED" /\ run'.status = "APPROVED"
  BY <1>2, ApprovedByApprove, ApproveEstablishes DEF ApprovalInv
<1>3. CASE run.status = "APPROVED"
  BY <1>3, ApprovedRests DEF ApprovalInv, SeparationOfDuties, ApprovedIsPostable
<1> QED
  BY <1>1, <1>2, <1>3

\* The two facts approval establishes, together, since one step proves both.
LEMMA ApprovalInvariant == Spec => []ApprovalInv
<1>1. Init => ApprovalInv
  BY DEF Init, ApprovalInv, SeparationOfDuties, ApprovedIsPostable
<1>2. Spec => []LockInv
  BY LockInit, LockStep, TypeCorrect, PTL DEF Spec
<1> QED
  BY <1>1, <1>2, ApprovalStep, TypeCorrect, PTL DEF Spec

\* Four eyes, for every history of triggers, cancels and reruns: approveRun
\* compares its actor with all of the run's recorded drivers, the row lock
\* keeps the set still, and nothing is driven after the approval.
THEOREM FourEyesTheorem == Spec => []SeparationOfDuties
<1>1. ApprovalInv => SeparationOfDuties
  BY DEF ApprovalInv
<1> QED
  BY <1>1, ApprovalInvariant, PTL

\* An approved run can be posted: its accounts were not sent back, carry a
\* template version, and the period did not close under it, provided that the
\* run did not become active between a close's look at it and its write.
THEOREM PostableTheorem ==
    ASSUME "late_close" \notin Faults
    PROVE  Spec => []ApprovedIsPostable
<1>1. ApprovalInv => ApprovedIsPostable
  BY DEF ApprovalInv
<1> QED
  BY <1>1, ApprovalInvariant, PTL

-----------------------------------------------------------------------------
(* Settling.                                                               *)

\* Every step that leaves or finds the run PROCESSED leaves it settled.
LEMMA SettledStep ==
    ASSUME TypeOK, ProcessedMeansSettled, [Next]_vars
    PROVE  ProcessedMeansSettled'
<1>1. CASE UNCHANGED vars
  BY <1>1 DEF vars, ProcessedMeansSettled, Scoped
<1>2. CASE UNCHANGED <<run, acct>>
  BY <1>2 DEF ProcessedMeansSettled, Scoped
<1>3. CASE Engine
  <2>1. ASSUME HandleStatusPush, UNCHANGED acct
        PROVE  ProcessedMeansSettled'
    BY <2>1 DEF HandleStatusPush, TypeOK, RunRow, ProcessedMeansSettled, Scoped
  <2>2. ASSUME NEW b \in Ban, NEW n, NEW s \in Stage, NEW o,
               HandleStageSignal(b, n, s, o)
        PROVE  ProcessedMeansSettled'
    <3>1. CASE run.status = "PROCESSED"
      BY <1>2, <2>2, <3>1, SignalRun
    <3>2. CASE run.status # "PROCESSED"
      BY <2>2, <3>2, SignalRun DEF ProcessedMeansSettled
    <3> QED
      BY <3>1, <3>2
  <2>3. \A i \in Exec : exec[i].bans \subseteq Ban
    BY DEF TypeOK, Execution
  <2> QED
    BY <1>2, <1>3, <2>1, <2>2, <2>3, EngineCallbacks
<1>4. CASE Operate
  <2>1. ASSUME run'.status # "PROCESSED"
        PROVE  ProcessedMeansSettled'
    BY <2>1 DEF ProcessedMeansSettled
  <2>2. ASSUME NEW op, NEW i, NEW pend, NEW excl, NEW n, NEW v,
               WriteTrigger(op, i, pend, excl, n, v)
        PROVE  run'.status # "PROCESSED"
    BY <2>2 DEF WriteTrigger, TypeOK, RunRow
  <2>3. ASSUME NEW op, NEW i, NEW sel, NEW n, NEW v,
               WriteRerun(op, i, sel, n, v)
        PROVE  run'.status # "PROCESSED"
    BY <2>3 DEF WriteRerun, TypeOK, RunRow
  <2>4. ASSUME NEW op, NEW i, NEW v, NEW pend, NEW excl, NEW n,
               \/ Trigger(op, i, pend, excl, n, v)
               \/ OpenTrigger(op, i, pend, excl, n, v)
        PROVE  ProcessedMeansSettled'
    BY <2>4, <1>2, <2>1, <2>2 DEF Trigger, OpenTrigger
  <2>5. ASSUME NEW op, NEW i, NEW v, NEW sel, NEW n,
               \/ Rerun(op, i, sel, n, v)
               \/ OpenRerun(op, i, sel, n, v)
        PROVE  ProcessedMeansSettled'
    BY <2>5, <1>2, <2>1, <2>3 DEF Rerun, OpenRerun
  <2>6. CASE CommitTrigger \/ CommitRerun \/ RollBack \/ ClosePeriod
    BY <2>6, <1>2, <2>1, <2>2, <2>3 DEF CommitTrigger, CommitRerun, RollBack,
       ClosePeriod
  <2>7. CASE \/ \E killed \in BOOLEAN : Cancel(killed)
             \/ \E op \in Operator : Approve(op)
    BY <2>7, <2>1 DEF Cancel, Approve, TypeOK, RunRow
  <2>8. CASE \E sel \in SUBSET Ban : Reject(sel)
    <3>1. \A b \in Ban : acct'[b].status = acct[b].status
      BY <2>8 DEF Reject, TypeOK, AccountRow
    <3>2. UNCHANGED run
      BY <2>8 DEF Reject
    <3> QED
      BY <3>1, <3>2 DEF ProcessedMeansSettled, Scoped
  <2>9. CASE Reconcile
    BY <2>9 DEF Reconcile, ComputeRunStatus, ProcessedMeansSettled, Scoped,
       TypeOK, RunRow
  <2> QED
    BY <1>4, OperateCases, <2>4, <2>5, <2>6, <2>7, <2>8, <2>9
<1> QED
  BY <1>1, <1>3, <1>4 DEF Next

\* A run that has become PROCESSED has every account settled, and stays so
\* until an operator starts it again.
THEOREM SettledTheorem == Spec => []ProcessedMeansSettled
<1>1. Init => ProcessedMeansSettled
  BY DEF Init, ProcessedMeansSettled
<1> QED
  BY <1>1, SettledStep, TypeCorrect, PTL DEF Spec

-----------------------------------------------------------------------------
(* Executions.                                                             *)

\* An account goes through the stages in order: what has been posted was done,
\* and a stage is done only after everything before it has been posted.
PipelineInv ==
    \A i \in Exec : \A b \in Ban :
        /\ exec[i].sent[b] \subseteq exec[i].ran[b]
        /\ \A s \in exec[i].ran[b] :
              i \in Used /\ Earlier(s) \subseteq exec[i].sent[b]

\* Once started, an execution keeps its attempt and its accounts, and what it
\* has done stays done.
ExecutionGrows ==
    \A i \in Used :
        /\ i \in Used'
        /\ exec'[i].attempt = exec[i].attempt
        /\ exec'[i].bans = exec[i].bans
        /\ \A b \in Ban : /\ exec[i].ran[b] \subseteq exec'[i].ran[b]
                          /\ exec[i].sent[b] \subseteq exec'[i].sent[b]

\* An execution that starts takes an unused slot and disturbs no other.
LEMMA StartGrows ==
    ASSUME TypeOK, PipelineInv, NEW i \in Exec, NEW bans, NEW n, NEW known,
           StartExecution(i, bans, n, known)
    PROVE  ExecutionGrows /\ PipelineInv'
<1>1. exec'[i].ran = [b \in Ban |-> {}] /\ exec'[i].sent = [b \in Ban |-> {}]
  BY DEF StartExecution, TypeOK, Unused
<1>2. \A j \in Exec \ {i} : exec'[j] = exec[j]
  BY DEF StartExecution, TypeOK
<1>3. i \notin Used
  BY DEF StartExecution, Used
<1>4. ExecutionGrows
  BY <1>2, <1>3 DEF ExecutionGrows, Used
<1>5. PipelineInv'
  BY <1>1, <1>2 DEF PipelineInv, Used
<1> QED
  BY <1>4, <1>5

\* A change of state, knowledge or push touches neither.
LEMMA SameProgress ==
    ASSUME TypeOK, PipelineInv,
           \A i \in Exec : /\ i \in Used => i \in Used'
                           /\ exec'[i].attempt = exec[i].attempt
                           /\ exec'[i].bans = exec[i].bans
                           /\ exec'[i].ran = exec[i].ran
                           /\ exec'[i].sent = exec[i].sent
    PROVE  ExecutionGrows /\ PipelineInv'
<1>1. ExecutionGrows
  BY DEF ExecutionGrows, Used
<1>2. PipelineInv'
  BY DEF PipelineInv
<1> QED
  BY <1>1, <1>2

\* What an operator does never takes back an execution's progress.
LEMMA OperateGrows ==
    ASSUME TypeOK, PipelineInv, Operate
    PROVE  ExecutionGrows /\ PipelineInv'
<1>1. CASE UNCHANGED exec
  BY <1>1, SameProgress DEF Used
<1>2. ASSUME NEW op \in Operator, NEW i \in Exec, NEW v \in BOOLEAN,
             NEW pend \in SUBSET Ban, NEW excl \in SUBSET Ban, NEW n \in Nat,
             \/ Trigger(op, i, pend, excl, n, v)
             \/ OpenTrigger(op, i, pend, excl, n, v)
      PROVE  ExecutionGrows /\ PipelineInv'
  BY <1>2, StartGrows DEF Trigger, OpenTrigger
<1>3. ASSUME NEW op \in Operator, NEW i \in Exec, NEW v \in BOOLEAN,
             NEW sel \in SUBSET Ban, NEW n \in Nat,
             \/ Rerun(op, i, sel, n, v)
             \/ OpenRerun(op, i, sel, n, v)
      PROVE  ExecutionGrows /\ PipelineInv'
  BY <1>3, StartGrows DEF Rerun, OpenRerun
<1>4. CASE CommitTrigger \/ CommitRerun
  <2>1. exec' = [exec EXCEPT ![txn.exec].known = TRUE]
    BY <1>4 DEF CommitTrigger, CommitRerun
  <2>2. \A i \in Exec : /\ exec'[i].state = exec[i].state
                        /\ exec'[i].attempt = exec[i].attempt
                        /\ exec'[i].bans = exec[i].bans
                        /\ exec'[i].ran = exec[i].ran
                        /\ exec'[i].sent = exec[i].sent
    BY <2>1 DEF TypeOK, Execution
  <2> QED
    BY <2>2, SameProgress DEF Used
<1>5. ASSUME NEW killed \in BOOLEAN, Cancel(killed)
      PROVE  ExecutionGrows /\ PipelineInv'
  <2>1. \/ UNCHANGED exec
        \/ exec' = [exec EXCEPT ![run.exec] = [@ EXCEPT !.state = "KILLED",
                                                       !.push = TRUE]]
    BY <1>5 DEF Cancel
  <2>2. CASE exec' = [exec EXCEPT ![run.exec] = [@ EXCEPT !.state = "KILLED",
                                                          !.push = TRUE]]
    <3>1. \A i \in Exec : /\ i \in Used => exec'[i].state # "UNUSED"
                          /\ exec'[i].attempt = exec[i].attempt
                          /\ exec'[i].bans = exec[i].bans
                          /\ exec'[i].ran = exec[i].ran
                          /\ exec'[i].sent = exec[i].sent
      BY <2>2 DEF TypeOK, Execution, Used
    <3> QED
      BY <3>1, SameProgress DEF Used
  <2> QED
    BY <1>1, <2>1, <2>2
<1>6. CASE \/ RollBack \/ Reconcile \/ ClosePeriod
           \/ \E sel \in SUBSET Ban : Reject(sel)
           \/ \E op \in Operator : Approve(op)
  BY <1>1, <1>6 DEF RollBack, Reconcile, ClosePeriod, Reject, Approve
<1> QED
  BY OperateCases, <1>2, <1>3, <1>4, <1>5, <1>6

\* What the engine does never takes back an execution's progress.
LEMMA EngineGrows ==
    ASSUME TypeOK, PipelineInv, Engine
    PROVE  ExecutionGrows /\ PipelineInv'
<1>1. PICK i \in Exec :
              \/ \E b \in exec[i].bans :
                    \/ Collect(i, b) \/ Aggregate(i, b) \/ Verify(i, b)
                    \/ OtherStage(i, b) \/ Raise(i, b)
                    \/ PostSignal(i, b) \/ LoseSignal(i, b)
                    \/ PostFailed(i, b) \/ LoseFailed(i, b)
                    \/ Redeliver(i, b)
              \/ Finish(i) \/ Crash(i) \/ StatusPush(i) \/ LosePush(i)
  BY EngineCases
<1>2. /\ exec[i] \in Execution /\ exec[i].bans \subseteq Ban
  BY DEF TypeOK, Execution
<1>3. ASSUME NEW b \in exec[i].bans, NEW s \in Stage, NextStage(i, b, s),
             Ran(i, b, s)
      PROVE  ExecutionGrows /\ PipelineInv'
  <2>1. \A j \in Exec : /\ exec'[j].state = exec[j].state
                        /\ exec'[j].attempt = exec[j].attempt
                        /\ exec'[j].bans = exec[j].bans
                        /\ exec'[j].sent = exec[j].sent
    BY <1>2, <1>3 DEF Ran, TypeOK, Execution
  <2>2. \A j \in Exec : \A c \in Ban :
           exec'[j].ran[c] = IF j = i /\ c = b THEN exec[j].ran[c] \cup {s}
                                              ELSE exec[j].ran[c]
    BY <1>2, <1>3 DEF Ran, TypeOK, Execution
  <2>3. Earlier(s) \subseteq exec[i].sent[b]
    BY <1>3 DEF NextStage
  <2>4. ExecutionGrows
    BY <2>1, <2>2 DEF ExecutionGrows, Used
  <2>5. ASSUME NEW j \in Exec, NEW c \in Ban
        PROVE  /\ exec'[j].sent[c] \subseteq exec'[j].ran[c]
               /\ \A t \in exec'[j].ran[c] :
                     j \in Used' /\ Earlier(t) \subseteq exec'[j].sent[c]
    <3>1. /\ exec[j].sent[c] \subseteq exec[j].ran[c]
          /\ \A t \in exec[j].ran[c] :
                j \in Used /\ Earlier(t) \subseteq exec[j].sent[c]
      BY DEF PipelineInv
    <3>2. exec'[j].sent[c] = exec[j].sent[c] /\ (j \in Used => j \in Used')
      BY <2>1 DEF Used
    <3>3. CASE j = i /\ c = b
      <4>1. j \in Used
        BY <1>3, <3>3 DEF NextStage, InPipeline, Used
      <4> QED
        BY <2>2, <2>3, <3>1, <3>2, <3>3, <4>1
    <3>4. CASE ~ (j = i /\ c = b)
      BY <2>2, <3>1, <3>2, <3>4
    <3> QED
      BY <3>3, <3>4
  <2>6. PipelineInv'
    BY <2>5 DEF PipelineInv
  <2> QED
    BY <2>4, <2>6
<1>4. ASSUME NEW b \in exec[i].bans, NEW s \in exec[i].ran[b],
             exec' = [exec EXCEPT ![i].sent[b] = @ \cup {s}]
      PROVE  ExecutionGrows /\ PipelineInv'
  <2>1. \A j \in Exec : /\ exec'[j].state = exec[j].state
                        /\ exec'[j].attempt = exec[j].attempt
                        /\ exec'[j].bans = exec[j].bans
                        /\ exec'[j].ran = exec[j].ran
    BY <1>2, <1>4 DEF TypeOK, Execution
  <2>2. \A j \in Exec : \A c \in Ban :
           exec'[j].sent[c] = IF j = i /\ c = b THEN exec[j].sent[c] \cup {s}
                                               ELSE exec[j].sent[c]
    BY <1>2, <1>4 DEF TypeOK, Execution
  <2>3. ExecutionGrows
    BY <2>1, <2>2 DEF ExecutionGrows, Used
  <2>4. ASSUME NEW j \in Exec, NEW c \in Ban
        PROVE  /\ exec'[j].sent[c] \subseteq exec'[j].ran[c]
               /\ \A t \in exec'[j].ran[c] :
                     j \in Used' /\ Earlier(t) \subseteq exec'[j].sent[c]
    <3>1. /\ exec[j].sent[c] \subseteq exec[j].ran[c]
          /\ \A t \in exec[j].ran[c] :
                j \in Used /\ Earlier(t) \subseteq exec[j].sent[c]
      BY DEF PipelineInv
    <3>2. exec'[j].ran[c] = exec[j].ran[c] /\ (j \in Used => j \in Used')
      BY <2>1 DEF Used
    <3>3. CASE j = i /\ c = b
      BY <1>4, <2>2, <3>1, <3>2, <3>3
    <3>4. CASE ~ (j = i /\ c = b)
      BY <2>2, <3>1, <3>2, <3>4
    <3> QED
      BY <3>3, <3>4
  <2>5. PipelineInv'
    BY <2>4 DEF PipelineInv
  <2> QED
    BY <2>3, <2>5
<1>5. ASSUME NEW b \in exec[i].bans, NEW f,
             exec' = [exec EXCEPT ![i].fate[b] = f]
      PROVE  ExecutionGrows /\ PipelineInv'
  <2>1. \A j \in Exec : /\ exec'[j].state = exec[j].state
                        /\ exec'[j].attempt = exec[j].attempt
                        /\ exec'[j].bans = exec[j].bans
                        /\ exec'[j].ran = exec[j].ran
                        /\ exec'[j].sent = exec[j].sent
    BY <1>2, <1>5 DEF TypeOK, Execution
  <2> QED
    BY <2>1, SameProgress DEF Used
<1>6. {"collection", "aggregation", "verification"} \subseteq Stage
  BY PipelineAssumption
<1>7. ASSUME NEW b \in exec[i].bans,
             \/ Collect(i, b) \/ Aggregate(i, b) \/ Verify(i, b)
             \/ OtherStage(i, b) \/ Raise(i, b)
      PROVE  ExecutionGrows /\ PipelineInv'
  BY <1>3, <1>5, <1>6, <1>7 DEF Collect, Aggregate, Verify, OtherStage, Raise
<1>8. ASSUME NEW b \in exec[i].bans,
             \/ PostSignal(i, b) \/ LoseSignal(i, b) \/ PostFailed(i, b)
             \/ LoseFailed(i, b)
      PROVE  ExecutionGrows /\ PipelineInv'
  BY <1>4, <1>5, <1>8 DEF PostSignal, LoseSignal, PostFailed, LoseFailed
<1>9. ASSUME NEW b, Redeliver(i, b)
      PROVE  ExecutionGrows /\ PipelineInv'
  BY <1>9, SameProgress DEF Redeliver, Used
<1>10. CASE Finish(i) \/ Crash(i) \/ StatusPush(i) \/ LosePush(i)
  <2>1. PICK e \in Execution :
           /\ exec' = [exec EXCEPT ![i] = e]
           /\ e.state \in {exec[i].state, "SUCCESS", "FAILED"}
           /\ e.attempt = exec[i].attempt /\ e.bans = exec[i].bans
           /\ e.ran = exec[i].ran /\ e.sent = exec[i].sent
    <3>1. CASE Finish(i)
      <4>1. exec' = [exec EXCEPT ![i] = [exec[i] EXCEPT !.state = "SUCCESS"]]
        BY <3>1 DEF Finish, TypeOK
      <4>2. [exec[i] EXCEPT !.state = "SUCCESS"] \in Execution
        BY <1>2, ExecutionUpdates
      <4> QED
        BY <1>2, <4>1, <4>2 DEF Execution
    <3>2. CASE Crash(i)
      <4>1. exec' = [exec EXCEPT ![i] = [exec[i] EXCEPT !.state = "FAILED",
                                                        !.push = TRUE]]
        BY <3>2 DEF Crash, TypeOK
      <4>2. [exec[i] EXCEPT !.state = "FAILED", !.push = TRUE] \in Execution
        BY <1>2, ExecutionUpdates
      <4> QED
        BY <1>2, <4>1, <4>2 DEF Execution
    <3>3. CASE StatusPush(i) \/ LosePush(i)
      <4>1. exec' = [exec EXCEPT ![i] = [exec[i] EXCEPT !.push = FALSE]]
        BY <3>3 DEF StatusPush, LosePush, TypeOK
      <4>2. [exec[i] EXCEPT !.push = FALSE] \in Execution
        BY <1>2, ExecutionUpdates
      <4> QED
        BY <1>2, <4>1, <4>2 DEF Execution
    <3> QED
      BY <1>10, <3>1, <3>2, <3>3
  <2>2. \A j \in Exec : /\ j \in Used => exec'[j].state # "UNUSED"
                        /\ exec'[j].attempt = exec[j].attempt
                        /\ exec'[j].bans = exec[j].bans
                        /\ exec'[j].ran = exec[j].ran
                        /\ exec'[j].sent = exec[j].sent
    BY <2>1 DEF TypeOK, Used
  <2> QED
    BY <2>2, SameProgress DEF Used
<1> QED
  BY <1>1, <1>7, <1>8, <1>9, <1>10

\* A stage is posted only after it ran, and started only after the earlier ones were posted.
LEMMA PipelineStep ==
    ASSUME TypeOK, PipelineInv, [Next]_vars
    PROVE  ExecutionGrows /\ PipelineInv'
<1>1. CASE UNCHANGED vars
  BY <1>1, SameProgress DEF vars, Used
<1> QED
  BY <1>1, OperateGrows, EngineGrows DEF Next

\* No execution has done anything at the start.
LEMMA PipelineInit == Init => PipelineInv
BY DEF Init, PipelineInv, Unused

\* Once verification is done, everything is.
LEMMA VerifiedRanAll ==
    ASSUME TypeOK, PipelineInv, NEW i \in Exec, NEW b \in Ban,
           "verification" \in exec[i].ran[b]
    PROVE  i \in Used /\ exec[i].ran[b] = Stage
<1>1. exec[i].ran[b] \subseteq Stage
  BY DEF TypeOK, Execution
<1>2. i \in Used /\ Stage \ {"verification"} \subseteq exec[i].ran[b]
  BY PipelineAssumption DEF PipelineInv
<1> QED
  BY <1>1, <1>2

-----------------------------------------------------------------------------
(* Evidence.                                                               *)

\* An account that stays PROCESSED on the same attempt keeps its evidence.
LEMMA EvidenceKept ==
    ASSUME TypeOK, TypeOK', ProcessedHasEvidence, ExecutionGrows, NEW b \in Ban,
           acct[b].status = "PROCESSED", acct'[b].attempt = acct[b].attempt
    PROVE  \E i \in Used' : /\ b \in exec'[i].bans
                            /\ exec'[i].attempt = acct'[b].attempt
                            /\ exec'[i].ran[b] = Stage
<1>1. PICK i \in Used : /\ b \in exec[i].bans
                        /\ exec[i].attempt = acct[b].attempt
                        /\ exec[i].ran[b] = Stage
  BY DEF ProcessedHasEvidence
<1>2. /\ i \in Used' /\ exec'[i].attempt = exec[i].attempt
      /\ exec'[i].bans = exec[i].bans /\ Stage \subseteq exec'[i].ran[b]
  BY <1>1 DEF ExecutionGrows
<1>3. exec'[i].ran[b] \subseteq Stage
  BY <1>2 DEF TypeOK, Execution, Used
<1>4. exec'[i].ran[b] = Stage
  BY <1>2, <1>3
<1> QED
  BY <1>1, <1>2, <1>4

\* No operator's step makes an account PROCESSED.
LEMMA OperateProcessesNothing ==
    ASSUME TypeOK, Operate, NEW b \in Ban, acct'[b].status = "PROCESSED"
    PROVE  acct[b].status = "PROCESSED" /\ acct'[b].attempt = acct[b].attempt
<1>1. ASSUME NEW op, NEW i, NEW pend, NEW excl, NEW n, NEW v,
             WriteTrigger(op, i, pend, excl, n, v)
      PROVE  FALSE
  BY <1>1 DEF WriteTrigger, Unscoped
<1>2. ASSUME NEW op, NEW i, NEW sel, NEW n, NEW v,
             WriteRerun(op, i, sel, n, v)
      PROVE  acct'[b] = acct[b]
  BY <1>2 DEF WriteRerun, Unscoped
<1>3. ASSUME NEW op, NEW i, NEW v, NEW pend, NEW excl, NEW n,
             \/ Trigger(op, i, pend, excl, n, v)
             \/ OpenTrigger(op, i, pend, excl, n, v)
      PROVE  acct'[b] = acct[b]
  BY <1>1, <1>3 DEF Trigger, OpenTrigger
<1>4. ASSUME NEW op, NEW i, NEW v, NEW sel, NEW n,
             \/ Rerun(op, i, sel, n, v)
             \/ OpenRerun(op, i, sel, n, v)
      PROVE  acct'[b] = acct[b]
  BY <1>2, <1>4 DEF Rerun, OpenRerun
<1>5. CASE CommitTrigger \/ CommitRerun
  BY <1>1, <1>2, <1>5 DEF CommitTrigger, CommitRerun
<1>6. CASE \/ \E killed \in BOOLEAN : Cancel(killed)
           \/ \E op \in Operator : Approve(op)
  <2>1. \/ acct'[b] = acct[b]
        \/ acct'[b] = [acct[b] EXCEPT !.status = "PENDING"]
        \/ acct'[b] = [acct[b] EXCEPT !.status = "SKIPPED"]
    BY <1>6 DEF Cancel, Approve
  <2> QED
    BY <2>1 DEF TypeOK, AccountRow
<1>7. CASE \E sel \in SUBSET Ban : Reject(sel)
  BY <1>7 DEF Reject, TypeOK, AccountRow
<1>8. CASE RollBack \/ Reconcile \/ ClosePeriod
  BY <1>8 DEF RollBack, Reconcile, ClosePeriod
<1> QED
  BY OperateCases, <1>3, <1>4, <1>5, <1>6, <1>7, <1>8

\* An account becomes PROCESSED by a verification signal of its attempt, and stays so on that evidence.
LEMMA EvidenceStep ==
    ASSUME TypeOK, TypeOK', PipelineInv, ProcessedHasEvidence, [Next]_vars
    PROVE  ProcessedHasEvidence'
<1> SUFFICES ASSUME NEW b \in Ban, acct'[b].status = "PROCESSED"
             PROVE  \E i \in Used' : /\ b \in exec'[i].bans
                                     /\ exec'[i].attempt = acct'[b].attempt
                                     /\ exec'[i].ran[b] = Stage
  BY DEF ProcessedHasEvidence
<1>1. ExecutionGrows /\ PipelineInv'
  BY PipelineStep
<1>2. CASE acct[b].status = "PROCESSED" /\ acct'[b].attempt = acct[b].attempt
  BY <1>1, <1>2, EvidenceKept
<1>3. CASE UNCHANGED vars
  BY <1>2, <1>3 DEF vars
<1>4. CASE Operate
  BY <1>2, <1>4, OperateProcessesNothing
<1>5. CASE Engine
  <2>1. CASE UNCHANGED acct
    BY <1>2, <2>1
  <2>2. ASSUME NEW c \in Ban, NEW n, NEW s \in Stage, NEW o,
               HandleStageSignal(c, n, s, o)
        PROVE  /\ acct'[b].attempt = acct[b].attempt
               /\ \/ acct[b].status = "PROCESSED"
                  \/ /\ b = c /\ n = acct[c].attempt
                     /\ s = "verification" /\ o # "FAILED"
    BY <2>2, SignalAccounts
  <2>3. ASSUME NEW i \in Exec, NEW c \in exec[i].bans, NEW s \in Stage, NEW o,
               HandleStageSignal(c, exec[i].attempt, s, o),
               o = "DONE" => s \in exec[i].ran[c] \cup exec[i].sent[c],
               o \in {"DONE", "FAILED"}
        PROVE  \E j \in Used' : /\ b \in exec'[j].bans
                                /\ exec'[j].attempt = acct'[b].attempt
                                /\ exec'[j].ran[b] = Stage
    <3>1. c \in Ban
      BY DEF TypeOK, Execution
    <3>2. /\ acct'[b].attempt = acct[b].attempt
          /\ \/ acct[b].status = "PROCESSED"
             \/ /\ b = c /\ exec[i].attempt = acct[c].attempt
                /\ s = "verification" /\ o # "FAILED"
      BY <2>2, <2>3, <3>1
    <3>3. CASE /\ b = c /\ exec[i].attempt = acct[c].attempt
               /\ s = "verification" /\ o # "FAILED"
      <4>1. "verification" \in exec[i].ran[b]
        BY <2>3, <3>3 DEF PipelineInv
      <4>2. i \in Used /\ exec[i].ran[b] = Stage
        BY <4>1, VerifiedRanAll
      <4>3. /\ i \in Used' /\ exec'[i].attempt = exec[i].attempt
            /\ exec'[i].bans = exec[i].bans /\ Stage \subseteq exec'[i].ran[b]
        BY <1>1, <4>2 DEF ExecutionGrows
      <4>4. exec'[i].ran[b] \subseteq Stage
        BY DEF TypeOK, Execution
      <4>5. exec'[i].ran[b] = Stage
        BY <4>3, <4>4
      <4> QED
        BY <3>2, <3>3, <4>3, <4>5, <2>3
    <3> QED
      BY <1>2, <3>2, <3>3
  <2> QED
    BY <1>5, <2>1, <2>3, EngineCallbacks
<1> QED
  BY <1>3, <1>4, <1>5 DEF Next

\* No account becomes PROCESSED on the word of a superseded, repeated or
\* reordered signal: an execution of its current attempt has put it through
\* every stage of the pipeline.
THEOREM EvidenceTheorem == Spec => []ProcessedHasEvidence
<1>1. Init => ProcessedHasEvidence
  BY DEF Init, ProcessedHasEvidence, Unscoped
<1>2. Spec => [](TypeOK /\ PipelineInv)
  BY PipelineInit, PipelineStep, TypeCorrect, PTL DEF Spec
<1> QED
  BY <1>1, <1>2, EvidenceStep, TypeCorrect, PTL DEF Spec

-----------------------------------------------------------------------------
(* Attempt numbers.                                                        *)

\* A number past the highest attempt in S is past every attempt in S.
LEMMA NewerThan ==
    ASSUME TypeOK, NEW n \in Nat, NEW S \in SUBSET Ban, n > 0,
           IsHighest(n - 1, S)
    PROVE  \A b \in S : acct[b].attempt < n
<1>1. \A b \in S : acct[b].attempt \in Nat /\ acct[b].attempt <= n - 1
  BY DEF IsHighest, TypeOK, AccountRow
<1> QED
  BY <1>1

\* The rows remember every execution the application knows: one scoped account
\* is at its attempt or past it, and so is every account of it still scoped.
RowsRemember ==
    \A i \in Used : exec[i].known =>
        /\ \E b \in Scoped : exec[i].attempt <= acct[b].attempt
        /\ \A b \in exec[i].bans \cap Scoped : exec[i].attempt <= acct[b].attempt

\* An open transaction commits the attempt its execution runs, and its number
\* is past every account it is going to replace.
OpenTxnInv ==
    txn.kind # "none" =>
        /\ txn.exec \in Used
        /\ exec[txn.exec].attempt = txn.attempt
        /\ exec[txn.exec].bans = txn.bans
        /\ txn.bans # {}
        /\ txn.kind = "trigger" => \A b \in Scoped : acct[b].attempt < txn.attempt
        /\ txn.kind = "rerun" =>
              \A b \in txn.bans : b \in Scoped /\ acct[b].attempt < txn.attempt

AttemptInv == AttemptFresh /\ RowsRemember /\ OpenTxnInv

\* The executions the application knows after the step, but for i, are those
\* it knew before.
LearnsOnly(i) ==
    \A j \in Used' : exec'[j].known /\ j # i =>
        /\ j \in Used /\ exec[j].known
        /\ exec'[j].attempt = exec[j].attempt
        /\ exec'[j].bans = exec[j].bans

\* A trigger's snapshot remembers the new execution, which is past all others.
LEMMA TriggerAttempts ==
    ASSUME TypeOK, TypeOK', AttemptFresh, RowsRemember,
           NEW op, NEW i \in Exec, NEW pend \in SUBSET Ban, NEW excl,
           NEW n \in Nat, NEW v, WriteTrigger(op, i, pend, excl, n, v),
           pend # {}, \A b \in Scoped : acct[b].attempt < n,
           LearnsOnly(i), exec'[i].attempt = n, exec'[i].bans = pend
    PROVE  AttemptFresh' /\ RowsRemember'
<1>1. \A b \in Ban : acct'[b].status # "NONE" => acct'[b].attempt = n
  BY DEF WriteTrigger, Unscoped
<1>2. \A b \in pend : b \in Scoped'
  BY DEF WriteTrigger, Unscoped, Scoped
<1>3. ASSUME NEW j \in Used', exec'[j].known, j # i
      PROVE  exec'[j].attempt < n
  <2>1. PICK b \in Scoped : exec[j].attempt <= acct[b].attempt
    BY <1>3 DEF LearnsOnly, RowsRemember
  <2>2. /\ exec[j].attempt \in Nat /\ acct[b].attempt \in Nat
        /\ acct[b].attempt < n
    BY <1>3, <2>1 DEF LearnsOnly, TypeOK, Execution, AccountRow, Scoped, Used
  <2> QED
    BY <1>3, <2>1, <2>2 DEF LearnsOnly
<1>4. AttemptFresh'
  <2>1. \A j \in Used' : exec'[j].attempt \in Nat
    BY DEF TypeOK, Execution, Used
  <2>2. SUFFICES ASSUME NEW j \in Used', NEW k \in Used', j # k,
                        exec'[j].known, exec'[k].known,
                        exec'[j].attempt = exec'[k].attempt
                 PROVE  exec'[j].bans \cap exec'[k].bans = {}
    BY DEF AttemptFresh
  <2>3. j # i /\ k # i
    BY <1>3, <2>1, <2>2
  <2> QED
    BY <2>2, <2>3 DEF LearnsOnly, AttemptFresh
<1>5. RowsRemember'
  <2>1. SUFFICES ASSUME NEW j \in Used', exec'[j].known
                 PROVE  exec'[j].attempt <= n
    BY <1>1, <1>2 DEF RowsRemember, Scoped
  <2>2. exec'[j].attempt \in Nat
    BY DEF TypeOK, Execution, Used
  <2> QED
    BY <1>3, <2>1, <2>2
<1> QED
  BY <1>4, <1>5

\* A rerun's number is past the accounts it takes, so the executions it could
\* be confused with have none of them.
LEMMA RerunAttempts ==
    ASSUME TypeOK, TypeOK', AttemptFresh, RowsRemember,
           NEW op, NEW i \in Exec, NEW sel \in SUBSET Ban, NEW n \in Nat,
           NEW v, WriteRerun(op, i, sel, n, v), sel # {},
           \A b \in sel : b \in Scoped /\ acct[b].attempt < n,
           LearnsOnly(i), exec'[i].attempt = n, exec'[i].bans = sel
    PROVE  AttemptFresh' /\ RowsRemember'
<1>1. \A b \in sel : b \in Scoped' /\ acct'[b].attempt = n
  BY DEF WriteRerun, Unscoped, Scoped
<1>2. \A b \in Ban \ sel : acct'[b] = acct[b] /\ (b \in Scoped' <=> b \in Scoped)
  BY DEF WriteRerun, Scoped
<1>3. \A b \in Scoped : /\ b \in Scoped' /\ acct[b].attempt \in Nat
                        /\ acct'[b].attempt \in Nat
                        /\ acct[b].attempt <= acct'[b].attempt
  BY <1>1, <1>2 DEF TypeOK, AccountRow, Scoped
<1>4. \A j \in Used' : exec'[j].attempt \in Nat
  BY DEF TypeOK, Execution, Used
<1>5. ASSUME NEW j \in Used', exec'[j].known, j # i
      PROVE  \A b \in exec'[j].bans \cap sel : exec'[j].attempt < n
  <2>1. SUFFICES ASSUME NEW b \in exec'[j].bans \cap sel
                 PROVE  exec'[j].attempt < n
    OBVIOUS
  <2>2. exec'[j].attempt <= acct[b].attempt
    BY <1>5, <2>1 DEF LearnsOnly, RowsRemember
  <2> QED
    BY <1>3, <1>4, <2>1, <2>2
<1>6. AttemptFresh'
  <2>1. SUFFICES ASSUME NEW j \in Used', NEW k \in Used', j # k,
                        exec'[j].known, exec'[k].known,
                        exec'[j].attempt = exec'[k].attempt
                 PROVE  exec'[j].bans \cap exec'[k].bans = {}
    BY DEF AttemptFresh
  <2>2. CASE j # i /\ k # i
    BY <2>1, <2>2 DEF LearnsOnly, AttemptFresh
  <2>3. CASE j = i
    BY <1>4, <1>5, <2>1, <2>3
  <2>4. CASE k = i
    BY <1>4, <1>5, <2>1, <2>4
  <2> QED
    BY <2>2, <2>3, <2>4
<1>7. RowsRemember'
  <2>1. SUFFICES ASSUME NEW j \in Used', exec'[j].known
                 PROVE  /\ \E b \in Scoped' : exec'[j].attempt <= acct'[b].attempt
                        /\ \A b \in exec'[j].bans \cap Scoped' :
                              exec'[j].attempt <= acct'[b].attempt
    BY DEF RowsRemember
  <2>2. CASE j = i
    BY <1>1, <2>2
  <2>3. CASE j # i
    <3>1. PICK b \in Scoped : exec'[j].attempt <= acct[b].attempt
      BY <2>1, <2>3 DEF LearnsOnly, RowsRemember
    <3>2. exec'[j].attempt <= acct'[b].attempt
      BY <1>3, <1>4, <3>1
    <3>3. ASSUME NEW c \in exec'[j].bans \cap Scoped'
          PROVE  exec'[j].attempt <= acct'[c].attempt
      <4>1. CASE c \in sel
        BY <1>1, <1>4, <1>5, <2>1, <2>3, <4>1
      <4>2. CASE c \notin sel
        <5>1. c \in Scoped /\ acct'[c] = acct[c]
          BY <1>2, <4>2 DEF Scoped
        <5> QED
          BY <2>1, <2>3, <5>1 DEF LearnsOnly, RowsRemember
      <4> QED
        BY <4>1, <4>2
    <3> QED
      BY <1>3, <3>1, <3>2, <3>3
  <2> QED
    BY <2>2, <2>3
<1> QED
  BY <1>6, <1>7

\* Steps that learn of no execution and renumber no account.
LEMMA KeptAttempts ==
    ASSUME TypeOK, AttemptFresh, RowsRemember, LearnsOnly(None),
           \A b \in Ban : /\ acct'[b].attempt = acct[b].attempt
                          /\ acct'[b].status = "NONE" <=> acct[b].status = "NONE"
    PROVE  AttemptFresh' /\ RowsRemember' /\ Scoped' = Scoped
<1>1. Scoped' = Scoped
  BY DEF Scoped
<1>2. \A b \in Scoped : acct'[b].attempt = acct[b].attempt
  BY DEF Scoped
<1>3. \A j \in Used' : exec'[j].known =>
         /\ j \in Used /\ exec[j].known
         /\ exec'[j].attempt = exec[j].attempt
         /\ exec'[j].bans = exec[j].bans
  BY NoneAssumption DEF LearnsOnly, Used
<1>4. AttemptFresh'
  BY <1>3 DEF AttemptFresh
<1>5. RowsRemember'
  BY <1>1, <1>2, <1>3 DEF RowsRemember
<1> QED
  BY <1>1, <1>4, <1>5

\* The engine tells the application of no execution.
LEMMA EngineLearns ==
    ASSUME TypeOK, PipelineInv, Engine
    PROVE  LearnsOnly(None)
<1>1. PICK i \in Exec :
              \/ \E b \in exec[i].bans :
                    \/ Collect(i, b) \/ Aggregate(i, b) \/ Verify(i, b)
                    \/ OtherStage(i, b) \/ Raise(i, b)
                    \/ PostSignal(i, b) \/ LoseSignal(i, b)
                    \/ PostFailed(i, b) \/ LoseFailed(i, b)
                    \/ Redeliver(i, b)
              \/ Finish(i) \/ Crash(i) \/ StatusPush(i) \/ LosePush(i)
  BY EngineCases
<1>6. exec[i] \in Execution
  BY DEF TypeOK
<1>2. ExecutionGrows
  BY EngineGrows
<1>3. \A j \in Exec : j # i => exec'[j] = exec[j]
  <2>1. ASSUME NEW b,
               \/ Collect(i, b) \/ Aggregate(i, b) \/ Verify(i, b)
               \/ OtherStage(i, b) \/ Raise(i, b)
               \/ PostSignal(i, b) \/ LoseSignal(i, b)
               \/ PostFailed(i, b) \/ LoseFailed(i, b)
               \/ Redeliver(i, b)
        PROVE  \A j \in Exec : j # i => exec'[j] = exec[j]
    BY <2>1 DEF Collect, Aggregate, Verify, OtherStage, Raise, PostSignal,
       LoseSignal, PostFailed, LoseFailed, Redeliver, Ran, TypeOK
  <2>2. CASE Finish(i) \/ Crash(i) \/ StatusPush(i) \/ LosePush(i)
    BY <2>2 DEF Finish, Crash, StatusPush, LosePush, TypeOK
  <2> QED
    BY <1>1, <2>1, <2>2
<1>4. i \in Used' /\ exec'[i].known => i \in Used /\ exec[i].known
  <2>1. ASSUME NEW b \in exec[i].bans,
               \/ Collect(i, b) \/ Aggregate(i, b) \/ Verify(i, b)
               \/ OtherStage(i, b) \/ Raise(i, b)
               \/ LoseSignal(i, b) \/ LoseFailed(i, b)
               \/ PostSignal(i, b) \/ PostFailed(i, b)
        PROVE  i \in Used /\ (exec'[i].known <=> exec[i].known)
    <3>1. exec[i].state = "RUNNING"
      BY <2>1 DEF Collect, Aggregate, Verify, OtherStage, Raise, LoseSignal,
         LoseFailed, PostSignal, PostFailed, NextStage, InPipeline, Raised
    <3>2. \/ \E s : exec' = [exec EXCEPT ![i].ran[b] = @ \cup {s}]
          \/ \E s : exec' = [exec EXCEPT ![i].sent[b] = @ \cup {s}]
          \/ \E f : exec' = [exec EXCEPT ![i].fate[b] = f]
      BY <2>1 DEF Collect, Aggregate, Verify, OtherStage, Raise, LoseSignal,
         LoseFailed, PostSignal, PostFailed, Ran
    <3>3. exec'[i].known = exec[i].known
      <4>1. CASE \E s : exec' = [exec EXCEPT ![i].ran[b] = @ \cup {s}]
        BY <4>1, <1>6 DEF Execution
      <4>2. CASE \E s : exec' = [exec EXCEPT ![i].sent[b] = @ \cup {s}]
        BY <4>2, <1>6 DEF Execution
      <4>3. CASE \E f : exec' = [exec EXCEPT ![i].fate[b] = f]
        BY <4>3, <1>6 DEF Execution
      <4> QED BY <3>2, <4>1, <4>2, <4>3
    <3> QED
      BY <3>1, <3>3 DEF Used
  <2>2. ASSUME NEW b, Redeliver(i, b)
        PROVE  exec' = exec
    BY <2>2 DEF Redeliver
  <2>3. CASE Finish(i) \/ Crash(i)
    <3>1. /\ exec[i].state = "RUNNING"
          /\ \/ exec'[i] = [exec[i] EXCEPT !.state = "SUCCESS"]
             \/ exec'[i] = [exec[i] EXCEPT !.state = "FAILED", !.push = TRUE]
      BY <2>3 DEF Finish, Crash, TypeOK
    <3>2. exec'[i].known = exec[i].known
      BY <3>1, <1>6 DEF Execution
    <3> QED
      BY <3>1, <3>2 DEF Used
  <2>4. CASE StatusPush(i) \/ LosePush(i)
    <3>1. exec' = [exec EXCEPT ![i] = [exec[i] EXCEPT !.push = FALSE]]
      BY <2>4 DEF StatusPush, LosePush, TypeOK
    <3>2. exec'[i].known = exec[i].known /\ exec'[i].state = exec[i].state
      BY <3>1, <1>6 DEF TypeOK, Execution
    <3> QED
      BY <3>2 DEF Used
  <2> QED
    BY <1>1, <2>1, <2>2, <2>3, <2>4 DEF Used
<1>5. ASSUME NEW j \in Used', exec'[j].known
      PROVE  /\ j \in Used /\ exec[j].known
             /\ exec'[j].attempt = exec[j].attempt
             /\ exec'[j].bans = exec[j].bans
  <2>1. j \in Used /\ exec[j].known
    BY <1>3, <1>4, <1>5 DEF Used
  <2> QED
    BY <1>2, <2>1 DEF ExecutionGrows
<1> QED
  BY <1>5 DEF LearnsOnly

\* Starting an execution tells of it alone, and of nothing when it is unknown.
LEMMA StartLearns ==
    ASSUME TypeOK, NEW i \in Exec, NEW bans \in SUBSET Ban, NEW n \in Nat,
           NEW known \in BOOLEAN, StartExecution(i, bans, n, known)
    PROVE  /\ LearnsOnly(i) /\ (~known => LearnsOnly(None))
           /\ i \in Used' /\ exec'[i].attempt = n /\ exec'[i].bans = bans
<1>1. \A j \in Exec \ {i} : exec'[j] = exec[j]
  BY DEF StartExecution, TypeOK
<1>2. exec'[i] = [Unused EXCEPT !.state = "RUNNING", !.known = known,
                                !.attempt = n, !.bans = bans]
  BY DEF StartExecution, TypeOK
<1>3. /\ exec'[i].state = "RUNNING" /\ exec'[i].attempt = n
      /\ exec'[i].bans = bans /\ exec'[i].known = known
  BY <1>2 DEF Unused
<1>4. LearnsOnly(i)
  BY <1>1 DEF LearnsOnly, Used
<1>5. ~known => LearnsOnly(None)
  BY <1>1, <1>3 DEF LearnsOnly, Used
<1> QED
  BY <1>3, <1>4, <1>5 DEF Used

\* Opening a transaction: nothing is learnt, and the guards are what OpenTxnInv
\* says of the open transaction.
LEMMA OpenAttempts ==
    ASSUME TypeOK, AttemptInv, Unlocked, NEW i \in Exec,
           NEW bans \in SUBSET Ban, NEW n \in Nat,
           StartExecution(i, bans, n, FALSE), UNCHANGED acct, bans # {},
           txn'.kind \in {"trigger", "rerun"}, txn'.exec = i,
           txn'.bans = bans, txn'.attempt = n,
           txn'.kind = "trigger" => \A b \in Scoped : acct[b].attempt < n,
           txn'.kind = "rerun" =>
              \A b \in bans : b \in Scoped /\ acct[b].attempt < n
    PROVE  AttemptInv'
<1>1. LearnsOnly(None) /\ i \in Used' /\ exec'[i].attempt = n /\ exec'[i].bans = bans
  BY StartLearns
<1>2. AttemptFresh' /\ RowsRemember' /\ Scoped' = Scoped
  BY <1>1, KeptAttempts DEF AttemptInv
<1>3. OpenTxnInv'
  BY <1>1, <1>2 DEF OpenTxnInv
<1> QED
  BY <1>2, <1>3 DEF AttemptInv

\* Steps that learn nothing, renumber nothing and leave an open transaction be.
LEMMA QuietAttempts ==
    ASSUME TypeOK, AttemptInv, ExecutionGrows, LearnsOnly(None),
           UNCHANGED txn \/ txn'.kind = "none",
           \A b \in Ban : /\ acct'[b].attempt = acct[b].attempt
                          /\ acct'[b].status = "NONE" <=> acct[b].status = "NONE"
    PROVE  AttemptInv'
<1>1. AttemptFresh' /\ RowsRemember' /\ Scoped' = Scoped
  BY KeptAttempts DEF AttemptInv
<1>2. CASE txn'.kind = "none"
  BY <1>1, <1>2 DEF AttemptInv, OpenTxnInv
<1>3. CASE UNCHANGED txn /\ txn.kind # "none"
  <2>1. /\ txn.exec \in Used' /\ exec'[txn.exec].attempt = txn.attempt
        /\ exec'[txn.exec].bans = txn.bans
    BY <1>3 DEF AttemptInv, OpenTxnInv, ExecutionGrows
  <2>2. \A b \in Scoped : acct'[b].attempt = acct[b].attempt
    BY DEF Scoped
  <2>3. txn.kind = "rerun" => txn.bans \subseteq Scoped
    BY <1>3 DEF AttemptInv, OpenTxnInv
  <2> QED
    BY <1>1, <1>3, <2>1, <2>2, <2>3 DEF AttemptInv, OpenTxnInv
<1> QED
  BY <1>1, <1>2, <1>3

\* A new attempt number is past every one its accounts have had.
LEMMA OperateAttempts ==
    ASSUME TypeOK, TypeOK', PipelineInv, AttemptInv, Operate
    PROVE  AttemptInv'
<1>10. ExecutionGrows
  BY OperateGrows
<1>1. ASSUME NEW op \in Operator, NEW i \in Exec, NEW v \in BOOLEAN,
             NEW pend \in SUBSET Ban, NEW excl \in SUBSET Ban, NEW n \in Nat,
             Trigger(op, i, pend, excl, n, v)
      PROVE  AttemptInv'
  <2>1. /\ StartExecution(i, pend, n, TRUE) /\ pend # {}
        /\ WriteTrigger(op, i, pend, excl, n, v)
        /\ txn' = txn /\ txn.kind = "none"
    BY <1>1, UnlockedKind DEF Trigger, Triggerable
  <2>2. \A b \in Scoped : acct[b].attempt < n
    BY <1>1, NewerThan DEF Trigger, Triggerable, Scoped
  <2>3. LearnsOnly(i) /\ exec'[i].attempt = n /\ exec'[i].bans = pend
    BY <2>1, StartLearns
  <2>4. AttemptFresh' /\ RowsRemember'
    BY <2>1, <2>2, <2>3, TriggerAttempts DEF AttemptInv
  <2> QED
    BY <2>1, <2>4 DEF AttemptInv, OpenTxnInv
<1>2. ASSUME NEW op \in Operator, NEW i \in Exec, NEW v \in BOOLEAN,
             NEW pend \in SUBSET Ban, NEW excl \in SUBSET Ban, NEW n \in Nat,
             OpenTrigger(op, i, pend, excl, n, v)
      PROVE  AttemptInv'
  <2>1. /\ StartExecution(i, pend, n, FALSE) /\ pend # {} /\ Unlocked
        /\ UNCHANGED acct
        /\ txn'.kind = "trigger" /\ txn'.exec = i /\ txn'.bans = pend
        /\ txn'.attempt = n
    BY <1>2 DEF OpenTrigger, Triggerable
  <2>2. \A b \in Scoped : acct[b].attempt < n
    BY <1>2, NewerThan DEF OpenTrigger, Triggerable, Scoped
  <2> QED
    BY <2>1, <2>2, OpenAttempts
<1>3. ASSUME NEW op \in Operator, NEW i \in Exec, NEW v \in BOOLEAN,
             NEW sel \in SUBSET Ban, NEW n \in Nat, Rerun(op, i, sel, n, v)
      PROVE  AttemptInv'
  <2>1. /\ StartExecution(i, sel, n, TRUE) /\ sel # {} /\ sel \subseteq Scoped
        /\ WriteRerun(op, i, sel, n, v)
        /\ txn' = txn /\ txn.kind = "none"
    BY <1>3, UnlockedKind DEF Rerun, Rerunnable, Scoped
  <2>2. \A b \in sel : acct[b].attempt < n
    BY <1>3, NewerThan DEF Rerun, Rerunnable
  <2>3. LearnsOnly(i) /\ exec'[i].attempt = n /\ exec'[i].bans = sel
    BY <2>1, StartLearns
  <2>4. AttemptFresh' /\ RowsRemember'
    BY <2>1, <2>2, <2>3, RerunAttempts DEF AttemptInv
  <2> QED
    BY <2>1, <2>4 DEF AttemptInv, OpenTxnInv
<1>4. ASSUME NEW op \in Operator, NEW i \in Exec, NEW v \in BOOLEAN,
             NEW sel \in SUBSET Ban, NEW n \in Nat, OpenRerun(op, i, sel, n, v)
      PROVE  AttemptInv'
  <2>1. /\ StartExecution(i, sel, n, FALSE) /\ sel # {} /\ sel \subseteq Scoped
        /\ Unlocked /\ UNCHANGED acct
        /\ txn'.kind = "rerun" /\ txn'.exec = i /\ txn'.bans = sel
        /\ txn'.attempt = n
    BY <1>4 DEF OpenRerun, Rerunnable, Scoped
  <2>2. \A b \in sel : acct[b].attempt < n
    BY <1>4, NewerThan DEF OpenRerun, Rerunnable
  <2> QED
    BY <2>1, <2>2, OpenAttempts
<1>5. ASSUME CommitTrigger \/ CommitRerun
      PROVE  /\ txn.kind # "none" /\ txn \in Transaction \ {NoTxn}
             /\ LearnsOnly(txn.exec) /\ exec'[txn.exec].attempt = txn.attempt
             /\ exec'[txn.exec].bans = txn.bans /\ txn'.kind = "none"
  <2>1. /\ txn.kind \in {"trigger", "rerun"} /\ txn' = NoTxn
        /\ exec' = [exec EXCEPT ![txn.exec].known = TRUE]
    BY <1>5 DEF CommitTrigger, CommitRerun
  <2>2. \A j \in Exec : /\ exec'[j].attempt = exec[j].attempt
                        /\ exec'[j].bans = exec[j].bans
                        /\ exec'[j].state = exec[j].state
    BY <2>1 DEF TypeOK, Execution
  <2>3. \A j \in Exec : j # txn.exec => exec'[j] = exec[j]
    BY <2>1 DEF TypeOK
  <2>4. LearnsOnly(txn.exec)
    BY <2>2, <2>3 DEF LearnsOnly, Used
  <2>5. txn \in Transaction /\ txn # NoTxn /\ txn'.kind = "none"
    BY <2>1 DEF TypeOK, NoTxn
  <2> QED
    BY <2>1, <2>2, <2>4, <2>5 DEF AttemptInv, OpenTxnInv, Used
<1>6. CASE CommitTrigger
  <2>1. /\ txn.exec \in Exec /\ txn.bans \in SUBSET Ban /\ txn.attempt \in Nat
    BY <1>5, <1>6 DEF Transaction
  <2>2. /\ txn.bans # {} /\ \A b \in Scoped : acct[b].attempt < txn.attempt
        /\ WriteTrigger(txn.op, txn.exec, txn.bans, txn.excluded, txn.attempt,
                        txn.version)
    BY <1>6, <1>5 DEF CommitTrigger, AttemptInv, OpenTxnInv
  <2>3. AttemptFresh' /\ RowsRemember'
    BY <1>5, <1>6, <2>1, <2>2, TriggerAttempts DEF AttemptInv
  <2> QED
    BY <1>5, <1>6, <2>3 DEF AttemptInv, OpenTxnInv
<1>7. CASE CommitRerun
  <2>1. /\ txn.exec \in Exec /\ txn.bans \in SUBSET Ban /\ txn.attempt \in Nat
    BY <1>5, <1>7 DEF Transaction
  <2>2. /\ txn.bans # {}
        /\ \A b \in txn.bans : b \in Scoped /\ acct[b].attempt < txn.attempt
        /\ WriteRerun(txn.op, txn.exec, txn.bans, txn.attempt, txn.version)
    BY <1>7, <1>5 DEF CommitRerun, AttemptInv, OpenTxnInv
  <2>3. AttemptFresh' /\ RowsRemember'
    BY <1>5, <1>7, <2>1, <2>2, RerunAttempts DEF AttemptInv
  <2> QED
    BY <1>5, <1>7, <2>3 DEF AttemptInv, OpenTxnInv
<1>8. CASE RollBack \/ Reconcile \/ ClosePeriod
  <2>1. UNCHANGED <<acct, exec>> /\ (UNCHANGED txn \/ txn'.kind = "none")
    BY <1>8 DEF RollBack, Reconcile, ClosePeriod, NoTxn
  <2>2. LearnsOnly(None)
    BY <2>1 DEF LearnsOnly, Used
  <2> QED
    BY <1>10, <2>1, <2>2, QuietAttempts
<1>9. CASE \/ \E killed \in BOOLEAN : Cancel(killed)
           \/ \E sel \in SUBSET Ban : Reject(sel)
           \/ \E op \in Operator : Approve(op)
  <2>1. UNCHANGED txn
    BY <1>9 DEF Cancel, Reject, Approve
  <2>2. ASSUME NEW b \in Ban
        PROVE  /\ acct'[b].attempt = acct[b].attempt
               /\ acct'[b].status = "NONE" <=> acct[b].status = "NONE"
    <3>1. \/ acct'[b] = acct[b]
          \/ /\ acct[b].status # "NONE"
             /\ \E t \in {"PENDING", "SKIPPED"} :
                   acct'[b] = [acct[b] EXCEPT !.status = t]
          \/ acct'[b] = [acct[b] EXCEPT !.rejected = TRUE]
      BY <1>9 DEF Cancel, Reject, Approve, Skipped
    <3> QED
      BY <3>1 DEF TypeOK, AccountRow
  <2>3. LearnsOnly(None)
    <3>1. \/ UNCHANGED exec
          \/ exec' = [exec EXCEPT ![run.exec] = [@ EXCEPT !.state = "KILLED",
                                                         !.push = TRUE]]
             /\ exec[run.exec].state = "RUNNING"
      BY <1>9 DEF Cancel, Reject, Approve
    <3>2. ASSUME NEW j \in Exec
          PROVE  \/ exec'[j] = exec[j]
                 \/ /\ exec[j].state = "RUNNING"
                    /\ exec'[j] = [exec[j] EXCEPT !.state = "KILLED",
                                                  !.push = TRUE]
      BY <3>1 DEF TypeOK
    <3>3. ASSUME NEW j \in Exec
          PROVE  /\ exec'[j].known = exec[j].known
                 /\ j \in Used' => j \in Used
      <4>1. exec[j] \in Execution
        BY DEF TypeOK
      <4>2. exec'[j].known = exec[j].known
        BY <3>2, <4>1 DEF Execution
      <4> QED
        BY <3>2, <4>2 DEF Used
    <3> QED
      BY <1>10, <3>3 DEF LearnsOnly, ExecutionGrows, Used
  <2> QED
    BY <1>10, <2>1, <2>2, <2>3, QuietAttempts
<1> QED
  BY OperateCases, <1>1, <1>2, <1>3, <1>4, <1>6, <1>7, <1>8, <1>9

\* Attempt numbers stay fresh under every step.
LEMMA AttemptStep ==
    ASSUME TypeOK, TypeOK', PipelineInv, AttemptInv, [Next]_vars
    PROVE  AttemptInv'
<1>1. CASE UNCHANGED vars
  <2>1. LearnsOnly(None) /\ ExecutionGrows
    BY <1>1 DEF vars, LearnsOnly, ExecutionGrows, Used
  <2> QED
    BY <1>1, <2>1, QuietAttempts DEF vars
<1>2. CASE Engine
  <2>1. ASSUME NEW c \in Ban
        PROVE  /\ acct'[c].attempt = acct[c].attempt
               /\ acct'[c].status = "NONE" <=> acct[c].status = "NONE"
    <3>1. ASSUME NEW b \in Ban, NEW n, NEW s \in Stage, NEW o,
                 HandleStageSignal(b, n, s, o)
          PROVE  /\ acct'[c].attempt = acct[c].attempt
                 /\ acct'[c].status = "NONE" <=> acct[c].status = "NONE"
      BY <3>1, SignalAccounts
    <3>2. \A i \in Exec : exec[i].bans \subseteq Ban
      BY DEF TypeOK, Execution
    <3> QED
      BY <1>2, <3>1, <3>2, EngineCallbacks
  <2>2. UNCHANGED txn
    BY <1>2, EngineCallbacks
  <2> QED
    BY <1>2, <2>1, <2>2, EngineLearns, EngineGrows, QuietAttempts
<1> QED
  BY <1>1, <1>2, OperateAttempts DEF Next

\* An attempt number names one execution per account, though cancels throw
\* snapshots away, reruns take accounts on different attempts, and the trigger
\* whose number was taken may roll back after the engine has begun.
THEOREM AttemptTheorem == Spec => []AttemptFresh
<1>1. Init => AttemptInv
  <2>1. Init => Used = {} /\ txn.kind = "none"
    BY DEF Init, Used, Unused, NoTxn
  <2> QED
    BY <2>1 DEF AttemptInv, AttemptFresh, RowsRemember, OpenTxnInv
<1>2. Spec => [](TypeOK /\ PipelineInv)
  BY PipelineInit, PipelineStep, TypeCorrect, PTL DEF Spec
<1>3. Spec => []AttemptInv
  BY <1>1, <1>2, AttemptStep, TypeCorrect, PTL DEF Spec
<1>4. AttemptInv => AttemptFresh
  BY DEF AttemptInv
<1> QED
  BY <1>3, <1>4, PTL

=============================================================================
