---------------------------- MODULE Distribution ----------------------------
(***************************************************************************)
(* From the posted invoices to their delivery (services/billing/           *)
(* distribute-run.ts and the bill_run_distribution flow), composed with    *)
(* Posting: a worker that completes the posting starts the distribution,   *)
(* and a late rendering adds an artifact while one is under way.           *)
(*                                                                         *)
(* bill_run.status is two variables here: Posting's phase up to INVOICED,  *)
(* and delivery.status from then on.  The application's handlers lock the  *)
(* run, so each is one action; the engine call is made under that lock,    *)
(* and the flow's callbacks wait for it.                                   *)
(*                                                                         *)
(* Abstractions.  An invoice artifact is named by its account.  The flow   *)
(* takes the pairs of a round in any order.  No flow sends the             *)
(* DISTRIBUTION_FAILED push, which is left out; heartbeats are too.        *)
(***************************************************************************)
EXTENDS Posting

CONSTANTS
    Target,      \* configured delivery targets
    Mandatory,   \* those that hold the run until they have everything
    Report,      \* the invoice register
    Exec,        \* engine executions; bounds the rounds
    Faults       \* what the engine and the network may do, see FaultKind

(***************************************************************************)
(* "transport"  an upload fails                                            *)
(* "crash"      the flow fails as a whole; its finally task still pushes   *)
(* "loss"       a callback never arrives                                   *)
(* "delay"      a callback arrives again, at any later time                *)
(* "orphan"     the engine starts a flow whose trigger rolls back          *)
(***************************************************************************)
FaultKind == {"transport", "crash", "loss", "delay", "orphan"}

ASSUME DistributionAssumption ==
    /\ IsFiniteSet(Target) /\ Mandatory \subseteq Target /\ Mandatory # {}
    /\ Report \notin Account
    /\ NoOne \notin Exec
    /\ IsFiniteSet(Exec)
    /\ Faults \subseteq FaultKind

VARIABLES
    delivery,  \* bill_run: status from DISTRIBUTING on, round, execution
    flow,      \* engine executions of the distribution flow
    log,       \* bill_run_distribution rows
    sink       \* what has reached which target

dvars == <<delivery, flow, log, sink>>
vars == <<pvars, dvars>>

-----------------------------------------------------------------------------
Artifact == Account \cup {Report}
Pair == Target \X Artifact
Round == 1..Cardinality(Exec)
NotRun == [state |-> "UNUSED", attempt |-> 0, pairs |-> {}, delivered |-> {},
           failed |-> {}, told |-> {}, lost |-> FALSE]

Delivery ==
    [status : {"NONE", "DISTRIBUTING", "DISTRIBUTION_FAILED", "COMPLETED"},
     attempt : Nat, exec : Exec \cup {NoOne}, forced : BOOLEAN]
Flow ==
    [state : {"UNUSED", "RUNNING", "ENDING", "DYING", "SUCCESS", "FAILED"},
     attempt : Nat, pairs : SUBSET Pair, delivered : SUBSET Pair,
     failed : SUBSET Pair, told : SUBSET Pair, lost : BOOLEAN]
OutcomeRow ==
    [pair : Pair, attempt : Nat, outcome : {"DELIVERED", "FAILED"}]

TypeOK ==
    /\ PostingTypeOK
    /\ delivery \in Delivery
    /\ flow \in [Exec -> Flow]
    /\ log \subseteq OutcomeRow
    /\ \A r, s \in log : r.pair = s.pair /\ r.attempt = s.attempt => r = s
    /\ sink \subseteq Pair

Init ==
    /\ PostingInit
    /\ delivery = [status |-> "NONE", attempt |-> 0, exec |-> NoOne, forced |-> FALSE]
    /\ flow = [i \in Exec |-> NotRun]
    /\ log = {}
    /\ sink = {}

Posted == {b \in Account : bill[b]}
Stored == {b \in Account : stored[b] # NoOne}
Attempted == {r.pair : r \in log}

-----------------------------------------------------------------------------
StartFlow(i, n, pairs) ==
    /\ flow[i].state = "UNUSED"
    /\ flow' = [flow EXCEPT ![i] = [NotRun EXCEPT !.state = "RUNNING",
                                                  !.attempt = n, !.pairs = pairs]]

\* triggerDistribution's guards: INVOICED, and never started.
Startable == phase = "INVOICED" /\ delivery.status = "NONE"

\* What is stored now, and the register, to every target.
FirstRound == Target \X (Stored \cup {Report})

Start(i) ==
    /\ Startable
    /\ StartFlow(i, 1, FirstRound)
    /\ delivery' = [delivery EXCEPT !.status = "DISTRIBUTING", !.attempt = 1,
                                    !.exec = i]
    /\ UNCHANGED <<log, sink>>

\* The automatic trigger at the end of postRun, and the operator's.
AutoStart(w, i) == HandOver(w) /\ Start(i)
OperatorStart(i) == Start(i) /\ UNCHANGED pvars

\* rerunDistribution's redelivery set: what failed in the last round, and what
\* no round has an outcome for.
Redelivery ==
    {r.pair : r \in {s \in log : s.attempt = delivery.attempt /\ s.outcome = "FAILED"}}
    \cup ((Mandatory \X (Stored \cup {Report})) \ Attempted)

\* The flow crosses targets and artifacts.
Crossed(S) == {p[1] : p \in S} \X {p[2] : p \in S}

Rerun(i) ==
    /\ delivery.status = "DISTRIBUTION_FAILED"
    /\ Redelivery # {}
    /\ StartFlow(i, delivery.attempt + 1, Crossed(Redelivery))
    /\ delivery' = [delivery EXCEPT !.status = "DISTRIBUTING", !.attempt = @ + 1,
                                    !.exec = i]
    /\ UNCHANGED <<log, sink>> /\ UNCHANGED pvars

\* The engine accepted, and the transaction rolled back.
Orphan(i) ==
    /\ "orphan" \in Faults
    /\ \/ Startable /\ StartFlow(i, 1, FirstRound)
       \/ /\ delivery.status = "DISTRIBUTION_FAILED"
          /\ Redelivery # {}
          /\ StartFlow(i, delivery.attempt + 1, Crossed(Redelivery))
    /\ UNCHANGED <<delivery, log, sink>> /\ UNCHANGED pvars

\* isLaunchedDistributionIdentity: a configured target, an artifact there is.
Launched(p) == p[1] \in Target /\ p[2] \in Stored \cup {Report}

\* Mutant of RecordOutcome: no latch, so an orphan of the same round is heard.
RecordEveryOutcome(p, n, outcome) ==
    log' = IF /\ delivery.status = "DISTRIBUTING" /\ delivery.attempt = n
              /\ Launched(p)
           THEN log \cup {[pair |-> p, attempt |-> n, outcome |-> outcome]}
           ELSE log

\* recordDistributionOutcome.  A stale round, a run that is not DISTRIBUTING,
\* an unknown artifact and a latched row change nothing.
RecordOutcome(p, n, outcome) ==
    log' = IF /\ delivery.status = "DISTRIBUTING" /\ delivery.attempt = n
              /\ Launched(p)
              /\ \A r \in log : ~(r.pair = p /\ r.attempt = n)
           THEN log \cup {[pair |-> p, attempt |-> n, outcome |-> outcome]}
           ELSE log

\* The outcome of a mandatory pair's latest round on record.
Latest(p, outcome) ==
    \E r \in log : /\ r.pair = p /\ r.outcome = outcome
                   /\ \A s \in log : s.pair = p => s.attempt <= r.attempt

MandatoryPair == Mandatory \X Artifact

\* Mutant of Derived: a posted account without a stored invoice is overlooked.
OverlookUnrendered ==
    IF \E p \in MandatoryPair : Latest(p, "FAILED") THEN "DISTRIBUTION_FAILED"
    ELSE IF Cardinality({p \in MandatoryPair : Latest(p, "DELIVERED")})
              >= Cardinality(Mandatory) * (Cardinality(Stored) + 1)
         THEN "COMPLETED" ELSE delivery.status

\* recomputeDistributionStatus: failed if any latest outcome is or if a posted
\* account has no stored invoice, complete if the count is, else no change.
Derived ==
    IF \/ \E p \in MandatoryPair : Latest(p, "FAILED")
       \/ ~(Posted \subseteq Stored)
    THEN "DISTRIBUTION_FAILED"
    ELSE IF Cardinality({p \in MandatoryPair : Latest(p, "DELIVERED")})
              >= Cardinality(Mandatory) * (Cardinality(Stored) + 1)
         THEN "COMPLETED" ELSE delivery.status

\* Mutant of HandleFinished: the first round's number is taken for any round's.
FinishedOfFirst(n) ==
    delivery' = IF delivery.status = "DISTRIBUTING" /\ n = 1
                THEN [delivery EXCEPT !.status = Derived] ELSE delivery

\* The status push DISTRIBUTION_FINISHED of round n; stale or late, a no-op.
HandleFinished(n) ==
    delivery' = IF delivery.status = "DISTRIBUTING" /\ n = delivery.attempt
                THEN [delivery EXCEPT !.status = Derived] ELSE delivery

\* reconcileRun of a distributing run: a dead flow fails the run, one that has
\* ended well makes it derive its status.
Reconcile ==
    /\ delivery.status = "DISTRIBUTING"
    /\ \/ /\ flow[delivery.exec].state = "FAILED"
          /\ delivery' = [delivery EXCEPT !.status = "DISTRIBUTION_FAILED"]
       \/ /\ flow[delivery.exec].state = "SUCCESS"
          /\ delivery' = [delivery EXCEPT !.status = Derived]
    /\ UNCHANGED <<flow, log, sink>> /\ UNCHANGED pvars

\* forceCompleteDistribution gives up on what is not delivered.
ForceComplete ==
    /\ delivery.status = "DISTRIBUTION_FAILED"
    /\ delivery' = [delivery EXCEPT !.status = "COMPLETED", !.forced = TRUE]
    /\ UNCHANGED <<flow, log, sink>> /\ UNCHANGED pvars

-----------------------------------------------------------------------------
(***************************************************************************)
(* The flow: per pair upload, then post the outcome, then go on whatever   *)
(* became of the post; at the end, or after a crash, the finally push.     *)
(***************************************************************************)
Untold(i) == (flow[i].delivered \cup flow[i].failed) \ flow[i].told

\* One pair at a time: the next upload waits for the last outcome's post.
Upload(i, p) ==
    /\ flow[i].state = "RUNNING" /\ Untold(i) = {}
    /\ p \in flow[i].pairs \ flow[i].told
    /\ \/ /\ sink' = sink \cup {p}
          /\ flow' = [flow EXCEPT ![i].delivered = @ \cup {p}]
       \/ /\ "transport" \in Faults
          /\ flow' = [flow EXCEPT ![i].failed = @ \cup {p}]
          /\ UNCHANGED sink
    /\ UNCHANGED <<delivery, log>> /\ UNCHANGED pvars

OutcomeOf(i, p) == IF p \in flow[i].delivered THEN "DELIVERED" ELSE "FAILED"

PostOutcome(i, p) ==
    /\ flow[i].state = "RUNNING" /\ p \in Untold(i)
    /\ flow' = [flow EXCEPT ![i].told = @ \cup {p}]
    /\ RecordOutcome(p, flow[i].attempt, OutcomeOf(i, p))
    /\ UNCHANGED <<delivery, sink>> /\ UNCHANGED pvars

LoseOutcome(i, p) ==
    /\ "loss" \in Faults
    /\ flow[i].state = "RUNNING" /\ p \in Untold(i)
    /\ flow' = [flow EXCEPT ![i].told = @ \cup {p}, ![i].lost = TRUE]
    /\ UNCHANGED <<delivery, log, sink>> /\ UNCHANGED pvars

\* A post the flow has given up or repeats arrives now.
Redeliver(i, p) ==
    /\ "delay" \in Faults
    /\ p \in flow[i].told
    /\ RecordOutcome(p, flow[i].attempt, OutcomeOf(i, p))
    /\ UNCHANGED <<delivery, flow, sink>> /\ UNCHANGED pvars

EndFlow(i) ==
    /\ flow[i].state = "RUNNING" /\ flow[i].told = flow[i].pairs
    /\ flow' = [flow EXCEPT ![i].state = "ENDING"]
    /\ UNCHANGED <<delivery, log, sink>> /\ UNCHANGED pvars

Crash(i) ==
    /\ "crash" \in Faults
    /\ flow[i].state = "RUNNING"
    /\ flow' = [flow EXCEPT ![i].state = "DYING", ![i].lost = TRUE]
    /\ UNCHANGED <<delivery, log, sink>> /\ UNCHANGED pvars

\* The finally task's push, heard and answered.
PushFinished(i) ==
    /\ flow[i].state \in {"ENDING", "DYING"}
    /\ flow' = [flow EXCEPT ![i].state = IF @ = "ENDING" THEN "SUCCESS" ELSE "FAILED"]
    /\ HandleFinished(flow[i].attempt)
    /\ UNCHANGED <<log, sink>> /\ UNCHANGED pvars

\* Without an answer the finally task fails, and the execution with it.
LosePush(i) ==
    /\ "loss" \in Faults
    /\ flow[i].state \in {"ENDING", "DYING"}
    /\ flow' = [flow EXCEPT ![i].state = "FAILED", ![i].lost = TRUE]
    /\ UNCHANGED <<delivery, log, sink>> /\ UNCHANGED pvars

\* A push that was sent arrives again.
RepeatPush(i) ==
    /\ "delay" \in Faults
    /\ flow[i].state \in {"SUCCESS", "FAILED"}
    /\ HandleFinished(flow[i].attempt)
    /\ UNCHANGED <<flow, log, sink>> /\ UNCHANGED pvars

-----------------------------------------------------------------------------
Operate ==
    \/ Reconcile \/ ForceComplete
    \/ \E i \in Exec : OperatorStart(i) \/ Rerun(i) \/ Orphan(i)

\* What the engine does for execution i without being made to.
Work(i) ==
    \/ EndFlow(i) \/ PushFinished(i)
    \/ \E p \in flow[i].pairs : Upload(i, p) \/ PostOutcome(i, p)

Engine ==
    \E i \in Exec :
        \/ Work(i) \/ Crash(i) \/ LosePush(i) \/ RepeatPush(i)
        \/ \E p \in flow[i].pairs : LoseOutcome(i, p) \/ Redeliver(i, p)

Posting ==
    \E w \in Worker :
        \/ (PostingStep(w) \/ HandOver(w)) /\ UNCHANGED dvars
        \/ \E i \in Exec : AutoStart(w, i)

Next == Posting \/ Operate \/ Engine

Spec == Init /\ [][Next]_vars

\* The engine runs what it has accepted and retries its callbacks.
FairSpec == Spec /\ \A i \in Exec : WF_vars(Work(i))

\* And operators do what the user interface offers them for a run that hangs.
TendedSpec ==
    /\ FairSpec
    /\ WF_vars(Reconcile) /\ WF_vars(\E i \in Exec : Rerun(i)) /\ WF_vars(ForceComplete)

=============================================================================
