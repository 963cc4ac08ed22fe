--------------------------- MODULE PostingProofs ---------------------------
(***************************************************************************)
(* What DistributionProps asks, for any number of accounts, workers,       *)
(* targets and rounds, and every set of mishaps and faults.                *)
(*                                                                         *)
(* PostingInv is about posting alone.  DeliveryInv adds the record of the  *)
(* rounds, from which a count decides that everything has been delivered.  *)
(***************************************************************************)
EXTENDS DistributionProps, FiniteSetTheorems, TLAPS

\* Nobody is invoiced twice, or both invoiced and passed over.
SettledOnce ==
    \A b \in Account :
        /\ ledger[b] \in {0, 1}
        /\ bill[b] => b \notin Worthless
        /\ account[b].status = "SKIPPED" => b \in Worthless

ClosedWhenSettled == phase = "INVOICED" => Waiting = {}

\* What a worker is about to store is in the container, for a posted bill.
AtHand(w) ==
    /\ worker[w].pc \in {"park", "put", "store"} => worker[w].at \in Account
    /\ worker[w].pc \in {"put", "store"} => bill[worker[w].at]
    /\ worker[w].pc = "store" =>
          worker[w].sum # NoOne /\ blob[worker[w].at] = worker[w].sum

Rendered == \A w \in Worker : AtHand(w)

PostingInv ==
    /\ PostingTypeOK /\ BooksAgree /\ SettledOnce /\ ClosedWhenSettled
    /\ Rendered /\ StoredAuthentic

-----------------------------------------------------------------------------
LEMMA PostingInitInv == PostingInit => PostingInv
  BY PostingAssumption
     DEF PostingInit, PostingInv, PostingTypeOK, BooksAgree, SettledOnce, ClosedWhenSettled,
         Rendered, AtHand, StoredAuthentic, Stored, AccountState, WorkerState, Idle

\* The steps of Distribution take those of Posting, or leave its variables.
LEMMA Projects ==
  ASSUME [Next]_vars
  PROVE  [PostingNext]_pvars
<1>1. CASE UNCHANGED vars
  BY <1>1 DEF vars
<1>2. CASE Posting
  BY <1>2 DEF Posting, PostingNext, AutoStart
<1>3. CASE Operate
  BY <1>3 DEF Operate, OperatorStart, Rerun, Orphan, Reconcile, ForceComplete
<1>4. ASSUME NEW i \in Exec, Work(i)
      PROVE  UNCHANGED pvars
  BY <1>4 DEF Work, EndFlow, PushFinished, Upload, PostOutcome
<1>5. CASE Engine
  BY <1>4, <1>5 DEF Engine, Crash, LosePush, RepeatPush, LoseOutcome, Redeliver
<1> QED
  BY <1>1, <1>2, <1>3, <1>5 DEF Next

\* A worker goes on, stops or dies, and nothing else happens.
LEMMA OnlyMoves ==
  ASSUME PostingInv, NEW w \in Worker,
         UNCHANGED <<phase, account, bill, ledger, blob, stored>>,
         NEW row \in WorkerState, worker' = [worker EXCEPT ![w] = row],
         row.pc = "park" => row.at \in Account,
         row.pc \notin {"put", "store"}
  PROVE  PostingInv'
<1>1. PostingTypeOK'
  BY DEF PostingInv, PostingTypeOK
<1>2. Rendered'
  BY DEF PostingInv, PostingTypeOK, Rendered, AtHand
<1> QED
  BY <1>1, <1>2 DEF PostingInv, BooksAgree, SettledOnce, ClosedWhenSettled, Waiting,
                    StoredAuthentic, Stored

LEMMA WorkerRow ==
  ASSUME PostingTypeOK, NEW w \in Worker
  PROVE  worker[w] \in WorkerState
  BY DEF PostingTypeOK

\* Goto and Continue as whole rows.
Gone(w, pc, b) == [worker[w] EXCEPT !.pc = pc, !.at = b, !.sum = NoOne, !.queue = @ \ {b}]
Continued(w) ==
    IF worker[w].op = "post" THEN [worker[w] EXCEPT !.pc = "loop", !.at = NoOne, !.sum = NoOne]
    ELSE Idle

LEMMA GotoRow ==
  ASSUME PostingTypeOK, NEW w \in Worker, NEW b \in Account,
         NEW pc \in {"loop", "park", "put"}, Goto(w, pc, b)
  PROVE  /\ worker' = [worker EXCEPT ![w] = Gone(w, pc, b)]
         /\ Gone(w, pc, b) \in WorkerState
         /\ Gone(w, pc, b).pc = pc /\ Gone(w, pc, b).at = b
<1>1. worker[w] \in WorkerState
  BY WorkerRow
<1>2. Gone(w, pc, b) \in WorkerState /\ Gone(w, pc, b).pc = pc /\ Gone(w, pc, b).at = b
  BY <1>1 DEF Gone, WorkerState
<1>3. worker' = [worker EXCEPT ![w] = Gone(w, pc, b)]
  BY <1>1 DEF Goto, Gone, PostingTypeOK, WorkerState
<1> QED
  BY <1>2, <1>3

LEMMA ContinueRow ==
  ASSUME PostingTypeOK, NEW w \in Worker, Continue(w)
  PROVE  /\ worker' = [worker EXCEPT ![w] = Continued(w)]
         /\ Continued(w) \in WorkerState
         /\ Continued(w).pc \in {"loop", "idle"}
<1>1. worker[w] \in WorkerState
  BY WorkerRow
<1> QED
  BY <1>1 DEF Continue, Continued, WorkerState, Idle, PostingTypeOK



-----------------------------------------------------------------------------
\* A failure, a roll-back or a stop, where nothing but the worker moves.
LEMMA BeginKeeps ==
  ASSUME PostingInv, NEW w \in Worker, Begin(w)
  PROVE  PostingInv'
<1> DEFINE row == [Idle EXCEPT !.pc = "list", !.op = "post"]
<1>1. row \in WorkerState /\ row.pc = "list"
  BY DEF Idle, WorkerState
<1>2. worker' = [worker EXCEPT ![w] = row]
  BY DEF Begin
<1>3. PostingTypeOK'
  BY <1>1, <1>2 DEF Begin, PostingInv, PostingTypeOK
<1>4. Rendered'
  BY <1>1, <1>2 DEF Begin, PostingInv, PostingTypeOK, Rendered, AtHand
<1>5. ClosedWhenSettled' /\ BooksAgree' /\ SettledOnce' /\ StoredAuthentic'
  BY DEF Begin, PostingInv, ClosedWhenSettled, BooksAgree, SettledOnce, StoredAuthentic, Stored
<1> QED
  BY <1>3, <1>4, <1>5 DEF PostingInv

LEMMA ListKeeps ==
  ASSUME PostingInv, NEW w \in Worker, List(w)
  PROVE  PostingInv'
<1> DEFINE row == [worker[w] EXCEPT !.pc = "loop", !.queue = Waiting]
<1>1. worker[w] \in WorkerState
  BY WorkerRow DEF PostingInv
<1>2. row \in WorkerState /\ row.pc = "loop"
  BY <1>1 DEF WorkerState, Waiting
<1>3. worker' = [worker EXCEPT ![w] = row]
  BY <1>1 DEF List, PostingInv, PostingTypeOK, WorkerState
<1>4. UNCHANGED <<phase, account, bill, ledger, blob, stored>>
  BY DEF List
<1> HIDE DEF row
<1> QED
  BY <1>2, <1>3, <1>4, OnlyMoves

LEMMA GoneKeeps ==
  ASSUME PostingInv, NEW w \in Worker, NEW b \in Account,
         NEW pc \in {"loop", "park"}, Goto(w, pc, b),
         UNCHANGED <<phase, account, bill, ledger, blob, stored>>
  PROVE  PostingInv'
BY GotoRow, OnlyMoves DEF PostingInv

LEMMA ContinueKeeps ==
  ASSUME PostingInv, NEW w \in Worker, Continue(w),
         UNCHANGED <<phase, account, bill, ledger, blob, stored>>
  PROVE  PostingInv'
BY ContinueRow, OnlyMoves DEF PostingInv

LEMMA IdleKeeps ==
  ASSUME PostingInv, NEW w \in Worker, worker' = [worker EXCEPT ![w] = Idle],
         UNCHANGED <<phase, account, bill, ledger, blob, stored>>
  PROVE  PostingInv'
<1>1. Idle \in WorkerState /\ Idle.pc = "idle"
  BY DEF Idle, WorkerState
<1> QED
  BY <1>1, OnlyMoves

\* A skip is of a waiting account that is worth nothing.
LEMMA SkipKeeps ==
  ASSUME PostingInv, NEW w \in Worker, NEW b \in Account, Skip(w, b)
  PROVE  PostingInv'
<1>1. CASE account[b].status # "PROCESSED"
  BY <1>1, GoneKeeps DEF Skip
<1>2. CASE account[b].status = "PROCESSED"
  <2> DEFINE row == [status |-> "SKIPPED", error |-> TRUE]
  <2>1. /\ account' = [account EXCEPT ![b] = row]
        /\ Goto(w, "loop", b) /\ ~bill[b] /\ b \in Worthless
        /\ UNCHANGED <<phase, bill, ledger, blob, stored>>
    BY <1>2 DEF Skip, Unposted
  <2>2. row \in AccountState
    BY DEF AccountState
  <2>3. /\ worker' = [worker EXCEPT ![w] = Gone(w, "loop", b)]
        /\ Gone(w, "loop", b) \in WorkerState /\ Gone(w, "loop", b).pc = "loop"
    BY <2>1, GotoRow DEF PostingInv
  <2>4. PostingTypeOK'
    BY <2>1, <2>2, <2>3 DEF PostingInv, PostingTypeOK
  <2>5. \A c \in Account : account'[c] = IF c = b THEN row ELSE account[c]
    BY <2>1 DEF PostingInv, PostingTypeOK
  <2>6. BooksAgree' /\ SettledOnce' /\ ClosedWhenSettled'
    BY <2>1, <2>5 DEF PostingInv, BooksAgree, SettledOnce, ClosedWhenSettled, Waiting
  <2>7. Rendered'
    BY <2>1, <2>3 DEF PostingInv, PostingTypeOK, Rendered, AtHand
  <2> QED
    BY <2>1, <2>4, <2>6, <2>7 DEF PostingInv, StoredAuthentic, Stored
<1> QED
  BY <1>1, <1>2

\* An invoice goes to an account that has none and waits: not after the run
\* has been closed.
LEMMA PostWaits ==
  ASSUME PostingInv, NEW w \in Worker, NEW b \in Account, PostAccount(w, b)
  PROVE  b \in Waiting /\ ledger[b] = 0 /\ phase # "INVOICED"
<1>1. ~bill[b] /\ b \notin Worthless
  BY DEF PostAccount, Unposted
<1>2. account[b].status \in {"PROCESSED", "INVOICED", "SKIPPED"}
  BY DEF PostingInv, PostingTypeOK, AccountState
<1> QED
  BY <1>1, <1>2 DEF PostingInv, BooksAgree, SettledOnce, ClosedWhenSettled, Waiting

LEMMA PostAccountKeeps ==
  ASSUME PostingInv, NEW w \in Worker, NEW b \in Account, PostAccount(w, b)
  PROVE  PostingInv'
<1> DEFINE row == [status |-> "INVOICED", error |-> FALSE]
<1>1. b \in Waiting /\ ledger[b] = 0 /\ phase # "INVOICED" /\ b \notin Worthless
  BY PostWaits DEF PostAccount
<1>2. /\ account' = [account EXCEPT ![b] = row]
      /\ bill' = [bill EXCEPT ![b] = TRUE]
      /\ ledger' = [ledger EXCEPT ![b] = @ + 1]
      /\ Goto(w, "put", b) /\ UNCHANGED <<phase, blob, stored>>
  BY DEF PostAccount
<1>3. /\ worker' = [worker EXCEPT ![w] = Gone(w, "put", b)]
      /\ Gone(w, "put", b) \in WorkerState
      /\ Gone(w, "put", b).pc = "put" /\ Gone(w, "put", b).at = b
  BY <1>2, GotoRow DEF PostingInv
<1>4. row \in AccountState
  BY DEF AccountState
<1>5. PostingTypeOK'
  BY <1>2, <1>3, <1>4 DEF PostingInv, PostingTypeOK
<1>6. \A c \in Account : /\ account'[c] = IF c = b THEN row ELSE account[c]
                         /\ bill'[c] = IF c = b THEN TRUE ELSE bill[c]
                         /\ ledger'[c] = IF c = b THEN 1 ELSE ledger[c]
  BY <1>1, <1>2 DEF PostingInv, PostingTypeOK
<1>7. BooksAgree' /\ SettledOnce' /\ ClosedWhenSettled'
  <2>1. row.status = "INVOICED" /\ row.error = FALSE
    OBVIOUS
  <2> HIDE DEF row
  <2>2. BooksAgree'
    BY <2>1, <1>6 DEF PostingInv, BooksAgree
  <2>3. SettledOnce'
    BY <2>1, <1>1, <1>6 DEF PostingInv, SettledOnce
  <2>4. ClosedWhenSettled'
    BY <1>1, <1>2 DEF ClosedWhenSettled
  <2> QED
    BY <2>2, <2>3, <2>4
<1>8. Rendered'
  <2> SUFFICES ASSUME NEW v \in Worker PROVE AtHand(v)'
    BY DEF Rendered
  <2>1. CASE v = w
    BY <1>2, <1>3, <1>6, <2>1 DEF PostingInv, PostingTypeOK, AtHand
  <2>2. CASE v # w
    <3>1. worker'[v] = worker[v] /\ AtHand(v)
      BY <1>3, <2>2 DEF PostingInv, PostingTypeOK, Rendered
    <3> QED
      BY <1>2, <1>6, <3>1 DEF AtHand
  <2> QED
    BY <2>1, <2>2
<1>9. StoredAuthentic'
  BY <1>2, <1>6 DEF PostingInv, StoredAuthentic, Stored
<1> QED
  BY <1>5, <1>7, <1>8, <1>9 DEF PostingInv

LEMMA ParkKeeps ==
  ASSUME PostingInv, NEW w \in Worker, Park(w)
  PROVE  PostingInv'
<1> DEFINE b == worker[w].at
           row == [status |-> "PROCESSED", error |-> TRUE]
<1>1. b \in Account
  BY DEF Park, PostingInv, Rendered, AtHand
<1>2. /\ account' = [account EXCEPT ![b] = IF Parkable(b) THEN row ELSE @]
      /\ Continue(w) /\ UNCHANGED <<phase, bill, ledger, blob, stored>>
  BY DEF Park
<1> HIDE DEF b
<1>3. CASE ~Parkable(b)
  <2>1. account' = account
    BY <1>1, <1>2, <1>3 DEF PostingInv, PostingTypeOK
  <2> QED
    BY <1>2, <2>1, ContinueKeeps
<1>4. CASE Parkable(b)
  <2>1. row \in AccountState /\ row.status = "PROCESSED"
    BY DEF AccountState
  <2>2. account[b].status = "PROCESSED" /\ ~bill[b]
    BY <1>1, <1>4 DEF Parkable, PostingInv, BooksAgree
  <2> HIDE DEF row
  <2>3. /\ worker' = [worker EXCEPT ![w] = Continued(w)]
        /\ Continued(w) \in WorkerState /\ Continued(w).pc \in {"loop", "idle"}
    BY <1>2, ContinueRow DEF PostingInv
  <2>4. PostingTypeOK'
    BY <1>2, <1>4, <2>1, <2>3 DEF PostingInv, PostingTypeOK
  <2>5. \A c \in Account : account'[c] = IF c = b THEN row ELSE account[c]
    BY <1>2, <1>4 DEF PostingInv, PostingTypeOK
  <2>6. BooksAgree' /\ SettledOnce'
    BY <1>2, <2>1, <2>2, <2>5 DEF PostingInv, BooksAgree, SettledOnce
  <2>7. ClosedWhenSettled'
    BY <1>1, <1>2, <2>2 DEF PostingInv, ClosedWhenSettled, Waiting
  <2>8. Rendered'
    BY <1>2, <2>3 DEF PostingInv, PostingTypeOK, Rendered, AtHand
  <2> QED
    BY <1>2, <2>4, <2>6, <2>7, <2>8 DEF PostingInv, StoredAuthentic, Stored
<1> QED
  BY <1>3, <1>4

LEMMA RetryRenderKeeps ==
  ASSUME PostingInv, NEW w \in Worker, NEW b \in Account, RetryRender(w, b)
  PROVE  PostingInv'
<1> DEFINE row == [Idle EXCEPT !.pc = "put", !.op = "render", !.at = b]
<1>1. row \in WorkerState /\ row.pc = "put" /\ row.at = b
  BY DEF Idle, WorkerState
<1>2. /\ worker' = [worker EXCEPT ![w] = row] /\ bill[b]
      /\ UNCHANGED <<phase, account, bill, ledger, blob, stored>>
  BY DEF RetryRender
<1> HIDE DEF row
<1>3. PostingTypeOK' /\ Rendered'
  BY <1>1, <1>2 DEF PostingInv, PostingTypeOK, Rendered, AtHand
<1> QED
  BY <1>2, <1>3 DEF PostingInv, BooksAgree, SettledOnce, ClosedWhenSettled, Waiting,
                    StoredAuthentic, Stored

\* What the store holds is never replaced, so who has a checksum in hand, or
\* on record, still has that of what is stored.
LEMMA PutKeeps ==
  ASSUME PostingInv, NEW w \in Worker, Put(w)
  PROVE  PostingInv'
<1> DEFINE b == worker[w].at
           row == [worker[w] EXCEPT !.pc = "store", !.sum = Adopt(w, b)[b]]
<1>1. worker[w] \in WorkerState /\ b \in Account /\ bill[b]
  BY WorkerRow DEF Put, PostingInv, Rendered, AtHand
<1>2. \A c \in Account : blob'[c] = IF c = b /\ blob[c] = NoOne THEN w ELSE blob[c]
  BY <1>1 DEF Put, Adopt, PostingInv, PostingTypeOK
<1>3. blob' \in [Account -> Worker \cup {NoOne}]
  BY <1>1 DEF Put, Adopt, PostingInv, PostingTypeOK
<1>4. blob' = Adopt(w, b) /\ UNCHANGED <<phase, account, bill, ledger, stored>>
  BY DEF Put
<1>5. blob'[b] \in Worker
  BY <1>1, <1>2 DEF PostingInv, PostingTypeOK
<1>6. worker' = [worker EXCEPT ![w] = row]
  BY <1>1 DEF Put, PostingInv, PostingTypeOK, WorkerState
<1>7. /\ row \in WorkerState /\ row.pc = "store" /\ row.at = b /\ row.sum = blob'[b]
  BY <1>1, <1>4, <1>5 DEF WorkerState
<1> HIDE DEF row, b
<1>8. PostingTypeOK'
  BY <1>3, <1>4, <1>6, <1>7 DEF PostingInv, PostingTypeOK
<1>9. Rendered'
  <2> SUFFICES ASSUME NEW v \in Worker PROVE AtHand(v)'
    BY DEF Rendered
  <2>1. CASE v = w
    <3>1. worker'[v] = row
      BY <1>6, <2>1 DEF PostingInv, PostingTypeOK
    <3> QED
      BY <1>1, <1>4, <1>5, <1>7, <3>1, PostingAssumption DEF AtHand
  <2>2. CASE v # w
    <3>1. worker'[v] = worker[v] /\ AtHand(v)
      BY <1>6, <2>2 DEF PostingInv, PostingTypeOK, Rendered
    <3> QED
      BY <1>2, <1>4, <3>1 DEF AtHand
  <2> QED
    BY <2>1, <2>2
<1>10. StoredAuthentic'
  BY <1>2, <1>4 DEF PostingInv, StoredAuthentic, Stored
<1> QED
  BY <1>4, <1>8, <1>9, <1>10
     DEF PostingInv, BooksAgree, SettledOnce, ClosedWhenSettled, Waiting

LEMMA StoreKeeps ==
  ASSUME PostingInv, NEW w \in Worker, Store(w)
  PROVE  PostingInv'
<1> DEFINE b == worker[w].at
<1>1. /\ b \in Account /\ bill[b] /\ worker[w].sum # NoOne /\ blob[b] = worker[w].sum
      /\ worker[w] \in WorkerState
  BY WorkerRow DEF Store, PostingInv, Rendered, AtHand
<1>2. /\ stored' = [stored EXCEPT ![b] = IF @ = NoOne THEN worker[w].sum ELSE @]
      /\ Continue(w) /\ UNCHANGED <<phase, account, bill, ledger, blob>>
  BY DEF Store
<1> HIDE DEF b
<1>3. /\ worker' = [worker EXCEPT ![w] = Continued(w)]
      /\ Continued(w) \in WorkerState /\ Continued(w).pc \in {"loop", "idle"}
  BY <1>2, ContinueRow DEF PostingInv
<1>4. worker[w].sum \in Worker \cup {NoOne}
  BY <1>1 DEF WorkerState
<1>5. PostingTypeOK'
  BY <1>2, <1>3, <1>4 DEF PostingInv, PostingTypeOK
<1>6. \A c \in Account : stored'[c] = IF c = b /\ stored[c] = NoOne THEN worker[w].sum
                                      ELSE stored[c]
  BY <1>2 DEF PostingInv, PostingTypeOK
<1>7. StoredAuthentic'
  BY <1>1, <1>2, <1>6 DEF PostingInv, StoredAuthentic, Stored
<1>8. Rendered'
  BY <1>2, <1>3 DEF PostingInv, PostingTypeOK, Rendered, AtHand
<1> QED
  BY <1>2, <1>5, <1>7, <1>8
     DEF PostingInv, BooksAgree, SettledOnce, ClosedWhenSettled, Waiting

LEMMA CompleteKeeps ==
  ASSUME PostingInv, NEW w \in Worker, Complete(w)
  PROVE  PostingInv'
<1>1. CASE phase = "POSTING" /\ NothingWaits(w)
  <2> DEFINE row == [Idle EXCEPT !.pc = "distribute", !.op = "post"]
  <2>1. row \in WorkerState /\ row.pc = "distribute"
    BY DEF Idle, WorkerState
  <2>2. /\ phase' = "INVOICED" /\ worker' = [worker EXCEPT ![w] = row] /\ Waiting = {}
        /\ UNCHANGED <<account, bill, ledger, blob, stored>>
    BY <1>1 DEF Complete, NothingWaits
  <2> HIDE DEF row
  <2>3. PostingTypeOK' /\ Rendered'
    BY <2>1, <2>2 DEF PostingInv, PostingTypeOK, Rendered, AtHand
  <2> QED
    BY <2>2, <2>3 DEF PostingInv, BooksAgree, SettledOnce, ClosedWhenSettled, Waiting,
                      StoredAuthentic, Stored
<1>2. CASE ~(phase = "POSTING" /\ NothingWaits(w))
  BY <1>2, IdleKeeps DEF Complete
<1> QED
  BY <1>1, <1>2

LEMMA PostingStepKeeps ==
  ASSUME PostingInv, NEW w \in Worker, PostingStep(w) \/ HandOver(w)
  PROVE  PostingInv'
<1>1. CASE Begin(w)
  BY <1>1, BeginKeeps
<1>2. CASE List(w)
  BY <1>2, ListKeeps
<1>3. ASSUME NEW b \in Account, Resume(w, b) PROVE PostingInv'
  BY <1>3, GoneKeeps DEF Resume
<1>4. ASSUME NEW b \in Account, Skip(w, b) PROVE PostingInv'
  BY <1>4, SkipKeeps
<1>5. ASSUME NEW b \in Account, PostAccount(w, b) PROVE PostingInv'
  BY <1>5, PostAccountKeeps
<1>6. ASSUME NEW b \in Account, FailAccount(w, b) PROVE PostingInv'
  BY <1>6, GoneKeeps DEF FailAccount
<1>7. CASE Park(w)
  BY <1>7, ParkKeeps
<1>8. CASE LosePark(w) \/ FailRender(w)
  BY <1>8, ContinueKeeps DEF LosePark, FailRender
<1>9. ASSUME NEW b \in Account, RetryRender(w, b) PROVE PostingInv'
  BY <1>9, RetryRenderKeeps
<1>10. CASE Put(w)
  BY <1>10, PutKeeps
<1>11. CASE Store(w)
  BY <1>11, StoreKeeps
<1>12. CASE Complete(w)
  BY <1>12, CompleteKeeps
<1>13. CASE HandOver(w) \/ Die(w)
  BY <1>13, IdleKeeps DEF HandOver, Die
<1> QED
  BY <1>1, <1>2, <1>3, <1>4, <1>5, <1>6, <1>7, <1>8, <1>9, <1>10, <1>11, <1>12, <1>13
     DEF PostingStep, Proceed

LEMMA PostingKeeps ==
  ASSUME PostingInv, [PostingNext]_pvars
  PROVE  PostingInv'
<1>1. CASE PostingNext
  BY <1>1, PostingStepKeeps DEF PostingNext
<1>2. CASE UNCHANGED pvars
  BY <1>2 DEF pvars, PostingInv, PostingTypeOK, BooksAgree, SettledOnce, ClosedWhenSettled,
              Waiting, Rendered, AtHand, StoredAuthentic, Stored
<1> QED
  BY <1>1, <1>2

LEMMA PostingAlways == Spec => []PostingInv
<1>1. Init => PostingInv
  BY PostingInitInv DEF Init
<1>2. PostingInv /\ [Next]_vars => PostingInv'
  BY Projects, PostingKeeps
<1> QED
  BY <1>1, <1>2, PTL DEF Spec

-----------------------------------------------------------------------------
\* Bill, ledger and account row agree about what was posted after every step
\* of any number of workers: the park that records a failure leaves an account
\* alone that somebody has posted since.
THEOREM BooksAgreeTheorem == Spec => []BooksAgree
<1>1. PostingInv => BooksAgree
  BY DEF PostingInv
<1> QED
  BY <1>1, PostingAlways, PTL

\* A checksum on record is that of the stored bytes, and of a posted bill.
THEOREM StoredAuthenticTheorem == Spec => []StoredAuthentic
<1>1. PostingInv => StoredAuthentic
  BY DEF PostingInv
<1> QED
  BY <1>1, PostingAlways, PTL

\* A step of posting settles one account that was not, or closes the books
\* when all are, or is none of the ledger's business.
LEMMA BooksStep ==
  ASSUME PostingInv, PostingInv', [PostingNext]_pvars
  PROVE  [Books!Next]_(Books!avars)
<1> DEFINE passed == {b \in Account : account[b].status = "SKIPPED"}
<1> SUFFICES ASSUME ~UNCHANGED <<ledger, passed, phase = "INVOICED">>
             PROVE  Books!Next
  BY DEF Books!avars
<1>1. PICK w \in Worker : PostingStep(w) \/ HandOver(w)
  BY DEF pvars, PostingNext
<1>2. ASSUME UNCHANGED <<phase, account, ledger>> PROVE FALSE
  BY <1>2
<1>3. ~(\/ List(w) \/ Put(w) \/ Store(w) \/ LosePark(w) \/ FailRender(w) \/ Die(w)
        \/ HandOver(w)
        \/ \E b \in Account : Resume(w, b) \/ FailAccount(w, b) \/ RetryRender(w, b))
  BY <1>2 DEF List, Put, Store, LosePark, FailRender, Die, HandOver, Resume, FailAccount,
              RetryRender
<1>4. CASE Begin(w)
  BY <1>4 DEF Begin
<1>5. ASSUME NEW b \in Account, PostAccount(w, b) PROVE Books!Next
  <2>1. /\ b \in Waiting /\ ledger[b] = 0 /\ phase # "INVOICED" /\ b \notin Worthless
        /\ phase' = phase
    BY <1>5, PostWaits DEF PostAccount
  <2>2. ledger' = [ledger EXCEPT ![b] = 1]
    BY <1>5, <2>1 DEF PostAccount
  <2>3. account' = [account EXCEPT ![b] = [status |-> "INVOICED", error |-> FALSE]]
    BY <1>5 DEF PostAccount
  <2>4. passed' = passed /\ b \notin passed
    BY <2>1, <2>3 DEF PostingInv, PostingTypeOK, Waiting
  <2>5. Books!Invoice(b)
    BY <2>1, <2>2, <2>4 DEF Books!Invoice, Books!Settled
  <2> QED
    BY <2>5 DEF Books!Next
<1>6. ASSUME NEW b \in Account, Skip(w, b) PROVE Books!Next
  <2>1. account[b].status = "PROCESSED"
    BY <1>2, <1>6 DEF Skip
  <2>2. /\ account' = [account EXCEPT ![b] = [status |-> "SKIPPED", error |-> TRUE]]
        /\ ~bill[b] /\ b \in Worthless /\ UNCHANGED <<phase, ledger>>
    BY <1>6, <2>1 DEF Skip, Unposted
  <2>3. passed' = passed \cup {b} /\ b \notin passed
    BY <2>1, <2>2 DEF PostingInv, PostingTypeOK
  <2>4. phase # "INVOICED" /\ ~(ledger[b] > 0)
    BY <2>1, <2>2 DEF PostingInv, BooksAgree, SettledOnce, ClosedWhenSettled, Waiting
  <2>5. Books!PassOver(b)
    BY <2>2, <2>3, <2>4 DEF Books!PassOver, Books!Settled
  <2> QED
    BY <2>5 DEF Books!Next
<1>7. CASE Park(w)
  <2>1. worker[w].at \in Account /\ UNCHANGED <<phase, ledger>>
    BY <1>7 DEF Park, PostingInv, Rendered, AtHand
  <2>2. \A b \in Account : account'[b].status = account[b].status
    BY <1>7, <2>1 DEF Park, Parkable, PostingInv, PostingTypeOK
  <2> QED
    BY <2>1, <2>2
<1>8. CASE Complete(w)
  <2>1. phase = "POSTING" /\ Waiting = {} /\ phase' = "INVOICED" /\ UNCHANGED <<account, ledger>>
    BY <1>2, <1>8 DEF Complete, NothingWaits
  <2>2. ASSUME NEW b \in Account PROVE ledger[b] > 0 \/ b \in passed
    BY <2>1 DEF PostingInv, PostingTypeOK, AccountState, BooksAgree, Waiting
  <2>3. Books!Book
    BY <2>1, <2>2 DEF Books!Book, Books!Settled
  <2> QED
    BY <2>3 DEF Books!Next
<1> QED
  BY <1>1, <1>3, <1>4, <1>5, <1>6, <1>7, <1>8 DEF PostingStep, Proceed

\* Posting implements Invoicing: every account is settled exactly once, by an
\* invoice or by being passed over, and the run is INVOICED when and only when
\* all of them are, however many workers post it and wherever they die.
THEOREM ExactlyOnceTheorem == Spec => ExactlyOnce
<1>1. Init => Books!Init
  BY DEF Init, PostingInit, Books!Init
<1>2. PostingInv /\ PostingInv' /\ [Next]_vars => [Books!Next]_(Books!avars)
  BY Projects, BooksStep
<1> QED
  BY <1>1, <1>2, PostingAlways, PTL DEF Spec, ExactlyOnce, Books!Spec

-----------------------------------------------------------------------------
(* Distribution.                                                           *)

FlowInv ==
    /\ flow \in [Exec -> Flow]
    /\ \A i \in Exec : flow[i].delivered \subseteq sink

\* An outcome on record is of an artifact there is, and true.
LogInv ==
    /\ log \subseteq OutcomeRow
    /\ \A r, s \in log : r.pair = s.pair /\ r.attempt = s.attempt => r = s
    /\ \A r \in log : /\ Launched(r.pair)
                      /\ r.outcome = "DELIVERED" => r.pair \in sink

\* Nothing is distributed before the run is posted.
RoundInv ==
    /\ delivery \in Delivery
    /\ delivery.status # "NONE" => phase = "INVOICED"
    /\ CompletedMeansDelivered

DeliveryInv ==
    PostingInv /\ FlowInv /\ LogInv /\ RoundInv /\ sink \subseteq Pair

\* What later steps may do to what has been decided: nothing is unstored,
\* taken back from a target or, once the run is INVOICED, posted.
Onward ==
    /\ Stored \subseteq Stored'
    /\ sink \subseteq sink'
    /\ phase = "INVOICED" => phase' = "INVOICED" /\ Posted' = Posted

LEMMA DeliveryInitInv == Init => DeliveryInv
<1> SUFFICES ASSUME Init PROVE DeliveryInv
  OBVIOUS
<1>1. PostingInv
  BY PostingInitInv DEF Init
<1>2. NotRun \in Flow /\ NotRun.delivered = {}
  BY DEF NotRun, Flow
<1>3. FlowInv
  BY <1>2 DEF Init, FlowInv
<1>4. RoundInv
  BY DEF Init, RoundInv, Delivery, CompletedMeansDelivered
<1> QED
  BY <1>1, <1>3, <1>4 DEF Init, DeliveryInv, LogInv

LEMMA StoredStays ==
  ASSUME PostingInv, NEW w \in Worker, PostingStep(w) \/ HandOver(w)
  PROVE  Stored \subseteq Stored'
<1>1. CASE Store(w)
  <2>1. \A c \in Account : stored'[c] = stored[c] \/ stored[c] = NoOne
    BY <1>1 DEF Store, PostingInv, PostingTypeOK
  <2> QED
    BY <2>1 DEF Stored
<1>2. CASE ~Store(w)
  <2>1. stored' = stored
    BY <1>2 DEF PostingStep, Proceed, HandOver, Begin, List, Resume, Skip, PostAccount,
                FailAccount, Park, LosePark, RetryRender, Put, FailRender, Complete, Die
  <2> QED
    BY <2>1 DEF Stored
<1> QED
  BY <1>1, <1>2

LEMMA PostedStays ==
  ASSUME PostingInv, NEW w \in Worker, PostingStep(w) \/ HandOver(w), phase = "INVOICED"
  PROVE  phase' = "INVOICED" /\ Posted' = Posted
<1>1. ASSUME NEW b \in Account, PostAccount(w, b) PROVE FALSE
  BY <1>1, PostWaits
<1>2. ~Begin(w)
  BY DEF Begin
<1>3. CASE Complete(w)
  BY <1>3 DEF Complete, Posted
<1>4. CASE ~Complete(w)
  <2>1. phase' = phase /\ bill' = bill
    BY <1>1, <1>2, <1>4
       DEF PostingStep, Proceed, HandOver, List, Resume, Skip, FailAccount, Park, LosePark,
           RetryRender, Put, Store, FailRender, Die
  <2> QED
    BY <2>1 DEF Posted
<1> QED
  BY <1>3, <1>4

LEMMA PostingOnward ==
  ASSUME PostingInv, [PostingNext]_pvars, sink \subseteq sink'
  PROVE  Onward
<1>1. CASE UNCHANGED pvars
  BY <1>1 DEF pvars, Onward, Stored, Posted
<1>2. CASE PostingNext
  BY <1>2, StoredStays, PostedStays DEF PostingNext, Onward
<1> QED
  BY <1>1, <1>2

LEMMA LogStays ==
  ASSUME LogInv, Onward, UNCHANGED log
  PROVE  LogInv'
BY DEF LogInv, Onward, Launched

LEMMA RoundStays ==
  ASSUME RoundInv, Onward, UNCHANGED delivery
  PROVE  RoundInv'
BY DEF RoundInv, Onward, CompletedMeansDelivered

LEMMA FlowRow ==
  ASSUME FlowInv, Onward, NEW i \in Exec, NEW row \in Flow,
         flow' = [flow EXCEPT ![i] = row], row.delivered \subseteq sink'
  PROVE  FlowInv'
BY DEF FlowInv, Onward

LEMMA FlowStays ==
  ASSUME FlowInv, Onward, UNCHANGED flow
  PROVE  FlowInv'
BY DEF FlowInv, Onward

LEMMA StartFlowKeeps ==
  ASSUME FlowInv, Onward, NEW i \in Exec, NEW n \in Nat, NEW pairs \in SUBSET Pair,
         StartFlow(i, n, pairs)
  PROVE  FlowInv'
<1> DEFINE row == [NotRun EXCEPT !.state = "RUNNING", !.attempt = n, !.pairs = pairs]
<1>1. row \in Flow /\ row.delivered = {}
  BY DEF NotRun, Flow
<1>2. flow' = [flow EXCEPT ![i] = row]
  BY DEF StartFlow
<1> HIDE DEF row
<1> QED
  BY <1>1, <1>2, FlowRow

LEMMA FirstPairs == FirstRound \subseteq Pair
  BY DEF FirstRound, Pair, Artifact, Stored

LEMMA CrossedPairs ==
  ASSUME DeliveryInv
  PROVE  Crossed(Redelivery) \subseteq Pair
<1>1. Redelivery \subseteq Pair
  BY DistributionAssumption
     DEF DeliveryInv, LogInv, OutcomeRow, Redelivery, Pair, Artifact, Stored
<1> QED
  BY <1>1 DEF Crossed, Pair

\* What the flow reports of a pair is what became of the upload.
LEMMA RecordKeeps ==
  ASSUME DeliveryInv, Onward, NEW i \in Exec, NEW p \in flow[i].pairs,
         p \in flow[i].delivered \cup flow[i].failed \cup flow[i].told,
         RecordOutcome(p, flow[i].attempt, OutcomeOf(i, p))
  PROVE  LogInv'
<1> DEFINE row == [pair |-> p, attempt |-> flow[i].attempt, outcome |-> OutcomeOf(i, p)]
<1>1. flow[i] \in Flow /\ flow[i].delivered \subseteq sink
  BY DEF DeliveryInv, FlowInv
<1>2. row \in OutcomeRow /\ row.pair = p /\ row.attempt = flow[i].attempt
      /\ (row.outcome = "DELIVERED" => p \in sink)
  BY <1>1 DEF Flow, OutcomeRow, OutcomeOf
<1>3. CASE log' = log
  BY <1>3, LogStays DEF DeliveryInv
<1>4. CASE log' # log
  <2>1. /\ log' = log \cup {row} /\ Launched(p)
        /\ \A r \in log : ~(r.pair = p /\ r.attempt = flow[i].attempt)
    BY <1>4 DEF RecordOutcome
  <2> HIDE DEF row
  <2>2. log' \subseteq OutcomeRow
    BY <1>2, <2>1 DEF DeliveryInv, LogInv
  <2>3. \A r, s \in log' : r.pair = s.pair /\ r.attempt = s.attempt => r = s
    BY <1>2, <2>1 DEF DeliveryInv, LogInv
  <2>4. \A q : Launched(q) => Launched(q)'
    BY DEF Launched, Onward
  <2>5. \A r \in log' : Launched(r.pair)' /\ (r.outcome = "DELIVERED" => r.pair \in sink')
    BY <1>2, <2>1, <2>4 DEF DeliveryInv, LogInv, Onward
  <2> QED
    BY <2>2, <2>3, <2>5 DEF LogInv
<1> QED
  BY <1>3, <1>4

\* The count recomputeDistributionStatus compares: that many pairs of a
\* mandatory target and an artifact there is are all such pairs.
LEMMA CountDecides ==
  ASSUME DeliveryInv, Derived = "COMPLETED", delivery.status # "COMPLETED"
  PROVE  /\ Posted \subseteq Stored
         /\ Mandatory \X (Posted \cup {Report}) \subseteq sink
<1> DEFINE D == {p \in MandatoryPair : Latest(p, "DELIVERED")}
           S == Stored \cup {Report}
           M == Mandatory \X S
<1>1. Posted \subseteq Stored /\ Cardinality(D) >= Cardinality(Mandatory) * (Cardinality(Stored) + 1)
  BY DEF Derived
<1>2. IsFiniteSet(Stored) /\ IsFiniteSet(Mandatory)
  BY PostingAssumption, DistributionAssumption, FS_Subset DEF Stored
<1>3. Report \notin Stored
  BY DistributionAssumption DEF Stored
<1>4. IsFiniteSet(S) /\ Cardinality(S) = Cardinality(Stored) + 1
  BY <1>2, <1>3, FS_AddElement
<1>5. IsFiniteSet(M) /\ Cardinality(M) = Cardinality(Mandatory) * (Cardinality(Stored) + 1)
  <2> HIDE DEF S
  <2> QED
    BY <1>2, <1>4, FS_Product
<1>6. \A p \in D : p \in M /\ p \in sink
  <2> SUFFICES ASSUME NEW p \in D PROVE p \in M /\ p \in sink
    OBVIOUS
  <2>1. PICK r \in log : r.pair = p /\ r.outcome = "DELIVERED"
    BY DEF Latest
  <2>2. Launched(p) /\ p \in sink
    BY <2>1 DEF DeliveryInv, LogInv
  <2> QED
    BY <2>2 DEF Launched, MandatoryPair
<1>7. D = M
  <2> HIDE DEF M
  <2>1. D \in SUBSET M
    BY <1>6
  <2> HIDE DEF D
  <2>2. /\ Cardinality(D) <= Cardinality(M) /\ IsFiniteSet(D)
        /\ (Cardinality(M) = Cardinality(D) => M = D)
    BY <1>5, <2>1, FS_Subset
  <2>3. Cardinality(D) \in Nat /\ Cardinality(M) \in Nat
    BY <1>5, <2>2, FS_CardinalityType
  <2>4. Cardinality(D) >= Cardinality(M)
    BY <1>1, <1>5
  <2> QED
    BY <2>2, <2>3, <2>4
<1>8. M \subseteq sink
  <2> HIDE DEF M, D
  <2> QED
    BY <1>6, <1>7
<1> QED
  BY <1>1, <1>8

\* A status derived while the run is being distributed.
LEMMA DerivedKeeps ==
  ASSUME DeliveryInv, Onward, delivery.status = "DISTRIBUTING",
         UNCHANGED <<pvars, sink>>,
         delivery' = [delivery EXCEPT !.status = Derived]
  PROVE  RoundInv'
<1>1. Derived \in {"DISTRIBUTION_FAILED", "COMPLETED", "DISTRIBUTING"}
  BY DEF Derived
<1>2. delivery \in Delivery /\ phase = "INVOICED"
  BY DEF DeliveryInv, RoundInv
<1>3. delivery' \in Delivery /\ delivery'.status = Derived
  BY <1>1, <1>2 DEF Delivery
<1>4. CASE Derived = "COMPLETED"
  BY <1>2, <1>3, <1>4, CountDecides
     DEF RoundInv, CompletedMeansDelivered, pvars, Posted, Stored, Onward
<1>5. CASE Derived # "COMPLETED"
  BY <1>2, <1>3, <1>5 DEF RoundInv, CompletedMeansDelivered, Onward
<1> QED
  BY <1>4, <1>5

LEMMA FinishedKeeps ==
  ASSUME DeliveryInv, Onward, NEW n, HandleFinished(n), UNCHANGED <<pvars, sink>>
  PROVE  RoundInv'
<1>1. CASE delivery' = delivery
  BY <1>1, RoundStays DEF DeliveryInv
<1>2. CASE delivery' # delivery
  BY <1>2, DerivedKeeps DEF HandleFinished
<1> QED
  BY <1>1, <1>2

LEMMA StartKeeps ==
  ASSUME DeliveryInv, Onward, NEW i \in Exec, Start(i)
  PROVE  FlowInv' /\ LogInv' /\ RoundInv'
<1>1. FlowInv'
  BY FirstPairs, StartFlowKeeps DEF Start, DeliveryInv
<1>2. LogInv'
  BY LogStays DEF Start, DeliveryInv
<1>3. delivery' \in Delivery /\ delivery'.status = "DISTRIBUTING" /\ phase = "INVOICED"
  BY DEF Start, Startable, DeliveryInv, RoundInv, Delivery
<1>4. RoundInv'
  BY <1>3 DEF RoundInv, CompletedMeansDelivered, Onward
<1> QED
  BY <1>1, <1>2, <1>4

LEMMA RerunKeeps ==
  ASSUME DeliveryInv, Onward, NEW i \in Exec, Rerun(i)
  PROVE  FlowInv' /\ LogInv' /\ RoundInv'
<1>1. delivery \in Delivery /\ delivery.attempt + 1 \in Nat
  BY DEF DeliveryInv, RoundInv, Delivery
<1>2. FlowInv'
  BY <1>1, CrossedPairs, StartFlowKeeps DEF Rerun, DeliveryInv
<1>3. LogInv'
  BY LogStays DEF Rerun, DeliveryInv
<1>4. /\ delivery' \in Delivery /\ delivery'.status = "DISTRIBUTING"
      /\ delivery.status # "NONE"
  BY <1>1 DEF Rerun, Delivery
<1>5. RoundInv'
  BY <1>4 DEF DeliveryInv, RoundInv, CompletedMeansDelivered, Onward
<1> QED
  BY <1>2, <1>3, <1>5

LEMMA OrphanKeeps ==
  ASSUME DeliveryInv, Onward, NEW i \in Exec, Orphan(i)
  PROVE  FlowInv' /\ LogInv' /\ RoundInv'
<1>1. delivery.attempt + 1 \in Nat
  BY DEF DeliveryInv, RoundInv, Delivery
<1>2. FlowInv'
  BY <1>1, FirstPairs, CrossedPairs, StartFlowKeeps DEF Orphan, DeliveryInv
<1> QED
  BY <1>2, LogStays, RoundStays DEF Orphan, DeliveryInv

LEMMA ReconcileKeeps ==
  ASSUME DeliveryInv, Onward, Reconcile
  PROVE  RoundInv'
<1>1. CASE delivery' = [delivery EXCEPT !.status = Derived]
  BY <1>1, DerivedKeeps DEF Reconcile
<1>2. CASE delivery' = [delivery EXCEPT !.status = "DISTRIBUTION_FAILED"]
  <2>1. /\ delivery' \in Delivery /\ delivery'.status = "DISTRIBUTION_FAILED"
        /\ delivery.status # "NONE"
    BY <1>2 DEF DeliveryInv, RoundInv, Reconcile, Delivery
  <2> QED
    BY <2>1 DEF DeliveryInv, RoundInv, CompletedMeansDelivered, Onward
<1> QED
  BY <1>1, <1>2 DEF Reconcile

LEMMA ForceCompleteKeeps ==
  ASSUME DeliveryInv, Onward, ForceComplete
  PROVE  RoundInv'
<1>1. delivery' \in Delivery /\ delivery'.forced /\ delivery.status # "NONE"
  BY DEF DeliveryInv, RoundInv, ForceComplete, Delivery
<1> QED
  BY <1>1 DEF DeliveryInv, RoundInv, CompletedMeansDelivered, Onward

LEMMA OperateKeeps ==
  ASSUME DeliveryInv, Onward, Operate
  PROVE  FlowInv' /\ LogInv' /\ RoundInv' /\ sink' \subseteq Pair
<1>1. CASE Reconcile
  BY <1>1, ReconcileKeeps, FlowStays, LogStays DEF Reconcile, DeliveryInv
<1>2. CASE ForceComplete
  BY <1>2, ForceCompleteKeeps, FlowStays, LogStays DEF ForceComplete, DeliveryInv
<1>3. ASSUME NEW i \in Exec, OperatorStart(i)
      PROVE  FlowInv' /\ LogInv' /\ RoundInv' /\ sink' \subseteq Pair
  BY <1>3, StartKeeps DEF OperatorStart, Start, DeliveryInv
<1>4. ASSUME NEW i \in Exec, Rerun(i)
      PROVE  FlowInv' /\ LogInv' /\ RoundInv' /\ sink' \subseteq Pair
  BY <1>4, RerunKeeps DEF Rerun, DeliveryInv
<1>5. ASSUME NEW i \in Exec, Orphan(i)
      PROVE  FlowInv' /\ LogInv' /\ RoundInv' /\ sink' \subseteq Pair
  BY <1>5, OrphanKeeps DEF Orphan, DeliveryInv
<1> QED
  BY <1>1, <1>2, <1>3, <1>4, <1>5 DEF Operate

\* A step of the flow that uploads nothing.
LEMMA FlowEdits ==
  ASSUME DeliveryInv, Onward, NEW i \in Exec, NEW row \in Flow,
         flow' = [flow EXCEPT ![i] = row], row.delivered = flow[i].delivered
  PROVE  FlowInv'
BY FlowRow DEF DeliveryInv, FlowInv, Onward

LEMMA ToldKeeps ==
  ASSUME DeliveryInv, Onward, NEW i \in Exec, NEW p \in flow[i].pairs, NEW l \in BOOLEAN,
         flow' = [flow EXCEPT ![i].told = @ \cup {p}, ![i].lost = l]
  PROVE  FlowInv'
<1> DEFINE row == [flow[i] EXCEPT !.told = @ \cup {p}, !.lost = l]
<1>1. flow[i] \in Flow
  BY DEF DeliveryInv, FlowInv
<1>2. row \in Flow /\ row.delivered = flow[i].delivered
  BY <1>1 DEF Flow
<1>3. flow' = [flow EXCEPT ![i] = row]
  BY <1>1 DEF DeliveryInv, FlowInv, Flow
<1> HIDE DEF row
<1> QED
  BY <1>2, <1>3, FlowEdits

LEMMA StateKeeps ==
  ASSUME DeliveryInv, Onward, NEW i \in Exec, NEW l \in BOOLEAN,
         NEW st \in {"RUNNING", "ENDING", "DYING", "SUCCESS", "FAILED"},
         flow' = [flow EXCEPT ![i].state = st, ![i].lost = l]
  PROVE  FlowInv'
<1> DEFINE row == [flow[i] EXCEPT !.state = st, !.lost = l]
<1>1. flow[i] \in Flow
  BY DEF DeliveryInv, FlowInv
<1>2. row \in Flow /\ row.delivered = flow[i].delivered
  BY <1>1 DEF Flow
<1>3. flow' = [flow EXCEPT ![i] = row]
  BY <1>1 DEF DeliveryInv, FlowInv, Flow
<1> HIDE DEF row
<1> QED
  BY <1>2, <1>3, FlowEdits

LEMMA UploadKeeps ==
  ASSUME DeliveryInv, Onward, NEW i \in Exec, NEW p \in flow[i].pairs, Upload(i, p)
  PROVE  FlowInv' /\ sink' \subseteq Pair
<1>1. flow[i] \in Flow /\ flow[i].delivered \subseteq sink /\ sink \subseteq sink'
      /\ sink \subseteq Pair
  BY DEF DeliveryInv, FlowInv, Onward
<1>2. p \in Pair
  BY <1>1 DEF Flow
<1>3. CASE sink' = sink \cup {p} /\ flow' = [flow EXCEPT ![i].delivered = @ \cup {p}]
  <2> DEFINE row == [flow[i] EXCEPT !.delivered = @ \cup {p}]
  <2>1. row \in Flow /\ row.delivered = flow[i].delivered \cup {p}
    BY <1>1, <1>2 DEF Flow
  <2>2. flow' = [flow EXCEPT ![i] = row]
    BY <1>1, <1>3 DEF DeliveryInv, FlowInv, Flow
  <2> HIDE DEF row
  <2>3. FlowInv'
    BY <1>1, <1>3, <2>1, <2>2, FlowRow DEF DeliveryInv
  <2> QED
    BY <1>1, <1>2, <1>3, <2>3
<1>4. CASE UNCHANGED sink /\ flow' = [flow EXCEPT ![i].failed = @ \cup {p}]
  <2> DEFINE row == [flow[i] EXCEPT !.failed = @ \cup {p}]
  <2>1. row \in Flow /\ row.delivered = flow[i].delivered
    BY <1>1, <1>2 DEF Flow
  <2>2. flow' = [flow EXCEPT ![i] = row]
    BY <1>1, <1>4 DEF DeliveryInv, FlowInv, Flow
  <2> HIDE DEF row
  <2>3. FlowInv'
    BY <2>1, <2>2, FlowEdits
  <2> QED
    BY <1>1, <1>4, <2>3
<1> QED
  BY <1>3, <1>4 DEF Upload

LEMMA PostOutcomeKeeps ==
  ASSUME DeliveryInv, Onward, NEW i \in Exec, NEW p \in flow[i].pairs, PostOutcome(i, p)
  PROVE  FlowInv' /\ LogInv'
<1> DEFINE l == flow[i].lost
<1>1. flow[i] \in Flow /\ l \in BOOLEAN
  BY DEF DeliveryInv, FlowInv, Flow
<1>2. flow' = [flow EXCEPT ![i].told = @ \cup {p}, ![i].lost = l]
  BY <1>1 DEF PostOutcome, DeliveryInv, FlowInv, Flow
<1> HIDE DEF l
<1>3. FlowInv'
  BY <1>1, <1>2, ToldKeeps
<1>4. LogInv'
  BY RecordKeeps DEF PostOutcome, Untold
<1> QED
  BY <1>3, <1>4

LEMMA WorkKeeps ==
  ASSUME DeliveryInv, Onward, NEW i \in Exec, Work(i)
  PROVE  FlowInv' /\ LogInv' /\ RoundInv' /\ sink' \subseteq Pair
<1> DEFINE l == flow[i].lost
<1>1. flow[i] \in Flow /\ l \in BOOLEAN
  BY DEF DeliveryInv, FlowInv, Flow
<1>2. CASE EndFlow(i)
  <2>1. flow' = [flow EXCEPT ![i].state = "ENDING", ![i].lost = l]
    BY <1>1, <1>2 DEF EndFlow, DeliveryInv, FlowInv, Flow
  <2> HIDE DEF l
  <2>2. FlowInv'
    BY <1>1, <2>1, StateKeeps
  <2> QED
    BY <1>2, <2>2, LogStays, RoundStays DEF EndFlow, DeliveryInv
<1>3. CASE PushFinished(i)
  <2> DEFINE st == IF flow[i].state = "ENDING" THEN "SUCCESS" ELSE "FAILED"
  <2>1. flow' = [flow EXCEPT ![i].state = st, ![i].lost = l]
    BY <1>1, <1>3 DEF PushFinished, DeliveryInv, FlowInv, Flow
  <2>2. st \in {"SUCCESS", "FAILED"}
    OBVIOUS
  <2> HIDE DEF l, st
  <2>3. FlowInv'
    BY <1>1, <2>1, <2>2, StateKeeps
  <2> QED
    BY <1>3, <2>3, LogStays, FinishedKeeps DEF PushFinished, DeliveryInv
<1>4. ASSUME NEW p \in flow[i].pairs, Upload(i, p)
      PROVE  FlowInv' /\ LogInv' /\ RoundInv' /\ sink' \subseteq Pair
  BY <1>4, UploadKeeps, LogStays, RoundStays DEF Upload, DeliveryInv
<1>5. ASSUME NEW p \in flow[i].pairs, PostOutcome(i, p)
      PROVE  FlowInv' /\ LogInv' /\ RoundInv' /\ sink' \subseteq Pair
  BY <1>5, PostOutcomeKeeps, RoundStays DEF PostOutcome, DeliveryInv
<1> QED
  BY <1>2, <1>3, <1>4, <1>5 DEF Work

LEMMA EngineKeeps ==
  ASSUME DeliveryInv, Onward, Engine
  PROVE  FlowInv' /\ LogInv' /\ RoundInv' /\ sink' \subseteq Pair
<1>1. PICK i \in Exec :
        \/ Work(i) \/ Crash(i) \/ LosePush(i) \/ RepeatPush(i)
        \/ \E p \in flow[i].pairs : LoseOutcome(i, p) \/ Redeliver(i, p)
  BY DEF Engine
<1>2. CASE Work(i)
  BY <1>2, WorkKeeps
<1>3. CASE Crash(i)
  <2>1. FlowInv'
    BY <1>3, StateKeeps DEF Crash
  <2> QED
    BY <1>3, <2>1, LogStays, RoundStays DEF Crash, DeliveryInv
<1>4. CASE LosePush(i)
  <2>1. FlowInv'
    BY <1>4, StateKeeps DEF LosePush
  <2> QED
    BY <1>4, <2>1, LogStays, RoundStays DEF LosePush, DeliveryInv
<1>5. CASE RepeatPush(i)
  BY <1>5, FlowStays, LogStays, FinishedKeeps DEF RepeatPush, DeliveryInv
<1>6. ASSUME NEW p \in flow[i].pairs, LoseOutcome(i, p)
      PROVE  FlowInv' /\ LogInv' /\ RoundInv' /\ sink' \subseteq Pair
  <2>1. FlowInv'
    BY <1>6, ToldKeeps DEF LoseOutcome
  <2> QED
    BY <1>6, <2>1, LogStays, RoundStays DEF LoseOutcome, DeliveryInv
<1>7. ASSUME NEW p \in flow[i].pairs, Redeliver(i, p)
      PROVE  FlowInv' /\ LogInv' /\ RoundInv' /\ sink' \subseteq Pair
  BY <1>7, FlowStays, RecordKeeps, RoundStays DEF Redeliver, DeliveryInv
<1> QED
  BY <1>1, <1>2, <1>3, <1>4, <1>5, <1>6, <1>7

LEMMA DeliveryKeeps ==
  ASSUME DeliveryInv, [Next]_vars
  PROVE  DeliveryInv'
<1>1. [PostingNext]_pvars
  BY Projects
<1>2. PostingInv'
  BY <1>1, PostingKeeps DEF DeliveryInv
<1>3. sink \subseteq sink'
  BY DEF Next, vars, dvars, Posting, AutoStart, Start, Operate, Reconcile, ForceComplete,
         OperatorStart, Rerun, Orphan, Engine, Work, EndFlow, PushFinished, Upload,
         PostOutcome, Crash, LosePush, RepeatPush, LoseOutcome, Redeliver
<1>4. Onward
  BY <1>1, <1>3, PostingOnward DEF DeliveryInv
<1>5. CASE UNCHANGED dvars
  BY <1>2, <1>4, <1>5, FlowStays, LogStays, RoundStays DEF dvars, DeliveryInv
<1>6. CASE Posting
  <2>1. ASSUME NEW w \in Worker, NEW i \in Exec, AutoStart(w, i)
        PROVE  FlowInv' /\ LogInv' /\ RoundInv' /\ sink' \subseteq Pair
    BY <1>4, <2>1, StartKeeps DEF AutoStart, Start, DeliveryInv
  <2> QED
    BY <1>2, <1>5, <1>6, <2>1 DEF Posting, DeliveryInv
<1>7. CASE Operate
  BY <1>2, <1>4, <1>7, OperateKeeps DEF DeliveryInv
<1>8. CASE Engine
  BY <1>2, <1>4, <1>8, EngineKeeps DEF DeliveryInv
<1>9. CASE UNCHANGED vars
  BY <1>5, <1>9 DEF vars
<1> QED
  BY <1>6, <1>7, <1>8, <1>9 DEF Next

LEMMA DeliveryAlways == Spec => []DeliveryInv
<1> QED
  BY DeliveryInitInv, DeliveryKeeps, PTL DEF Spec

\* Every variable keeps its type, and a pair has one outcome per round: the
\* latch of recordDistributionOutcome.
THEOREM DistributionTypeCorrect == Spec => []TypeOK
<1>1. DeliveryInv => TypeOK
  BY DEF DeliveryInv, PostingInv, FlowInv, LogInv, RoundInv, TypeOK
<1> QED
  BY <1>1, DeliveryAlways, PTL

\* A run that is COMPLETED and was not given up has brought the register and
\* every posted account's invoice to every mandatory target, over any number
\* of rounds and whatever is lost, repeated, orphaned or rendered late: the
\* count that recomputeDistributionStatus compares decides it.
THEOREM DeliveredTheorem == Spec => []CompletedMeansDelivered
<1>1. DeliveryInv => CompletedMeansDelivered
  BY DEF DeliveryInv, RoundInv
<1> QED
  BY <1>1, DeliveryAlways, PTL

=============================================================================
