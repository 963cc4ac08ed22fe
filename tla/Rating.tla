------------------------------- MODULE Rating -------------------------------
(***************************************************************************)
(* The rating engine's path from a delivered file to live rated usage:     *)
(* prp.py claims and parses, rp.py rates, rl.py loads and archives, the    *)
(* stranded-batch reconcile fails what was left behind, and bill runs hold *)
(* the rows they bill.                                                     *)
(*                                                                         *)
(* The flow has one execution at a time (concurrency limit 1).  It may be  *)
(* stopped between any two steps, and an operator may restart its last     *)
(* task.  The load is one transaction whose collision check is made before *)
(* it writes: the two are steps, as bill runs claim rows in between.       *)
(*                                                                         *)
(* Abstractions.  A content stands for a file's bytes, its checksum and    *)
(* the rows that survive parsing and rating; whether parsing refuses it is *)
(* a free choice, as rate cards and subscriptions change.  COMPLETE stands *)
(* for PARTIAL too.  Batches are numbered by their claims, which is the    *)
(* order of the runs of a key.  A bill run is of one month, for the one    *)
(* account all usage is of.                                                *)
(***************************************************************************)
EXTENDS Naturals

CONSTANTS
    File,       \* names a file may be delivered under
    KeyOf,      \* key of a name: the deliveries that replace one another
    Content,    \* contents of files
    Record,     \* usage records, by cell, month and instant
    RecordsOf,  \* records a content has
    Absent,     \* no file, or none yet
    MaxBatch,   \* bound: batches
    Lapses      \* what operators do although nothing stops the harm

ASSUME RatingAssumption ==
    /\ File # {}
    /\ Absent \notin Content
    /\ RecordsOf \in [Content -> SUBSET Record]
    /\ MaxBatch \in Nat \ {0}
    /\ Lapses \subseteq {"overwrite", "late_restart"}

VARIABLES
    landing,    \* files to be processed
    archive,    \* files kept
    dropped,    \* what was last delivered under a name (a history variable)
    pending,    \* names the trigger has yet to start an execution for
    batch,      \* rows of udr_batch
    rated,      \* rows of udr_rated, by batch and record
    job         \* the execution under way

ratingVars == <<landing, archive, dropped, pending, batch, rated, job>>

-----------------------------------------------------------------------------
Batch == 1..MaxBatch

BatchStatus == {"none", "RECEIVED", "PROCESSING", "COMPLETE", "FAILED", "REFUSED"}

RowStatus == {"none", "RATED", "BILL_DRAFT", "BILL_APPROVED", "SUPERSEDED"}

InFlight == {"BILL_DRAFT", "BILL_APPROVED"}

\* is_live
LiveStatus == {"RATED"} \cup InFlight

\* sum is the checksum of the claim; parsed is the manifest's.
BatchRow ==
    [status : BatchStatus, file : File, sum : Content \cup {Absent},
     parsed : Content \cup {Absent}, archived : BOOLEAN]

Step == {"idle", "parse", "probe", "guard", "commit", "copy", "unlink", "stamp"}

Rows(b) == {r \in Record : rated[b][r] # "none"}

\* With what stranded_reconcile.py takes for granted: what is not COMPLETE has
\* loaded nothing.
RatingTypeOK ==
    /\ landing \in [File -> Content \cup {Absent}]
    /\ archive \in [File -> Content \cup {Absent}]
    /\ dropped \in [File -> Content \cup {Absent}]
    /\ pending \subseteq File
    /\ batch \in [Batch -> BatchRow]
    /\ rated \in [Batch -> [Record -> RowStatus]]
    /\ job \in [at : Step, batch : Batch]
    /\ \A b \in Batch :
          IF batch[b].status = "COMPLETE"
          THEN batch[b].parsed # Absent /\ Rows(b) = RecordsOf[batch[b].parsed]
          ELSE Rows(b) = {}

RatingInit ==
    /\ landing = [f \in File |-> Absent]
    /\ archive = landing /\ dropped = landing
    /\ pending = {}
    /\ batch = [b \in Batch |-> [status |-> "none", file |-> CHOOSE f \in File : TRUE,
                                  sum |-> Absent, parsed |-> Absent, archived |-> FALSE]]
    /\ rated = [b \in Batch |-> [r \in Record |-> "none"]]
    /\ job = [at |-> "idle", batch |-> 1]

Claimed(b) == batch[b].status # "none"
KeyOfBatch(b) == KeyOf[batch[b].file]
LiveRow(b, r) == rated[b][r] \in LiveStatus
LaterRuns(b) == {c \in Batch : c > b /\ Claimed(c) /\ KeyOfBatch(c) = KeyOfBatch(b)}

\* The job is at a step for the batch it has.
At(step) == job.at = step
GoTo(step) == job' = [job EXCEPT !.at = step]
Mine == job.batch
MyFile == batch[Mine].file
SetStatus(b, s) == batch' = [batch EXCEPT ![b].status = s]

-----------------------------------------------------------------------------
(* Deliveries and the trigger.                                             *)

UnderWay(f) == ~At("idle") /\ MyFile = f

\* A file is put into landing/, again after it was removed if need be.  The
\* engine looks at its name only once it is done with it.
Drop(f, c) ==
    /\ UnderWay(f) => "overwrite" \in Lapses
    /\ landing' = [landing EXCEPT ![f] = c]
    /\ dropped' = [dropped EXCEPT ![f] = c]
    /\ pending' = pending \cup {f}
    /\ UNCHANGED <<archive, batch, rated, job>>

\* is_duplicate_redelivery, whatever became of the earlier batch.
Redelivered(f) ==
    \E b \in Batch : Claimed(b) /\ KeyOfBatch(b) = KeyOf[f] /\ batch[b].sum = landing[f]

\* An execution that ends before its claim: the file has gone, its content has
\* been claimed before, or the configuration does not resolve.
PassOver(f) ==
    /\ At("idle") /\ f \in pending
    /\ pending' = pending \ {f}
    /\ UNCHANGED <<landing, archive, dropped, batch, rated, job>>

\* claim_batch: the next batch, and so the next run of the key.
ClaimBatch(f, b) ==
    /\ At("idle") /\ f \in pending
    /\ landing[f] # Absent /\ ~Redelivered(f)
    /\ ~Claimed(b) /\ \A c \in Batch : c < b => Claimed(c)
    /\ pending' = pending \ {f}
    /\ batch' = [batch EXCEPT ![b].status = "RECEIVED", ![b].file = f, ![b].sum = landing[f]]
    /\ job' = [at |-> "parse", batch |-> b]
    /\ UNCHANGED <<landing, archive, dropped, rated>>

\* process_file reads the file once more; stamp_counts asks nothing of the
\* batch's status.
Parse ==
    /\ At("parse") /\ landing[MyFile] # Absent
    /\ batch' = [batch EXCEPT ![Mine].status = "PROCESSING", ![Mine].parsed = landing[MyFile]]
    /\ GoTo("probe")
    /\ UNCHANGED <<landing, archive, dropped, pending, rated>>

\* A hard stop, or too many rejects.
RefuseFile ==
    /\ At("parse") /\ SetStatus(Mine, "REFUSED") /\ GoTo("idle")
    /\ UNCHANGED <<landing, archive, dropped, pending, rated>>

\* The execution fails or is killed, here or, after Parse, in rp.py.
Stop ==
    /\ ~At("idle") /\ GoTo("idle")
    /\ UNCHANGED <<landing, archive, dropped, pending, batch, rated>>

\* The flow's last task is restarted with the manifest it was given.  Nothing
\* in the code asks whether a later run of the key has loaded, or another file
\* has come under the name.
RestartLoad(b) ==
    /\ At("idle") /\ Claimed(b) /\ batch[b].parsed # Absent
    /\ \/ "late_restart" \in Lapses
       \/ /\ \A c \in LaterRuns(b) : batch[c].status # "COMPLETE"
          /\ landing[batch[b].file] \in {batch[b].parsed, Absent}
    /\ job' = [at |-> "probe", batch |-> b]
    /\ UNCHANGED <<landing, archive, dropped, pending, batch, rated>>

-----------------------------------------------------------------------------
(* The loader.                                                             *)

\* get_batch_state: only PROCESSING is loaded, and what has been loaded is only
\* archived.
Probe ==
    /\ At("probe")
    /\ GoTo(CASE batch[Mine].status = "PROCESSING" -> "guard"
              [] batch[Mine].status = "COMPLETE" /\ ~batch[Mine].archived -> "copy"
              [] OTHER -> "idle")
    /\ UNCHANGED <<landing, archive, dropped, pending, batch, rated>>

Incoming == RecordsOf[batch[Mine].parsed]

\* find_billed_or_inflight_collisions
Collides == \E b \in Batch, r \in Incoming : rated[b][r] \in InFlight

\* scan_and_guard
Guard ==
    /\ At("guard") /\ ~Collides /\ GoTo("commit")
    /\ UNCHANGED <<landing, archive, dropped, pending, batch, rated>>

\* Refused for a collision or a currency: set_batch_status, after the rollback,
\* asks nothing of the status.
RefuseLoad ==
    /\ At("guard") /\ SetStatus(Mine, "REFUSED") /\ GoTo("idle")
    /\ UNCHANGED <<landing, archive, dropped, pending, rated>>

\* Mutant of Predecessors: by source file.
SameName(b) == {c \in Batch : c < b /\ Claimed(c) /\ batch[c].file = batch[b].file}

\* The runs supersede_batch retires, by key.
Predecessors(b) == {c \in Batch : c < b /\ Claimed(c) /\ KeyOfBatch(c) = KeyOfBatch(b)}

Retires(c, r) == c \in Predecessors(Mine) /\ LiveRow(c, r)

\* Mutant of NoneInFlight: no trigger, and the collision check was enough.
Unprotected == TRUE

\* rating_status_guard
NoneInFlight ==
    \A c \in Batch, r \in Record : Retires(c, r) => rated[c][r] \notin InFlight

SameSlot(r, s) == r.cell = s.cell /\ r.month = s.month

\* udr_rated_live_uq, once the predecessors' rows are out of the way.
SlotsFree ==
    \A b \in Batch \ Predecessors(Mine), s \in Record :
        LiveRow(b, s) => \A r \in Incoming : ~SameSlot(r, s)

\* supersede_batch, copy_chunks and stamp_terminal: all or, if one of them
\* raises, nothing (Stop).
CommitLoad ==
    /\ At("commit") /\ NoneInFlight /\ SlotsFree
    /\ rated' = [b \in Batch |-> [r \in Record |->
                    IF Retires(b, r) THEN "SUPERSEDED"
                    ELSE IF b = Mine /\ r \in Incoming THEN "RATED" ELSE rated[b][r]]]
    /\ SetStatus(Mine, "COMPLETE")
    /\ GoTo("copy")
    /\ UNCHANGED <<landing, archive, dropped, pending>>

\* The counts do not add up: rolled back, and the batch is FAILED.
ReconImbalance ==
    /\ At("commit") /\ SetStatus(Mine, "FAILED") /\ GoTo("idle")
    /\ UNCHANGED <<landing, archive, dropped, pending, rated>>

\* Mutant of CopyToArchive: moved, not copied.
MoveAway ==
    /\ At("copy") /\ landing[MyFile] # Absent
    /\ landing' = [landing EXCEPT ![MyFile] = Absent]
    /\ GoTo("unlink")
    /\ UNCHANGED <<archive, dropped, pending, batch, rated>>

\* archive_file copies and verifies,
CopyToArchive ==
    /\ At("copy") /\ landing[MyFile] # Absent
    /\ archive' = [archive EXCEPT ![MyFile] = landing[MyFile]]
    /\ GoTo("unlink")
    /\ UNCHANGED <<landing, dropped, pending, batch, rated>>

\* deletes,
Unlink ==
    /\ At("unlink")
    /\ landing' = [landing EXCEPT ![MyFile] = Absent]
    /\ GoTo("stamp")
    /\ UNCHANGED <<archive, dropped, pending, batch, rated>>

\* or finds it done by an execution that was stopped;
AlreadyArchived ==
    /\ At("copy") /\ landing[MyFile] = Absent /\ archive[MyFile] # Absent
    /\ GoTo("stamp")
    /\ UNCHANGED <<landing, archive, dropped, pending, batch, rated>>

\* stamp_archive_path comes last.
StampArchived ==
    /\ At("stamp")
    /\ batch' = [batch EXCEPT ![Mine].archived = TRUE]
    /\ GoTo("idle")
    /\ UNCHANGED <<landing, archive, dropped, pending, rated>>

-----------------------------------------------------------------------------
(* The stranded-batch reconcile and the bill runs.                         *)

\* Mutant of Stranded: any batch that is not archived.
Unarchived(b) == Claimed(b) /\ ~batch[b].archived

\* Looked at again by the update itself.
Stranded(b) == batch[b].status \in {"RECEIVED", "PROCESSING"}

\* Age is all that tells a batch left behind from a slow one.
ResolveStranded(b) ==
    /\ Stranded(b) /\ SetStatus(b, "FAILED")
    /\ UNCHANGED <<landing, archive, dropped, pending, rated, job>>

\* The rows of a month that a bill run finds in one status go to another.
MoveRows(m, from, to) ==
    /\ \E b \in Batch, r \in Record : rated[b][r] = from /\ r.month = m
    /\ rated' = [b \in Batch |-> [r \in Record |->
                    IF rated[b][r] = from /\ r.month = m THEN to ELSE rated[b][r]]]
    /\ UNCHANGED <<landing, archive, dropped, pending, batch, job>>

CollectUsage(m) == MoveRows(m, "RATED", "BILL_DRAFT")
ReleaseUsage(m) == MoveRows(m, "BILL_DRAFT", "RATED")
ApproveUsage(m) == MoveRows(m, "BILL_DRAFT", "BILL_APPROVED")

-----------------------------------------------------------------------------
RatingNext ==
    \/ \E f \in File :
          \/ PassOver(f)
          \/ \E c \in Content : Drop(f, c)
          \/ \E b \in Batch : ClaimBatch(f, b)
    \/ \E b \in Batch : RestartLoad(b) \/ ResolveStranded(b)
    \/ Parse \/ RefuseFile \/ Stop
    \/ Probe \/ Guard \/ RefuseLoad \/ CommitLoad \/ ReconImbalance
    \/ CopyToArchive \/ AlreadyArchived \/ Unlink \/ StampArchived
    \/ \E m \in {r.month : r \in Record} :
          CollectUsage(m) \/ ReleaseUsage(m) \/ ApproveUsage(m)

RatingSpec == RatingInit /\ [][RatingNext]_ratingVars

=============================================================================
