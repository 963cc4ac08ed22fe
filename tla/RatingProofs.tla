--------------------------- MODULE RatingProofs ---------------------------
(***************************************************************************)
(* What RatingProps asks, for any files, keys, contents and number of      *)
(* batches.  LoadInv is about the database alone and holds as long as no   *)
(* late restart happens; FileInv adds the files, and allows no lapse.      *)
(***************************************************************************)
EXTENDS RatingProps, TLAPS

RatingTypes ==
    /\ landing \in [File -> Content \cup {Absent}]
    /\ archive \in [File -> Content \cup {Absent}]
    /\ dropped \in [File -> Content \cup {Absent}]
    /\ pending \subseteq File
    /\ batch \in [Batch -> BatchRow]
    /\ rated \in [Batch -> [Record -> RowStatus]]
    /\ job \in [at : Step, batch : Batch]

Loaded(b) == batch[b].status = "COMPLETE"

RowsMatch ==
    \A b \in Batch :
        /\ Loaded(b) => batch[b].parsed # Absent /\ Rows(b) = RecordsOf[batch[b].parsed]
        /\ ~Loaded(b) => Rows(b) = {}

InClaimOrder == \A b, c \in Batch : c < b /\ Claimed(b) => Claimed(c)

Unloaded(b) == \A c \in LaterRuns(b) : ~Loaded(c)

\* What the execution has made sure of.
JobInv ==
    /\ ~At("idle") => Claimed(Mine)
    /\ At("parse") => ~Loaded(Mine) /\ \A c \in Batch : c > Mine => ~Claimed(c)
    /\ job.at \in {"probe", "guard", "commit"} => batch[Mine].parsed # Absent /\ Unloaded(Mine)
    /\ job.at \in {"guard", "commit"} => ~Loaded(Mine)

LoadInv == RatingTypes /\ RowsMatch /\ InClaimOrder /\ LiveIsLatest /\ JobInv

-----------------------------------------------------------------------------
LEMMA LoadInitInv == RatingInit => LoadInv
<1> SUFFICES ASSUME RatingInit PROVE LoadInv
  OBVIOUS
<1>1. RatingTypes
  <2>1. (CHOOSE f \in File : TRUE) \in File
    BY RatingAssumption
  <2>2. batch \in [Batch -> BatchRow] /\ rated \in [Batch -> [Record -> RowStatus]]
    BY <2>1 DEF RatingInit, BatchRow, BatchStatus, RowStatus
  <2>3. job \in [at : Step, batch : Batch]
    BY RatingAssumption DEF RatingInit, Step, Batch
  <2> QED BY <2>2, <2>3 DEF RatingInit, RatingTypes
<1>2. RowsMatch /\ InClaimOrder /\ LiveIsLatest /\ JobInv
  BY DEF RatingInit, RowsMatch, Loaded, Rows, InClaimOrder, Claimed, LiveIsLatest, JobInv, At
<1> QED BY <1>1, <1>2 DEF LoadInv

\* Nothing is claimed, loaded or unloaded, and no row begins or ceases to live.
LEMMA SameLoads ==
  ASSUME LoadInv, batch' \in [Batch -> BatchRow],
         \A b \in Batch : /\ Claimed(b)' <=> Claimed(b)
                          /\ batch'[b].file = batch[b].file
                          /\ Loaded(b)' <=> Loaded(b)
                          /\ Loaded(b) => batch'[b].parsed = batch[b].parsed
                          /\ \A r \in Record : /\ LiveRow(b, r)' <=> LiveRow(b, r)
                                               /\ rated'[b][r] = "none" <=> rated[b][r] = "none"
  PROVE  /\ RowsMatch' /\ InClaimOrder' /\ LiveIsLatest'
         /\ \A b \in Batch : LaterRuns(b)' = LaterRuns(b) /\ (Unloaded(b)' <=> Unloaded(b))
<1>1. \A b \in Batch : Rows(b)' = Rows(b)
  BY DEF Rows
<1>2. RowsMatch'
  BY <1>1 DEF RowsMatch, LoadInv
<1>3. InClaimOrder'
  BY DEF InClaimOrder, LoadInv
<1>4. ASSUME NEW b \in Batch
      PROVE  LaterRuns(b)' = LaterRuns(b) /\ (Unloaded(b)' <=> Unloaded(b))
  BY DEF LaterRuns, KeyOfBatch, Unloaded
<1>5. LiveIsLatest'
  <2> SUFFICES ASSUME NEW b \in Batch, Loaded(b)', NEW r \in RecordsOf[batch'[b].parsed]
               PROVE  LiveRow(b, r)' <=> Unloaded(b)'
    BY DEF LiveIsLatest, Loaded, Unloaded
  <2>1. /\ Loaded(b) /\ batch[b].parsed \in Content
        /\ r \in RecordsOf[batch[b].parsed] /\ r \in Record
    BY RatingAssumption DEF LoadInv, RatingTypes, RowsMatch, BatchRow
  <2> QED BY <1>4, <2>1 DEF LoadInv, LiveIsLatest, Loaded, Unloaded
<1> QED BY <1>2, <1>3, <1>4, <1>5

\* A step of the job, or of somebody else, that leaves the batches and rows.
LEMMA OnlyJobMoves ==
  ASSUME LoadInv, UNCHANGED <<batch, rated>>,
         landing' \in [File -> Content \cup {Absent}],
         archive' \in [File -> Content \cup {Absent}],
         dropped' \in [File -> Content \cup {Absent}],
         pending' \subseteq File, job' \in [at : Step, batch : Batch], JobInv'
  PROVE  LoadInv'
<1>1. \A b \in Batch : (Claimed(b)' <=> Claimed(b)) /\ (Loaded(b)' <=> Loaded(b))
  BY DEF Claimed, Loaded
<1>2. \A b \in Batch, r \in Record : LiveRow(b, r)' <=> LiveRow(b, r)
  BY DEF LiveRow
<1>3. RatingTypes'
  BY DEF LoadInv, RatingTypes
<1>4. RowsMatch' /\ InClaimOrder' /\ LiveIsLatest'
  BY <1>1, <1>2, <1>3, SameLoads DEF RatingTypes
<1> QED BY <1>3, <1>4 DEF LoadInv

-----------------------------------------------------------------------------
(* The steps, for the database.                                            *)

LEMMA DeliveryLoads ==
  ASSUME LoadInv, NEW f \in File,
         PassOver(f) \/ \E c \in Content : Drop(f, c)
  PROVE  LoadInv'
<1>1. JobInv'
  BY DEF LoadInv, JobInv, PassOver, Drop, At, Mine, Claimed, Loaded, Unloaded, LaterRuns, KeyOfBatch
<1> QED BY <1>1, OnlyJobMoves DEF LoadInv, RatingTypes, PassOver, Drop

\* The steps that move the job and, maybe, files.
LEMMA MoveLoads ==
  ASSUME LoadInv, Stop \/ Probe \/ Guard \/ CopyToArchive \/ AlreadyArchived \/ Unlink
  PROVE  LoadInv'
<1>1. /\ job' \in [at : Step, batch : Batch] /\ Mine' = Mine
      /\ At("idle") => FALSE
  BY DEF LoadInv, RatingTypes, Step, Stop, Probe, Guard, CopyToArchive, AlreadyArchived, Unlink,
         GoTo, Mine, At
<1>2. UNCHANGED <<batch, rated>>
  BY DEF Stop, Probe, Guard, CopyToArchive, AlreadyArchived, Unlink
<1>3. Claimed(Mine)' /\ (Unloaded(Mine)' <=> Unloaded(Mine))
  BY <1>1, <1>2 DEF LoadInv, JobInv, Claimed, Unloaded, Loaded, LaterRuns, KeyOfBatch
<1>4. JobInv'
  <2>1. \/ job'.at \in {"idle", "copy", "unlink", "stamp"}
        \/ job.at = "probe" /\ job'.at = "guard" /\ ~Loaded(Mine)
        \/ job.at = "guard" /\ job'.at = "commit"
    BY DEF LoadInv, RatingTypes, Stop, Probe, Guard, CopyToArchive, AlreadyArchived, Unlink, GoTo,
           At, Loaded
  <2> QED BY <1>1, <1>2, <1>3, <2>1 DEF LoadInv, JobInv, At, Loaded
<1>5. /\ landing' \in [File -> Content \cup {Absent}]
      /\ archive' \in [File -> Content \cup {Absent}]
      /\ dropped' \in [File -> Content \cup {Absent}]
      /\ pending' \subseteq File
  BY DEF LoadInv, RatingTypes, Stop, Probe, Guard, CopyToArchive, AlreadyArchived, Unlink, MyFile,
         BatchRow
<1> QED BY <1>1, <1>2, <1>4, <1>5, OnlyJobMoves

\* Only the newest run that loaded is restarted, or one after it.
LEMMA RestartLoads ==
  ASSUME LoadInv, "late_restart" \notin Lapses, NEW b \in Batch, RestartLoad(b)
  PROVE  LoadInv'
<1>1. job' = [at |-> "probe", batch |-> b] /\ UNCHANGED <<batch, rated>>
  BY DEF RestartLoad
<1>2. Claimed(b)' /\ batch'[b].parsed # Absent /\ Unloaded(b)'
  BY <1>1 DEF RestartLoad, Claimed, Unloaded, Loaded, LaterRuns, KeyOfBatch
<1>3. JobInv'
  BY <1>1, <1>2 DEF JobInv, At, Mine
<1> QED BY <1>1, <1>3, OnlyJobMoves DEF RestartLoad, LoadInv, RatingTypes, Step

\* A batch that has not loaded gets a status that says so.
LEMMA StatusLoads ==
  ASSUME LoadInv, Parse \/ RefuseFile \/ RefuseLoad \/ ReconImbalance
  PROVE  LoadInv'
<1>1. PICK s \in {"PROCESSING", "REFUSED", "FAILED"} :
          batch'[Mine].status = s
  BY DEF LoadInv, RatingTypes, BatchRow, Parse, RefuseFile, RefuseLoad, ReconImbalance, SetStatus,
         Mine
<1>2. Mine \in Batch /\ Claimed(Mine) /\ ~Loaded(Mine) /\ Mine' = Mine
  BY DEF LoadInv, RatingTypes, JobInv, Parse, RefuseFile, RefuseLoad, ReconImbalance, At, Mine, GoTo
<1>3. /\ batch' \in [Batch -> BatchRow] /\ rated' = rated
      /\ \A b \in Batch \ {Mine} : batch'[b] = batch[b]
      /\ batch'[Mine].file = batch[Mine].file
  <2> DEFINE old == batch[Mine]
  <2>1. old \in BatchRow /\ batch \in [Batch -> BatchRow]
    BY <1>2 DEF LoadInv, RatingTypes
  <2>2. CASE Parse
    <3>1. landing[old.file] \in Content \cup {Absent}
      BY <2>1 DEF BatchRow, LoadInv, RatingTypes
    <3>2. /\ batch' = [batch EXCEPT ![Mine].status = "PROCESSING", ![Mine].parsed = landing[old.file]]
          /\ rated' = rated
      BY <2>2 DEF Parse, MyFile
    <3> QED BY <1>2, <2>1, <3>1, <3>2 DEF BatchRow, BatchStatus
  <2>3. CASE RefuseFile \/ RefuseLoad \/ ReconImbalance
    <3>1. PICK t \in BatchStatus : batch' = [batch EXCEPT ![Mine].status = t]
      BY <2>3 DEF RefuseFile, RefuseLoad, ReconImbalance, SetStatus, BatchStatus
    <3>2. rated' = rated
      BY <2>3 DEF RefuseFile, RefuseLoad, ReconImbalance
    <3> QED BY <1>2, <2>1, <3>1, <3>2 DEF BatchRow
  <2> QED BY <2>2, <2>3
<1>4. \A b \in Batch : /\ Claimed(b)' <=> Claimed(b)
                       /\ batch'[b].file = batch[b].file
                       /\ Loaded(b)' <=> Loaded(b)
                       /\ Loaded(b) => batch'[b].parsed = batch[b].parsed
  BY <1>1, <1>2, <1>3 DEF Claimed, Loaded
<1>5. \A b \in Batch, r \in Record : LiveRow(b, r)' <=> LiveRow(b, r)
  BY <1>3 DEF LiveRow
<1>6. /\ RowsMatch' /\ InClaimOrder' /\ LiveIsLatest'
      /\ \A b \in Batch : Unloaded(b)' <=> Unloaded(b)
  BY <1>3, <1>4, <1>5, SameLoads
<1>7. JobInv'
  <2>1. CASE job'.at = "idle"
    BY <2>1 DEF JobInv, At
  <2>2. CASE Parse
    <3>1. job'.at = "probe" /\ batch'[Mine].parsed # Absent
      BY <1>2, <2>2 DEF Parse, LoadInv, RatingTypes, BatchRow, GoTo
    <3>2. Unloaded(Mine)
      BY <1>2, <2>2 DEF Parse, LoadInv, JobInv, Unloaded, LaterRuns, At
    <3> QED BY <1>2, <1>4, <1>6, <3>1, <3>2 DEF JobInv, At
  <2> QED BY <2>1, <2>2 DEF RefuseFile, RefuseLoad, ReconImbalance, GoTo, LoadInv, RatingTypes
<1>8. RatingTypes'
  BY <1>3 DEF LoadInv, RatingTypes, Parse, RefuseFile, RefuseLoad, ReconImbalance, GoTo, Step
<1> QED BY <1>6, <1>7, <1>8 DEF LoadInv

\* The job keeps what it made sure of if only its own batch's stamps, or those
\* of an unloaded one, change.
LEMMA StampLoads ==
  ASSUME LoadInv, NEW b \in Batch, ResolveStranded(b) \/ (StampArchived /\ b = Mine)
  PROVE  LoadInv'
<1> DEFINE old == batch[b]
<1>1. old \in BatchRow /\ batch \in [Batch -> BatchRow] /\ Mine \in Batch
  BY DEF LoadInv, RatingTypes, Mine
<1>2. CASE ResolveStranded(b)
  <2>1. /\ batch' = [batch EXCEPT ![b].status = "FAILED"]
        /\ UNCHANGED <<landing, archive, dropped, pending, rated, job>>
        /\ ~Loaded(b) /\ Claimed(b)
    BY <1>2 DEF ResolveStranded, SetStatus, Stranded, Loaded, Claimed
  <2>2. batch' \in [Batch -> BatchRow]
    BY <1>1, <2>1 DEF BatchRow, BatchStatus
  <2>3. \A c \in Batch : /\ Claimed(c)' <=> Claimed(c)
                         /\ batch'[c].file = batch[c].file
                         /\ batch'[c].parsed = batch[c].parsed
                         /\ Loaded(c)' <=> Loaded(c)
    BY <1>1, <2>1 DEF Claimed, Loaded, BatchRow
  <2>4. \A c \in Batch, r \in Record : LiveRow(c, r)' <=> LiveRow(c, r)
    BY <2>1 DEF LiveRow
  <2>5. /\ RowsMatch' /\ InClaimOrder' /\ LiveIsLatest'
        /\ \A c \in Batch : Unloaded(c)' <=> Unloaded(c)
    BY <2>1, <2>2, <2>3, <2>4, SameLoads
  <2>6. JobInv'
    BY <1>1, <2>1, <2>3, <2>5 DEF LoadInv, JobInv, At, Mine
  <2> QED BY <2>1, <2>2, <2>5, <2>6 DEF LoadInv, RatingTypes
<1>3. CASE StampArchived /\ b = Mine
  <2>1. /\ batch' = [batch EXCEPT ![b].archived = TRUE]
        /\ UNCHANGED <<landing, archive, dropped, pending, rated>>
        /\ job' = [job EXCEPT !.at = "idle"]
    BY <1>3 DEF StampArchived, GoTo
  <2>2. batch' \in [Batch -> BatchRow]
    BY <1>1, <2>1 DEF BatchRow
  <2>3. \A c \in Batch : /\ Claimed(c)' <=> Claimed(c)
                         /\ batch'[c].file = batch[c].file
                         /\ batch'[c].parsed = batch[c].parsed
                         /\ Loaded(c)' <=> Loaded(c)
    BY <1>1, <2>1 DEF Claimed, Loaded, BatchRow
  <2>4. \A c \in Batch, r \in Record : LiveRow(c, r)' <=> LiveRow(c, r)
    BY <2>1 DEF LiveRow
  <2>5. RowsMatch' /\ InClaimOrder' /\ LiveIsLatest'
    BY <2>1, <2>2, <2>3, <2>4, SameLoads
  <2>6. job' \in [at : Step, batch : Batch] /\ job'.at = "idle"
    BY <2>1 DEF LoadInv, RatingTypes, Step
  <2> QED BY <2>1, <2>2, <2>5, <2>6 DEF LoadInv, RatingTypes, JobInv, At
<1> QED BY <1>2, <1>3

\* What is claimed is the newest run of its key, and has loaded nothing.
LEMMA ClaimLoads ==
  ASSUME LoadInv, NEW f \in File, NEW b \in Batch, ClaimBatch(f, b)
  PROVE  LoadInv'
<1>1. /\ landing[f] \in Content \cup {Absent} /\ batch[b] \in BatchRow
      /\ batch \in [Batch -> BatchRow]
  BY DEF LoadInv, RatingTypes
<1>2. /\ batch' = [batch EXCEPT ![b].status = "RECEIVED", ![b].file = f, ![b].sum = landing[f]]
      /\ UNCHANGED <<landing, archive, dropped, rated>>
      /\ job' = [at |-> "parse", batch |-> b]
      /\ pending' \subseteq File
      /\ ~Claimed(b) /\ ~Loaded(b)
  BY DEF ClaimBatch, LoadInv, RatingTypes, Claimed, Loaded
<1>3. batch' \in [Batch -> BatchRow]
  BY <1>1, <1>2 DEF BatchRow, BatchStatus
<1>4. /\ Claimed(b)' /\ ~Loaded(b)' /\ \A c \in Batch \ {b} : batch'[c] = batch[c]
  BY <1>1, <1>2 DEF Claimed, Loaded, BatchRow
<1>5. \A c \in Batch : (Claimed(c)' <=> Claimed(c) \/ c = b) /\ (Loaded(c)' <=> Loaded(c))
  BY <1>2, <1>4 DEF Claimed, Loaded
<1>6. \A c \in Batch : Rows(c)' = Rows(c)
  BY <1>2 DEF Rows
<1>7. RowsMatch'
  BY <1>4, <1>5, <1>6 DEF LoadInv, RowsMatch
<1>8. InClaimOrder'
  <2>1. \A c \in Batch : c < b => Claimed(c)
    BY DEF ClaimBatch
  <2> QED BY <1>5, <2>1 DEF LoadInv, InClaimOrder
<1>9. LiveIsLatest'
  <2> SUFFICES ASSUME NEW c \in Batch, Loaded(c)', NEW r \in RecordsOf[batch'[c].parsed]
               PROVE  LiveRow(c, r)' <=> Unloaded(c)'
    BY DEF LiveIsLatest, Loaded, Unloaded
  <2>1. Loaded(c) /\ c # b /\ batch'[c] = batch[c]
    BY <1>4, <1>5
  <2>2. Unloaded(c)' <=> Unloaded(c)
    BY <1>4, <1>5, <2>1 DEF Unloaded, LaterRuns, KeyOfBatch
  <2>3. LiveRow(c, r)' <=> LiveRow(c, r)
    BY <1>2 DEF LiveRow
  <2> QED BY <2>1, <2>2, <2>3 DEF LoadInv, LiveIsLatest, Loaded, Unloaded
<1>10. \A c \in Batch : c > b => ~Claimed(c)'
  <2> SUFFICES ASSUME NEW c \in Batch, c > b, Claimed(c)
               PROVE  FALSE
    BY <1>5 DEF Batch
  <2> QED BY <1>2 DEF LoadInv, InClaimOrder, Batch
<1>11. JobInv'
  BY <1>2, <1>4, <1>10 DEF JobInv, At, Mine
<1>12. RatingTypes'
  BY <1>2, <1>3 DEF LoadInv, RatingTypes, Step
<1> QED BY <1>7, <1>8, <1>9, <1>11, <1>12 DEF LoadInv

\* Rows go to another live status.
LEMMA MovedRowsLoads ==
  ASSUME LoadInv, NEW m, NEW from \in LiveStatus, NEW to \in LiveStatus, MoveRows(m, from, to)
  PROVE  LoadInv'
<1>1. /\ rated' = [b \in Batch |-> [r \in Record |->
                     IF rated[b][r] = from /\ r.month = m THEN to ELSE rated[b][r]]]
      /\ UNCHANGED <<landing, archive, dropped, pending, batch, job>>
  BY DEF MoveRows
<1>2. rated' \in [Batch -> [Record -> RowStatus]]
  BY <1>1 DEF LoadInv, RatingTypes, RowStatus, LiveStatus, InFlight
<1>3. \A b \in Batch, r \in Record :
         /\ LiveRow(b, r)' <=> LiveRow(b, r)
         /\ rated'[b][r] = "none" <=> rated[b][r] = "none"
  BY <1>1 DEF LiveRow, LiveStatus, InFlight
<1>4. \A b \in Batch : /\ Claimed(b)' <=> Claimed(b)
                       /\ Loaded(b)' <=> Loaded(b)
  BY <1>1 DEF Claimed, Loaded
<1>5. /\ RowsMatch' /\ InClaimOrder' /\ LiveIsLatest'
      /\ \A b \in Batch : Unloaded(b)' <=> Unloaded(b)
  BY <1>1, <1>3, <1>4, SameLoads DEF LoadInv, RatingTypes
<1>6. JobInv'
  BY <1>1, <1>4, <1>5 DEF LoadInv, RatingTypes, JobInv, At, Mine
<1> QED BY <1>1, <1>2, <1>5, <1>6 DEF LoadInv, RatingTypes

\* The load retires what is live of the runs before it, and nothing after it
\* has loaded.
LEMMA CommitLoads ==
  ASSUME LoadInv, CommitLoad
  PROVE  LoadInv'
<1>1. /\ Mine \in Batch /\ Claimed(Mine) /\ ~Loaded(Mine) /\ Unloaded(Mine)
      /\ batch[Mine].parsed \in Content
      /\ batch[Mine] \in BatchRow /\ batch \in [Batch -> BatchRow]
  BY DEF LoadInv, RatingTypes, JobInv, CommitLoad, At, Mine, BatchRow
<1>2. /\ batch' = [batch EXCEPT ![Mine].status = "COMPLETE"]
      /\ job' = [job EXCEPT !.at = "copy"]
      /\ UNCHANGED <<landing, archive, dropped, pending>>
      /\ rated' = [b \in Batch |-> [r \in Record |->
                     IF Retires(b, r) THEN "SUPERSEDED"
                     ELSE IF b = Mine /\ r \in Incoming THEN "RATED" ELSE rated[b][r]]]
  BY DEF CommitLoad, SetStatus, GoTo
<1>3. Incoming \subseteq Record /\ Incoming = RecordsOf[batch[Mine].parsed]
  BY <1>1, RatingAssumption DEF Incoming
<1>4. /\ batch' \in [Batch -> BatchRow] /\ batch'[Mine].status = "COMPLETE"
      /\ \A b \in Batch \ {Mine} : batch'[b] = batch[b]
      /\ batch'[Mine].file = batch[Mine].file /\ batch'[Mine].parsed = batch[Mine].parsed
  <2> DEFINE new == [batch[Mine] EXCEPT !.status = "COMPLETE"]
  <2>1. /\ new \in BatchRow /\ new.status = "COMPLETE"
        /\ new.file = batch[Mine].file /\ new.parsed = batch[Mine].parsed
    BY <1>1 DEF BatchRow, BatchStatus
  <2>2. batch' = [batch EXCEPT ![Mine] = new]
    BY <1>2
  <2> HIDE DEF new
  <2> QED BY <1>1, <2>1, <2>2
<1>5. \A b \in Batch : /\ Claimed(b)' <=> Claimed(b)
                       /\ Loaded(b)' <=> Loaded(b) \/ b = Mine
                       /\ batch'[b].parsed = batch[b].parsed
                       /\ LaterRuns(b)' = LaterRuns(b)
  <2>1. \A b \in Batch : /\ Claimed(b)' <=> Claimed(b)
                         /\ batch'[b].file = batch[b].file
                         /\ batch'[b].parsed = batch[b].parsed
    BY <1>1, <1>4 DEF Claimed
  <2>2. \A b \in Batch : Loaded(b)' <=> Loaded(b) \/ b = Mine
    BY <1>4 DEF Loaded
  <2>3. \A b \in Batch : LaterRuns(b)' = LaterRuns(b)
    BY <2>1 DEF LaterRuns, KeyOfBatch
  <2> QED BY <2>1, <2>2, <2>3
<1>6. \A r \in Record : ~Retires(Mine, r)
  BY <1>1 DEF Retires, Predecessors, Batch
<1>7. \A b \in Batch, r \in Record : Retires(b, r) => LiveRow(b, r)
  BY DEF Retires
<1>8. \A b \in Batch, r \in Record :
         rated'[b][r] = IF Retires(b, r) THEN "SUPERSEDED"
                        ELSE IF b = Mine /\ r \in Incoming THEN "RATED" ELSE rated[b][r]
  BY <1>2
<1>9. /\ \A b \in Batch, r \in Record : Retires(b, r) => rated'[b][r] = "SUPERSEDED"
      /\ \A b \in Batch \ {Mine}, r \in Record : ~Retires(b, r) => rated'[b][r] = rated[b][r]
      /\ \A r \in Incoming : rated'[Mine][r] = "RATED"
      /\ \A r \in Record \ Incoming : rated'[Mine][r] = rated[Mine][r]
  BY <1>1, <1>3, <1>6, <1>8
<1>10. RatingTypes'
  <2>1. \A b \in Batch, r \in Record : rated'[b][r] \in RowStatus
    BY <1>8 DEF LoadInv, RatingTypes, RowStatus
  <2>2. rated' \in [Batch -> [Record -> RowStatus]]
    BY <1>2, <2>1
  <2> QED BY <1>2, <1>4, <2>2 DEF LoadInv, RatingTypes, Step
<1>11. RowsMatch'
  <2>1. \A b \in Batch \ {Mine} : Rows(b)' = Rows(b)
    BY <1>7, <1>9 DEF Rows, LiveRow, LiveStatus, InFlight
  <2>2. Rows(Mine) = {}
    BY <1>1 DEF LoadInv, RowsMatch
  <2>3. {r \in Record : rated'[Mine][r] # "none"} = Incoming
    <3>1. \A r \in Record : rated'[Mine][r] # "none" <=> r \in Incoming
      BY <1>9, <2>2 DEF Rows
    <3> QED BY <1>3, <3>1
  <2>4. ASSUME NEW b \in Batch
        PROVE  /\ Loaded(b)' => batch'[b].parsed # Absent /\ Rows(b)' = RecordsOf[batch'[b].parsed]
               /\ ~Loaded(b)' => Rows(b)' = {}
    <3>1. CASE b = Mine
      <4>1. Rows(b)' = Incoming
        BY <2>3, <3>1 DEF Rows
      <4> QED BY <1>1, <1>3, <1>5, <3>1, <4>1, RatingAssumption
    <3>2. CASE b # Mine
      BY <1>5, <2>1, <3>2 DEF LoadInv, RowsMatch
    <3> QED BY <3>1, <3>2
  <2> QED BY <2>4 DEF RowsMatch
<1>12. InClaimOrder'
  BY <1>5 DEF LoadInv, InClaimOrder
<1>13. LiveIsLatest'
  <2> SUFFICES ASSUME NEW b \in Batch, Loaded(b)', NEW r \in RecordsOf[batch'[b].parsed]
               PROVE  LiveRow(b, r)' <=> Unloaded(b)'
    BY DEF LiveIsLatest, Loaded, Unloaded
  <2>1. CASE b = Mine
    <3>1. r \in Incoming
      BY <1>3, <1>5, <2>1
    <3>2. LiveRow(b, r)'
      BY <1>9, <2>1, <3>1 DEF LiveRow, LiveStatus
    <3>3. Mine \notin LaterRuns(Mine)
      BY <1>1 DEF LaterRuns, Batch
    <3>4. \A c \in LaterRuns(b) : c \in Batch /\ c # Mine /\ ~Loaded(c)
      BY <1>1, <2>1, <3>3 DEF Unloaded, LaterRuns
    <3>5. Unloaded(b)'
      BY <1>5, <2>1, <3>4 DEF Unloaded
    <3> QED BY <3>2, <3>5
  <2>2. CASE b # Mine
    <3>1. /\ Loaded(b) /\ Claimed(b) /\ r \in RecordsOf[batch[b].parsed] /\ r \in Record
          /\ LiveRow(b, r) <=> Unloaded(b)
      <4>1. Loaded(b) /\ batch[b].parsed \in Content
        BY <1>5, <2>2 DEF LoadInv, RatingTypes, RowsMatch, BatchRow
      <4> QED BY <1>5, <4>1, RatingAssumption
              DEF LoadInv, LiveIsLatest, Loaded, Unloaded, Claimed
    <3>2. CASE b \in Predecessors(Mine)
      <4>1. Mine \in LaterRuns(b)
        BY <1>1, <3>2 DEF LaterRuns, Predecessors, Batch
      <4>2. ~Unloaded(b)'
        BY <1>1, <1>5, <4>1 DEF Unloaded
      <4>3. ~LiveRow(b, r)'
        BY <1>9, <2>2, <3>1, <3>2 DEF Retires, LiveRow, LiveStatus, InFlight
      <4> QED BY <4>2, <4>3
    <3>3. CASE b \notin Predecessors(Mine)
      <4>1. Mine \notin LaterRuns(b)
        BY <1>1, <3>1, <3>3 DEF LaterRuns, Predecessors, Batch
      <4>2. Unloaded(b)' <=> Unloaded(b)
        BY <1>5, <4>1 DEF Unloaded, LaterRuns
      <4>3. LiveRow(b, r)' <=> LiveRow(b, r)
        BY <1>9, <2>2, <3>1, <3>3 DEF Retires, LiveRow
      <4> QED BY <3>1, <4>2, <4>3
    <3> QED BY <3>2, <3>3
  <2> QED BY <2>1, <2>2
<1>14. JobInv'
  <2>1. job'.at = "copy" /\ Mine' = Mine
    BY <1>2 DEF LoadInv, RatingTypes, Mine
  <2> QED BY <1>1, <1>5, <2>1 DEF JobInv, At
<1> QED BY <1>10, <1>11, <1>12, <1>13, <1>14 DEF LoadInv

-----------------------------------------------------------------------------
LEMMA LoadNextInv ==
  ASSUME LoadInv, [RatingNext]_ratingVars, "late_restart" \notin Lapses
  PROVE  LoadInv'
<1>1. CASE UNCHANGED ratingVars
  BY <1>1, OnlyJobMoves
     DEF ratingVars, LoadInv, RatingTypes, JobInv, At, Mine, Claimed, Loaded, Unloaded, LaterRuns,
         KeyOfBatch
<1>2. ASSUME NEW f \in File,
             PassOver(f) \/ (\E c \in Content : Drop(f, c)) \/ \E b \in Batch : ClaimBatch(f, b)
      PROVE  LoadInv'
  BY <1>2, DeliveryLoads, ClaimLoads
<1>3. ASSUME NEW b \in Batch, RestartLoad(b) \/ ResolveStranded(b)
      PROVE  LoadInv'
  BY <1>3, RestartLoads, StampLoads
<1>4. CASE StampArchived
  <2>1. Mine \in Batch
    BY DEF LoadInv, RatingTypes, Mine
  <2> QED BY <1>4, <2>1, StampLoads
<1>5. ASSUME NEW m, CollectUsage(m) \/ ReleaseUsage(m) \/ ApproveUsage(m)
      PROVE  LoadInv'
  BY <1>5, MovedRowsLoads DEF CollectUsage, ReleaseUsage, ApproveUsage, LiveStatus, InFlight
<1> QED BY <1>1, <1>2, <1>3, <1>4, <1>5, MoveLoads, StatusLoads, CommitLoads DEF RatingNext

LEMMA LoadInvariant ==
  ASSUME "late_restart" \notin Lapses
  PROVE  RatingSpec => []LoadInv
  BY LoadInitInv, LoadNextInv, PTL DEF RatingSpec

\* The rows of a batch are those of the content it loaded, and a batch that is
\* not COMPLETE has none.
THEOREM RatingTypeCorrect ==
  ASSUME "late_restart" \notin Lapses
  PROVE  RatingSpec => []RatingTypeOK
<1>1. LoadInv => RatingTypeOK
  BY DEF LoadInv, RatingTypes, RowsMatch, RatingTypeOK, Loaded
<1> QED BY <1>1, LoadInvariant, PTL

\* Of a key's runs exactly the last that loaded is live.
THEOREM LiveIsLatestTheorem ==
  ASSUME "late_restart" \notin Lapses
  PROVE  RatingSpec => []LiveIsLatest
  BY LoadInvariant, PTL DEF LoadInv

LEMMA HeldStep ==
  ASSUME [RatingNext]_ratingVars, NEW b \in Batch, NEW r \in Record, rated[b][r] \in InFlight
  PROVE  rated'[b][r] # "SUPERSEDED"
<1>1. CASE UNCHANGED rated
  BY <1>1 DEF InFlight
<1>2. CASE CommitLoad
  <2>1. rated'[b][r] = IF Retires(b, r) THEN "SUPERSEDED"
                       ELSE IF b = Mine /\ r \in Incoming THEN "RATED" ELSE rated[b][r]
    BY <1>2 DEF CommitLoad
  <2>2. Retires(b, r) => rated[b][r] \notin InFlight
    BY <1>2 DEF CommitLoad, NoneInFlight
  <2> QED BY <2>1, <2>2 DEF InFlight
<1>3. ASSUME NEW m, CollectUsage(m) \/ ReleaseUsage(m) \/ ApproveUsage(m)
      PROVE  rated'[b][r] # "SUPERSEDED"
  <2>1. PICK to \in LiveStatus : rated'[b][r] \in {to, rated[b][r]}
    BY <1>3 DEF CollectUsage, ReleaseUsage, ApproveUsage, MoveRows, LiveStatus, InFlight
  <2> QED BY <2>1 DEF LiveStatus, InFlight
<1> QED
  BY <1>1, <1>2, <1>3
     DEF RatingNext, ratingVars, PassOver, Drop, ClaimBatch, RestartLoad, ResolveStranded, Parse,
         RefuseFile, Stop, Probe, Guard, RefuseLoad, ReconImbalance, CopyToArchive,
         AlreadyArchived, Unlink, StampArchived

\* Whatever lapses: what a bill run holds or has billed is not superseded.
THEOREM HeldStaysTheorem == RatingSpec => HeldStays
<1>1. [RatingNext]_ratingVars =>
         [\A b \in Batch, r \in Record :
             rated[b][r] \in InFlight => rated'[b][r] # "SUPERSEDED"]_ratingVars
  BY HeldStep
<1> QED BY <1>1, PTL DEF RatingSpec, HeldStays

-----------------------------------------------------------------------------
(* The files.                                                              *)

\* What the execution has made sure of as to the files.
FileInv ==
    /\ \A f \in File : landing[f] # Absent => landing[f] = dropped[f]
    /\ job.at \notin {"idle", "parse"} =>
          batch[Mine].parsed # Absent /\ landing[MyFile] \in {batch[Mine].parsed, Absent}
    /\ job.at \in {"copy", "unlink", "stamp"} => Loaded(Mine)
    /\ At("unlink") => landing[MyFile] # Absent /\ archive[MyFile] = landing[MyFile]
    /\ RawKept

Keeps(b) ==
    Loaded(b) => /\ batch'[b].status = "COMPLETE"
                 /\ batch'[b].file = batch[b].file /\ batch'[b].parsed = batch[b].parsed

\* A batch that has loaded stays as it is, but for its archive stamp.
LEMMA LoadedStays ==
  ASSUME LoadInv, [RatingNext]_ratingVars, NEW b \in Batch
  PROVE  Keeps(b)
<1>1. Mine \in Batch /\ batch \in [Batch -> BatchRow]
  BY DEF LoadInv, RatingTypes, Mine
<1>2. CASE UNCHANGED batch
  BY <1>2 DEF Keeps, Loaded
<1>3. ASSUME NEW f \in File, NEW c \in Batch, ClaimBatch(f, c)
      PROVE  Keeps(b)
  BY <1>1, <1>3 DEF Keeps, Loaded, ClaimBatch, Claimed
<1>4. CASE Parse \/ RefuseFile \/ RefuseLoad \/ ReconImbalance
  <2>1. ~Loaded(Mine)
    BY <1>4 DEF LoadInv, JobInv, Parse, RefuseFile, RefuseLoad, ReconImbalance, At
  <2> QED BY <1>1, <1>4, <2>1 DEF Keeps, Loaded, Parse, RefuseFile, RefuseLoad, ReconImbalance,
                                   SetStatus
<1>5. CASE CommitLoad
  <2>1. batch[Mine] \in BatchRow /\ batch' = [batch EXCEPT ![Mine].status = "COMPLETE"]
    BY <1>1, <1>5 DEF CommitLoad, SetStatus
  <2>2. Keeps(Mine) /\ \A c \in Batch \ {Mine} : batch'[c] = batch[c]
    BY <1>1, <2>1 DEF Keeps, Loaded, BatchRow
  <2> QED BY <2>2 DEF Keeps, Loaded
<1>6. CASE StampArchived
  BY <1>1, <1>6 DEF Keeps, Loaded, StampArchived
<1>7. ASSUME NEW c \in Batch, ResolveStranded(c)
      PROVE  Keeps(b)
  BY <1>1, <1>7 DEF Keeps, Loaded, ResolveStranded, Stranded, SetStatus
<1> QED
  BY <1>2, <1>3, <1>4, <1>5, <1>6, <1>7
     DEF RatingNext, ratingVars, PassOver, Drop, RestartLoad, Stop, Probe, Guard, CopyToArchive,
         AlreadyArchived, Unlink, CollectUsage, ReleaseUsage, ApproveUsage, MoveRows

\* No file leaves landing/, and none is archived or delivered.
LEMMA SameFiles ==
  ASSUME LoadInv, FileInv, [RatingNext]_ratingVars, UNCHANGED <<landing, archive, dropped>>
  PROVE  RawKept'
<1> SUFFICES ASSUME NEW f \in File, dropped[f] # Absent, landing[f] = Absent
             PROVE  /\ archive[f] = dropped[f]
                    /\ \E b \in Batch : Loaded(b)' /\ batch'[b].file = f
                                        /\ batch'[b].parsed = dropped[f]
  BY DEF RawKept, Loaded
<1>1. PICK b \in Batch : Loaded(b) /\ batch[b].file = f /\ batch[b].parsed = dropped[f]
  BY DEF FileInv, RawKept, Loaded
<1>2. Keeps(b)
  BY LoadedStays
<1> QED BY <1>1, <1>2 DEF FileInv, RawKept, Keeps, Loaded

\* The steps that move files.
LEMMA DropFiles ==
  ASSUME LoadInv, FileInv, Lapses = {}, NEW f \in File, NEW c \in Content, Drop(f, c)
  PROVE  FileInv'
<1>1. /\ landing' = [landing EXCEPT ![f] = c] /\ dropped' = [dropped EXCEPT ![f] = c]
      /\ UNCHANGED <<archive, batch, job>> /\ c # Absent
      /\ ~At("idle") => MyFile # f
  BY RatingAssumption DEF Drop, UnderWay
<1>2. /\ landing \in [File -> Content \cup {Absent}] /\ dropped \in [File -> Content \cup {Absent}]
      /\ MyFile \in File
  BY DEF LoadInv, RatingTypes, BatchRow, MyFile, Mine
<1>3. RawKept'
  BY <1>1, <1>2 DEF FileInv, RawKept
<1>4. ~At("idle") => landing'[MyFile] = landing[MyFile]
  BY <1>1, <1>2
<1>5. \A g \in File : landing'[g] # Absent => landing'[g] = dropped'[g]
  BY <1>1, <1>2 DEF FileInv
<1> QED BY <1>1, <1>3, <1>4, <1>5 DEF FileInv, At, Mine, MyFile, Loaded

LEMMA ArchiveFiles ==
  ASSUME LoadInv, FileInv, CopyToArchive \/ Unlink
  PROVE  FileInv'
<1>1. /\ landing \in [File -> Content \cup {Absent}] /\ archive \in [File -> Content \cup {Absent}]
      /\ MyFile \in File /\ Mine \in Batch
      /\ job \in [at : Step, batch : Batch]
  BY DEF LoadInv, RatingTypes, BatchRow, MyFile, Mine
<1>2. CASE CopyToArchive
  <2>1. /\ archive' = [archive EXCEPT ![MyFile] = landing[MyFile]]
        /\ job' = [job EXCEPT !.at = "unlink"]
        /\ UNCHANGED <<landing, dropped, batch>>
        /\ landing[MyFile] # Absent /\ At("copy")
    BY <1>2 DEF CopyToArchive, GoTo
  <2>2. RawKept'
    BY <1>1, <2>1 DEF FileInv, RawKept
  <2>3. /\ job'.at = "unlink" /\ job'.batch = job.batch
        /\ archive'[MyFile] = landing[MyFile]
    BY <1>1, <2>1
  <2> QED BY <2>1, <2>2, <2>3 DEF FileInv, At, Mine, MyFile, Loaded
<1>3. CASE Unlink
  <2>1. /\ landing' = [landing EXCEPT ![MyFile] = Absent]
        /\ job' = [job EXCEPT !.at = "stamp"]
        /\ UNCHANGED <<archive, dropped, batch>>
        /\ At("unlink")
    BY <1>3 DEF Unlink, GoTo
  <2>2. /\ archive[MyFile] = dropped[MyFile] /\ batch[Mine].parsed = dropped[MyFile]
        /\ Loaded(Mine)
    BY <1>1, <2>1 DEF FileInv, At
  <2>3. RawKept'
    <3> SUFFICES ASSUME NEW f \in File, dropped[f] # Absent, landing'[f] = Absent
                 PROVE  /\ archive[f] = dropped[f]
                        /\ \E b \in Batch : Loaded(b) /\ batch[b].file = f
                                            /\ batch[b].parsed = dropped[f]
      BY <2>1 DEF RawKept, Loaded
    <3>1. CASE f = MyFile
      BY <1>1, <2>2, <3>1 DEF MyFile
    <3>2. CASE f # MyFile
      BY <1>1, <2>1, <3>2 DEF FileInv, RawKept, Loaded
    <3> QED BY <3>1, <3>2
  <2>4. /\ job'.at = "stamp" /\ job'.batch = job.batch
        /\ landing'[MyFile] = Absent
        /\ \A f \in File : landing'[f] # Absent => landing'[f] = landing[f]
    BY <1>1, <2>1
  <2> QED BY <2>1, <2>2, <2>3, <2>4 DEF FileInv, At, Mine, MyFile, Loaded
<1> QED BY <1>2, <1>3

\* The steps that move none.
LEMMA JobFiles ==
  ASSUME LoadInv, FileInv, Lapses = {}, UNCHANGED <<landing, archive, dropped>>,
         [RatingNext]_ratingVars
  PROVE  FileInv'
<1>1. RawKept'
  BY SameFiles
<1>2. Mine \in Batch /\ batch \in [Batch -> BatchRow] /\ job \in [at : Step, batch : Batch]
  BY DEF LoadInv, RatingTypes, Mine
<1>3. \A f \in File : landing'[f] # Absent => landing'[f] = dropped'[f]
  BY DEF FileInv
<1>4. CASE job'.at \in {"idle", "parse"}
  BY <1>1, <1>3, <1>4 DEF FileInv, At
<1>5. CASE /\ job'.batch = Mine
           /\ batch'[Mine].file = batch[Mine].file /\ batch'[Mine].parsed = batch[Mine].parsed
           /\ job.at \notin {"idle", "parse"}
           /\ job'.at = "unlink" => job.at = "unlink"
           /\ job'.at \in {"copy", "unlink", "stamp"} => batch'[Mine].status = "COMPLETE"
  BY <1>1, <1>3, <1>5 DEF FileInv, At, Mine, MyFile, Loaded
<1>6. CASE Parse
  <2>1. /\ job'.at = "probe" /\ job'.batch = job.batch
        /\ batch'[Mine].parsed = landing[MyFile] /\ landing[MyFile] # Absent
        /\ batch'[Mine].file = batch[Mine].file
    BY <1>2, <1>6 DEF Parse, GoTo
  <2> QED BY <1>1, <1>3, <2>1 DEF FileInv, At, Mine, MyFile
<1>7. ASSUME NEW b \in Batch, RestartLoad(b)
      PROVE  FileInv'
  BY <1>1, <1>3, <1>7 DEF FileInv, RestartLoad, At, Mine, MyFile
<1>8. CASE RefuseFile \/ Stop \/ RefuseLoad \/ ReconImbalance \/ StampArchived
  BY <1>2, <1>4, <1>8 DEF RefuseFile, Stop, RefuseLoad, ReconImbalance, StampArchived, GoTo
<1>9. ASSUME NEW f \in File, NEW b \in Batch, ClaimBatch(f, b)
      PROVE  FileInv'
  BY <1>4, <1>9 DEF ClaimBatch
<1>10. CASE Probe \/ Guard \/ AlreadyArchived \/ CommitLoad
  <2>1. /\ job'.batch = Mine /\ job.at \notin {"idle", "parse"}
        /\ job'.at # "unlink"
    BY <1>2, <1>10 DEF Probe, Guard, AlreadyArchived, CommitLoad, GoTo, At, Mine
  <2>2. batch'[Mine].file = batch[Mine].file /\ batch'[Mine].parsed = batch[Mine].parsed
    <3>1. PICK s \in BatchStatus : batch' \in {batch, [batch EXCEPT ![Mine].status = s]}
      BY <1>10 DEF Probe, Guard, AlreadyArchived, CommitLoad, SetStatus, BatchStatus
    <3>2. batch[Mine] \in BatchRow
      BY <1>2
    <3> QED BY <1>2, <3>1, <3>2 DEF BatchRow
  <2>3. job'.at \in {"copy", "unlink", "stamp"} => batch'[Mine].status = "COMPLETE"
    <3>1. CASE Probe \/ Guard
      BY <1>2, <3>1 DEF Probe, Guard, GoTo
    <3>2. CASE AlreadyArchived
      BY <3>2 DEF AlreadyArchived, FileInv, At, Loaded
    <3>3. CASE CommitLoad
      <4>1. batch' = [batch EXCEPT ![Mine].status = "COMPLETE"]
        BY <3>3 DEF CommitLoad, SetStatus
      <4>2. batch[Mine] \in BatchRow
        BY <1>2
      <4> QED BY <1>2, <4>1, <4>2 DEF BatchRow
    <3> QED BY <1>10, <3>1, <3>2, <3>3
  <2> QED BY <1>5, <2>1, <2>2, <2>3
<1>11. CASE UNCHANGED <<batch, job>>
  BY <1>1, <1>3, <1>11 DEF FileInv, At, Mine, MyFile, Loaded
<1>12. ASSUME NEW b \in Batch, ResolveStranded(b)
       PROVE  FileInv'
  <2>1. /\ batch'[Mine].file = batch[Mine].file /\ batch'[Mine].parsed = batch[Mine].parsed
        /\ job' = job
    BY <1>2, <1>12 DEF ResolveStranded, SetStatus
  <2>2. Loaded(Mine) => batch'[Mine].status = "COMPLETE"
    BY <1>2, LoadedStays DEF Keeps, Loaded, Mine, ResolveStranded
  <2> QED BY <1>1, <1>3, <2>1, <2>2 DEF FileInv, At, Mine, MyFile, Loaded
<1>13. ASSUME NEW f \in File, NEW c \in Content, Drop(f, c)
       PROVE  FileInv'
  BY <1>13, DropFiles
<1>14. CASE CopyToArchive \/ Unlink
  BY <1>14, ArchiveFiles
<1>15. ASSUME NEW m, CollectUsage(m) \/ ReleaseUsage(m) \/ ApproveUsage(m)
       PROVE  UNCHANGED <<batch, job>>
  BY <1>15 DEF CollectUsage, ReleaseUsage, ApproveUsage, MoveRows
<1> QED
  BY <1>6, <1>7, <1>8, <1>9, <1>10, <1>11, <1>12, <1>13, <1>14, <1>15
     DEF RatingNext, ratingVars, PassOver

LEMMA FileNextInv ==
  ASSUME LoadInv, FileInv, Lapses = {}, [RatingNext]_ratingVars
  PROVE  FileInv'
<1>1. \/ UNCHANGED <<landing, archive, dropped>>
      \/ \E f \in File, c \in Content : Drop(f, c)
      \/ CopyToArchive \/ Unlink
  BY DEF RatingNext, ratingVars, PassOver, ClaimBatch, RestartLoad, ResolveStranded, Parse,
         RefuseFile, Stop, Probe, Guard, RefuseLoad, CommitLoad, ReconImbalance, AlreadyArchived,
         StampArchived, CollectUsage, ReleaseUsage, ApproveUsage, MoveRows
<1> QED BY <1>1, JobFiles, DropFiles, ArchiveFiles

\* As long as nothing lapses, a file that has left landing/ was loaded, and is
\* in the archive as it was delivered.
THEOREM RawKeptTheorem ==
  ASSUME Lapses = {}
  PROVE  RatingSpec => []RawKept
<1>1. RatingInit => FileInv
  BY DEF RatingInit, FileInv, RawKept, At
<1>2. LoadInv /\ FileInv /\ [RatingNext]_ratingVars => FileInv'
  BY FileNextInv
<1>3. FileInv => RawKept
  BY DEF FileInv
<1>4. RatingSpec => []LoadInv
  BY LoadInvariant
<1> QED BY <1>1, <1>2, <1>3, <1>4, PTL DEF RatingSpec

=============================================================================
