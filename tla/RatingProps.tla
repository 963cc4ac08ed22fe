---------------------------- MODULE RatingProps ----------------------------
(***************************************************************************)
(* What billing and the operators rely on from rating.                     *)
(***************************************************************************)
EXTENDS Rating

\* Of the runs of one key the last that loaded has all of its rows live and no
\* other has any, whatever their file names and months, and wherever executions
\* were stopped and restarted: nothing is billed twice or lost (supersede_batch
\* in the load's transaction; ratemgmt-architecture Inv. 5).
LiveIsLatest ==
    \A b \in Batch :
        batch[b].status = "COMPLETE" =>
            \A r \in RecordsOf[batch[b].parsed] :
                LiveRow(b, r) <=> \A c \in LaterRuns(b) : batch[c].status # "COMPLETE"

\* A row that a bill run holds or has billed is never superseded, although the
\* load looks for such rows before it writes, and only for the records it brings
\* itself (rating_status_guard; Inv. 6).
HeldStays ==
    [][\A b \in Batch, r \in Record :
          rated[b][r] \in InFlight => rated'[b][r] # "SUPERSEDED"]_ratingVars

\* A file that has left landing/ is in the archive as it was delivered last, and
\* a batch has loaded it (commit, copy, delete, stamp: archive_file; Inv. 9).
RawKept ==
    \A f \in File :
        dropped[f] # Absent /\ landing[f] = Absent =>
            /\ archive[f] = dropped[f]
            /\ \E b \in Batch :
                  batch[b].status = "COMPLETE" /\ batch[b].file = f
                  /\ batch[b].parsed = dropped[f]

=============================================================================
