----------------------------- MODULE MCBillRun -----------------------------
(***************************************************************************)
(* Small instances of BillRun for TLC: one usage record per account.       *)
(* Collection, release and approval treat an account's records alike, so   *)
(* more of them add states and no behaviour.                               *)
(***************************************************************************)
EXTENDS BillRunProps, TLC

MCUsage == Ban
MCBanOf == [u \in MCUsage |-> u]

\* The stages that write or decide something.
Pipeline3 == <<"collection", "aggregation", "verification">>
\* With a stage that only reads: where an account still holds nothing.
Pipeline4 == <<"validation", "collection", "aggregation", "verification">>

Symmetry == Permutations(Ban) \cup Permutations(Operator) \cup Permutations(Exec)

=============================================================================
