--------------------------- MODULE MCDistribution ---------------------------
(***************************************************************************)
(* Small instances of Distribution for TLC.                                *)
(***************************************************************************)
EXTENDS DistributionProps, TLC

Symmetry == Permutations(Worker) \cup Permutations(Exec)

=============================================================================
