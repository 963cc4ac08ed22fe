--------------------------- MODULE RateCardProps ---------------------------
(***************************************************************************)
(* What the versions of a rate card promise.                               *)
(***************************************************************************)
EXTENDS RateCards

Superseded == OfStatus("SUPERSEDED")

\* Following superseded_by_version_id from any version that was once in force
\* ends at the one in force, also after roll-backs, which turn a part of the
\* way round: no version points at a draft or at one that is gone, and none
\* are superseded only by one another.
Lineage ==
    /\ \A v \in OnCard :
          IF v \in Superseded
          THEN \E w \in InForce \cup Superseded : card[v].sup = {w}
          ELSE card[v].sup = {}
    /\ \A V \in SUBSET Superseded : V # {} => \E v \in V : card[v].sup \cap V = {}

\* Numbers count the versions from one without gap or repetition, although a
\* draft that is replaced gives its number back, and the draft has the last.
Numbering ==
    /\ \A v, w \in OnCard : v # w => card[v].num # card[w].num
    /\ \A v \in OnCard : \A k \in 1..card[v].num : \E w \in OnCard : card[w].num = k
    /\ \A d \in OfStatus("DRAFT") : \A v \in OnCard \ {d} : card[v].num < card[d].num

\* One version in force, one draft, an unbroken numbering and a lineage that
\* ends at the version in force, whatever uploads, activations and roll-backs
\* race (upload-version.ts, activate-version.ts, rollback-version.ts).
CardSound ==
    /\ card \in [CardVersion -> VersionRow]
    /\ upkeep \in [Manager -> Upkeep]
    /\ \A v, w \in InForce : v = w
    /\ Lineage
    /\ Numbering

\* The version in force changes only by an activation or roll-back whose event
\* tells the truth: the version it names as superseded, and that its counts
\* were taken against, is the one that was in force when it committed, though
\* both were read in other statements before (activate-version.ts:96, "against
\* the LOCKED outgoing version").  So a card once in force never is without.
ActivationTells ==
    [][InForce' # InForce =>
          \E m \in Manager :
              /\ upkeep[m].outgoing = InForce /\ upkeep[m].compared = InForce
              /\ InForce' = upkeep[m].target
              /\ \A v \in InForce : v \in Superseded' /\ card'[v].sup = InForce']_cardVars

=============================================================================
