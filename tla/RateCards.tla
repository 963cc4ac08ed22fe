----------------------------- MODULE RateCards -----------------------------
(***************************************************************************)
(* The versions of one rate card (services/product/ratecard): uploaded as  *)
(* drafts, activated, rolled back to, by several managers at once.         *)
(*                                                                         *)
(* An operation is a transaction of several statements.  A statement reads *)
(* what is committed when it starts; a lock waits for its holder and reads *)
(* the row again; what a transaction writes shows when it commits, and the *)
(* unique indexes refuse it then if it must not.                           *)
(*                                                                         *)
(* Abstractions.  A version stands for its rows, which never change: the   *)
(* counts of a difference are the version it was taken against.  A file    *)
(* that is refused, the warning of one already on record, and the columns  *)
(* of who and when are left out.  Sets with at most one member stand for   *)
(* what may be null.                                                       *)
(***************************************************************************)
EXTENDS Naturals

CONSTANTS
    CardVersion,    \* ids of versions, from a sequence
    Manager         \* whoever works on the card

ASSUME CardAssumption == CardVersion \subseteq Nat

VARIABLES
    card,           \* rows of ratecard_version
    upkeep          \* the transaction of each manager

cardVars == <<card, upkeep>>

-----------------------------------------------------------------------------
CardStatus == {"DRAFT", "ACTIVE", "SUPERSEDED"}

VersionRow ==
    [status : CardStatus \cup {"none", "deleted"}, num : Nat, sup : SUBSET CardVersion]

Upkeep ==
    [op : {"activate", "rollback", "upload"},
     at : {"idle", "seek", "hold", "compare", "flip", "replace", "relist", "insert"},
     target : SUBSET CardVersion,       \* the version to put in force, the draft to replace
     sought : SUBSET CardVersion,       \* the row the search for the ACTIVE one found
     outgoing : SUBSET CardVersion,     \* what it returned
     compared : SUBSET CardVersion,     \* what the difference was taken against
     num : Nat]

Unoccupied ==
    [op |-> "upload", at |-> "idle", target |-> {}, sought |-> {}, outgoing |-> {},
     compared |-> {}, num |-> 0]

CardInit ==
    /\ card = [v \in CardVersion |-> [status |-> "none", num |-> 0, sup |-> {}]]
    /\ upkeep = [m \in Manager |-> Unoccupied]

OfStatus(s) == {v \in CardVersion : card[v].status = s}
InForce == OfStatus("ACTIVE")
OnCard == {v \in CardVersion : card[v].status \in CardStatus}

\* Rows a transaction has locked; the search keeps the row it waited for even
\* if that one is no longer ACTIVE.
Locked(m) ==
    (IF upkeep[m].at \in {"idle", "replace"} THEN {} ELSE upkeep[m].target)
        \cup (IF upkeep[m].at \in {"compare", "flip"} THEN upkeep[m].sought ELSE {})

FreeFor(m, V) == \A n \in Manager \ {m} : Locked(n) \cap V = {}

Doing(m, step) == upkeep[m].at = step
Leave(m) == upkeep' = [upkeep EXCEPT ![m] = Unoccupied]

\* A refusal, by a status or an index, or a failure: nothing is written.
RollBack(m) ==
    /\ ~Doing(m, "idle") /\ Leave(m)
    /\ UNCHANGED card

-----------------------------------------------------------------------------
(* activateRatecardVersion and rollbackRatecardVersion.                    *)

StatusFor(op) == IF op = "activate" THEN "DRAFT" ELSE "SUPERSEDED"

\* findVersionForUpdate and the test of what it returns.
LockTarget(m, op, v) ==
    /\ Doing(m, "idle") /\ FreeFor(m, {v})
    /\ card[v].status = StatusFor(op)
    /\ upkeep' = [upkeep EXCEPT ![m].op = op, ![m].at = "seek", ![m].target = {v}]
    /\ UNCHANGED card

\* findActiveForUpdate, which finds the row,
SeekActive(m) ==
    /\ Doing(m, "seek")
    /\ upkeep' = [upkeep EXCEPT ![m].at = "hold", ![m].sought = InForce]
    /\ UNCHANGED card

\* waits for it if need be, and returns it only if it is still ACTIVE.
HoldActive(m) ==
    /\ Doing(m, "hold") /\ FreeFor(m, upkeep[m].sought)
    /\ upkeep' = [upkeep EXCEPT ![m].at = "compare",
                                ![m].outgoing = upkeep[m].sought \cap InForce]
    /\ UNCHANGED card

\* diffAgainstActive reads the ACTIVE version for itself.
Compare(m) ==
    /\ Doing(m, "compare")
    /\ upkeep' = [upkeep EXCEPT ![m].at = "flip", ![m].compared = InForce]
    /\ UNCHANGED card

\* Mutant of Promoted: a version rolled back to still names its successor.
OnlyPromoted(op, row) == [row EXCEPT !.status = "ACTIVE"]

\* setVersionStatus of the target.
Promoted(op, row) ==
    [row EXCEPT !.status = "ACTIVE", !.sup = IF op = "rollback" THEN {} ELSE @]

\* Mutant of AloneInForce: without ratecard_version_one_active_per_card.
AnyNumberInForce(m) == TRUE

\* Nothing but what was demoted is ACTIVE when the target is promoted.
AloneInForce(m) == InForce \subseteq upkeep[m].outgoing

\* The demotion, the promotion and the event that records them.
Flip(m) ==
    LET u == upkeep[m]
    IN  /\ Doing(m, "flip") /\ AloneInForce(m)
        /\ card' = [v \in CardVersion |->
                      IF v \in u.target THEN Promoted(u.op, card[v])
                      ELSE IF v \in u.outgoing
                      THEN [card[v] EXCEPT !.status = "SUPERSEDED", !.sup = u.target]
                      ELSE card[v]]
        /\ Leave(m)

-----------------------------------------------------------------------------
(* uploadRatecardVersion.                                                  *)

\* One more than the highest number among V.
NextNumber(V) ==
    {n \in {1} \cup {card[v].num + 1 : v \in V} : \A v \in V : card[v].num < n}

\* listVersions: the draft to replace, or else the number of the new one.
ListVersions(m) ==
    /\ Doing(m, "idle")
    /\ \E n \in NextNumber(OnCard) :
          upkeep' = [upkeep EXCEPT ![m].op = "upload", ![m].num = n,
                                   ![m].target = OfStatus("DRAFT"),
                                   ![m].at = IF OfStatus("DRAFT") = {} THEN "insert"
                                             ELSE "replace"]
    /\ UNCHANGED card

\* deleteDraftVersion reads the status again under its lock.
DeleteDraft(m) ==
    /\ Doing(m, "replace") /\ FreeFor(m, upkeep[m].target)
    /\ upkeep[m].target \subseteq OfStatus("DRAFT")
    /\ upkeep' = [upkeep EXCEPT ![m].at = "relist"]
    /\ UNCHANGED card

\* The number is read again without the draft, and so is used again.
Relist(m) ==
    /\ Doing(m, "relist")
    /\ \E n \in NextNumber(OnCard \ upkeep[m].target) :
          upkeep' = [upkeep EXCEPT ![m].at = "insert", ![m].num = n]
    /\ UNCHANGED card

\* ratecard_version_one_draft_per_card and ..._card_name_version_num_unique.
Insertable(m) ==
    \A w \in OnCard \ upkeep[m].target :
        card[w].status # "DRAFT" /\ card[w].num # upkeep[m].num

InsertVersion(m, v) ==
    /\ Doing(m, "insert") /\ Insertable(m)
    /\ \A w \in CardVersion : card[w].status = "none" <=> w >= v
    /\ card' = [w \in CardVersion |->
                  IF w = v THEN [status |-> "DRAFT", num |-> upkeep[m].num, sup |-> {}]
                  ELSE IF w \in upkeep[m].target THEN [card[w] EXCEPT !.status = "deleted"]
                  ELSE card[w]]
    /\ Leave(m)

-----------------------------------------------------------------------------
CardStep(m) ==
    \/ \E op \in {"activate", "rollback"}, v \in CardVersion : LockTarget(m, op, v)
    \/ SeekActive(m) \/ HoldActive(m) \/ Compare(m) \/ Flip(m)
    \/ ListVersions(m) \/ DeleteDraft(m) \/ Relist(m)
    \/ \E v \in CardVersion : InsertVersion(m, v)
    \/ RollBack(m)

CardNext == \E m \in Manager : CardStep(m)

CardSpec == CardInit /\ [][CardNext]_cardVars

=============================================================================
