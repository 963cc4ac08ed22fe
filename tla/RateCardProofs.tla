-------------------------- MODULE RateCardProofs --------------------------
(***************************************************************************)
(* What RateCardProps asks, for any number of versions and managers.       *)
(* DeskInv is what a transaction may rely on between its statements: the   *)
(* rows it has locked are as it found them, and what it has read without a *)
(* lock has changed only in ways its commit allows for.                    *)
(***************************************************************************)
EXTENDS RateCardProps, TLAPS

Settled == InForce \cup Superseded

Flipping(m) == upkeep[m].at \in {"seek", "hold", "compare", "flip"}

\* All numbers below n are taken by versions that stay.
CountedTo(n) == \A k \in 1..(n - 1) : \E w \in Settled : card[w].num = k

DeskOf(m) ==
    /\ Flipping(m) =>
          /\ upkeep[m].op \in {"activate", "rollback"}
          /\ \E t \in OfStatus(StatusFor(upkeep[m].op)) : upkeep[m].target = {t}
    /\ upkeep[m].at \in {"hold", "compare", "flip"} => upkeep[m].sought \subseteq Settled
    /\ upkeep[m].at \in {"compare", "flip"} =>
          upkeep[m].outgoing \subseteq upkeep[m].sought \cap InForce
    /\ upkeep[m].at = "flip" =>
          /\ upkeep[m].outgoing # {} => upkeep[m].compared = upkeep[m].outgoing
          /\ upkeep[m].compared # {} => InForce # {}
    /\ upkeep[m].at \in {"replace", "relist"} => upkeep[m].target # {}
    /\ upkeep[m].at \in {"relist", "insert"} => upkeep[m].target \subseteq OfStatus("DRAFT")
    /\ upkeep[m].at = "insert" => upkeep[m].num >= 1 /\ CountedTo(upkeep[m].num)

LocksApart == \A m, n \in Manager : m # n => Locked(m) \cap Locked(n) = {}

DeskInv == LocksApart /\ \A m \in Manager : DeskOf(m)

CardInv == CardSound /\ DeskInv

-----------------------------------------------------------------------------
LEMMA CardInitInv == CardInit => CardInv
<1> SUFFICES ASSUME CardInit PROVE CardInv
  OBVIOUS
<1>1. OnCard = {} /\ \A s \in CardStatus : OfStatus(s) = {}
  BY DEF CardInit, OnCard, OfStatus, CardStatus
<1>2. InForce = {} /\ Superseded = {} /\ OfStatus("DRAFT") = {}
  BY <1>1 DEF InForce, Superseded, CardStatus
<1>3. card \in [CardVersion -> VersionRow] /\ upkeep \in [Manager -> Upkeep]
  BY DEF CardInit, VersionRow, Upkeep, Unoccupied
<1>4. Lineage /\ Numbering
  BY <1>1, <1>2 DEF Lineage, Numbering
<1>5. \A m \in Manager : upkeep[m].at = "idle" /\ Locked(m) = {}
  BY DEF CardInit, Unoccupied, Locked
<1> QED BY <1>2, <1>3, <1>4, <1>5 DEF CardInv, CardSound, DeskInv, DeskOf, LocksApart, Flipping

\* The status of a row, set by set.
LEMMA StatusSets ==
  /\ OnCard = OfStatus("DRAFT") \cup Settled
  /\ OfStatus("DRAFT") \cap Settled = {} /\ InForce \cap Superseded = {}
  /\ OfStatus("DRAFT") \subseteq CardVersion /\ Settled \subseteq CardVersion
BY DEF OnCard, Settled, InForce, Superseded, OfStatus, CardStatus

\* A statement that only reads touches nobody else's desk.
LEMMA ReadOnly ==
  ASSUME CardInv, NEW m \in Manager, UNCHANGED card, upkeep' \in [Manager -> Upkeep],
         \A n \in Manager \ {m} : upkeep'[n] = upkeep[n],
         Locked(m)' \subseteq Locked(m) \/ FreeFor(m, Locked(m)'), DeskOf(m)'
  PROVE  CardInv'
<1>1. /\ InForce' = InForce /\ Superseded' = Superseded /\ OnCard' = OnCard
      /\ \A s \in CardStatus : OfStatus(s)' = OfStatus(s)
  BY DEF InForce, Superseded, OnCard, OfStatus
<1>2. Lineage' /\ Numbering'
  BY <1>1 DEF Lineage, Numbering, CardInv, CardSound, CardStatus
<1>3. CardSound'
  BY <1>1, <1>2 DEF CardInv, CardSound
<1>4. \A n \in Manager \ {m} : Locked(n)' = Locked(n)
  BY DEF Locked
<1>5. LocksApart'
  BY <1>4 DEF LocksApart, CardInv, DeskInv, FreeFor
<1>6. \A n \in Manager \ {m} : DeskOf(n) => DeskOf(n)'
  BY <1>1 DEF DeskOf, Flipping, CountedTo, Settled, OfStatus, StatusFor
<1> QED BY <1>3, <1>5, <1>6 DEF CardInv, DeskInv

\* The next number is above all of V; those below it are taken.
LEMMA NextCounts ==
  ASSUME CardInv, NEW V, V = OnCard \ OfStatus("DRAFT"), NEW n \in NextNumber(V)
  PROVE  n \in Nat /\ n >= 1 /\ CountedTo(n)
<1>1. V = Settled /\ V \subseteq CardVersion
  BY StatusSets
<1>2. \A v \in OnCard : card[v].num \in Nat
  BY DEF CardInv, CardSound, VersionRow, OnCard
<1>3. n = 1 \/ \E v \in V : n = card[v].num + 1
  BY DEF NextNumber
<1>4. n \in Nat /\ n >= 1
  BY <1>1, <1>2, <1>3, StatusSets
<1>5. ASSUME NEW v \in V, n = card[v].num + 1 PROVE CountedTo(n)
  <2> SUFFICES ASSUME NEW k \in 1..(n - 1) PROVE \E w \in Settled : card[w].num = k
    BY DEF CountedTo
  <2>1. v \in OnCard /\ k \in 1..card[v].num
    BY <1>1, <1>2, <1>5, StatusSets
  <2>2. PICK w \in OnCard : card[w].num = k
    BY <2>1 DEF CardInv, CardSound, Numbering
  <2>3. ~ w \in OfStatus("DRAFT")
    <3>1. SUFFICES ASSUME w \in OfStatus("DRAFT") PROVE FALSE
      OBVIOUS
    <3>2. v # w /\ card[v].num < card[w].num
      BY <1>1, <2>1, <3>1 DEF CardInv, CardSound, Numbering
    <3> QED BY <1>2, <2>1, <2>2, <3>2
  <2> QED BY <2>2, <2>3, StatusSets
<1> QED BY <1>3, <1>4, <1>5 DEF CountedTo

-----------------------------------------------------------------------------
(* The statements that only read or lock.                                  *)

LEMMA RollBackKeeps ==
  ASSUME CardInv, NEW m \in Manager, RollBack(m)
  PROVE  CardInv'
<1>1. upkeep' = [upkeep EXCEPT ![m] = Unoccupied] /\ UNCHANGED card
  BY DEF RollBack, Leave
<1>2. upkeep' \in [Manager -> Upkeep] /\ upkeep'[m].at = "idle"
  BY <1>1 DEF CardInv, CardSound, Upkeep, Unoccupied
<1>3. Locked(m)' = {} /\ DeskOf(m)'
  BY <1>2 DEF Locked, DeskOf, Flipping
<1> QED BY <1>1, <1>2, <1>3, ReadOnly DEF CardInv, CardSound

LEMMA LockTargetKeeps ==
  ASSUME CardInv, NEW m \in Manager, NEW op \in {"activate", "rollback"},
         NEW v \in CardVersion, LockTarget(m, op, v)
  PROVE  CardInv'
<1>1. /\ upkeep' \in [Manager -> Upkeep] /\ UNCHANGED card
      /\ \A n \in Manager \ {m} : upkeep'[n] = upkeep[n]
      /\ upkeep'[m].at = "seek" /\ upkeep'[m].op = op /\ upkeep'[m].target = {v}
  <2>1. upkeep \in [Manager -> Upkeep] /\ upkeep[m] \in Upkeep
    BY DEF CardInv, CardSound
  <2>2. [upkeep[m] EXCEPT !.op = op, !.at = "seek", !.target = {v}] \in Upkeep
    BY <2>1 DEF Upkeep
  <2>3. upkeep' = [upkeep EXCEPT ![m] = [upkeep[m] EXCEPT !.op = op, !.at = "seek", !.target = {v}]]
    BY <2>1 DEF LockTarget
  <2> QED BY <2>1, <2>2, <2>3 DEF LockTarget, Upkeep
<1>2. v \in OfStatus(StatusFor(op))'
  BY <1>1 DEF LockTarget, OfStatus
<1>3. DeskOf(m)'
  BY <1>1, <1>2 DEF DeskOf, Flipping, OfStatus, StatusFor
<1>4. FreeFor(m, Locked(m)')
  BY <1>1 DEF LockTarget, Locked
<1> QED BY <1>1, <1>3, <1>4, ReadOnly

LEMMA SeekActiveKeeps ==
  ASSUME CardInv, NEW m \in Manager, SeekActive(m)
  PROVE  CardInv'
<1>1. /\ upkeep' \in [Manager -> Upkeep] /\ UNCHANGED card
      /\ \A n \in Manager \ {m} : upkeep'[n] = upkeep[n]
      /\ upkeep[m].at = "seek" /\ upkeep'[m].at = "hold"
      /\ upkeep'[m].op = upkeep[m].op /\ upkeep'[m].target = upkeep[m].target
      /\ upkeep'[m].sought = InForce
  BY DEF SeekActive, Doing, CardInv, CardSound, Upkeep, InForce, OfStatus
<1>2. DeskOf(m)'
  BY <1>1 DEF DeskOf, Settled, InForce, Flipping, OfStatus, StatusFor, CardInv, DeskInv
<1>3. Locked(m)' \subseteq Locked(m)
  BY <1>1 DEF Locked
<1> QED BY <1>1, <1>2, <1>3, ReadOnly

LEMMA HoldActiveKeeps ==
  ASSUME CardInv, NEW m \in Manager, HoldActive(m)
  PROVE  CardInv'
<1>1. /\ upkeep' \in [Manager -> Upkeep] /\ UNCHANGED card
      /\ \A n \in Manager \ {m} : upkeep'[n] = upkeep[n]
      /\ upkeep[m].at = "hold" /\ upkeep'[m].at = "compare"
      /\ upkeep'[m].op = upkeep[m].op /\ upkeep'[m].target = upkeep[m].target
      /\ upkeep'[m].sought = upkeep[m].sought
      /\ upkeep'[m].outgoing = upkeep[m].sought \cap InForce
  BY DEF HoldActive, Doing, CardInv, CardSound, Upkeep, InForce, OfStatus
<1>2. DeskOf(m)'
  BY <1>1
    DEF DeskOf, Flipping, OfStatus, StatusFor, Settled, InForce, Superseded, CardInv, DeskInv
<1>3. FreeFor(m, Locked(m)')
  <2>1. Locked(m)' = Locked(m) \cup upkeep[m].sought
    BY <1>1 DEF Locked
  <2>2. FreeFor(m, Locked(m))
    BY DEF CardInv, DeskInv, LocksApart, FreeFor
  <2> QED BY <2>1, <2>2 DEF HoldActive, FreeFor
<1> QED BY <1>1, <1>2, <1>3, ReadOnly

\* A difference is taken against what was returned, if anything was: the lock
\* has kept it in force, alone.
LEMMA CompareKeeps ==
  ASSUME CardInv, NEW m \in Manager, Compare(m)
  PROVE  CardInv'
<1>1. /\ upkeep' \in [Manager -> Upkeep] /\ UNCHANGED card
      /\ \A n \in Manager \ {m} : upkeep'[n] = upkeep[n]
      /\ upkeep[m].at = "compare" /\ upkeep'[m].at = "flip"
      /\ upkeep'[m].op = upkeep[m].op /\ upkeep'[m].target = upkeep[m].target
      /\ upkeep'[m].sought = upkeep[m].sought /\ upkeep'[m].outgoing = upkeep[m].outgoing
      /\ upkeep'[m].compared = InForce
  BY DEF Compare, Doing, CardInv, CardSound, Upkeep, InForce, OfStatus
<1>2. InForce' = InForce
  BY <1>1 DEF InForce, OfStatus
<1>3. upkeep[m].outgoing # {} => InForce = upkeep[m].outgoing
  BY <1>1 DEF CardInv, CardSound, DeskInv, DeskOf
<1>4. DeskOf(m)'
  <2>1. Settled' = Settled
    BY <1>1 DEF Settled, InForce, Superseded, OfStatus
  <2> QED BY <1>1, <1>2, <1>3, <2>1 DEF DeskOf, Flipping, OfStatus, StatusFor, CardInv, DeskInv
<1>5. Locked(m)' \subseteq Locked(m)
  BY <1>1 DEF Locked
<1> QED BY <1>1, <1>4, <1>5, ReadOnly

LEMMA ListVersionsKeeps ==
  ASSUME CardInv, NEW m \in Manager, ListVersions(m)
  PROVE  CardInv'
<1>1. PICK n \in NextNumber(OnCard) :
        upkeep' = [upkeep EXCEPT ![m].op = "upload", ![m].num = n,
                                 ![m].target = OfStatus("DRAFT"),
                                 ![m].at = IF OfStatus("DRAFT") = {} THEN "insert" ELSE "replace"]
  BY DEF ListVersions
<1>2. n \in Nat
  <2>1. \A v \in OnCard : card[v].num \in Nat
    BY DEF CardInv, CardSound, VersionRow, OnCard
  <2> QED BY <2>1 DEF NextNumber
<1>3. /\ upkeep' \in [Manager -> Upkeep] /\ UNCHANGED card
      /\ \A k \in Manager \ {m} : upkeep'[k] = upkeep[k]
      /\ upkeep'[m].target = OfStatus("DRAFT") /\ upkeep'[m].num = n
      /\ upkeep'[m].at = IF OfStatus("DRAFT") = {} THEN "insert" ELSE "replace"
  <2> DEFINE step == IF OfStatus("DRAFT") = {} THEN "insert" ELSE "replace"
             u == [upkeep[m] EXCEPT !.op = "upload", !.num = n,
                                    !.target = OfStatus("DRAFT"), !.at = step]
  <2>1. upkeep \in [Manager -> Upkeep] /\ upkeep[m] \in Upkeep
    BY DEF CardInv, CardSound
  <2>2. OfStatus("DRAFT") \in SUBSET CardVersion
    BY DEF OfStatus
  <2>3. u \in Upkeep
    BY <1>2, <2>1, <2>2 DEF Upkeep
  <2>4. upkeep' = [upkeep EXCEPT ![m] = u]
    BY <1>1, <2>1
  <2>5. u.target = OfStatus("DRAFT") /\ u.num = n /\ u.at = step
    BY <2>1 DEF Upkeep
  <2> HIDE DEF u
  <2> QED BY <2>1, <2>3, <2>4, <2>5 DEF ListVersions
<1>4. OfStatus("DRAFT") = {} => n >= 1 /\ CountedTo(n)
  BY NextCounts
<1>5. DeskOf(m)'
  <2>1. CASE OfStatus("DRAFT") = {}
    <3>1. CountedTo(n)'
      BY <1>3, <1>4, <2>1 DEF CountedTo, Settled, InForce, Superseded, OfStatus
    <3> QED BY <1>3, <1>4, <2>1, <3>1 DEF DeskOf, Flipping, OfStatus
  <2>2. CASE OfStatus("DRAFT") # {}
    BY <1>3, <2>2 DEF DeskOf, Flipping
  <2> QED BY <2>1, <2>2
<1>6. Locked(m)' = {}
  BY <1>3 DEF Locked
<1> QED BY <1>3, <1>5, <1>6, ReadOnly

LEMMA DeleteDraftKeeps ==
  ASSUME CardInv, NEW m \in Manager, DeleteDraft(m)
  PROVE  CardInv'
<1>1. /\ upkeep' \in [Manager -> Upkeep] /\ UNCHANGED card
      /\ \A n \in Manager \ {m} : upkeep'[n] = upkeep[n]
      /\ upkeep'[m].at = "relist" /\ upkeep'[m].target = upkeep[m].target
  BY DEF DeleteDraft, CardInv, CardSound, Upkeep
<1>2. DeskOf(m)'
  <2>1. upkeep[m].target # {} /\ upkeep[m].target \subseteq OfStatus("DRAFT")
    BY DEF DeleteDraft, Doing, CardInv, DeskInv, DeskOf
  <2> QED BY <1>1, <2>1 DEF DeskOf, Flipping, OfStatus
<1>3. FreeFor(m, Locked(m)')
  BY <1>1 DEF DeleteDraft, Locked
<1> QED BY <1>1, <1>2, <1>3, ReadOnly

LEMMA RelistKeeps ==
  ASSUME CardInv, NEW m \in Manager, Relist(m)
  PROVE  CardInv'
<1>1. PICK n \in NextNumber(OnCard \ upkeep[m].target) :
        upkeep' = [upkeep EXCEPT ![m].at = "insert", ![m].num = n]
  BY DEF Relist
<1>2. /\ upkeep[m].at = "relist" /\ upkeep[m].target # {}
      /\ upkeep[m].target \subseteq OfStatus("DRAFT")
  BY DEF Relist, Doing, CardInv, DeskInv, DeskOf
<1>3. OfStatus("DRAFT") = upkeep[m].target
  <2>1. ASSUME NEW d \in OfStatus("DRAFT"), NEW e \in OfStatus("DRAFT"), d # e PROVE FALSE
    <3>1. d \in OnCard /\ e \in OnCard
      BY StatusSets
    <3>2. card[d].num < card[e].num /\ card[e].num < card[d].num
      BY <2>1, <3>1 DEF CardInv, CardSound, Numbering
    <3>3. card[d].num \in Nat /\ card[e].num \in Nat
      BY <3>1 DEF CardInv, CardSound, VersionRow, OnCard
    <3> QED BY <3>2, <3>3
  <2> QED BY <1>2, <2>1
<1>4. n \in Nat /\ n >= 1 /\ CountedTo(n)
  BY <1>3, NextCounts
<1>5. /\ upkeep' \in [Manager -> Upkeep] /\ UNCHANGED card
      /\ \A k \in Manager \ {m} : upkeep'[k] = upkeep[k]
      /\ upkeep'[m].at = "insert" /\ upkeep'[m].num = n /\ upkeep'[m].target = upkeep[m].target
  <2>1. upkeep \in [Manager -> Upkeep] /\ upkeep[m] \in Upkeep
    BY DEF CardInv, CardSound
  <2>2. [upkeep[m] EXCEPT !.at = "insert", !.num = n] \in Upkeep
    BY <1>4, <2>1 DEF Upkeep
  <2>3. upkeep' = [upkeep EXCEPT ![m] = [upkeep[m] EXCEPT !.at = "insert", !.num = n]]
    BY <1>1, <2>1
  <2> QED BY <2>1, <2>2, <2>3 DEF Relist, Upkeep
<1>6. CountedTo(n)'
  BY <1>4, <1>5 DEF CountedTo, Settled, InForce, Superseded, OfStatus
<1>7. DeskOf(m)'
  BY <1>2, <1>4, <1>5, <1>6 DEF DeskOf, Flipping, OfStatus
<1>8. Locked(m)' = Locked(m)
  BY <1>2, <1>5 DEF Locked
<1> QED BY <1>5, <1>7, <1>8, ReadOnly

-----------------------------------------------------------------------------
(* The commits.                                                            *)

\* What others rely on outlives a commit that leaves alone the rows they have
\* locked, and takes nothing from the versions that stay.
LEMMA OthersKeep ==
  ASSUME CardInv, NEW m \in Manager, Leave(m),
         \A n \in Manager \ {m} : \A v \in Locked(n) : card'[v] = card[v],
         InForce # {} => InForce' # {},
         Settled \subseteq Settled', \A v \in Settled : card'[v].num = card[v].num
  PROVE  DeskInv'
<1>1. /\ \A n \in Manager \ {m} : upkeep'[n] = upkeep[n]
      /\ upkeep'[m].at = "idle"
  BY DEF Leave, Unoccupied, CardInv, CardSound
<1>2. Locked(m)' = {} /\ \A n \in Manager \ {m} : Locked(n)' = Locked(n)
  BY <1>1 DEF Locked
<1>3. LocksApart'
  BY <1>2 DEF LocksApart, CardInv, DeskInv
<1>4. DeskOf(m)'
  BY <1>1 DEF DeskOf, Flipping
<1>5. ASSUME NEW n \in Manager \ {m} PROVE DeskOf(n)'
  <2> DEFINE u == upkeep[n]
  <2>1. DeskOf(n) /\ upkeep'[n] = u
    BY <1>1 DEF CardInv, DeskInv
  <2>2. ASSUME Flipping(n)
        PROVE  /\ u.op \in {"activate", "rollback"}
               /\ \E t \in OfStatus(StatusFor(u.op))' : u.target = {t}
    <3>1. PICK t \in OfStatus(StatusFor(u.op)) : u.target = {t}
      BY <2>1, <2>2 DEF DeskOf
    <3>2. card'[t] = card[t]
      BY <2>2, <3>1 DEF Locked, Flipping
    <3> QED BY <2>1, <2>2, <3>1, <3>2 DEF DeskOf, OfStatus
  <2>3. ASSUME u.at \in {"compare", "flip"} PROVE u.outgoing \subseteq u.sought \cap InForce'
    BY <2>1, <2>3 DEF DeskOf, Locked, InForce, OfStatus
  <2>4. ASSUME u.at \in {"relist", "insert"} PROVE u.target \subseteq OfStatus("DRAFT")'
    BY <2>1, <2>4 DEF DeskOf, Locked, OfStatus
  <2>5. ASSUME u.at = "insert" PROVE CountedTo(u.num)'
    BY <2>1, <2>5 DEF DeskOf, CountedTo
  <2>6. u.at \in {"hold", "compare", "flip"} => u.sought \subseteq Settled'
    BY <2>1 DEF DeskOf
  <2> QED BY <2>1, <2>2, <2>3, <2>4, <2>5, <2>6 DEF DeskOf, Flipping, OfStatus, StatusFor
<1> QED BY <1>3, <1>4, <1>5 DEF DeskInv

\* An activation or a roll-back replaces what is in force by its target.
LEMMA FlipEffect ==
  ASSUME CardInv, NEW m \in Manager, Flip(m)
  PROVE  \E t \in CardVersion :
            /\ upkeep[m].target = {t} /\ upkeep[m].outgoing = InForce
            /\ t \in OfStatus("DRAFT") \cup Superseded /\ ~ t \in InForce
            /\ card' \in [CardVersion -> VersionRow]
            /\ card'[t].status = "ACTIVE" /\ card'[t].num = card[t].num /\ card'[t].sup = {}
            /\ \A v \in InForce :
                  /\ card'[v].status = "SUPERSEDED" /\ card'[v].num = card[v].num
                  /\ card'[v].sup = {t}
            /\ \A v \in CardVersion \ (InForce \cup {t}) : card'[v] = card[v]
            /\ InForce' = {t} /\ Superseded' = (Superseded \ {t}) \cup InForce
            /\ OfStatus("DRAFT")' = OfStatus("DRAFT") \ {t} /\ OnCard' = OnCard
<1>1. /\ upkeep[m].at = "flip" /\ upkeep[m].op \in {"activate", "rollback"}
      /\ InForce = upkeep[m].outgoing
  BY DEF Flip, Doing, AloneInForce, CardInv, DeskInv, DeskOf, Flipping
<1>2. PICK t \in OfStatus(StatusFor(upkeep[m].op)) : upkeep[m].target = {t}
  BY <1>1 DEF CardInv, DeskInv, DeskOf, Flipping
<1>3. /\ t \in CardVersion /\ t \in OfStatus("DRAFT") \cup Superseded
      /\ ~ t \in InForce /\ t \in OnCard
  BY <1>1, <1>2 DEF OfStatus, StatusFor, Superseded, InForce, OnCard, CardStatus
<1>4. card \in [CardVersion -> VersionRow]
  BY DEF CardInv, CardSound
<1>5. card' = [v \in CardVersion |->
                 IF v = t THEN Promoted(upkeep[m].op, card[v])
                 ELSE IF v \in InForce
                 THEN [card[v] EXCEPT !.status = "SUPERSEDED", !.sup = {t}]
                 ELSE card[v]]
  BY <1>1, <1>2 DEF Flip
<1>6. /\ card'[t] \in VersionRow
      /\ card'[t].status = "ACTIVE" /\ card'[t].num = card[t].num /\ card'[t].sup = {}
  <2>1. card[t] \in VersionRow /\ card'[t] = Promoted(upkeep[m].op, card[t])
    BY <1>3, <1>4, <1>5
  <2>2. CASE upkeep[m].op = "rollback"
    BY <2>1, <2>2 DEF Promoted, VersionRow, CardStatus
  <2>3. CASE upkeep[m].op = "activate"
    <3>1. ~ t \in Superseded /\ card[t].sup = {}
      <4>1. ~ t \in Superseded
        BY <1>2, <2>3 DEF StatusFor, OfStatus, Superseded
      <4> QED BY <1>3, <4>1 DEF CardInv, CardSound, Lineage
    <3> QED BY <2>1, <2>3, <3>1 DEF Promoted, VersionRow, CardStatus
  <2> QED BY <1>1, <2>2, <2>3
<1>7. ASSUME NEW v \in InForce
      PROVE  /\ card'[v] \in VersionRow
             /\ card'[v].status = "SUPERSEDED" /\ card'[v].num = card[v].num
             /\ card'[v].sup = {t}
  <2>1. v \in CardVersion /\ card[v] \in VersionRow /\ v # t
    BY <1>3, <1>4 DEF InForce, OfStatus
  <2> QED BY <1>3, <1>5, <2>1 DEF VersionRow, CardStatus
<1>8. \A v \in CardVersion \ (InForce \cup {t}) : card'[v] = card[v]
  BY <1>5
<1>9. card' \in [CardVersion -> VersionRow]
  <2>1. \A v \in CardVersion : card'[v] \in VersionRow
    BY <1>4, <1>6, <1>7, <1>8
  <2> QED BY <1>5, <2>1
<1>10. /\ InForce' = {t} /\ Superseded' = (Superseded \ {t}) \cup InForce
       /\ OfStatus("DRAFT")' = OfStatus("DRAFT") \ {t} /\ OnCard' = OnCard
  BY <1>3, <1>6, <1>7, <1>8 DEF InForce, Superseded, OnCard, OfStatus, CardStatus
<1> QED BY <1>1, <1>2, <1>3, <1>6, <1>7, <1>8, <1>9, <1>10

LEMMA FlipKeeps ==
  ASSUME CardInv, NEW m \in Manager, Flip(m)
  PROVE  CardInv'
<1>1. PICK t \in CardVersion :
        /\ upkeep[m].target = {t} /\ upkeep[m].outgoing = InForce
        /\ t \in OfStatus("DRAFT") \cup Superseded /\ ~ t \in InForce
        /\ card' \in [CardVersion -> VersionRow]
        /\ card'[t].status = "ACTIVE" /\ card'[t].num = card[t].num /\ card'[t].sup = {}
        /\ \A v \in InForce :
              /\ card'[v].status = "SUPERSEDED" /\ card'[v].num = card[v].num
              /\ card'[v].sup = {t}
        /\ \A v \in CardVersion \ (InForce \cup {t}) : card'[v] = card[v]
        /\ InForce' = {t} /\ Superseded' = (Superseded \ {t}) \cup InForce
        /\ OfStatus("DRAFT")' = OfStatus("DRAFT") \ {t} /\ OnCard' = OnCard
  BY FlipEffect
<1>2. \A v \in CardVersion : card'[v].num = card[v].num
  BY <1>1
<1>3. Lineage'
  <2>1. ASSUME NEW v \in OnCard
        PROVE  IF v \in Superseded'
               THEN \E w \in InForce' \cup Superseded' : card'[v].sup = {w}
               ELSE card'[v].sup = {}
    <3>1. v \in CardVersion
      BY StatusSets
    <3>2. CASE v = t \/ v \in InForce
      BY <1>1, <3>2
    <3>3. CASE v # t /\ ~ v \in InForce
      <4>1. card'[v] = card[v] /\ (v \in Superseded' <=> v \in Superseded)
        BY <1>1, <3>1, <3>3
      <4>2. InForce \cup Superseded \subseteq InForce' \cup Superseded'
        BY <1>1
      <4> QED BY <4>1, <4>2 DEF CardInv, CardSound, Lineage
    <3> QED BY <3>2, <3>3
  <2>2. ASSUME NEW V \in SUBSET Superseded', V # {}
        PROVE  \E v \in V : card'[v].sup \cap V = {}
    <3>1. CASE V \cap InForce # {}
      <4>1. ~ t \in V
        BY <1>1, <2>2
      <4> QED BY <1>1, <3>1, <4>1
    <3>2. CASE V \cap InForce = {}
      <4>1. V \in SUBSET Superseded /\ ~ t \in V /\ V \subseteq CardVersion
        BY <1>1, <2>2, <3>2, StatusSets DEF Settled
      <4>2. PICK v \in V : card[v].sup \cap V = {}
        BY <2>2, <4>1 DEF CardInv, CardSound, Lineage
      <4>3. card'[v] = card[v]
        BY <1>1, <3>2, <4>1
      <4> QED BY <4>2, <4>3
    <3> QED BY <3>1, <3>2
  <2> QED BY <1>1, <2>1, <2>2 DEF Lineage
<1>4. Numbering'
  <2>1. OnCard \subseteq CardVersion /\ OfStatus("DRAFT")' \subseteq OfStatus("DRAFT")
    BY <1>1, StatusSets
  <2>2. OfStatus("DRAFT") \subseteq CardVersion
    BY StatusSets
  <2> QED BY <1>1, <1>2, <2>1, <2>2 DEF Numbering, CardInv, CardSound
<1>5. DeskInv'
  <2>1. Locked(m) = {t} \cup upkeep[m].sought /\ InForce \subseteq upkeep[m].sought
    BY <1>1 DEF Locked, Flip, Doing, CardInv, DeskInv, DeskOf
  <2>2. \A n \in Manager \ {m} : \A v \in Locked(n) : v \in CardVersion => card'[v] = card[v]
    BY <1>1, <2>1 DEF CardInv, DeskInv, LocksApart
  <2>3. \A n \in Manager : Locked(n) \subseteq CardVersion
    BY DEF Locked, CardInv, CardSound, Upkeep
  <2>4. Settled \subseteq Settled' /\ Settled \subseteq CardVersion
    BY <1>1, StatusSets DEF Settled
  <2> QED BY <1>1, <1>2, <2>2, <2>3, <2>4, OthersKeep DEF Flip
<1>6. upkeep' \in [Manager -> Upkeep]
  <2>1. Unoccupied \in Upkeep
    BY DEF Unoccupied, Upkeep
  <2> QED BY <2>1 DEF Flip, Leave, CardInv, CardSound
<1> QED BY <1>1, <1>3, <1>4, <1>5, <1>6 DEF CardInv, CardSound

\* The draft has the last number, so the others' are unbroken without it.
LEMMA SettledUnbroken ==
  ASSUME CardInv
  PROVE  \A w \in Settled : \A k \in 1..card[w].num : \E x \in Settled : card[x].num = k
<1> SUFFICES ASSUME NEW w \in Settled, NEW k \in 1..card[w].num
             PROVE  \E x \in Settled : card[x].num = k
  OBVIOUS
<1>1. w \in OnCard /\ ~ w \in OfStatus("DRAFT")
  BY StatusSets
<1>2. PICK x \in OnCard : card[x].num = k
  BY <1>1 DEF CardInv, CardSound, Numbering
<1>3. card[w].num \in Nat /\ card[x].num \in Nat
  BY <1>1 DEF CardInv, CardSound, VersionRow, OnCard
<1>4. ~ x \in OfStatus("DRAFT")
  <2> SUFFICES ASSUME x \in OfStatus("DRAFT") PROVE FALSE
    OBVIOUS
  <2>1. card[w].num < card[x].num
    BY <1>1 DEF CardInv, CardSound, Numbering
  <2> QED BY <1>2, <1>3, <2>1
<1> QED BY <1>2, <1>4, StatusSets

LEMMA InsertVersionKeeps ==
  ASSUME CardInv, NEW m \in Manager, NEW v \in CardVersion, InsertVersion(m, v)
  PROVE  CardInv'
<1> DEFINE n == upkeep[m].num
<1>1. /\ upkeep[m].at = "insert" /\ upkeep[m].target \subseteq OfStatus("DRAFT")
      /\ n \in Nat /\ n >= 1 /\ CountedTo(n)
  BY DEF InsertVersion, Doing, CardInv, CardSound, Upkeep, DeskInv, DeskOf
<1>2. card[v].status = "none" /\ ~ v \in OnCard
  <2>1. v >= v
    BY CardAssumption
  <2> QED BY <2>1 DEF InsertVersion, OnCard, CardStatus
<1>3. OfStatus("DRAFT") = upkeep[m].target
  BY <1>1, StatusSets DEF InsertVersion, Insertable, OfStatus
<1>4. \A w \in Settled : card[w].num # n
  BY <1>1, StatusSets DEF InsertVersion, Insertable
<1>5. card \in [CardVersion -> VersionRow] /\ \A w \in OnCard : card[w].num \in Nat
  BY DEF CardInv, CardSound, VersionRow, OnCard
<1>6. /\ card'[v] = [status |-> "DRAFT", num |-> n, sup |-> {}]
      /\ \A w \in OfStatus("DRAFT") :
            w # v => card'[w] = [card[w] EXCEPT !.status = "deleted"]
      /\ \A w \in CardVersion \ (OfStatus("DRAFT") \cup {v}) : card'[w] = card[w]
  BY <1>3, <1>5, StatusSets DEF InsertVersion
<1>7. card' \in [CardVersion -> VersionRow]
  <2>1. ASSUME NEW w \in CardVersion PROVE card'[w] \in VersionRow
    <3>1. CASE w = v
      BY <1>1, <1>6, <3>1 DEF VersionRow, CardStatus
    <3>2. CASE w # v /\ w \in OfStatus("DRAFT")
      <4>1. card[w] \in VersionRow /\ card'[w] = [card[w] EXCEPT !.status = "deleted"]
        BY <1>5, <1>6, <3>2
      <4> QED BY <4>1 DEF VersionRow
    <3>3. CASE w # v /\ ~ w \in OfStatus("DRAFT")
      BY <1>5, <1>6, <3>3
    <3> QED BY <3>1, <3>2, <3>3
  <2> QED BY <2>1 DEF InsertVersion
<1>8. \A w \in OfStatus("DRAFT") : w # v /\ card'[w].status = "deleted"
  <2> TAKE w \in OfStatus("DRAFT")
  <2>1. w \in CardVersion /\ card[w] \in VersionRow /\ w # v
    BY <1>2, <1>5 DEF OfStatus
  <2> QED BY <1>6, <2>1 DEF VersionRow
<1>9. /\ InForce' = InForce /\ Superseded' = Superseded
      /\ OfStatus("DRAFT")' = {v} /\ OnCard' = Settled \cup {v}
  <2>1. \A w \in CardVersion :
           card'[w].status = IF w = v THEN "DRAFT"
                             ELSE IF w \in OfStatus("DRAFT") THEN "deleted" ELSE card[w].status
    BY <1>6, <1>8
  <2>2. ~ v \in Settled
    BY <1>2, StatusSets
  <2>3. InForce' = InForce /\ Superseded' = Superseded /\ OfStatus("DRAFT")' = {v}
    BY <1>2, <2>1 DEF InForce, Superseded, OfStatus
  <2>4. OnCard' = OfStatus("DRAFT")' \cup InForce' \cup Superseded'
    BY DEF OnCard, InForce, Superseded, OfStatus, CardStatus
  <2> QED BY <2>3, <2>4 DEF Settled
<1>10. \A w \in Settled : card'[w] = card[w] /\ w \in CardVersion /\ w \in OnCard
  BY <1>2, <1>6, StatusSets
<1>11. Lineage'
  <2>1. \A w \in Settled : w \in Superseded <=> w \in Superseded'
    BY <1>9
  <2>2. card'[v].sup = {} /\ ~ v \in Superseded'
    BY <1>2, <1>6, <1>9, StatusSets DEF Settled
  <2>3. \A w \in OnCard' : IF w \in Superseded'
                           THEN \E x \in InForce' \cup Superseded' : card'[w].sup = {x}
                           ELSE card'[w].sup = {}
    BY <1>9, <1>10, <2>2 DEF Lineage, CardInv, CardSound
  <2>4. \A V \in SUBSET Superseded' : V # {} => \E w \in V : card'[w].sup \cap V = {}
    BY <1>9, <1>10 DEF Lineage, CardInv, CardSound, Settled
  <2> QED BY <2>3, <2>4 DEF Lineage
<1>12. Numbering'
  <2>1. \A w \in Settled : card'[w].num = card[w].num /\ card[w].num \in Nat
    BY <1>5, <1>10
  <2>2. card'[v].num = n /\ ~ v \in Settled
    BY <1>2, <1>6, <1>10
  <2>3. ASSUME NEW w \in Settled PROVE card[w].num < n
    <3> SUFFICES ASSUME card[w].num > n PROVE FALSE
      BY <1>1, <1>4, <2>1
    <3>1. n \in 1..card[w].num
      BY <1>1, <2>1
    <3> QED BY <1>4, <3>1, SettledUnbroken
  <2>4. \A w, x \in OnCard' : w # x => card'[w].num # card'[x].num
    BY <1>4, <1>9, <1>10, <2>1, <2>2 DEF Numbering, CardInv, CardSound
  <2>5. ASSUME NEW w \in OnCard', NEW k \in 1..card'[w].num
        PROVE  \E x \in OnCard' : card'[x].num = k
    <3>1. CASE w \in Settled
      <4>1. \E x \in Settled : card[x].num = k
        BY <2>1, <3>1, SettledUnbroken
      <4> QED BY <1>9, <2>1, <4>1
    <3>2. CASE w = v /\ k = n
      BY <1>9, <2>2, <3>2
    <3>3. CASE w = v /\ k # n
      <4>1. k \in 1..(n - 1)
        BY <1>1, <2>2, <3>3
      <4>2. \E x \in Settled : card[x].num = k
        BY <1>1, <4>1 DEF CountedTo
      <4> QED BY <1>9, <2>1, <4>2
    <3> QED BY <1>9, <3>1, <3>2, <3>3
  <2>6. \A d \in OfStatus("DRAFT")' : \A w \in OnCard' \ {d} : card'[w].num < card'[d].num
    BY <1>9, <2>1, <2>2, <2>3
  <2> QED BY <2>4, <2>5, <2>6 DEF Numbering
<1>13. DeskInv'
  <2>1. ASSUME NEW k \in Manager \ {m}, NEW w \in Locked(k) PROVE card'[w] = card[w]
    <3>1. Locked(m) = upkeep[m].target
      BY <1>1 DEF Locked
    <3>2. ~ w \in OfStatus("DRAFT")
      BY <1>3, <3>1 DEF CardInv, DeskInv, LocksApart
    <3>3. w \in CardVersion
      BY DEF Locked, CardInv, CardSound, Upkeep
    <3>4. CASE w # v
      BY <1>6, <3>2, <3>3, <3>4
    <3>5. CASE w = v
      <4>1. CASE w \in upkeep[k].target
        <5>1. DeskOf(k) /\ upkeep[k] \in Upkeep /\ upkeep[k].at \notin {"idle", "replace"}
          <6>1. upkeep[k].at \notin {"idle", "replace"}
            BY <2>1 DEF Locked
          <6> QED BY <6>1 DEF CardInv, CardSound, DeskInv
        <5>2. CASE Flipping(k)
          <6>1. w \in OfStatus(StatusFor(upkeep[k].op))
            BY <4>1, <5>1, <5>2 DEF DeskOf
          <6> QED BY <1>2, <3>5, <6>1 DEF OfStatus, StatusFor
        <5>3. CASE upkeep[k].at \in {"relist", "insert"}
          BY <3>2, <4>1, <5>1, <5>3 DEF DeskOf
        <5> QED BY <5>1, <5>2, <5>3 DEF Upkeep, Flipping
      <4>2. CASE ~ w \in upkeep[k].target
        <5>1. w \in Settled
          BY <2>1, <4>2 DEF Locked, CardInv, DeskInv, DeskOf
        <5> QED BY <1>2, <3>5, <5>1, StatusSets
      <4> QED BY <4>1, <4>2
    <3> QED BY <3>4, <3>5
  <2>2. Settled' = Settled
    BY <1>9 DEF Settled
  <2> QED BY <1>9, <1>10, <2>1, <2>2, OthersKeep DEF InsertVersion
<1>14. upkeep' \in [Manager -> Upkeep]
  <2>1. Unoccupied \in Upkeep
    BY DEF Unoccupied, Upkeep
  <2> QED BY <2>1 DEF InsertVersion, Leave, CardInv, CardSound
<1> QED BY <1>7, <1>9, <1>11, <1>12, <1>13, <1>14 DEF CardInv, CardSound

-----------------------------------------------------------------------------
LEMMA CardNextInv == CardInv /\ [CardNext]_cardVars => CardInv'
<1> SUFFICES ASSUME CardInv, [CardNext]_cardVars PROVE CardInv'
  OBVIOUS
<1>1. CASE UNCHANGED cardVars
  <2>1. UNCHANGED <<card, upkeep>>
    BY <1>1 DEF cardVars
  <2> QED BY <2>1
    DEF CardInv, CardSound, Lineage, Numbering, DeskInv, DeskOf, LocksApart, Locked, Flipping,
        CountedTo, Settled, InForce, Superseded, OnCard, OfStatus
<1>2. ASSUME NEW m \in Manager, CardStep(m) PROVE CardInv'
  <2>1. ASSUME NEW op \in {"activate", "rollback"}, NEW v \in CardVersion, LockTarget(m, op, v)
        PROVE  CardInv'
    BY <2>1, LockTargetKeeps
  <2>2. ASSUME NEW v \in CardVersion, InsertVersion(m, v) PROVE CardInv'
    BY <2>2, InsertVersionKeeps
  <2>3. CASE SeekActive(m) \/ HoldActive(m) \/ Compare(m) \/ Flip(m)
    BY <2>3, SeekActiveKeeps, HoldActiveKeeps, CompareKeeps, FlipKeeps
  <2>4. CASE ListVersions(m) \/ DeleteDraft(m) \/ Relist(m) \/ RollBack(m)
    BY <2>4, ListVersionsKeeps, DeleteDraftKeeps, RelistKeeps, RollBackKeeps
  <2> QED BY <1>2, <2>1, <2>2, <2>3, <2>4 DEF CardStep
<1> QED BY <1>1, <1>2 DEF CardNext

LEMMA CardInvariant == CardSpec => []CardInv
BY CardInitInv, CardNextInv, PTL DEF CardSpec

\* Whatever uploads, activations and roll-backs race, the card has one version
\* in force, one draft, numbers without a gap, and a lineage that ends at the
\* version in force (uploadRatecardVersion, activateRatecardVersion,
\* rollbackRatecardVersion).
THEOREM CardSoundTheorem == CardSpec => []CardSound
<1>1. CardInv => CardSound
  BY DEF CardInv
<1> QED BY <1>1, CardInvariant, PTL

\* Only a commit changes what is in force, and it tells what that was.
LEMMA StepTells ==
  ASSUME CardInv, [CardNext]_cardVars, InForce' # InForce
  PROVE  \E m \in Manager :
            /\ upkeep[m].outgoing = InForce /\ upkeep[m].compared = InForce
            /\ InForce' = upkeep[m].target
            /\ \A v \in InForce : v \in Superseded' /\ card'[v].sup = InForce'
<1>1. UNCHANGED card => InForce' = InForce
  BY DEF InForce, OfStatus
<1>2. PICK m \in Manager : CardStep(m)
  BY <1>1 DEF CardNext, cardVars
<1>3. ASSUME NEW v \in CardVersion, InsertVersion(m, v) PROVE FALSE
  <2>1. upkeep[m].target \cap InForce = {}
    BY <1>3, StatusSets DEF InsertVersion, Doing, CardInv, DeskInv, DeskOf, Settled
  <2>2. ~ v \in InForce
    <3>1. v >= v
      BY CardAssumption
    <3> QED BY <1>3, <3>1 DEF InsertVersion, InForce, OfStatus
  <2>3. \A w \in CardVersion : w \in InForce <=> w \in InForce'
    <3> TAKE w \in CardVersion
    <3>1. card[w] \in VersionRow
      BY DEF CardInv, CardSound
    <3> QED BY <1>3, <2>1, <2>2, <3>1 DEF InsertVersion, InForce, OfStatus, VersionRow
  <2> QED BY <2>3 DEF InForce, OfStatus
<1>4. Flip(m)
  BY <1>1, <1>2, <1>3 DEF CardStep, LockTarget, SeekActive, HoldActive, Compare,
                          ListVersions, DeleteDraft, Relist, RollBack
<1>5. PICK t \in CardVersion :
        /\ upkeep[m].target = {t} /\ upkeep[m].outgoing = InForce
        /\ \A v \in InForce : card'[v].sup = {t}
        /\ InForce' = {t} /\ Superseded' = (Superseded \ {t}) \cup InForce
  BY <1>4, FlipEffect
<1>6. upkeep[m].compared = InForce
  BY <1>4, <1>5 DEF Flip, Doing, CardInv, DeskInv, DeskOf
<1> QED BY <1>5, <1>6

\* What the event of an activation or a roll-back says it superseded, and
\* compared with, is what was in force when it committed
\* (activateRatecardVersion, rollbackRatecardVersion, diffAgainstActive).
THEOREM ActivationTellsTheorem == CardSpec => ActivationTells
<1>1. CardInv /\ [CardNext]_cardVars =>
        [InForce' # InForce =>
          \E m \in Manager :
              /\ upkeep[m].outgoing = InForce /\ upkeep[m].compared = InForce
              /\ InForce' = upkeep[m].target
              /\ \A v \in InForce : v \in Superseded' /\ card'[v].sup = InForce']_cardVars
  BY StepTells
<1> QED BY <1>1, CardInvariant, PTL DEF CardSpec, ActivationTells

=============================================================================
