--------------------------- MODULE TemplateProofs ---------------------------
(***************************************************************************)
(* What TemplateProps asks, for any number of types, accounts and          *)
(* managers.  A draft is known by its token: each write that makes or      *)
(* changes a draft takes a new one.  So what a page or an activation read  *)
(* of the draft without a lock is still true while the token is.           *)
(***************************************************************************)
EXTENDS TemplateProps, SequenceTheorems, NaturalsInduction, WellFoundedInduction, TLAPS

\* Only the last version may be a draft.
DraftLast(rows) == \A n \in DOMAIN rows : rows[n].status = "DRAFT" => n = Len(rows)

\* A settings version, over the layouts of its type.
RowRight(row, layouts) ==
    LET of == layouts[row.layout]
    IN  /\ row.layout \in DOMAIN layouts
        /\ row.status = "ACTIVE" =>
              /\ of.status = "ACTIVE"
              /\ row.built = <<row.structure, of.files>> /\ row.shown = of.files
        /\ row.status = "DRAFT" => of.status # "RETIRED"

\* The versions of a type; the first ones of Standard stay in use.
RowsRight(t, layouts, settings) ==
    /\ layouts \in Seq(LayoutVersion) /\ settings \in Seq(SettingVersion)
    /\ DraftLast(layouts) /\ DraftLast(settings)
    /\ HasDraft(layouts) =>
          HasDraft(settings) /\ DraftOf(settings).layout = Len(layouts)
    /\ \A n \in DOMAIN settings : RowRight(settings[n], layouts)
    /\ t = Standard => /\ Len(settings) >= 1 /\ settings[1].layout = 1
                       /\ settings[1].status = "ACTIVE"

\* A draft of t under this token, and the files of its layout.
Drafted(t, token) == HasDraft(setting[t]) /\ DraftOf(setting[t]).token = token
FilesOfDraft(t) == layout[t][DraftOf(setting[t]).layout].files

\* A token that is made next is none of a draft or of a page.
TokensPast ==
    /\ \A t \in Type : HasDraft(setting[t]) => DraftOf(setting[t]).token <= clock
    /\ \A p \in Editor : page[p].token <= clock

\* What a page shows of a draft.
PageRight(p) ==
    Drafted(page[p].type, page[p].token) => page[p].files = FilesOfDraft(page[p].type)

\* What activateTemplate has read of a draft.
ActivationRight(p) ==
    LET k == task[p] IN k.op = "activate" =>
        /\ k.type = page[p].type /\ k.layout \in DOMAIN layout[k.type]
        /\ Drafted(k.type, page[p].token) =>
              /\ k.structure = DraftOf(setting[k.type]).structure
              /\ k.layout = DraftOf(setting[k.type]).layout
              /\ k.loaded => /\ k.files = FilesOfDraft(k.type)
                             /\ k.pair <=> layout[k.type][k.layout].status = "DRAFT"

\* A type that has a version in use goes on to have one.
StillServed ==
    \A t \in Type \ {Standard} :
        ActiveOf(t, setting[t]) # {} => ActiveOf(t, setting'[t]) # {}

DraftInv ==
    /\ TemplatesTypeOK
    /\ \A t \in Type : RowsRight(t, layout[t], setting[t])
    /\ TokensPast
    /\ \A p \in Editor : PageRight(p) /\ ActivationRight(p)

-----------------------------------------------------------------------------
(* The rows of a type.                                                     *)

LEMMA DraftInvImplies == DraftInv => LayoutsPaired /\ ActivatedAsShown
<1> SUFFICES ASSUME DraftInv PROVE LayoutsPaired /\ ActivatedAsShown
  OBVIOUS
<1>1. \A t \in Type : RowsRight(t, layout[t], setting[t])
  BY DEF DraftInv
<1>2. ActivatedAsShown
  BY <1>1 DEF ActivatedAsShown, RowsRight, RowRight
<1>3. ASSUME NEW t \in Type, NEW n \in DOMAIN setting[t]
      PROVE  LET used == layout[t][setting[t][n].layout].status
             IN  CASE setting[t][n].status = "ACTIVE" -> used = "ACTIVE"
                   [] setting[t][n].status = "DRAFT" -> used \in {"DRAFT", "ACTIVE"}
                   [] OTHER -> TRUE
  <2>1. RowRight(setting[t][n], layout[t]) /\ layout[t] \in Seq(LayoutVersion)
    BY <1>1 DEF RowsRight
  <2>2. layout[t][setting[t][n].layout] \in LayoutVersion
    BY <2>1, LenProperties DEF RowRight
  <2> QED BY <2>1, <2>2 DEF RowRight, LayoutVersion, VersionStatus
<1>4. LayoutsPaired
  BY <1>1, <1>3 DEF LayoutsPaired, DraftInv, RowsRight
<1> QED BY <1>2, <1>4

\* The draft is the only one, and it has the last number.
LEMMA TheDraft ==
  ASSUME NEW S, NEW rows \in Seq(S), DraftLast(rows), NEW n \in DOMAIN rows,
         rows[n].status = "DRAFT"
  PROVE  n = Len(rows) /\ HasDraft(rows) /\ DraftOf(rows) = rows[n]
<1>1. DOMAIN rows = 1..Len(rows) /\ Len(rows) \in Nat
  BY LenProperties
<1>2. n = Len(rows) /\ rows # <<>>
  BY <1>1, EmptySeq DEF DraftLast
<1> QED BY <1>2 DEF HasDraft, DraftOf

\* A draft, where there is one.
LEMMA DraftRow ==
  ASSUME NEW S, NEW rows \in Seq(S), HasDraft(rows)
  PROVE  /\ Len(rows) \in DOMAIN rows /\ Len(rows) >= 1
         /\ DraftOf(rows) = rows[Len(rows)] /\ DraftOf(rows) \in S
         /\ DraftOf(rows).status = "DRAFT"
<1>1. rows # <<>> /\ rows[Len(rows)].status = "DRAFT"
  BY DEF HasDraft
<1>2. Len(rows) \in Nat \ {0} /\ DOMAIN rows = 1..Len(rows) /\ rows \in [1..Len(rows) -> S]
  BY <1>1, EmptySeq, LenProperties
<1> QED BY <1>1, <1>2 DEF DraftOf

\* A version is changed, added, or neither: what is not a draft stays.
Number(rows) == IF HasDraft(rows) THEN Len(rows) ELSE Len(rows) + 1
Drafting(rows, new) ==
    \/ new = rows
    \/ Len(new) = Number(rows) /\ \A n \in 1..(Len(new) - 1) : new[n] = rows[n]

LEMMA DraftingKeeps ==
  ASSUME NEW S, NEW rows \in Seq(S), NEW new \in Seq(S), DraftLast(rows), Drafting(rows, new)
  PROVE  /\ DraftLast(new) /\ Len(rows) <= Len(new)
         /\ \A n \in DOMAIN rows : rows[n].status # "DRAFT" => n \in DOMAIN new /\ new[n] = rows[n]
         /\ \A n \in DOMAIN new : n # Len(new) =>
               n \in DOMAIN rows /\ new[n] = rows[n] /\ new[n].status # "DRAFT"
<1>1. /\ DOMAIN rows = 1..Len(rows) /\ Len(rows) \in Nat
      /\ DOMAIN new = 1..Len(new) /\ Len(new) \in Nat
  BY LenProperties
<1>2. HasDraft(rows) => Len(rows) >= 1
  BY DraftRow
<1>3. CASE new = rows
  BY <1>1, <1>3 DEF DraftLast
<1>4. CASE Len(new) = Number(rows) /\ \A n \in 1..(Len(new) - 1) : new[n] = rows[n]
  <2>1. ASSUME NEW n \in DOMAIN rows, rows[n].status # "DRAFT" PROVE n < Len(new)
    <3>1. CASE HasDraft(rows)
      <4>1. n # Len(rows)
        BY <2>1, <3>1, DraftRow
      <4> QED BY <1>1, <1>4, <3>1, <4>1 DEF Number
    <3>2. CASE ~HasDraft(rows)
      BY <1>1, <1>4, <3>2 DEF Number
    <3> QED BY <3>1, <3>2
  <2>2. ASSUME NEW n \in DOMAIN new, n # Len(new)
        PROVE  n \in DOMAIN rows /\ new[n] = rows[n] /\ new[n].status # "DRAFT"
    <3>1. n \in 1..(Len(new) - 1)
      BY <1>1, <2>2
    <3>2. n \in DOMAIN rows /\ new[n] = rows[n]
      BY <1>1, <1>4, <3>1 DEF Number
    <3>3. SUFFICES ASSUME rows[n].status = "DRAFT" PROVE FALSE
      BY <3>2
    <3>4. HasDraft(rows) /\ n = Len(rows)
      BY <3>2, <3>3, TheDraft
    <3> QED BY <1>1, <1>4, <3>1, <3>4 DEF Number
  <2>3. DraftLast(new) /\ Len(rows) <= Len(new)
    BY <1>1, <1>4, <2>2 DEF DraftLast, Number
  <2> QED BY <1>1, <1>4, <2>1, <2>2, <2>3
<1> QED BY <1>3, <1>4 DEF Drafting

\* The versions stay right while only drafts change.
LEMMA DraftingRight ==
  ASSUME NEW t, NEW L, NEW M, NEW S, NEW T, RowsRight(t, L, S),
         M \in Seq(LayoutVersion), T \in Seq(SettingVersion), Drafting(L, M), Drafting(S, T),
         HasDraft(M) => HasDraft(T) /\ DraftOf(T).layout = Len(M),
         T # <<>> => RowRight(T[Len(T)], M)
  PROVE  RowsRight(t, M, T)
<1>1. /\ L \in Seq(LayoutVersion) /\ S \in Seq(SettingVersion)
      /\ DraftLast(L) /\ DraftLast(S)
      /\ \A n \in DOMAIN S : RowRight(S[n], L)
  BY DEF RowsRight
<1>2. /\ DraftLast(M) /\ DraftLast(T) /\ Len(S) <= Len(T)
      /\ \A n \in DOMAIN L : L[n].status # "DRAFT" => n \in DOMAIN M /\ M[n] = L[n]
      /\ \A n \in DOMAIN S : S[n].status # "DRAFT" => n \in DOMAIN T /\ T[n] = S[n]
      /\ \A n \in DOMAIN T : n # Len(T) =>
            n \in DOMAIN S /\ T[n] = S[n] /\ T[n].status # "DRAFT"
  BY <1>1, DraftingKeeps
<1>3. /\ DOMAIN L = 1..Len(L) /\ Len(L) \in Nat /\ DOMAIN M = 1..Len(M) /\ Len(M) \in Nat
      /\ Len(L) <= Len(M) /\ DOMAIN T = 1..Len(T) /\ Len(T) \in Nat
      /\ DOMAIN S = 1..Len(S) /\ Len(S) \in Nat
  BY <1>1, LenProperties, DraftingKeeps
<1>4. ASSUME NEW n \in DOMAIN T PROVE RowRight(T[n], M)
  <2>1. CASE n = Len(T)
    BY <1>3, <2>1, EmptySeq
  <2>2. CASE n # Len(T)
    <3>1. n \in DOMAIN S /\ T[n] = S[n] /\ T[n].status # "DRAFT" /\ RowRight(S[n], L)
      BY <1>1, <1>2, <2>2
    <3> QED BY <1>2, <1>3, <3>1 DEF RowRight
  <2> QED BY <2>1, <2>2
<1>5. ASSUME t = Standard
      PROVE  Len(T) >= 1 /\ T[1].layout = 1 /\ T[1].status = "ACTIVE"
  <2>1. Len(S) >= 1 /\ S[1].layout = 1 /\ S[1].status = "ACTIVE"
    BY <1>5 DEF RowsRight
  <2>2. 1 \in DOMAIN S
    BY <1>3, <2>1
  <2> QED BY <1>2, <1>3, <2>1, <2>2
<1> QED BY <1>1, <1>2, <1>4, <1>5 DEF RowsRight

LEMMA DraftingServes ==
  ASSUME NEW t, NEW S, NEW rows \in Seq(S), NEW new \in Seq(S), DraftLast(rows),
         Drafting(rows, new), ActiveOf(t, rows) # {}
  PROVE  ActiveOf(t, new) # {}
<1>1. PICK n \in DOMAIN rows : rows[n].status = "ACTIVE" /\ ~Default(t, n)
  BY DEF ActiveOf
<1>2. n \in DOMAIN new /\ new[n] = rows[n]
  BY <1>1, DraftingKeeps
<1> QED BY <1>1, <1>2 DEF ActiveOf

\* The first versions.
LEMMA FirstRows ==
  ASSUME NEW S, NEW rows \in Seq(S), NEW m \in Nat, m <= Len(rows)
  PROVE  /\ SubSeq(rows, 1, m) \in Seq(S) /\ Len(SubSeq(rows, 1, m)) = m
         /\ \A i \in 1..m : SubSeq(rows, 1, m)[i] = rows[i]
<1>1. rows \in [1..Len(rows) -> S] /\ Len(rows) \in Nat
  BY LenProperties
<1>2. \A i \in 1..m : rows[i] \in S
  BY <1>1
<1>3. /\ SubSeq(rows, 1, m) \in Seq(S)
      /\ Len(SubSeq(rows, 1, m)) = IF 1 <= m THEN m - 1 + 1 ELSE 0
      /\ \A i \in 1..(m - 1 + 1) : SubSeq(rows, 1, m)[i] = rows[1 + i - 1]
  BY <1>2, SubSeqProperties
<1>4. Len(SubSeq(rows, 1, m)) = m
  BY <1>3
<1>5. m - 1 + 1 = m
  OBVIOUS
<1>6. ASSUME NEW i \in 1..m PROVE SubSeq(rows, 1, m)[i] = rows[i]
  <2>1. SubSeq(rows, 1, m)[i] = rows[1 + i - 1]
    BY <1>3, <1>5
  <2>2. 1 + i - 1 = i
    OBVIOUS
  <2> QED BY <2>1, <2>2
<1> QED BY <1>3, <1>4, <1>6

\* A draft written over or added, as installLayoutPackage does.
WithDraft(rows, row) == SubSeq(rows, 1, Number(rows) - 1) \o <<row>>

LEMMA PutRow ==
  ASSUME NEW S, NEW rows \in Seq(S), NEW row \in S
  PROVE  /\ WithDraft(rows, row) \in Seq(S) /\ WithDraft(rows, row) # <<>>
         /\ Drafting(rows, WithDraft(rows, row)) /\ Len(WithDraft(rows, row)) = Number(rows)
         /\ WithDraft(rows, row)[Len(WithDraft(rows, row))] = row
<1> DEFINE new == WithDraft(rows, row)
<1>1. Len(rows) \in Nat
  BY LenProperties
<1>2. PICK m \in Nat : m <= Len(rows) /\ Number(rows) = m + 1
  <2>1. CASE HasDraft(rows)
    <3>1. Number(rows) = Len(rows) /\ Len(rows) >= 1
      BY <2>1, DraftRow DEF Number
    <3>2. Len(rows) - 1 \in Nat /\ Len(rows) - 1 <= Len(rows) /\ Number(rows) = (Len(rows) - 1) + 1
      BY <1>1, <3>1
    <3> QED BY <3>2
  <2>2. CASE ~HasDraft(rows)
    BY <1>1, <2>2 DEF Number
  <2> QED BY <2>1, <2>2
<1> DEFINE head == SubSeq(rows, 1, m)
<1>3. new = head \o <<row>>
  <2>1. Number(rows) - 1 = m
    BY <1>2
  <2> QED BY <2>1 DEF WithDraft
<1>4. head \in Seq(S) /\ Len(head) = m /\ \A i \in 1..m : head[i] = rows[i]
  BY <1>2, FirstRows
<1> DEFINE last == <<row>>
<1>5. last \in Seq(S) /\ Len(last) = 1 /\ last[1] = row
  OBVIOUS
<1> HIDE DEF head, last, new
<1>6. /\ head \o last \in Seq(S) /\ Len(head \o last) = Len(head) + Len(last)
      /\ \A i \in 1..(Len(head) + Len(last)) :
            (head \o last)[i] = IF i <= Len(head) THEN head[i] ELSE last[i - Len(head)]
  BY <1>4, <1>5, ConcatProperties, Zenon
<1>7. /\ new \in Seq(S) /\ Len(new) = Len(head) + Len(last)
      /\ \A i \in 1..(Len(head) + Len(last)) :
            new[i] = IF i <= Len(head) THEN head[i] ELSE last[i - Len(head)]
  BY <1>3, <1>6 DEF last
<1>8. Len(new) = m + 1
  BY <1>4, <1>5, <1>7
<1>9. new[m + 1] = row
  <2>1. m + 1 \in 1..(Len(head) + Len(last)) /\ ~(m + 1 <= Len(head)) /\ m + 1 - Len(head) = 1
    BY <1>4, <1>5
  <2> QED BY <1>4, <1>5, <1>7, <2>1
<1>10. \A i \in 1..(Len(new) - 1) : new[i] = rows[i]
  BY <1>4, <1>5, <1>7, <1>8
<1> QED BY <1>2, <1>7, <1>8, <1>9, <1>10, EmptySeq DEF Drafting, new

\* A draft changed where it is, or taken back.
LEMMA ChangeRow ==
  ASSUME NEW S, NEW rows \in Seq(S), HasDraft(rows), NEW row \in S, NEW new,
         new = [rows EXCEPT ![Len(rows)] = row]
  PROVE  /\ new \in Seq(S) /\ new # <<>> /\ Drafting(rows, new)
         /\ Len(new) = Len(rows) /\ new[Len(new)] = row
<1>1. DOMAIN rows = 1..Len(rows) /\ Len(rows) \in Nat /\ Len(rows) \in 1..Len(rows)
  BY LenProperties, DraftRow
<1>2. /\ new \in Seq(S) /\ Len(new) = Len(rows)
      /\ \A i \in 1..Len(rows) : new[i] = IF i = Len(rows) THEN row ELSE rows[i]
  BY <1>1, ExceptSeq
<1>3. \A i \in 1..(Len(new) - 1) : new[i] = rows[i]
  BY <1>1, <1>2
<1> QED BY <1>1, <1>2, <1>3, EmptySeq, DraftRow DEF Drafting, Number

\* retireActive, and the version that takes over.
TakenOver(t, rows, n, row, new) ==
    /\ Len(new) = Len(rows) /\ DOMAIN new = DOMAIN rows /\ new[n] = row
    /\ \A i \in DOMAIN rows \ {n} :
          new[i] = IF rows[i].status = "ACTIVE" /\ ~Default(t, i)
                   THEN [rows[i] EXCEPT !.status = "RETIRED"] ELSE rows[i]

LEMMA TakesOver ==
  ASSUME NEW S, NEW rows \in Seq(S), NEW t, NEW n \in DOMAIN rows, NEW row \in S, NEW new,
         \A r \in S : [r EXCEPT !.status = "RETIRED"] \in S,
         new = [Retired(t, rows) EXCEPT ![n] = row]
  PROVE  new \in Seq(S) /\ TakenOver(t, rows, n, row, new)
<1>1. DOMAIN rows = 1..Len(rows) /\ Len(rows) \in Nat /\ rows \in [1..Len(rows) -> S]
  BY LenProperties
<1>2. \A i \in 1..Len(rows) : rows[i] \in S /\ [rows[i] EXCEPT !.status = "RETIRED"] \in S
  BY <1>1
<1>3. /\ Retired(t, rows) \in [1..Len(rows) -> S]
      /\ \A i \in 1..Len(rows) :
            Retired(t, rows)[i] = IF rows[i].status = "ACTIVE" /\ ~Default(t, i)
                                  THEN [rows[i] EXCEPT !.status = "RETIRED"] ELSE rows[i]
  <2>1. \A i \in 1..Len(rows) : i \in ActiveOf(t, rows) <=>
            rows[i].status = "ACTIVE" /\ ~Default(t, i)
    BY <1>1 DEF ActiveOf
  <2> QED BY <1>1, <1>2, <2>1 DEF Retired
<1>4. Retired(t, rows) \in Seq(S)
  BY <1>1, <1>3, SeqDef
<1>5. Len(Retired(t, rows)) = Len(rows)
  <2>1. DOMAIN Retired(t, rows) = 1..Len(Retired(t, rows)) /\ Len(Retired(t, rows)) \in Nat
    BY <1>4, LenProperties
  <2>2. 1..Len(Retired(t, rows)) = 1..Len(rows)
    BY <1>3, <2>1
  <2>3. \A a, b \in Nat : 1..a = 1..b => a = b
    <3>1. \A a, b \in Nat : a < b => b \in 1..b /\ b \notin 1..a
      OBVIOUS
    <3>2. \A a, b \in Nat : a = b \/ a < b \/ b < a
      OBVIOUS
    <3> QED BY <3>1, <3>2
  <2> QED BY <1>1, <2>1, <2>2, <2>3
<1>6. /\ new \in Seq(S) /\ Len(new) = Len(rows)
      /\ \A i \in 1..Len(rows) : new[i] = IF i = n THEN row ELSE Retired(t, rows)[i]
  BY <1>1, <1>4, <1>5, ExceptSeq
<1>7. DOMAIN new = 1..Len(rows)
  BY <1>6, LenProperties
<1>8. \A i \in 1..Len(rows) \ {n} : new[i] = Retired(t, rows)[i]
  BY <1>6
<1> QED BY <1>1, <1>3, <1>6, <1>7, <1>8 DEF TakenOver

\* activateTemplate, on the versions of a type.
Activated(layouts, row) ==
    [row EXCEPT !.status = "ACTIVE",
        !.built = <<row.structure, layouts[row.layout].files>>,
        !.shown = layouts[row.layout].files]

SettingsAfter(t, layouts, settings) ==
    [Retired(t, settings) EXCEPT ![Len(settings)] = Activated(layouts, DraftOf(settings))]

LayoutsAfter(t, layouts, n) ==
    IF layouts[n].status = "DRAFT" THEN [Retired(t, layouts) EXCEPT ![n].status = "ACTIVE"]
    ELSE layouts

LEMMA ActivateRows ==
  ASSUME NEW t, NEW L, NEW S, RowsRight(t, L, S), HasDraft(S), NEW M, NEW T,
         T = SettingsAfter(t, L, S), M = LayoutsAfter(t, L, DraftOf(S).layout)
  PROVE  /\ RowsRight(t, M, T) /\ ~HasDraft(T) /\ DOMAIN M = DOMAIN L
         /\ t # Standard => ActiveOf(t, T) # {}
<1> DEFINE row == Activated(L, DraftOf(S))
<1>0. /\ T = [Retired(t, S) EXCEPT ![Len(S)] = row]
      /\ M = IF L[DraftOf(S).layout].status = "DRAFT"
             THEN [Retired(t, L) EXCEPT ![DraftOf(S).layout].status = "ACTIVE"] ELSE L
  BY DEF SettingsAfter, LayoutsAfter
<1> DEFINE n == DraftOf(S).layout last == Len(S)
<1>1. /\ L \in Seq(LayoutVersion) /\ S \in Seq(SettingVersion)
      /\ DraftLast(L) /\ DraftLast(S) /\ \A i \in DOMAIN S : RowRight(S[i], L)
      /\ HasDraft(L) => n = Len(L)
  BY DEF RowsRight
<1>2. /\ DOMAIN S = 1..last /\ last \in 1..last /\ last \in Nat /\ S[last] = DraftOf(S)
      /\ DraftOf(S) \in SettingVersion /\ DraftOf(S).status = "DRAFT"
      /\ S \in [1..last -> SettingVersion]
  BY <1>1, DraftRow, LenProperties
<1>3. n \in DOMAIN L /\ L[n] \in LayoutVersion /\ L[n].status \in {"DRAFT", "ACTIVE"}
  <2>1. RowRight(S[last], L)
    BY <1>1, <1>2
  <2>2. n \in DOMAIN L /\ L[n].status # "RETIRED"
    BY <1>2, <2>1 DEF RowRight
  <2>3. L[n] \in LayoutVersion
    BY <1>1, <2>2, LenProperties
  <2> QED BY <2>2, <2>3 DEF LayoutVersion, VersionStatus
<1>4. /\ row \in SettingVersion /\ row.status = "ACTIVE" /\ row.layout = n
      /\ row.built = <<row.structure, L[n].files>> /\ row.shown = L[n].files
  <2>1. L[n].files \in Nat
    BY <1>3 DEF LayoutVersion
  <2> QED BY <1>2, <2>1 DEF SettingVersion, VersionStatus, Activated
<1> HIDE DEF row
<1>5. \A r \in SettingVersion : [r EXCEPT !.status = "RETIRED"] \in SettingVersion
  BY DEF SettingVersion, VersionStatus
<1>6. /\ T \in Seq(SettingVersion) /\ Len(T) = last /\ DOMAIN T = DOMAIN S /\ T[last] = row
      /\ \A i \in DOMAIN S \ {last} :
            T[i] = IF S[i].status = "ACTIVE" /\ ~Default(t, i)
                   THEN [S[i] EXCEPT !.status = "RETIRED"] ELSE S[i]
  <2>1. last \in DOMAIN S
    BY <1>2
  <2>2. T \in Seq(SettingVersion) /\ TakenOver(t, S, last, row, T)
    BY <1>0, <1>1, <2>1, <1>4, <1>5, TakesOver, Zenon
  <2> QED BY <2>2 DEF TakenOver
<1>7. /\ M \in Seq(LayoutVersion) /\ DOMAIN M = DOMAIN L /\ ~HasDraft(M) /\ DraftLast(M)
      /\ M[n].status = "ACTIVE" /\ \A i \in DOMAIN L : M[i].files = L[i].files
      /\ \A i \in DOMAIN L : Default(t, i) /\ L[i].status = "ACTIVE" => M[i] = L[i]
  <2>1. CASE L[n].status = "DRAFT"
    <3> DEFINE taken == [L[n] EXCEPT !.status = "ACTIVE"]
    <3>1. Retired(t, L)[n] = L[n] /\ DOMAIN Retired(t, L) = DOMAIN L
      BY <1>3, <2>1 DEF Retired, ActiveOf
    <3>2. M = [Retired(t, L) EXCEPT ![n] = taken] /\ taken \in LayoutVersion
      BY <1>0, <1>3, <2>1, <3>1 DEF LayoutVersion, VersionStatus
    <3>3. \A r \in LayoutVersion : [r EXCEPT !.status = "RETIRED"] \in LayoutVersion
      BY DEF LayoutVersion, VersionStatus
    <3> HIDE DEF taken
    <3>4. /\ M \in Seq(LayoutVersion) /\ Len(M) = Len(L) /\ DOMAIN M = DOMAIN L /\ M[n] = taken
          /\ \A i \in DOMAIN L \ {n} :
                M[i] = IF L[i].status = "ACTIVE" /\ ~Default(t, i)
                       THEN [L[i] EXCEPT !.status = "RETIRED"] ELSE L[i]
      <4>1. M \in Seq(LayoutVersion) /\ TakenOver(t, L, n, taken, M)
        BY <1>1, <1>3, <3>2, <3>3, TakesOver, Zenon
      <4> QED BY <4>1 DEF TakenOver
    <3>5. n = Len(L) /\ taken.status = "ACTIVE" /\ taken.files = L[n].files
      BY <1>1, <1>3, <2>1, TheDraft DEF taken, LayoutVersion
    <3>6. \A i \in DOMAIN L : L[i] \in LayoutVersion /\ (i # n => L[i].status # "DRAFT")
      BY <1>1, <3>5, TheDraft, LenProperties
    <3>7. \A i \in DOMAIN L : M[i].status # "DRAFT" /\ M[i].files = L[i].files
      BY <3>4, <3>5, <3>6 DEF LayoutVersion
    <3>8. ~HasDraft(M) /\ DraftLast(M)
      <4>1. \A i \in DOMAIN M : M[i].status # "DRAFT"
        BY <3>4, <3>7
      <4>2. M \in Seq(LayoutVersion)
        BY <3>4
      <4>3. ~HasDraft(M)
        BY <4>1, <4>2, DraftRow
      <4> QED BY <4>1, <4>3 DEF DraftLast
    <3> QED BY <3>4, <3>5, <3>7, <3>8, <2>1
  <2>2. CASE L[n].status = "ACTIVE"
    <3>1. ~HasDraft(L)
      BY <1>1, <2>2, DraftRow
    <3> QED BY <1>0, <1>1, <1>3, <2>2, <3>1
  <2> QED BY <1>3, <2>1, <2>2
<1>8. \A i \in DOMAIN T : i # last => T[i].status # "DRAFT"
  <2>1. \A i \in DOMAIN S : i # last => S[i].status # "DRAFT" /\ S[i] \in SettingVersion
    BY <1>1, <1>2, TheDraft
  <2> QED BY <1>6, <2>1 DEF SettingVersion
<1>9. ~HasDraft(T) /\ DraftLast(T)
  BY <1>2, <1>4, <1>6, <1>8, DraftRow DEF DraftLast
<1>10. ASSUME NEW i \in DOMAIN T PROVE RowRight(T[i], M)
  <2>1. CASE i = last
    BY <1>3, <1>4, <1>6, <1>7, <2>1 DEF RowRight
  <2>2. CASE i # last /\ T[i].status = "ACTIVE"
    <3>1. T[i] = S[i] /\ Default(t, i) /\ RowRight(S[i], L) /\ S[i] \in SettingVersion
      <4>1. i \in DOMAIN S \ {last} /\ S[i] \in SettingVersion /\ RowRight(S[i], L)
        BY <1>1, <1>2, <1>6, <2>2
      <4>2. [S[i] EXCEPT !.status = "RETIRED"].status = "RETIRED"
        BY <4>1 DEF SettingVersion
      <4> QED BY <1>6, <2>2, <4>1, <4>2
    <3>2. S[i].layout = 1
      BY <3>1 DEF Default, RowsRight
    <3>3. L[1].status = "ACTIVE" /\ 1 \in DOMAIN L /\ Default(t, 1) /\ M[1] = L[1]
      BY <1>7, <2>2, <3>1, <3>2 DEF RowRight, Default
    <3> QED BY <1>7, <2>2, <3>1, <3>2, <3>3 DEF RowRight
  <2>3. CASE i # last /\ T[i].status # "ACTIVE"
    <3>1. T[i].layout = S[i].layout
      <4>1. i \in DOMAIN S \ {last} /\ S[i] \in SettingVersion
        BY <1>1, <1>2, <1>6, <2>3
      <4>2. [S[i] EXCEPT !.status = "RETIRED"].layout = S[i].layout
        BY <4>1 DEF SettingVersion
      <4> QED BY <1>6, <4>1, <4>2
    <3>2. T[i].layout \in DOMAIN L
      BY <1>1, <1>6, <3>1 DEF RowRight
    <3> QED BY <1>7, <1>8, <2>3, <3>2 DEF RowRight
  <2> QED BY <2>1, <2>2, <2>3
<1>11. ASSUME t = Standard
       PROVE  Len(T) >= 1 /\ T[1].layout = 1 /\ T[1].status = "ACTIVE"
  <2>1. S[1].layout = 1 /\ S[1].status = "ACTIVE" /\ 1 \in DOMAIN S
    BY <1>2, <1>11 DEF RowsRight
  <2>2. 1 # last /\ Default(t, 1)
    BY <1>2, <1>11, <2>1 DEF Default
  <2>3. T[1] = S[1]
    BY <1>6, <2>1, <2>2
  <2> QED BY <1>2, <1>6, <2>1, <2>3
<1>12. t # Standard => last \in ActiveOf(t, T)
  BY <1>2, <1>4, <1>6 DEF ActiveOf, Default
<1> QED BY <1>6, <1>7, <1>9, <1>10, <1>11, <1>12 DEF RowsRight

-----------------------------------------------------------------------------
(* The steps.                                                              *)

\* What a version in use is.
LEMMA InUseRows ==
  ASSUME DraftInv, NEW t \in Type, NEW n \in InUse(t)
  PROVE  n \in DOMAIN setting[t] /\ setting[t][n].status = "ACTIVE"
<1>1. RowsRight(t, layout[t], setting[t])
  BY DEF DraftInv
<1>2. CASE n \in ActiveOf(t, setting[t])
  BY <1>2 DEF ActiveOf
<1>3. CASE n \in DOMAIN setting[t] /\ Default(t, n)
  BY <1>1, <1>3 DEF Default, RowsRight
<1> QED BY <1>2, <1>3 DEF InUse

\* What a page shows.
LEMMA PageOfRight ==
  ASSUME NEW t \in Type, NEW L, NEW S, NEW N, RowsRight(t, L, S), N \subseteq DOMAIN S
  PROVE  /\ PageOf(t, L, S, N) \in Page
         /\ PageOf(t, L, S, N).type = t /\ PageOf(t, L, S, N).token = TokenOf(S)
         /\ HasDraft(S) => PageOf(t, L, S, N).files = L[DraftOf(S).layout].files
<1> DEFINE shows == IF HasDraft(S) THEN {Len(S)} ELSE N
           row == S[CHOOSE n \in shows : TRUE]
<1>1. L \in Seq(LayoutVersion) /\ S \in Seq(SettingVersion) /\ \A n \in DOMAIN S : RowRight(S[n], L)
  BY DEF RowsRight
<1>2. \A n \in DOMAIN S : S[n] \in SettingVersion /\ L[S[n].layout] \in LayoutVersion
  BY <1>1, LenProperties DEF RowRight
<1>3. shows \subseteq DOMAIN S
  BY <1>1, DraftRow
<1>4. shows # {} => row.structure \in Nat /\ L[row.layout].files \in Nat
  <2>1. shows # {} => (CHOOSE n \in shows : TRUE) \in DOMAIN S
    BY <1>3
  <2> QED BY <1>2, <2>1 DEF SettingVersion, LayoutVersion
<1>5. TokenOf(S) \in Nat /\ TokenOf(L) \in Nat /\ Len(S) \in Nat
  <2>1. /\ HasDraft(S) => DraftOf(S) \in SettingVersion
        /\ HasDraft(L) => DraftOf(L) \in LayoutVersion
    BY <1>1, DraftRow
  <2>2. /\ HasDraft(S) => DraftOf(S).token \in Nat
        /\ HasDraft(L) => DraftOf(L).token \in Nat
    BY <2>1 DEF SettingVersion, LayoutVersion
  <2> QED BY <1>1, <2>1, <2>2, LenProperties DEF TokenOf
<1>6. HasDraft(S) => shows = {Len(S)} /\ row = DraftOf(S)
  BY DEF DraftOf
<1>7. PageOf(t, L, S, N) =
        [type |-> t, token |-> TokenOf(S), seen |-> TokenOf(S),
         draft |-> IF HasDraft(S) THEN Len(S) ELSE 0, upload |-> TokenOf(L),
         saw |-> IF shows = {} THEN 0 ELSE row.structure,
         files |-> IF shows = {} THEN 0 ELSE L[row.layout].files]
  BY DEF PageOf
<1> HIDE DEF shows, row
<1>8. PageOf(t, L, S, N) \in Page
  BY <1>4, <1>5, <1>7 DEF Page
<1> QED BY <1>6, <1>7, <1>8

\* Nothing is written to the versions: only what p knows of them may change.
LEMMA Elsewhere ==
  ASSUME DraftInv, TemplatesTypeOK', UNCHANGED <<layout, setting>>, clock' >= clock,
         NEW p \in Editor, \A q \in Editor \ {p} : page'[q] = page[q] /\ task'[q] = task[q],
         page'[p].token <= clock', PageRight(p)', ActivationRight(p)'
  PROVE  DraftInv'
<1>1. \A t \in Type : RowsRight(t, layout[t], setting[t])'
  BY DEF DraftInv
<1>2. TokensPast'
  <2>1. clock \in Nat /\ clock' \in Nat
    BY DEF DraftInv, TemplatesTypeOK
  <2>2. \A q \in Editor \ {p} : page'[q].token <= clock'
    <3>1. \A q \in Editor : page[q].token \in Nat /\ page[q].token <= clock
      BY DEF DraftInv, TemplatesTypeOK, TokensPast, Page
    <3> QED BY <2>1, <3>1
  <2>3. \A t \in Type : HasDraft(setting[t]) => DraftOf(setting[t]).token <= clock'
    <3>1. \A t \in Type : HasDraft(setting[t]) => DraftOf(setting[t]) \in SettingVersion
      BY DraftRow DEF DraftInv, RowsRight
    <3>2. \A t \in Type : HasDraft(setting[t]) => DraftOf(setting[t]).token \in Nat
      BY <3>1 DEF SettingVersion
    <3> QED BY <2>1, <3>2 DEF DraftInv, TokensPast
  <2> QED BY <2>2, <2>3 DEF TokensPast
<1>3. \A q \in Editor \ {p} : PageRight(q)' /\ ActivationRight(q)'
  BY DEF DraftInv, PageRight, ActivationRight, Drafted, FilesOfDraft
<1> QED BY <1>1, <1>2, <1>3 DEF DraftInv

\* Only the task of p.
LEMMA TaskOnly ==
  ASSUME DraftInv, NEW p \in Editor, NEW k \in Task, task' = [task EXCEPT ![p] = k],
         UNCHANGED <<family, layout, setting, ban, page, clock>>, ActivationRight(p)'
  PROVE  DraftInv'
<1>1. TemplatesTypeOK'
  BY DEF DraftInv, TemplatesTypeOK
<1>2. \A q \in Editor \ {p} : task'[q] = task[q]
  BY DEF DraftInv, TemplatesTypeOK
<1>3. PageRight(p)' /\ page'[p].token <= clock' /\ clock' >= clock
  BY DEF DraftInv, PageRight, Drafted, FilesOfDraft, TokensPast, TemplatesTypeOK
<1> QED BY <1>1, <1>2, <1>3, Elsewhere

\* The versions of t are written, in the last step of an operation of p: what
\* anybody else has read of a draft is no longer that of a draft.
LEMMA Rewritten ==
  ASSUME DraftInv, TemplatesTypeOK', clock' >= clock, NEW t \in Type,
         \A u \in Type \ {t} : layout'[u] = layout[u] /\ setting'[u] = setting[u],
         RowsRight(t, layout[t], setting[t])', DOMAIN layout[t] \subseteq DOMAIN layout'[t],
         HasDraft(setting'[t]) => /\ clock < DraftOf(setting'[t]).token
                                  /\ DraftOf(setting'[t]).token <= clock',
         NEW p \in Editor, \A q \in Editor \ {p} : page'[q] = page[q] /\ task'[q] = task[q],
         task'[p] = NoTask, page'[p].token <= clock', page'[p] = page[p] \/ PageRight(p)',
         t # Standard /\ ActiveOf(t, setting[t]) # {} => ActiveOf(t, setting'[t]) # {}
  PROVE  DraftInv' /\ StillServed
<1>1. \A u \in Type : RowsRight(u, layout[u], setting[u])'
  BY DEF DraftInv
<1>2. clock \in Nat /\ clock' \in Nat /\ \A q \in Editor : page[q] \in Page
  BY DEF DraftInv, TemplatesTypeOK
<1>3. \A q \in Editor : page[q].token \in Nat /\ page[q].type \in Type /\ page[q].token <= clock
  BY <1>2 DEF DraftInv, TokensPast, Page
<1>4. \A u \in Type : HasDraft(setting'[u]) => DraftOf(setting'[u]).token \in Nat
  <2>1. \A u \in Type : HasDraft(setting'[u]) => DraftOf(setting'[u]) \in SettingVersion
    BY <1>1, DraftRow DEF RowsRight
  <2> QED BY <2>1 DEF SettingVersion
<1>5. TokensPast'
  <2>1. \A u \in Type : HasDraft(setting'[u]) => DraftOf(setting'[u]).token <= clock'
    BY <1>2, <1>4 DEF DraftInv, TokensPast
  <2>2. \A q \in Editor : page'[q].token <= clock'
    BY <1>2, <1>3
  <2> QED BY <2>1, <2>2 DEF TokensPast
<1>6. \A n \in Nat : n <= clock => ~Drafted(t, n)'
  BY <1>2, <1>4 DEF Drafted
<1>7. \A u \in Type, n \in Nat : n <= clock /\ Drafted(u, n)' =>
        u # t /\ Drafted(u, n) /\ FilesOfDraft(u)' = FilesOfDraft(u)
  BY <1>6 DEF Drafted, FilesOfDraft
<1>8. \A q \in Editor : page'[q] = page[q] => PageRight(q)'
  BY <1>3, <1>7 DEF PageRight, DraftInv
<1>9. ASSUME NEW q \in Editor \ {p} PROVE ActivationRight(q)'
  <2>1. SUFFICES ASSUME task[q].op = "activate" PROVE ActivationRight(q)'
    BY DEF ActivationRight
  <2>2. task'[q] = task[q] /\ page'[q] = page[q] /\ ActivationRight(q) /\ task[q].type \in Type
    BY <1>3, <2>1 DEF DraftInv, ActivationRight
  <2>3. task[q].layout \in DOMAIN layout'[task[q].type]
    BY <2>1, <2>2 DEF ActivationRight
  <2>4. ASSUME Drafted(task[q].type, page[q].token)'
        PROVE  /\ task[q].type # t /\ Drafted(task[q].type, page[q].token)
               /\ layout'[task[q].type] = layout[task[q].type]
               /\ setting'[task[q].type] = setting[task[q].type]
    BY <1>3, <1>7, <2>2, <2>4
  <2> QED BY <2>1, <2>2, <2>3, <2>4 DEF ActivationRight, FilesOfDraft
<1>10. ActivationRight(p)'
  BY DEF ActivationRight, NoTask
<1>11. StillServed
  BY DEF StillServed
<1> QED BY <1>1, <1>5, <1>8, <1>9, <1>10, <1>11 DEF DraftInv

LEMMA NoTaskTyped == NoTask \in Task
<1>1. (CHOOSE b \in Ban : TRUE) \in Ban
  BY TemplatesAssumption
<1> QED BY <1>1, TemplatesAssumption DEF NoTask, Task, Operation, Binding

LEMMA InitDrafts == TemplatesInit => DraftInv
<1> SUFFICES ASSUME TemplatesInit PROVE DraftInv
  OBVIOUS
<1> DEFINE first == [status |-> "ACTIVE", files |-> 0, token |-> 0]
           use == [status |-> "ACTIVE", structure |-> 0, layout |-> 1,
                   token |-> 0, built |-> <<0, 0>>, shown |-> 0]
<1>1. \A t \in Type : /\ layout[t] = IF t = Standard THEN <<first>> ELSE <<>>
                      /\ setting[t] = IF t = Standard THEN <<use>> ELSE <<>>
  BY DEF TemplatesInit
<1>2. first \in LayoutVersion /\ use \in SettingVersion
  BY DEF LayoutVersion, SettingVersion, VersionStatus
<1>3. /\ first.status = "ACTIVE" /\ first.files = 0
      /\ use.status = "ACTIVE" /\ use.layout = 1 /\ use.structure = 0 /\ use.built = <<0, 0>>
      /\ use.shown = 0
  OBVIOUS
<1> HIDE DEF first, use
<1>4. /\ <<first>> \in Seq(LayoutVersion) /\ <<use>> \in Seq(SettingVersion)
      /\ Len(<<first>>) = 1 /\ Len(<<use>>) = 1 /\ <<first>>[1] = first /\ <<use>>[1] = use
      /\ DOMAIN <<first>> = {1} /\ DOMAIN <<use>> = {1}
  BY <1>2
<1>5. <<>> \in Seq(LayoutVersion) /\ <<>> \in Seq(SettingVersion) /\ DOMAIN <<>> = {}
  OBVIOUS
<1>6. RowRight(use, <<first>>)
  BY <1>3, <1>4 DEF RowRight
<1>7. ASSUME NEW t \in Type
      PROVE  RowsRight(t, layout[t], setting[t]) /\ ~HasDraft(setting[t])
  <2>1. CASE t = Standard
    <3>1. layout[t] = <<first>> /\ setting[t] = <<use>>
      BY <1>1, <2>1
    <3>2. ~HasDraft(<<first>>) /\ ~HasDraft(<<use>>)
      BY <1>3, <1>4 DEF HasDraft
    <3>3. DraftLast(<<first>>) /\ DraftLast(<<use>>)
      BY <1>4 DEF DraftLast
    <3>4. \A n \in DOMAIN <<use>> : RowRight(<<use>>[n], <<first>>)
      BY <1>4, <1>6
    <3>5. Len(<<use>>) >= 1 /\ <<use>>[1].layout = 1 /\ <<use>>[1].status = "ACTIVE"
      BY <1>3, <1>4
    <3> QED BY <1>4, <3>1, <3>2, <3>3, <3>4, <3>5 DEF RowsRight
  <2>2. CASE t # Standard
    BY <1>1, <1>5, <2>2 DEF RowsRight, HasDraft, DraftLast
  <2> QED BY <2>1, <2>2
<1>8. TemplatesTypeOK
  <2>1. /\ layout \in [Type -> Seq(LayoutVersion)] /\ setting \in [Type -> Seq(SettingVersion)]
        /\ \A t \in Type : \A n \in DOMAIN setting[t] : setting[t][n].layout \in DOMAIN layout[t]
    <3>1. \A t \in Type : layout[t] \in Seq(LayoutVersion) /\ setting[t] \in Seq(SettingVersion)
      BY <1>7 DEF RowsRight
    <3>2. layout = [t \in Type |-> layout[t]] /\ setting = [t \in Type |-> setting[t]]
      BY DEF TemplatesInit
    <3> QED BY <1>7, <3>1, <3>2 DEF RowsRight, RowRight
  <2> QED BY <2>1, NoTaskTyped, TemplatesAssumption
          DEF TemplatesInit, TemplatesTypeOK, Page, Binding
<1>9. TokensPast /\ \A p \in Editor : PageRight(p) /\ ActivationRight(p)
  <2>1. \A p \in Editor : page[p].token = 0 /\ page[p].type = Standard /\ task[p].op = "none"
    BY DEF TemplatesInit, NoTask
  <2>2. clock = 0
    BY DEF TemplatesInit
  <2>3. \A t \in Type : \A n : ~Drafted(t, n)
    BY <1>7 DEF Drafted
  <2>4. TokensPast
    BY <1>7, <2>1, <2>2 DEF TokensPast
  <2>5. \A p \in Editor : PageRight(p) /\ ActivationRight(p)
    BY <2>1, <2>3, TemplatesAssumption DEF PageRight, ActivationRight
  <2> QED BY <2>4, <2>5
<1> QED BY <1>7, <1>8, <1>9 DEF DraftInv

\* The steps that only take note, lock or give up.
LEMMA TaskStepKeeps ==
  ASSUME DraftInv, NEW p \in Editor,
         \/ Acquire(p) \/ GiveUp(p) \/ LoadLayout(p) \/ Judge(p) \/ BeginActivate(p)
         \/ \E op \in {"save", "discard"} : BeginEdit(p, op)
         \/ \E op \in {"upload", "restore"} : BeginUpload(p, op)
         \/ \E t \in Type : \/ \E b \in Ban : BeginBind(p, b, t)
                            \/ \E u \in Type : BeginRetire(p, t, u)
  PROVE  DraftInv'
<1>1. /\ task \in [Editor -> Task] /\ task[p] \in Task /\ page[p] \in Page
      /\ page[p].type \in Type /\ ActivationRight(p)
      /\ \A t \in Type : RowsRight(t, layout[t], setting[t])
  BY DEF DraftInv, TemplatesTypeOK, Page
<1> USE <1>1
<1>2. CASE Acquire(p)
  <2> DEFINE k == [task[p] EXCEPT !.got = @ + 1]
  <2>1. k \in Task /\ task' = [task EXCEPT ![p] = k]
    BY <1>2 DEF Acquire, Task
  <2>2. ActivationRight(p)'
    <3>1. /\ k.op = task[p].op /\ k.type = task[p].type /\ k.layout = task[p].layout
          /\ k.structure = task[p].structure /\ k.files = task[p].files /\ k.pair = task[p].pair
          /\ k.loaded = task[p].loaded /\ task'[p] = k
      BY <2>1 DEF Task
    <3> HIDE DEF k
    <3> QED BY <1>2, <3>1 DEF Acquire, ActivationRight, Drafted, FilesOfDraft
  <2> HIDE DEF k
  <2> QED BY <1>2, <2>1, <2>2, TaskOnly DEF Acquire
<1>3. CASE GiveUp(p)
  <2>1. task' = [task EXCEPT ![p] = NoTask] /\ task'[p] = NoTask
    BY <1>3 DEF GiveUp, Done
  <2>2. ActivationRight(p)'
    BY <2>1 DEF ActivationRight, NoTask
  <2> QED BY <1>3, <2>1, <2>2, NoTaskTyped, TaskOnly DEF GiveUp
<1>4. CASE LoadLayout(p)
  <2> DEFINE row == layout[task[p].type][task[p].layout]
             k == [task[p] EXCEPT !.loaded = TRUE, !.files = row.files,
                                  !.pair = row.status = "DRAFT"]
  <2>1. task[p].op = "activate" /\ task[p].type \in Type /\ row \in LayoutVersion
    <3>1. task[p].op = "activate" /\ task[p].type \in Type
      BY <1>4 DEF LoadLayout, Task
    <3>2. layout[task[p].type] \in Seq(LayoutVersion)
      BY <3>1 DEF RowsRight
    <3> QED BY <3>1, <3>2, LenProperties DEF ActivationRight
  <2>2. k \in Task /\ task' = [task EXCEPT ![p] = k]
    <3>1. row.files \in Nat /\ (row.status = "DRAFT") \in BOOLEAN
      BY <2>1 DEF LayoutVersion
    <3> HIDE DEF row
    <3>2. k \in Task
      BY <3>1 DEF Task
    <3>3. task' = [task EXCEPT ![p] = k]
      BY <1>4 DEF LoadLayout, row
    <3> QED BY <3>2, <3>3
  <2>3. /\ k.op = task[p].op /\ k.type = task[p].type /\ k.layout = task[p].layout
        /\ k.structure = task[p].structure /\ k.files = row.files
        /\ (k.pair <=> row.status = "DRAFT") /\ task'[p] = k
    BY <2>2 DEF Task
  <2>4. ActivationRight(p)'
    <3> HIDE DEF k
    <3> QED BY <1>4, <2>3 DEF LoadLayout, ActivationRight, Drafted, FilesOfDraft
  <2> HIDE DEF k
  <2> QED BY <1>4, <2>2, <2>4, TaskOnly DEF LoadLayout
<1>5. CASE Judge(p)
  <2> DEFINE k == [task[p] EXCEPT !.loaded = TRUE]
  <2>1. k \in Task /\ task' = [task EXCEPT ![p] = k] /\ k.op \in {"bind", "retire"}
    BY <1>5 DEF Judge, Task, Ready
  <2>2. ActivationRight(p)'
    BY <2>1 DEF ActivationRight
  <2> HIDE DEF k
  <2> QED BY <1>5, <2>1, <2>2, TaskOnly DEF Judge
<1>6. CASE BeginActivate(p)
  <2> DEFINE draft == DraftOf(setting[page[p].type])
             k == [NoTask EXCEPT !.op = "activate", !.type = page[p].type,
                      !.structure = draft.structure, !.layout = draft.layout]
  <2>1. /\ draft \in SettingVersion /\ draft.layout \in DOMAIN layout[page[p].type]
    <3>1. setting[page[p].type] \in Seq(SettingVersion) /\ HasDraft(setting[page[p].type])
      BY <1>6 DEF BeginActivate, RowsRight
    <3>2. /\ draft \in SettingVersion /\ Len(setting[page[p].type]) \in DOMAIN setting[page[p].type]
          /\ draft = setting[page[p].type][Len(setting[page[p].type])]
      BY <3>1, DraftRow
    <3> QED BY <3>2 DEF RowsRight, RowRight
  <2>2. draft.structure \in Nat /\ draft.layout \in Nat
    BY <2>1 DEF SettingVersion
  <2>3. task' = [task EXCEPT ![p] = k]
    BY <1>6 DEF BeginActivate, BeginTask
  <2> HIDE DEF draft
  <2>4. /\ k \in Task /\ k.op = "activate" /\ k.type = page[p].type /\ ~k.loaded
        /\ k.structure = draft.structure /\ k.layout = draft.layout
    BY <2>2, NoTaskTyped DEF Task, Operation, NoTask
  <2> HIDE DEF k
  <2>5. ActivationRight(p)'
    BY <1>6, <2>1, <2>3, <2>4 DEF BeginActivate, BeginTask, ActivationRight, draft
  <2> QED BY <1>6, <2>3, <2>4, <2>5, TaskOnly DEF BeginActivate, BeginTask
<1>7. ASSUME NEW k \in Task, BeginTask(p, k), k.op # "activate" PROVE DraftInv'
  <2>1. task'[p] = k /\ task' = [task EXCEPT ![p] = k]
    BY <1>7 DEF BeginTask
  <2>2. ActivationRight(p)'
    BY <1>7, <2>1 DEF ActivationRight
  <2> QED BY <1>7, <2>1, <2>2, TaskOnly DEF BeginTask
<1>8. ASSUME NEW op \in {"save", "discard"}, BeginEdit(p, op) PROVE DraftInv'
  <2> DEFINE k == [NoTask EXCEPT !.op = op, !.type = page[p].type]
  <2>1. k \in Task /\ k.op = op
    BY NoTaskTyped DEF Task, Operation
  <2> QED BY <1>7, <1>8, <2>1 DEF BeginEdit
<1>9. ASSUME NEW op \in {"upload", "restore"}, BeginUpload(p, op) PROVE DraftInv'
  <2> DEFINE n == UploadNo(page[p].type)
             k == [NoTask EXCEPT !.op = op, !.type = page[p].type, !.layout = n]
  <2>1. n \in Nat
    BY LenProperties DEF UploadNo, RowsRight
  <2> HIDE DEF n
  <2>2. k \in Task /\ k.op = op
    BY <2>1, NoTaskTyped DEF Task, Operation
  <2> QED BY <1>7, <1>9, <2>2 DEF BeginUpload, n
<1>10. ASSUME NEW t \in Type, NEW b \in Ban, BeginBind(p, b, t) PROVE DraftInv'
  <2> DEFINE k == [NoTask EXCEPT !.op = "bind", !.type = t, !.ban = b, !.was = ban[b]]
  <2>1. ban[b] \in Binding
    BY DEF DraftInv, TemplatesTypeOK
  <2>2. k \in Task /\ k.op = "bind"
    BY <2>1, NoTaskTyped DEF Task, Operation
  <2> QED BY <1>7, <1>10, <2>2 DEF BeginBind
<1>11. ASSUME NEW t \in Type, NEW u \in Type, BeginRetire(p, t, u) PROVE DraftInv'
  <2> DEFINE k == [NoTask EXCEPT !.op = "retire", !.type = t, !.target = u]
  <2>1. k \in Task /\ k.op = "retire"
    BY NoTaskTyped DEF Task, Operation
  <2> QED BY <1>7, <1>11, <2>1 DEF BeginRetire
<1> QED BY <1>2, <1>3, <1>4, <1>5, <1>6, <1>8, <1>9, <1>10, <1>11

\* The steps that write types, bindings or what a page shows.
LEMMA CreateTypeKeeps ==
  ASSUME DraftInv, NEW t \in Type, CreateType(t)
  PROVE  DraftInv'
<1>1. TemplatesTypeOK'
  BY DEF CreateType, DraftInv, TemplatesTypeOK
<1>2. UNCHANGED <<layout, setting, page, task, clock>>
  BY DEF CreateType
<1> QED BY <1>1, <1>2 DEF DraftInv, TokensPast, PageRight, ActivationRight, Drafted, FilesOfDraft

LEMMA BindingsKeep ==
  ASSUME DraftInv, NEW p \in Editor, BindTemplate(p) \/ RetireType(p)
  PROVE  DraftInv'
<1>1. /\ task \in [Editor -> Task] /\ task[p] \in Task /\ ban \in [Ban -> Binding] /\ clock \in Nat
      /\ task[p].type \in Type /\ task[p].target \in Type
  BY DEF DraftInv, TemplatesTypeOK, Task
<1>2. /\ UNCHANGED <<layout, setting, page>> /\ clock' = clock + 1
      /\ task' = [task EXCEPT ![p] = NoTask]
  BY DEF BindTemplate, RetireType, Done
<1>3. ban' \in [Ban -> Binding]
  BY <1>1 DEF BindTemplate, RetireType, Binding
<1>4. family' \in [Type -> {"none", "open", "retired"}]
  BY <1>1 DEF BindTemplate, RetireType, DraftInv, TemplatesTypeOK
<1>5. TemplatesTypeOK'
  BY <1>1, <1>2, <1>3, <1>4, NoTaskTyped DEF DraftInv, TemplatesTypeOK
<1>6. /\ task'[p] = NoTask /\ page'[p] = page[p] /\ page[p].token \in Nat /\ page[p].token <= clock
      /\ \A q \in Editor \ {p} : page'[q] = page[q] /\ task'[q] = task[q]
  BY <1>1, <1>2 DEF DraftInv, TemplatesTypeOK, TokensPast, Page
<1>7. PageRight(p)' /\ ActivationRight(p)'
  BY <1>2, <1>6 DEF DraftInv, PageRight, ActivationRight, Drafted, FilesOfDraft, NoTask
<1>8. clock' >= clock /\ page'[p].token <= clock'
  BY <1>1, <1>2, <1>6
<1> QED BY <1>2, <1>5, <1>6, <1>7, <1>8, Elsewhere

LEMMA OpenPageKeeps ==
  ASSUME DraftInv, NEW p \in Editor, NEW t \in Type, OpenPage(p, t)
  PROVE  DraftInv'
<1> DEFINE shown == PageOf(t, layout[t], setting[t], InUse(t))
<1>1. page' = [page EXCEPT ![p] = shown] /\ UNCHANGED <<family, layout, setting, ban, task, clock>>
  BY DEF OpenPage
<1>2. RowsRight(t, layout[t], setting[t]) /\ InUse(t) \subseteq DOMAIN setting[t]
  BY InUseRows DEF DraftInv
<1>3. /\ shown \in Page /\ shown.type = t /\ shown.token = TokenOf(setting[t])
      /\ HasDraft(setting[t]) => shown.files = FilesOfDraft(t)
  BY <1>2, PageOfRight DEF FilesOfDraft
<1> HIDE DEF shown
<1>4. TemplatesTypeOK' /\ page'[p] = shown /\ \A q \in Editor \ {p} : page'[q] = page[q]
  BY <1>1, <1>3 DEF DraftInv, TemplatesTypeOK
<1>5. shown.token <= clock /\ clock' >= clock
  BY <1>1, <1>3 DEF TokenOf, DraftInv, TokensPast, TemplatesTypeOK
<1>6. PageRight(p)'
  BY <1>1, <1>3, <1>4 DEF PageRight, Drafted, FilesOfDraft
<1>7. ActivationRight(p)'
  BY <1>1 DEF ActivationRight, OpenPage
<1> QED BY <1>1, <1>4, <1>5, <1>6, <1>7, Elsewhere

LEMMA AdoptTokenKeeps ==
  ASSUME DraftInv, NEW p \in Editor, AdoptToken(p)
  PROVE  DraftInv'
<1> DEFINE t == page[p].type draft == DraftOf(setting[t])
           shown == [page[p] EXCEPT !.token = draft.token, !.files = FilesOfDraft(t)]
<1>1. page[p] \in Page /\ t \in Type /\ page \in [Editor -> Page] /\ task \in [Editor -> Task]
  BY DEF DraftInv, TemplatesTypeOK, Page
<1>2. /\ page' = [page EXCEPT ![p] = shown] /\ HasDraft(setting[t])
      /\ task' = [task EXCEPT ![p] = NoTask] /\ UNCHANGED <<family, layout, setting, ban, clock>>
  BY <1>1 DEF AdoptToken, Done, FilesOfDraft
<1>3. draft.token \in Nat /\ FilesOfDraft(t) \in Nat /\ draft.token <= clock
  <2>1. layout[t] \in Seq(LayoutVersion) /\ setting[t] \in Seq(SettingVersion)
    BY <1>1 DEF DraftInv, RowsRight
  <2>2. draft \in SettingVersion /\ RowRight(draft, layout[t])
    <3>1. /\ draft \in SettingVersion /\ Len(setting[t]) \in DOMAIN setting[t]
          /\ draft = setting[t][Len(setting[t])]
      BY <1>2, <2>1, DraftRow
    <3> QED BY <1>1, <3>1 DEF DraftInv, RowsRight
  <2>3. layout[t][draft.layout] \in LayoutVersion
    BY <2>1, <2>2, LenProperties DEF RowRight
  <2> QED BY <1>1, <1>2, <2>2, <2>3
          DEF FilesOfDraft, DraftInv, TokensPast, SettingVersion, LayoutVersion
<1> HIDE DEF draft
<1>4. shown \in Page /\ shown.type = t /\ shown.token = draft.token /\ shown.files = FilesOfDraft(t)
  BY <1>1, <1>3 DEF Page
<1> HIDE DEF shown
<1>5. /\ page'[p] = shown /\ task'[p] = NoTask
      /\ \A q \in Editor \ {p} : page'[q] = page[q] /\ task'[q] = task[q]
  BY <1>1, <1>2
<1>6. TemplatesTypeOK' /\ clock' >= clock
  BY <1>1, <1>2, <1>4, NoTaskTyped DEF DraftInv, TemplatesTypeOK
<1>7. PageRight(p)' /\ ActivationRight(p)'
  BY <1>2, <1>4, <1>5 DEF PageRight, ActivationRight, Drafted, FilesOfDraft, NoTask
<1> QED BY <1>2, <1>3, <1>4, <1>5, <1>6, <1>7, Elsewhere

-----------------------------------------------------------------------------
(* The writers of versions.                                                *)

\* What they have in common.
LEMMA WriterTyped ==
  ASSUME DraftInv, NEW t \in Type, NEW L, NEW S, RowsRight(t, L, S),
         layout' = [layout EXCEPT ![t] = L], setting' = [setting EXCEPT ![t] = S],
         NEW p \in Editor, task' = [task EXCEPT ![p] = NoTask], UNCHANGED <<family, ban>>,
         page' \in [Editor -> Page], clock' \in Nat
  PROVE  /\ TemplatesTypeOK' /\ RowsRight(t, layout[t], setting[t])'
         /\ layout'[t] = L /\ setting'[t] = S
         /\ \A u \in Type \ {t} : layout'[u] = layout[u] /\ setting'[u] = setting[u]
         /\ task'[p] = NoTask /\ \A q \in Editor \ {p} : task'[q] = task[q]
<1>1. /\ layout \in [Type -> Seq(LayoutVersion)] /\ setting \in [Type -> Seq(SettingVersion)]
      /\ task \in [Editor -> Task]
  BY DEF DraftInv, TemplatesTypeOK
<1>2. /\ layout'[t] = L /\ setting'[t] = S
      /\ \A u \in Type \ {t} : layout'[u] = layout[u] /\ setting'[u] = setting[u]
      /\ task'[p] = NoTask /\ \A q \in Editor \ {p} : task'[q] = task[q]
  BY <1>1
<1>3. \A u \in Type : RowsRight(u, layout[u], setting[u])'
  BY <1>2 DEF DraftInv
<1>4. \A u \in Type : \A n \in DOMAIN setting'[u] : setting'[u][n].layout \in DOMAIN layout'[u]
  BY <1>3 DEF RowsRight, RowRight
<1>5. layout' \in [Type -> Seq(LayoutVersion)] /\ setting' \in [Type -> Seq(SettingVersion)]
  BY <1>1 DEF RowsRight
<1>6. TemplatesTypeOK'
  BY <1>1, <1>4, <1>5, NoTaskTyped DEF DraftInv, TemplatesTypeOK
<1> QED BY <1>2, <1>3, <1>6

\* A draft that is saved again.
LEMMA Restamped ==
  ASSUME NEW d \in SettingVersion, NEW n \in Nat
  PROVE  LET new == [d EXCEPT !.structure = n, !.token = n]
         IN  /\ new \in SettingVersion /\ new.token = n
             /\ new.status = d.status /\ new.layout = d.layout
BY DEF SettingVersion

\* A draft added.
LEMMA AddRow ==
  ASSUME NEW S, NEW rows \in Seq(S), ~HasDraft(rows), NEW row \in S
  PROVE  /\ Append(rows, row) \in Seq(S) /\ Append(rows, row) # <<>>
         /\ Drafting(rows, Append(rows, row))
         /\ Append(rows, row)[Len(Append(rows, row))] = row
<1> DEFINE new == Append(rows, row)
<1>1. /\ new \in Seq(S) /\ new # <<>> /\ Len(new) = Len(rows) + 1 /\ new[Len(rows) + 1] = row
      /\ \A i \in 1..Len(rows) : new[i] = rows[i]
  BY AppendProperties
<1>2. Len(rows) \in Nat
  BY LenProperties
<1> HIDE DEF new
<1>3. Drafting(rows, new) /\ new[Len(new)] = row
  BY <1>1, <1>2 DEF Drafting, Number
<1> QED BY <1>1, <1>3 DEF new

LEMMA SaveDraftKeeps ==
  ASSUME DraftInv, NEW p \in Editor, SaveDraft(p)
  PROVE  DraftInv' /\ StillServed
<1>0. PICK t \in Type : t = page[p].type
  BY DEF DraftInv, TemplatesTypeOK, Page
<1> DEFINE L == layout[t] S == setting[t]
           row == IF HasDraft(S)
                  THEN [DraftOf(S) EXCEPT !.structure = clock + 1, !.token = clock + 1]
                  ELSE [status |-> "DRAFT", structure |-> clock + 1,
                        layout |-> S[CHOOSE n \in InUse(t) : TRUE].layout,
                        token |-> clock + 1, built |-> <<0, 0>>, shown |-> 0]
           saved == IF HasDraft(S)
                    THEN [S EXCEPT ![Len(S)].structure = clock + 1, ![Len(S)].token = clock + 1]
                    ELSE Append(S, row)
<1>1. /\ page \in [Editor -> Page] /\ clock \in Nat /\ task \in [Editor -> Task]
      /\ layout \in [Type -> Seq(LayoutVersion)]
  BY DEF DraftInv, TemplatesTypeOK, Page
<1>2. /\ RowsRight(t, L, S) /\ L \in Seq(LayoutVersion) /\ S \in Seq(SettingVersion)
      /\ \A n \in DOMAIN S : RowRight(S[n], L)
  BY <1>1 DEF DraftInv, RowsRight
<1>3. /\ ~HasDraft(S) => InUse(t) # {}
      /\ setting' = [setting EXCEPT ![t] = saved] /\ clock' = clock + 1
      /\ page' = [page EXCEPT ![p] = PageOf(t, L, saved, {})]
      /\ task' = [task EXCEPT ![p] = NoTask] /\ UNCHANGED <<family, layout, ban>>
  BY <1>0 DEF SaveDraft, Done
<1>4. /\ row \in SettingVersion /\ row.status = "DRAFT" /\ row.token = clock + 1
      /\ row.layout \in DOMAIN L /\ L[row.layout].status # "RETIRED"
      /\ HasDraft(L) => row.layout = Len(L)
  <2>1. CASE HasDraft(S)
    <3>1. /\ DraftOf(S) \in SettingVersion /\ DraftOf(S).status = "DRAFT"
          /\ RowRight(DraftOf(S), L) /\ (HasDraft(L) => DraftOf(S).layout = Len(L))
      <4>1. /\ DraftOf(S) \in SettingVersion /\ DraftOf(S).status = "DRAFT"
            /\ Len(S) \in DOMAIN S /\ DraftOf(S) = S[Len(S)]
        BY <1>2, <2>1, DraftRow
      <4> QED BY <1>2, <4>1 DEF RowsRight
    <3>2. /\ row \in SettingVersion /\ row.status = "DRAFT" /\ row.token = clock + 1
          /\ row.layout = DraftOf(S).layout
      <4>1. row = [DraftOf(S) EXCEPT !.structure = clock + 1, !.token = clock + 1]
        BY <2>1
      <4> HIDE DEF row
      <4>2. clock + 1 \in Nat
        BY <1>1
      <4> QED BY <3>1, <4>1, <4>2, Restamped, Zenon
    <3> QED BY <3>1, <3>2 DEF RowRight
  <2>2. CASE ~HasDraft(S)
    <3> DEFINE i == CHOOSE n \in InUse(t) : TRUE
    <3>1. i \in InUse(t)
      BY <1>3, <2>2
    <3> HIDE DEF i
    <3>2. i \in DOMAIN S /\ S[i].status = "ACTIVE" /\ RowRight(S[i], L) /\ ~HasDraft(L)
      BY <1>1, <1>2, <2>2, <3>1, InUseRows DEF RowsRight
    <3>3. S[i] \in SettingVersion
      BY <1>2, <3>2, LenProperties
    <3>4. row = [status |-> "DRAFT", structure |-> clock + 1, layout |-> S[i].layout,
                 token |-> clock + 1, built |-> <<0, 0>>, shown |-> 0]
      BY <2>2 DEF i
    <3> HIDE DEF row
    <3>5. /\ row \in SettingVersion /\ row.status = "DRAFT" /\ row.token = clock + 1
          /\ row.layout = S[i].layout
      BY <1>1, <3>3, <3>4 DEF SettingVersion, VersionStatus
    <3> QED BY <3>2, <3>5 DEF RowRight
  <2> QED BY <2>1, <2>2
<1>5. /\ saved \in Seq(SettingVersion) /\ saved # <<>> /\ Drafting(S, saved)
      /\ saved[Len(saved)] = row
  <2>1. CASE HasDraft(S)
    <3>1. Len(S) \in DOMAIN S /\ DraftOf(S) = S[Len(S)] /\ S[Len(S)] \in SettingVersion
      BY <1>2, <2>1, DraftRow
    <3>2. saved = [S EXCEPT ![Len(S)] = row]
      BY <2>1, <3>1
    <3> HIDE DEF saved, row
    <3> QED BY <1>2, <1>4, <2>1, <3>2, ChangeRow
  <2>2. CASE ~HasDraft(S)
    <3>1. saved = Append(S, row)
      BY <2>2
    <3> HIDE DEF saved, row
    <3>2. S \in Seq(SettingVersion) /\ row \in SettingVersion
      BY <1>2, <1>4
    <3>3. /\ Append(S, row) \in Seq(SettingVersion) /\ Append(S, row) # <<>>
          /\ Drafting(S, Append(S, row))
          /\ Append(S, row)[Len(Append(S, row))] = row
      BY <2>2, <3>2, AddRow
    <3> QED BY <3>1, <3>3
  <2> QED BY <2>1, <2>2
<1> HIDE DEF row, saved
<1>6. HasDraft(saved) /\ DraftOf(saved) = row
  BY <1>4, <1>5 DEF HasDraft, DraftOf
<1>7. RowsRight(t, L, saved)
  <2>1. Drafting(L, L) /\ RowRight(row, L)
    BY <1>4 DEF Drafting, RowRight
  <2>2. HasDraft(L) => HasDraft(saved) /\ DraftOf(saved).layout = Len(L)
    BY <1>4, <1>6
  <2> QED BY <1>2, <1>5, <2>1, <2>2, DraftingRight
<1>8. /\ PageOf(t, L, saved, {}) \in Page /\ PageOf(t, L, saved, {}).type = t
      /\ PageOf(t, L, saved, {}).token = clock + 1
      /\ PageOf(t, L, saved, {}).files = L[row.layout].files
  BY <1>1, <1>4, <1>6, <1>7, PageOfRight DEF TokenOf
<1> DEFINE shown == PageOf(t, L, saved, {})
<1> HIDE DEF shown
<1>9. /\ page' \in [Editor -> Page] /\ page'[p] = shown
      /\ \A q \in Editor \ {p} : page'[q] = page[q]
  BY <1>1, <1>3, <1>8 DEF shown
<1>10. layout' = [layout EXCEPT ![t] = L]
  BY <1>1, <1>3
<1>11. /\ TemplatesTypeOK' /\ RowsRight(t, layout[t], setting[t])'
       /\ layout'[t] = L /\ setting'[t] = saved
       /\ \A u \in Type \ {t} : layout'[u] = layout[u] /\ setting'[u] = setting[u]
       /\ task'[p] = NoTask /\ \A q \in Editor \ {p} : task'[q] = task[q]
  <2>1. clock' \in Nat /\ UNCHANGED <<family, ban>>
    BY <1>1, <1>3
  <2> QED BY <1>3, <1>7, <1>9, <1>10, <2>1, WriterTyped, Zenon
<1>12. PageRight(p)' /\ page'[p].token <= clock'
  BY <1>1, <1>3, <1>4, <1>6, <1>8, <1>9, <1>11 DEF PageRight, FilesOfDraft, shown
<1>13. clock' >= clock /\ clock < DraftOf(setting'[t]).token /\ DraftOf(setting'[t]).token <= clock'
  BY <1>1, <1>3, <1>4, <1>6, <1>11
<1>14. ActiveOf(t, S) # {} => ActiveOf(t, setting'[t]) # {}
  BY <1>2, <1>5, <1>11, DraftingServes DEF RowsRight
<1> QED BY <1>1, <1>9, <1>11, <1>12, <1>13, <1>14, Rewritten

LEMMA DiscardDraftKeeps ==
  ASSUME DraftInv, NEW p \in Editor, DiscardDraft(p)
  PROVE  DraftInv' /\ StillServed
<1>0. PICK t \in Type : t = page[p].type
  BY DEF DraftInv, TemplatesTypeOK, Page
<1> DEFINE L == layout[t] S == setting[t]
           thrown == [DraftOf(S) EXCEPT !.status = "RETIRED"]
           T == [S EXCEPT ![Len(S)] = thrown]
           M == IF HasDraft(L) THEN [L EXCEPT ![Len(L)] = [DraftOf(L) EXCEPT !.status = "RETIRED"]]
                ELSE L
<1>1. /\ layout \in [Type -> Seq(LayoutVersion)] /\ setting \in [Type -> Seq(SettingVersion)]
      /\ clock \in Nat /\ page \in [Editor -> Page]
      /\ RowsRight(t, L, S) /\ L \in Seq(LayoutVersion) /\ S \in Seq(SettingVersion)
      /\ \A n \in DOMAIN S : RowRight(S[n], L)
  BY DEF DraftInv, TemplatesTypeOK, RowsRight
<1>2. /\ HasDraft(S) /\ Discarded(t) /\ task' = [task EXCEPT ![p] = NoTask]
      /\ UNCHANGED <<family, ban, page, clock>>
  BY <1>0 DEF DiscardDraft, Done
<1>3. /\ Len(S) \in DOMAIN S /\ DraftOf(S) = S[Len(S)] /\ S[Len(S)] \in SettingVersion
  BY <1>1, <1>2, DraftRow
<1>4. /\ thrown \in SettingVersion /\ thrown.status = "RETIRED" /\ thrown.layout \in DOMAIN L
  <2>1. thrown \in SettingVersion /\ thrown.status = "RETIRED" /\ thrown.layout = S[Len(S)].layout
    BY <1>3 DEF SettingVersion, VersionStatus
  <2> QED BY <1>1, <1>3, <2>1 DEF RowRight
<1>5. setting' = [setting EXCEPT ![t] = T]
  BY <1>2, <1>3 DEF Discarded
<1>6. /\ M \in Seq(LayoutVersion) /\ Drafting(L, M) /\ ~HasDraft(M) /\ Len(M) = Len(L)
      /\ layout' = [layout EXCEPT ![t] = M]
  <2>1. CASE HasDraft(L)
    <3> DEFINE gone == [DraftOf(L) EXCEPT !.status = "RETIRED"]
    <3>1. Len(L) \in DOMAIN L /\ DraftOf(L) = L[Len(L)] /\ L[Len(L)] \in LayoutVersion
      BY <1>1, <2>1, DraftRow
    <3>2. gone \in LayoutVersion /\ gone.status = "RETIRED"
      BY <3>1 DEF LayoutVersion, VersionStatus
    <3>3. layout' = [layout EXCEPT ![t] = M]
      BY <1>2, <2>1, <3>1 DEF Discarded
    <3>4. M = [L EXCEPT ![Len(L)] = gone]
      BY <2>1
    <3> HIDE DEF gone, M
    <3>5. gone \in LayoutVersion /\ L \in Seq(LayoutVersion)
      BY <1>1, <3>2
    <3>6. /\ M \in Seq(LayoutVersion) /\ M # <<>> /\ Drafting(L, M)
          /\ Len(M) = Len(L) /\ M[Len(M)] = gone
      BY <2>1, <3>4, <3>5, ChangeRow
    <3> QED BY <3>2, <3>3, <3>6 DEF HasDraft
  <2>2. CASE ~HasDraft(L)
    BY <1>1, <1>2, <2>2 DEF Discarded, Drafting
  <2> QED BY <2>1, <2>2
<1> HIDE DEF thrown, M, T
<1>7. /\ T \in Seq(SettingVersion) /\ T # <<>> /\ Drafting(S, T) /\ T[Len(T)] = thrown
  BY <1>1, <1>2, <1>4, ChangeRow DEF T
<1>8. ~HasDraft(T)
  BY <1>4, <1>7 DEF HasDraft
<1>9. DOMAIN M = DOMAIN L
  BY <1>1, <1>6, LenProperties
<1>10. RowsRight(t, M, T)
  <2>1. RowRight(T[Len(T)], M)
    BY <1>4, <1>7, <1>9 DEF RowRight
  <2> QED BY <1>1, <1>6, <1>7, <2>1, DraftingRight
<1>11. /\ TemplatesTypeOK' /\ RowsRight(t, layout[t], setting[t])'
       /\ layout'[t] = M /\ setting'[t] = T
       /\ \A u \in Type \ {t} : layout'[u] = layout[u] /\ setting'[u] = setting[u]
       /\ task'[p] = NoTask /\ \A q \in Editor \ {p} : task'[q] = task[q]
  <2>1. page' \in [Editor -> Page] /\ clock' \in Nat
    BY <1>1, <1>2
  <2> QED BY <1>2, <1>5, <1>6, <1>10, <2>1, WriterTyped, Zenon
<1>12. page' = page /\ clock' = clock /\ page'[p].token <= clock' /\ clock' >= clock
  BY <1>1, <1>2 DEF DraftInv, TokensPast
<1>13. ActiveOf(t, S) # {} => ActiveOf(t, setting'[t]) # {}
  BY <1>1, <1>7, <1>11, DraftingServes DEF RowsRight
<1> QED BY <1>8, <1>9, <1>11, <1>12, <1>13, Rewritten

LEMMA InstallLayoutKeeps ==
  ASSUME DraftInv, NEW p \in Editor, InstallLayout(p)
  PROVE  DraftInv' /\ StillServed
<1>0. PICK t \in Type : t = page[p].type
  BY DEF DraftInv, TemplatesTypeOK, Page
<1>1. /\ clock \in Nat /\ page \in [Editor -> Page]
      /\ RowsRight(t, layout[t], setting[t]) /\ layout[t] \in Seq(LayoutVersion)
      /\ setting[t] \in Seq(SettingVersion)
      /\ \A n \in DOMAIN setting[t] : RowRight(setting[t][n], layout[t])
  BY DEF DraftInv, TemplatesTypeOK, RowsRight
<1> DEFINE L == layout[t] S == setting[t]
           restore == task[p].op = "restore"
           token == IF restore THEN clock + 2 ELSE clock + 1
           row == [status |-> "DRAFT", files |-> clock + 1, token |-> clock + 1]
           base == IF HasDraft(S) THEN DraftOf(S).structure
                   ELSE IF InUse(t) = {} THEN 0
                   ELSE S[CHOOSE n \in InUse(t) : TRUE].structure
           draft == [status |-> "DRAFT", layout |-> Number(L), token |-> token,
                     structure |-> IF restore THEN token ELSE base,
                     built |-> <<0, 0>>, shown |-> 0]
           M == WithDraft(L, row)
           T == WithDraft(S, draft)
<1>2. /\ layout' = [layout EXCEPT ![t] = M] /\ setting' = [setting EXCEPT ![t] = T]
      /\ clock' = token /\ task' = [task EXCEPT ![p] = NoTask] /\ UNCHANGED <<family, ban, page>>
  BY <1>0 DEF InstallLayout, Done, UploadNo, Number, WithDraft, DraftInv, TemplatesTypeOK
<1>3. token \in Nat /\ token > clock /\ Number(L) \in Nat
  BY <1>1, LenProperties DEF Number
<1>4. base \in Nat
  <2>1. CASE HasDraft(S)
    <3>1. DraftOf(S) \in SettingVersion
      BY <1>1, <2>1, DraftRow
    <3> QED BY <2>1, <3>1 DEF SettingVersion
  <2>2. CASE ~HasDraft(S) /\ InUse(t) # {}
    <3>1. (CHOOSE n \in InUse(t) : TRUE) \in DOMAIN S
      BY <2>2, InUseRows
    <3>2. S[CHOOSE n \in InUse(t) : TRUE] \in SettingVersion
      BY <1>1, <3>1, LenProperties
    <3> QED BY <2>2, <3>2 DEF SettingVersion
  <2> QED BY <2>1, <2>2
<1> HIDE DEF base, token, restore
<1>5. /\ row \in LayoutVersion /\ row.status = "DRAFT"
      /\ draft \in SettingVersion /\ draft.status = "DRAFT" /\ draft.token = token
      /\ draft.layout = Number(L)
  <2>1. row \in LayoutVersion /\ row.status = "DRAFT"
    BY <1>1 DEF LayoutVersion, VersionStatus
  <2>2. (IF restore THEN token ELSE base) \in Nat
    BY <1>3, <1>4
  <2>3. <<0, 0>> \in Nat \X Nat /\ 0 \in Nat /\ "DRAFT" \in VersionStatus
    BY DEF VersionStatus
  <2>4. draft \in SettingVersion
    BY <1>3, <2>2, <2>3, Zenon DEF SettingVersion
  <2> QED BY <2>1, <2>4
<1> HIDE DEF row, draft
<1> HIDE DEF M, T
<1>6. /\ M \in Seq(LayoutVersion) /\ M # <<>> /\ Drafting(L, M)
      /\ Len(M) = Number(L) /\ M[Len(M)] = row
  <2>1. M = WithDraft(L, row)
    BY DEF M
  <2>2. L \in Seq(LayoutVersion) /\ row \in LayoutVersion
    BY <1>1, <1>5
  <2> QED BY <2>1, <2>2, PutRow
<1>7. /\ T \in Seq(SettingVersion) /\ T # <<>> /\ Drafting(S, T) /\ T[Len(T)] = draft
  <2>1. T = WithDraft(S, draft)
    BY DEF T
  <2>2. S \in Seq(SettingVersion) /\ draft \in SettingVersion
    BY <1>1, <1>5
  <2> QED BY <2>1, <2>2, PutRow
<1>8. HasDraft(T) /\ DraftOf(T) = draft
  BY <1>5, <1>7 DEF HasDraft, DraftOf
<1>9. DOMAIN L \subseteq DOMAIN M /\ Len(M) \in DOMAIN M
  <2>1. /\ DOMAIN L = 1..Len(L) /\ Len(L) \in Nat /\ DOMAIN M = 1..Len(M) /\ Len(M) \in Nat
        /\ DraftLast(L) /\ Len(M) # 0
    BY <1>1, <1>6, LenProperties, EmptySeq DEF RowsRight
  <2>2. Len(L) <= Len(M)
    BY <1>1, <1>6, <2>1, DraftingKeeps
  <2> QED BY <2>1, <2>2
<1>10. RowsRight(t, M, T)
  <2>1. RowRight(draft, M)
    BY <1>5, <1>6, <1>9 DEF RowRight
  <2>2. HasDraft(T) /\ DraftOf(T).layout = Len(M)
    BY <1>5, <1>6, <1>8
  <2> QED BY <1>1, <1>6, <1>7, <2>1, <2>2, DraftingRight
<1>11. /\ TemplatesTypeOK' /\ RowsRight(t, layout[t], setting[t])'
       /\ layout'[t] = M /\ setting'[t] = T
       /\ \A u \in Type \ {t} : layout'[u] = layout[u] /\ setting'[u] = setting[u]
       /\ task'[p] = NoTask /\ \A q \in Editor \ {p} : task'[q] = task[q]
  <2>1. page' \in [Editor -> Page] /\ clock' \in Nat
    BY <1>1, <1>2, <1>3
  <2> QED BY <1>2, <1>10, <2>1, WriterTyped, Zenon
<1>12. page' = page /\ page'[p].token <= clock' /\ clock' >= clock
  <2>1. page[p].token \in Nat /\ page[p].token <= clock
    BY <1>1 DEF DraftInv, TokensPast, Page
  <2> QED BY <1>1, <1>2, <1>3, <2>1
<1>13. clock < DraftOf(setting'[t]).token /\ DraftOf(setting'[t]).token <= clock'
  BY <1>2, <1>3, <1>5, <1>8, <1>11
<1>14. ActiveOf(t, S) # {} => ActiveOf(t, setting'[t]) # {}
  BY <1>1, <1>7, <1>11, DraftingServes DEF RowsRight
<1> QED BY <1>9, <1>11, <1>12, <1>13, <1>14, Rewritten

LEMMA ActivateTemplateKeeps ==
  ASSUME DraftInv, NEW p \in Editor, ActivateTemplate(p)
  PROVE  DraftInv' /\ StillServed
<1>0. PICK t \in Type : t = task[p].type /\ t = page[p].type
  BY DEF DraftInv, TemplatesTypeOK, Page, ActivateTemplate, Ready, ActivationRight
<1> DEFINE k == task[p] L == layout[t] S == setting[t] n == DraftOf(S).layout
           T == SettingsAfter(t, L, S) M == LayoutsAfter(t, L, n)
<1>1. /\ layout \in [Type -> Seq(LayoutVersion)] /\ setting \in [Type -> Seq(SettingVersion)]
      /\ clock \in Nat /\ page \in [Editor -> Page]
      /\ RowsRight(t, L, S) /\ L \in Seq(LayoutVersion) /\ S \in Seq(SettingVersion)
  BY DEF DraftInv, TemplatesTypeOK, RowsRight
<1>2. /\ k.op = "activate" /\ k.loaded /\ Drafted(t, page[p].token)
      /\ task' = [task EXCEPT ![p] = NoTask] /\ UNCHANGED <<family, ban, page, clock>>
  BY <1>0 DEF ActivateTemplate, Ready, StillDraft, Drafted, Done
<1>3. /\ k.structure = DraftOf(S).structure /\ k.layout = n /\ k.files = L[n].files
      /\ k.pair <=> L[n].status = "DRAFT"
      /\ page[p].files = L[n].files
  <2>1. ActivationRight(p) /\ PageRight(p)
    BY DEF DraftInv
  <2>2. page[p].files = FilesOfDraft(t)
    BY <1>0, <1>2, <2>1 DEF PageRight
  <2>3. /\ k.structure = DraftOf(S).structure /\ k.layout = n
        /\ k.files = FilesOfDraft(t) /\ (k.pair <=> layout[t][k.layout].status = "DRAFT")
    BY <1>0, <1>2, <2>1 DEF ActivationRight
  <2> QED BY <2>2, <2>3 DEF FilesOfDraft
<1>4. HasDraft(S) /\ Len(S) \in DOMAIN S /\ S[Len(S)] = DraftOf(S) /\ DraftOf(S) \in SettingVersion
      /\ DraftOf(S).status = "DRAFT"
  BY <1>1, <1>2, DraftRow DEF Drafted
<1>5. layout' = [layout EXCEPT ![t] = M]
  BY <1>0, <1>1, <1>3 DEF ActivateTemplate, LayoutsAfter
<1>6. setting' = [setting EXCEPT ![t] = T]
  <2>1. Retired(t, S)[Len(S)] = DraftOf(S) /\ DOMAIN Retired(t, S) = DOMAIN S
    BY <1>4 DEF Retired, ActiveOf
  <2>2. T = [Retired(t, S) EXCEPT
                ![Len(S)].status = "ACTIVE", ![Len(S)].built = <<k.structure, k.files>>,
                ![Len(S)].shown = page[p].files]
    BY <1>3, <1>4, <2>1 DEF SettingsAfter, Activated
  <2> HIDE DEF T
  <2> QED BY <1>0, <1>1, <2>2 DEF ActivateTemplate
<1>7. /\ RowsRight(t, M, T) /\ ~HasDraft(T) /\ DOMAIN M = DOMAIN L
      /\ t # Standard => ActiveOf(t, T) # {}
  BY <1>1, <1>4, ActivateRows
<1> HIDE DEF M, T
<1>8. /\ TemplatesTypeOK' /\ RowsRight(t, layout[t], setting[t])'
      /\ layout'[t] = M /\ setting'[t] = T
      /\ \A u \in Type \ {t} : layout'[u] = layout[u] /\ setting'[u] = setting[u]
      /\ task'[p] = NoTask /\ \A q \in Editor \ {p} : task'[q] = task[q]
  <2>1. page' \in [Editor -> Page] /\ clock' \in Nat
    BY <1>1, <1>2
  <2> QED BY <1>2, <1>5, <1>6, <1>7, <2>1, WriterTyped, Zenon
<1>9. page' = page /\ clock' = clock /\ page'[p].token <= clock' /\ clock' >= clock
  BY <1>1, <1>2 DEF DraftInv, TokensPast
<1> QED BY <1>7, <1>8, <1>9, Rewritten

LEMMA DraftStep ==
  ASSUME DraftInv, [TemplatesNext]_tvars
  PROVE  DraftInv'
<1>1. CASE UNCHANGED tvars
  BY <1>1 DEF tvars, DraftInv, TemplatesTypeOK, TokensPast, PageRight, ActivationRight, Drafted,
              FilesOfDraft
<1>2. CASE \E t \in Type : CreateType(t)
  BY <1>2, CreateTypeKeeps
<1>3. ASSUME NEW p \in Editor,
             \/ Acquire(p) \/ GiveUp(p) \/ LoadLayout(p) \/ Judge(p) \/ BeginActivate(p)
             \/ \E op \in {"save", "discard"} : BeginEdit(p, op)
             \/ \E op \in {"upload", "restore"} : BeginUpload(p, op)
             \/ \E t \in Type : \/ \E b \in Ban : BeginBind(p, b, t)
                                \/ \E u \in Type : BeginRetire(p, t, u)
      PROVE  DraftInv'
  BY <1>3, TaskStepKeeps
<1>4. ASSUME NEW p \in Editor,
             \/ SaveDraft(p) \/ AdoptToken(p) \/ DiscardDraft(p) \/ InstallLayout(p)
             \/ ActivateTemplate(p) \/ BindTemplate(p) \/ RetireType(p)
             \/ \E t \in Type : OpenPage(p, t)
      PROVE  DraftInv'
  BY <1>4, SaveDraftKeeps, AdoptTokenKeeps, DiscardDraftKeeps, InstallLayoutKeeps,
     ActivateTemplateKeeps, BindingsKeep, OpenPageKeeps
<1> QED BY <1>1, <1>2, <1>3, <1>4 DEF TemplatesNext

LEMMA DraftsInvariant == TemplatesSpec => []DraftInv
<1>1. DraftInv /\ [TemplatesNext]_tvars => DraftInv'
  BY DraftStep
<1> QED BY InitDrafts, <1>1, PTL DEF TemplatesSpec

\* Whoever saves, uploads, restores, discards and activates at once: the
\* versions stay those of the layouts they name, of which only the last may be
\* a draft (index one_draft).
THEOREM LayoutsStayPaired == TemplatesSpec => []LayoutsPaired
BY DraftsInvariant, DraftInvImplies, PTL

\* ... and what goes into use is what its activator was shown
\* (activateTemplate, installLayoutPackage).
THEOREM ActivatedWasShown == TemplatesSpec => []ActivatedAsShown
BY DraftsInvariant, DraftInvImplies, PTL

LEMMA ServedStep ==
  ASSUME DraftInv, [TemplatesNext]_tvars
  PROVE  StillServed
<1>1. CASE UNCHANGED setting
  BY <1>1 DEF StillServed
<1>2. ASSUME NEW p \in Editor,
             SaveDraft(p) \/ DiscardDraft(p) \/ InstallLayout(p) \/ ActivateTemplate(p)
      PROVE  StillServed
  BY <1>2, SaveDraftKeeps, DiscardDraftKeeps, InstallLayoutKeeps, ActivateTemplateKeeps
<1> QED BY <1>1, <1>2 DEF TemplatesNext, tvars, CreateType, Acquire, GiveUp, LoadLayout,
           Judge, BeginActivate, AdoptToken, BindTemplate, RetireType, BeginEdit, BeginUpload, OpenPage,
           BeginBind, BeginRetire, BeginTask

\* The versions of a type are written only while it is open.
LEMMA OnlyOpenWritten ==
  ASSUME TemplatesTypeOK, [TemplatesNext]_tvars, NEW t \in Type, family[t] = "retired"
  PROVE  layout'[t] = layout[t] /\ setting'[t] = setting[t]
<1>1. CASE UNCHANGED <<layout, setting>>
  BY <1>1
<1>2. /\ layout \in [Type -> Seq(LayoutVersion)] /\ setting \in [Type -> Seq(SettingVersion)]
      /\ \A p \in Editor : page[p].type \in Type /\ task[p].type \in Type
  BY DEF TemplatesTypeOK, Page, Task
<1>3. ASSUME NEW p \in Editor, SaveDraft(p) \/ DiscardDraft(p) \/ InstallLayout(p)
      PROVE  layout'[t] = layout[t] /\ setting'[t] = setting[t]
  <2>1. t # page[p].type
    BY <1>3 DEF SaveDraft, DiscardDraft, InstallLayout, StillOpen
  <2> QED BY <1>2, <1>3, <2>1 DEF SaveDraft, DiscardDraft, InstallLayout, Discarded
<1>4. ASSUME NEW p \in Editor, ActivateTemplate(p)
      PROVE  layout'[t] = layout[t] /\ setting'[t] = setting[t]
  <2>1. t # task[p].type
    BY <1>4 DEF ActivateTemplate, StillOpen
  <2> QED BY <1>2, <1>4, <2>1 DEF ActivateTemplate
<1> QED BY <1>1, <1>3, <1>4 DEF TemplatesNext, tvars, CreateType, Acquire, GiveUp, LoadLayout,
           Judge, BeginActivate, AdoptToken, BindTemplate, RetireType, BeginEdit, BeginUpload, OpenPage,
           BeginBind, BeginRetire, BeginTask

LEMMA TypesCorrect == TemplatesSpec => []TemplatesTypeOK
<1>1. DraftInv => TemplatesTypeOK
  BY DEF DraftInv
<1> QED BY DraftsInvariant, <1>1, PTL

\* No operation that found a type open writes its versions after the type was
\* retired: each asks again under its lock (lockOpenFamily).
THEOREM RetiredTypesStay == TemplatesSpec => RetiredStays
<1>1. TemplatesTypeOK /\ [TemplatesNext]_tvars =>
        [\A t \in Type : family[t] = "retired" =>
              layout'[t] = layout[t] /\ setting'[t] = setting[t]]_tvars
  BY OnlyOpenWritten
<1> QED BY <1>1, TypesCorrect, PTL DEF TemplatesSpec, RetiredStays

-----------------------------------------------------------------------------
(* Locks and bindings.                                                     *)

\* Nobody holds what another holds for update.
HeldApart ==
    \A p, q \in Editor : p # q => \A a \in Holds(p), b \in Holds(q) : ~Conflict(a, b)

\* What a binding or a retirement has judged is still so: it holds its locks.
JudgedRight(p) ==
    LET k == task[p]
    IN  /\ k.got \in 0..Len(LockOrder(k))
        /\ k.op = "retire" => k.type # Standard /\ k.target # k.type
        /\ k.op = "bind" /\ k.loaded => ~Short(p) /\ Usable(k.type)
        /\ k.op = "retire" /\ k.loaded => ~Short(p) /\ Usable(k.target)

BoundInv == HeldApart /\ BoundIsUsable /\ \A p \in Editor : JudgedRight(p)

LEMMA InitBound == TemplatesInit => BoundInv
<1> SUFFICES ASSUME TemplatesInit PROVE BoundInv
  OBVIOUS
<1>1. \A p \in Editor : task[p].op = "none" /\ task[p].got = 0 /\ LockOrder(task[p]) = <<>>
  BY DEF TemplatesInit, NoTask, LockOrder
<1>2. \A p \in Editor : Holds(p) = {}
  BY <1>1 DEF Holds
<1>3. \A p \in Editor : JudgedRight(p)
  BY <1>1 DEF JudgedRight
<1>4. BoundIsUsable
  BY DEF TemplatesInit, BoundIsUsable, Usable
<1> QED BY <1>2, <1>3, <1>4 DEF BoundInv, HeldApart

\* What a step does to the locks: one manager takes its next one, or all of
\* its own are gone, or they stay.
Released(p) == /\ task'[p].got = 0 /\ ~task'[p].loaded
               /\ task'[p].op = "retire" =>
                     task'[p].type # Standard /\ task'[p].target # task'[p].type
SameLocks(p) ==
    /\ task'[p].op = task[p].op /\ task'[p].type = task[p].type
    /\ task'[p].target = task[p].target /\ task'[p].got = task[p].got

LEMMA LockStep ==
  ASSUME TemplatesTypeOK, TemplatesNext, task' # task
  PROVE  \E p \in Editor :
            /\ \A q \in Editor \ {p} : task'[q] = task[q]
            /\ \/ Acquire(p)
               \/ Released(p)
               \/ LoadLayout(p) /\ SameLocks(p)
               \/ Judge(p) /\ SameLocks(p)
<1>1. task \in [Editor -> Task]
  BY DEF TemplatesTypeOK
<1>2. PICK p \in Editor :
         \/ Acquire(p) \/ LoadLayout(p) \/ Judge(p)
         \/ Done(p) \/ BeginActivate(p)
         \/ \E op \in {"save", "discard"} : BeginEdit(p, op)
         \/ \E op \in {"upload", "restore"} : BeginUpload(p, op)
         \/ \E t \in Type : \/ \E b \in Ban : BeginBind(p, b, t)
                            \/ \E u \in Type : BeginRetire(p, t, u)
  BY DEF TemplatesNext, CreateType, GiveUp, SaveDraft, AdoptToken, DiscardDraft, InstallLayout,
         ActivateTemplate, BindTemplate, RetireType, OpenPage
<1>3. \A q \in Editor \ {p} : task'[q] = task[q]
  BY <1>1, <1>2 DEF Acquire, LoadLayout, Judge, Done, BeginActivate, BeginEdit, BeginUpload,
     BeginBind, BeginRetire, BeginTask
<1>4. LoadLayout(p) \/ Judge(p) => SameLocks(p)
  BY <1>1 DEF LoadLayout, Judge, SameLocks, Task
<1>5. NoTask \in Task /\ NoTask.got = 0 /\ ~NoTask.loaded /\ NoTask.op = "none"
  BY NoTaskTyped DEF NoTask
<1>6. \A k : task' = [task EXCEPT ![p] = k] => task'[p] = k
  BY <1>1
<1>7. ASSUME Done(p) PROVE Released(p)
  BY <1>5, <1>6, <1>7 DEF Done, Released
<1>8. ASSUME BeginActivate(p) PROVE Released(p)
  <2> DEFINE k == [NoTask EXCEPT !.op = "activate", !.type = page[p].type,
                      !.structure = DraftOf(setting[page[p].type]).structure,
                      !.layout = DraftOf(setting[page[p].type]).layout]
  <2>1. task' = [task EXCEPT ![p] = k]
    BY <1>8 DEF BeginActivate, BeginTask
  <2>2. k.got = 0 /\ ~k.loaded /\ k.op = "activate"
    BY <1>5 DEF Task
  <2> HIDE DEF k
  <2> QED BY <1>6, <2>1, <2>2 DEF Released
<1>9. ASSUME NEW op \in {"save", "discard"}, BeginEdit(p, op) PROVE Released(p)
  <2> DEFINE k == [NoTask EXCEPT !.op = op, !.type = page[p].type]
  <2>1. task' = [task EXCEPT ![p] = k] /\ k.got = 0 /\ ~k.loaded /\ k.op = op
    BY <1>5, <1>9 DEF BeginEdit, BeginTask, Task
  <2> HIDE DEF k
  <2> QED BY <1>6, <2>1 DEF Released
<1>10. ASSUME NEW op \in {"upload", "restore"}, BeginUpload(p, op) PROVE Released(p)
  <2> DEFINE k == [NoTask EXCEPT !.op = op, !.type = page[p].type,
                                 !.layout = UploadNo(page[p].type)]
  <2>1. task' = [task EXCEPT ![p] = k] /\ k.got = 0 /\ ~k.loaded /\ k.op = op
    BY <1>5, <1>10 DEF BeginUpload, BeginTask, Task
  <2> HIDE DEF k
  <2> QED BY <1>6, <2>1 DEF Released
<1>11. ASSUME NEW t \in Type, NEW b \in Ban, BeginBind(p, b, t) PROVE Released(p)
  <2> DEFINE k == [NoTask EXCEPT !.op = "bind", !.type = t, !.ban = b, !.was = ban[b]]
  <2>1. task' = [task EXCEPT ![p] = k] /\ k.got = 0 /\ ~k.loaded /\ k.op = "bind"
    BY <1>5, <1>11 DEF BeginBind, BeginTask, Task
  <2> HIDE DEF k
  <2> QED BY <1>6, <2>1 DEF Released
<1>12. ASSUME NEW t \in Type, NEW u \in Type, BeginRetire(p, t, u) PROVE Released(p)
  <2> DEFINE k == [NoTask EXCEPT !.op = "retire", !.type = t, !.target = u]
  <2>1. task' = [task EXCEPT ![p] = k] /\ t # Standard /\ u # t
    BY <1>12 DEF BeginRetire, BeginTask
  <2>2. k.got = 0 /\ ~k.loaded /\ k.type = t /\ k.target = u
    BY <1>5 DEF Task
  <2> HIDE DEF k
  <2> QED BY <1>6, <2>1, <2>2 DEF Released
<1>13. Acquire(p) \/ Released(p) \/ LoadLayout(p) \/ Judge(p)
  BY <1>2, <1>7, <1>8, <1>9, <1>10, <1>11, <1>12
<1>14. \/ Acquire(p)
       \/ Released(p)
       \/ LoadLayout(p) /\ SameLocks(p)
       \/ Judge(p) /\ SameLocks(p)
  BY <1>4, <1>13
<1> QED BY <1>3, <1>14, Zenon

\* The order depends on the operation and its types only.
LEMMA SameOrder ==
  ASSUME NEW k, NEW m, k.op = m.op, k.type = m.type, k.target = m.target
  PROVE  LockOrder(k) = LockOrder(m)
BY DEF LockOrder, Ascending

LEMMA OrderLength ==
  ASSUME NEW k
  PROVE  Len(LockOrder(k)) \in Nat
<1>1. CASE k.op = "none"
  BY <1>1 DEF LockOrder
<1>2. CASE k.op = "bind"
  BY <1>2 DEF LockOrder
<1>3. CASE k.op = "retire"
  BY <1>3 DEF LockOrder, Ascending
<1>4. CASE k.op \in {"upload", "restore"}
  BY <1>4 DEF LockOrder
<1>5. CASE k.op \notin {"none", "bind", "retire", "upload", "restore"}
  BY <1>5 DEF LockOrder
<1> QED BY <1>1, <1>2, <1>3, <1>4, <1>5

\* Only creations, bindings and retirements change types and bindings.
LEMMA QuietSteps ==
  ASSUME [TemplatesNext]_tvars
  PROVE  \/ UNCHANGED <<family, ban>>
         \/ \E t \in Type : CreateType(t)
         \/ \E p \in Editor : BindTemplate(p) \/ RetireType(p)
<1>1. ASSUME NEW p \in Editor, Acquire(p) \/ GiveUp(p) \/ LoadLayout(p) \/ Judge(p)
      PROVE  UNCHANGED <<family, ban>>
  BY <1>1 DEF Acquire, GiveUp, LoadLayout, Judge
<1>2. ASSUME NEW p \in Editor,
             SaveDraft(p) \/ AdoptToken(p) \/ DiscardDraft(p) \/ InstallLayout(p)
             \/ ActivateTemplate(p)
      PROVE  UNCHANGED <<family, ban>>
  BY <1>2 DEF SaveDraft, AdoptToken, DiscardDraft, InstallLayout, ActivateTemplate
<1>3. ASSUME NEW p \in Editor,
             \/ BeginActivate(p)
             \/ \E op \in {"save", "discard"} : BeginEdit(p, op)
             \/ \E op \in {"upload", "restore"} : BeginUpload(p, op)
      PROVE  UNCHANGED <<family, ban>>
  BY <1>3 DEF BeginActivate, BeginEdit, BeginUpload, BeginTask
<1>4. ASSUME NEW p \in Editor, NEW t \in Type,
             \/ OpenPage(p, t)
             \/ \E b \in Ban : BeginBind(p, b, t)
             \/ \E u \in Type : BeginRetire(p, t, u)
      PROVE  UNCHANGED <<family, ban>>
  BY <1>4 DEF OpenPage, BeginBind, BeginRetire, BeginTask
<1>5. CASE UNCHANGED tvars
  BY <1>5 DEF tvars
<1> QED BY <1>1, <1>2, <1>3, <1>4, <1>5 DEF TemplatesNext

\* Usable types stay so, but for those that are retired.
LEMMA UsableStays ==
  ASSUME DraftInv, [TemplatesNext]_tvars, NEW t \in Type, Usable(t)
  PROVE  Usable(t)' \/ \E p \in Editor : RetireType(p) /\ task[p].type = t
<1>1. SUFFICES ASSUME t # Standard, \A p \in Editor : RetireType(p) => task[p].type # t
               PROVE  Usable(t)'
  BY DEF Usable
<1>2. family[t] = "open" /\ ActiveOf(t, setting[t]) # {}
  BY <1>1 DEF Usable
<1>3. ActiveOf(t, setting'[t]) # {}
  BY <1>1, <1>2, ServedStep DEF StillServed
<1>4. family \in [Type -> {"none", "open", "retired"}]
  BY DEF DraftInv, TemplatesTypeOK
<1>5. family'[t] = "open"
  <2>1. CASE UNCHANGED family
    BY <1>2, <2>1
  <2>2. CASE \E u \in Type : CreateType(u)
    BY <1>2, <1>4, <2>2 DEF CreateType
  <2>3. CASE \E p \in Editor : RetireType(p)
    BY <1>1, <1>2, <1>4, <2>3 DEF RetireType
  <2>4. CASE \E p \in Editor : BindTemplate(p)
    BY <1>2, <2>4 DEF BindTemplate
  <2> QED BY <2>1, <2>2, <2>3, <2>4, QuietSteps
<1> QED BY <1>3, <1>5 DEF Usable, ActiveOf, Default

LEMMA HeldApartStep ==
  ASSUME DraftInv, BoundInv, [TemplatesNext]_tvars
  PROVE  HeldApart'
<1>1. task \in [Editor -> Task] /\ HeldApart
  BY DEF DraftInv, TemplatesTypeOK, BoundInv
<1>2. CASE task' = task
  <2>1. \A p \in Editor : Holds(p)' = Holds(p)
    BY <1>2 DEF Holds
  <2> QED BY <1>1, <2>1 DEF HeldApart
<1>3. CASE task' # task
  <2>1. PICK p \in Editor :
           /\ \A q \in Editor \ {p} : task'[q] = task[q]
           /\ \/ Acquire(p)
              \/ Released(p)
              \/ LoadLayout(p) /\ SameLocks(p)
              \/ Judge(p) /\ SameLocks(p)
    BY <1>3, LockStep DEF tvars, DraftInv
  <2>2. \A q \in Editor \ {p} : Holds(q)' = Holds(q)
    BY <2>1 DEF Holds
  <2>3. ASSUME Holds(p)' \subseteq Holds(p) PROVE HeldApart'
    BY <1>1, <2>2, <2>3 DEF HeldApart
  <2>4. CASE Released(p)
    <3>1. Holds(p)' = {}
      BY <2>4 DEF Holds, Released
    <3> QED BY <2>3, <3>1
  <2>5. CASE SameLocks(p)
    <3>1. LockOrder(task'[p]) = LockOrder(task[p])
      BY <2>5, SameOrder DEF SameLocks
    <3>2. Holds(p)' = Holds(p)
      BY <2>5, <3>1 DEF Holds, SameLocks
    <3> QED BY <2>3, <3>2
  <2>6. CASE Acquire(p)
    <3> DEFINE k == task[p] next == LockOrder(k)[k.got + 1]
    <3>1. k \in Task /\ task' = [task EXCEPT ![p].got = k.got + 1]
      BY <1>1, <2>6 DEF Acquire
    <3>2. /\ task'[p].op = k.op /\ task'[p].type = k.type /\ task'[p].target = k.target
          /\ task'[p].got = k.got + 1 /\ k.got \in Nat
      BY <1>1, <3>1 DEF Task
    <3>3. LockOrder(task'[p]) = LockOrder(k)
      BY <3>2, SameOrder
    <3>4. Holds(p)' \subseteq Holds(p) \cup {next}
      <4>1. Holds(p)' = {LockOrder(k)[i] : i \in 1..(k.got + 1)}
        BY <3>2, <3>3 DEF Holds
      <4>2. 1..(k.got + 1) = 1..k.got \cup {k.got + 1}
        BY <3>2
      <4> QED BY <4>1, <4>2 DEF Holds
    <3>5. \A q \in Editor \ {p} : \A l \in Holds(q) : ~Conflict(l, next)
      BY <2>6 DEF Acquire, Blocked
    <3>6. \A a, b : Conflict(a, b) <=> Conflict(b, a)
      BY DEF Conflict
    <3> HIDE DEF next, k
    <3> QED BY <1>1, <2>2, <3>4, <3>5, <3>6 DEF HeldApart
  <2> QED BY <2>1, <2>4, <2>5, <2>6
<1> QED BY <1>2, <1>3

\* A type held for sharing is not retired by anybody else.
LEMMA HeldIsNotRetired ==
  ASSUME DraftInv, BoundInv, NEW p \in Editor, NEW q \in Editor, NEW t \in Type,
         RetireType(q), task[q].type = t, ~Short(p), task[p].op \in {"bind", "retire"},
         task[p].op = "bind" => task[p].type = t,
         task[p].op = "retire" => task[p].target = t /\ task[p].type # t
  PROVE  FALSE
<1> DEFINE k == task[p] m == task[q]
<1>1. /\ m.op = "retire" /\ ~Short(q) /\ m.type = t /\ t # Standard
      /\ k.got \in Nat /\ m.got \in Nat
      /\ k.got \in 0..Len(LockOrder(k)) /\ m.got \in 0..Len(LockOrder(m))
  BY DEF RetireType, Ready, BoundInv, JudgedRight, DraftInv, TemplatesTypeOK, Task
<1>2. p # q
  BY <1>1
<1>3. k.got = Len(LockOrder(k)) /\ m.got = Len(LockOrder(m))
  BY <1>1, OrderLength DEF Short
<1>4. Row(t, "update") \in Holds(q)
  <2>1. \E i \in 1..Len(LockOrder(m)) : LockOrder(m)[i] = Row(t, "update")
    BY <1>1 DEF LockOrder, Ascending
  <2> QED BY <1>3, <2>1 DEF Holds
<1>5. Row(t, "share") \in Holds(p)
  <2>1. \E i \in 1..Len(LockOrder(k)) : LockOrder(k)[i] = Row(t, "share")
    <3>1. CASE k.op = "bind"
      BY <1>1, <3>1 DEF LockOrder
    <3>2. CASE k.op = "retire"
      BY <1>1, <3>2 DEF LockOrder, Ascending
    <3> QED BY <3>1, <3>2
  <2> QED BY <1>3, <2>1 DEF Holds
<1>6. Conflict(Row(t, "update"), Row(t, "share"))
  BY DEF Conflict, Row
<1> QED BY <1>2, <1>4, <1>5, <1>6 DEF BoundInv, HeldApart

LEMMA JudgedStep ==
  ASSUME DraftInv, BoundInv, [TemplatesNext]_tvars, NEW p \in Editor
  PROVE  JudgedRight(p)'
<1>1. task \in [Editor -> Task] /\ task[p] \in Task /\ JudgedRight(p)
  BY DEF DraftInv, TemplatesTypeOK, BoundInv
<1>2. task[p].type \in Type /\ task[p].target \in Type /\ task[p].got \in Nat
  BY <1>1 DEF Task
<1>3. ASSUME task'[p] = task[p] PROVE JudgedRight(p)'
  <2>1. Short(p)' <=> Short(p)
    BY <1>3 DEF Short
  <2>2. ASSUME NEW t \in Type, Usable(t), ~Short(p), task[p].op \in {"bind", "retire"},
               task[p].op = "bind" => task[p].type = t,
               task[p].op = "retire" => task[p].target = t /\ task[p].type # t
        PROVE  Usable(t)'
    BY <2>2, UsableStays, HeldIsNotRetired
  <2>3. /\ task[p].op = "bind" /\ task[p].loaded => Usable(task[p].type)'
        /\ task[p].op = "retire" /\ task[p].loaded => Usable(task[p].target)'
    <3>1. ASSUME task[p].op = "bind", task[p].loaded PROVE Usable(task[p].type)'
      <4>1. PICK t \in Type : t = task[p].type
        BY <1>2
      <4>2. Usable(t) /\ ~Short(p)
        BY <1>1, <3>1, <4>1 DEF JudgedRight
      <4>3. Usable(t)'
        BY <2>2, <3>1, <4>1, <4>2
      <4> QED BY <1>3, <4>1, <4>3
    <3>2. ASSUME task[p].op = "retire", task[p].loaded PROVE Usable(task[p].target)'
      <4>1. PICK t \in Type : t = task[p].target
        BY <1>2
      <4>2. Usable(t) /\ ~Short(p) /\ task[p].type # t
        BY <1>1, <3>2, <4>1 DEF JudgedRight
      <4>3. Usable(t)'
        BY <2>2, <3>2, <4>1, <4>2
      <4> QED BY <1>3, <4>1, <4>3
    <3> QED BY <3>1, <3>2
  <2> QED BY <1>1, <1>3, <2>1, <2>3 DEF JudgedRight
<1>4. CASE task' = task
  BY <1>3, <1>4
<1>5. CASE task' # task
  <2>1. PICK q \in Editor :
           /\ \A r \in Editor \ {q} : task'[r] = task[r]
           /\ \/ Acquire(q)
              \/ Released(q)
              \/ LoadLayout(q) /\ SameLocks(q)
              \/ Judge(q) /\ SameLocks(q)
    BY <1>5, LockStep DEF tvars, DraftInv
  <2>2. CASE q # p
    BY <1>3, <2>1, <2>2
  <2>3. CASE q = p /\ Released(p)
    BY <2>3, OrderLength DEF Released, JudgedRight
  <2>4. CASE q = p /\ Acquire(p)
    <3>1. /\ task'[p].op = task[p].op /\ task'[p].type = task[p].type
          /\ task'[p].target = task[p].target /\ task'[p].got = task[p].got + 1
          /\ task'[p].loaded = task[p].loaded
      BY <1>1, <2>4 DEF Acquire, Task
    <3>2. LockOrder(task'[p]) = LockOrder(task[p])
      BY <3>1, SameOrder
    <3>3. Short(p) /\ task[p].got + 1 \in 0..Len(LockOrder(task[p]))
      BY <1>2, <2>4, OrderLength DEF Acquire, Short
    <3> QED BY <1>1, <3>1, <3>2, <3>3 DEF JudgedRight
  <2>5. CASE q = p /\ LoadLayout(p) /\ SameLocks(p)
    <3>1. LockOrder(task'[p]) = LockOrder(task[p])
      BY <2>5, SameOrder DEF SameLocks
    <3>2. task[p].op = "activate"
      BY <2>5 DEF LoadLayout
    <3> QED BY <1>1, <2>5, <3>1, <3>2 DEF JudgedRight, SameLocks
  <2>6. CASE q = p /\ Judge(p) /\ SameLocks(p)
    <3>1. LockOrder(task'[p]) = LockOrder(task[p]) /\ UNCHANGED <<family, setting>>
      BY <2>6, SameOrder DEF SameLocks, Judge
    <3>2. (Short(p)' <=> Short(p)) /\ \A t : Usable(t)' <=> Usable(t)
      BY <2>6, <3>1 DEF Short, SameLocks, Usable
    <3>3. \/ task[p].op = "bind" /\ ~Short(p) /\ Usable(task[p].type)
          \/ task[p].op = "retire" /\ ~Short(p) /\ Usable(task[p].target)
      BY <2>6 DEF Judge, Ready
    <3>4. /\ task'[p].op = "bind" => ~Short(p)' /\ Usable(task[p].type)'
          /\ task'[p].op = "retire" => ~Short(p)' /\ Usable(task[p].target)'
      BY <2>6, <3>2, <3>3 DEF SameLocks, Usable
    <3> QED BY <1>1, <2>6, <3>1, <3>4 DEF JudgedRight, SameLocks
  <2> QED BY <2>1, <2>2, <2>3, <2>4, <2>5, <2>6
<1> QED BY <1>4, <1>5

LEMMA BoundStep ==
  ASSUME DraftInv, BoundInv, [TemplatesNext]_tvars
  PROVE  BoundInv'
<1>1. HeldApart' /\ \A p \in Editor : JudgedRight(p)'
  BY HeldApartStep, JudgedStep
<1>2. /\ ban \in [Ban -> Binding] /\ task \in [Editor -> Task]
      /\ family \in [Type -> {"none", "open", "retired"}]
  BY DEF DraftInv, TemplatesTypeOK
<1>3. \A b \in Ban : ban[b].type \in Type /\ Usable(ban[b].type)
  BY <1>2 DEF BoundInv, BoundIsUsable, Binding
<1>4. BoundIsUsable'
  <2>1. CASE UNCHANGED ban /\ \A p \in Editor : ~RetireType(p)
    <3>1. ASSUME NEW b \in Ban PROVE Usable(ban[b].type)'
      <4>1. PICK t \in Type : t = ban[b].type
        BY <1>3
      <4>2. Usable(t)'
        BY <1>3, <2>1, <4>1, UsableStays
      <4> QED BY <2>1, <4>1, <4>2
    <3> QED BY <3>1 DEF BoundIsUsable
  <2>2. ASSUME NEW p \in Editor, BindTemplate(p) PROVE BoundIsUsable'
    <3> DEFINE k == task[p]
    <3>1. /\ UNCHANGED <<family, setting>> /\ k.op = "bind" /\ k.loaded /\ k \in Task
          /\ ban' = [ban EXCEPT ![k.ban] = [type |-> k.type, at |-> clock + 1]]
      BY <1>2, <2>2 DEF BindTemplate, Ready
    <3>2. Usable(k.type)
      BY <3>1 DEF BoundInv, JudgedRight
    <3>3. \A t : Usable(t)' <=> Usable(t)
      BY <3>1 DEF Usable
    <3> HIDE DEF k
    <3>4. ASSUME NEW b \in Ban PROVE Usable(ban[b].type)'
      <4>1. ban'[b] = ban[b] \/ ban'[b].type = k.type
        BY <1>2, <3>1
      <4>2. PICK t : t = ban'[b].type
        OBVIOUS
      <4>3. Usable(t)
        BY <1>3, <3>2, <4>1, <4>2
      <4> QED BY <3>1, <4>2, <4>3 DEF Usable
    <3> QED BY <3>4 DEF BoundIsUsable
  <2>3. ASSUME NEW p \in Editor, RetireType(p) PROVE BoundIsUsable'
    <3> DEFINE k == task[p]
    <3>1. /\ UNCHANGED setting /\ k.op = "retire" /\ k.loaded /\ k \in Task
          /\ ban' = [b \in Ban |-> IF ban[b].type = k.type
                                   THEN [type |-> k.target, at |-> clock + 1] ELSE ban[b]]
          /\ family' = [family EXCEPT ![k.type] = "retired"]
      BY <1>2, <2>3 DEF RetireType, Ready
    <3>2. Usable(k.target) /\ k.target # k.type /\ k.type \in Type /\ k.target \in Type
      BY <3>1 DEF BoundInv, JudgedRight, Task
    <3> HIDE DEF k
    <3>3. \A t \in Type : t # k.type /\ Usable(t) =>
             t = Standard \/ (family'[t] = "open" /\ ActiveOf(t, setting'[t]) # {})
      BY <1>2, <3>1, <3>2 DEF Usable
    <3>4. ASSUME NEW b \in Ban PROVE Usable(ban[b].type)'
      <4>1. PICK t \in Type : t = ban'[b].type /\ t # k.type /\ Usable(t)
        <5>1. CASE ban[b].type = k.type
          BY <3>1, <3>2, <5>1
        <5>2. CASE ban[b].type # k.type
          BY <1>3, <3>1, <5>2
        <5> QED BY <5>1, <5>2
      <4> QED BY <3>3, <4>1 DEF Usable
    <3> QED BY <3>4 DEF BoundIsUsable
  <2>4. (\E t \in Type : CreateType(t)) => UNCHANGED ban
    BY DEF CreateType
  <2> QED BY <2>1, <2>2, <2>3, <2>4, QuietSteps
<1> QED BY <1>1, <1>4 DEF BoundInv

LEMMA BoundsHold == TemplatesSpec => [](DraftInv /\ BoundInv)
<1>1. DraftInv /\ BoundInv /\ [TemplatesNext]_tvars => (DraftInv /\ BoundInv)'
  BY DraftStep, BoundStep
<1> QED BY InitDrafts, InitBound, <1>1, PTL DEF TemplatesSpec

\* What an account is bound to can be rendered, whoever binds, retires,
\* activates and discards at once: a type is judged and its accounts are moved
\* under locks that nobody else's can be held with (assignTemplate,
\* retireTemplateType).
THEOREM BoundTypesServe == TemplatesSpec => []BoundIsUsable
<1>1. DraftInv /\ BoundInv => BoundIsUsable
  BY DEF BoundInv
<1> QED BY BoundsHold, <1>1, PTL

-----------------------------------------------------------------------------
(* Waiting.                                                                *)

\* The rank of what is locked, for types up to n.
RankOf(on, n) ==
    IF on[1] = "type" THEN on[2] ELSE IF on[1] = "generated" THEN n + 1 ELSE n + 2

\* All take their locks in the order of the ranks.
LEMMA OrderAscends ==
  ASSUME NEW n \in Nat, Type \subseteq 0..n, NEW k \in Task,
         k.op = "retire" => k.target # k.type,
         NEW j \in 1..Len(LockOrder(k))
  PROVE  /\ RankOf(LockOrder(k)[j].on, n) \in 0..(n + 2)
         /\ \A i \in 1..(j - 1) : RankOf(LockOrder(k)[i].on, n) < RankOf(LockOrder(k)[j].on, n)
<1>1. k.type \in 0..n /\ k.target \in 0..n
  BY DEF Task
<1> DEFINE own == Row(k.type, "update") other == Row(k.target, "share")
           kind == Kind("generated") late == Kind("layout") shared == Row(k.type, "share")
<1>2. /\ RankOf(own.on, n) = k.type /\ RankOf(shared.on, n) = k.type
      /\ RankOf(other.on, n) = k.target
      /\ RankOf(kind.on, n) = n + 1 /\ RankOf(late.on, n) = n + 2
  BY DEF RankOf, Row, Kind
<1> HIDE DEF own, other, kind, late, shared
<1>3. ASSUME NEW a, LockOrder(k) = <<a>>, RankOf(a.on, n) \in 0..(n + 2)
      PROVE  /\ RankOf(LockOrder(k)[j].on, n) \in 0..(n + 2)
             /\ \A i \in 1..(j - 1) : RankOf(LockOrder(k)[i].on, n) < RankOf(LockOrder(k)[j].on, n)
  <2>1. Len(LockOrder(k)) = 1 /\ LockOrder(k)[1] = a
    BY <1>3
  <2>2. j = 1
    BY <2>1
  <2> QED BY <1>3, <2>1, <2>2
<1>4. ASSUME NEW a, NEW b, LockOrder(k) = <<a, b>>,
             RankOf(a.on, n) \in 0..(n + 2), RankOf(b.on, n) \in 0..(n + 2),
             RankOf(a.on, n) < RankOf(b.on, n)
      PROVE  /\ RankOf(LockOrder(k)[j].on, n) \in 0..(n + 2)
             /\ \A i \in 1..(j - 1) : RankOf(LockOrder(k)[i].on, n) < RankOf(LockOrder(k)[j].on, n)
  <2>1. Len(LockOrder(k)) = 2 /\ LockOrder(k)[1] = a /\ LockOrder(k)[2] = b
    BY <1>4
  <2>2. j \in {1, 2} /\ \A i \in 1..(j - 1) : i = 1 /\ j = 2
    BY <2>1
  <2> QED BY <1>4, <2>1, <2>2
<1>5. CASE k.op = "none"
  <2>1. Len(LockOrder(k)) = 0
    BY <1>5 DEF LockOrder
  <2> QED BY <2>1
<1>6. CASE k.op = "bind"
  <2>1. Len(LockOrder(k)) = 0 \/ LockOrder(k) = <<shared>>
    BY <1>6 DEF LockOrder, shared
  <2> QED BY <1>1, <1>2, <1>3, <2>1
<1>7. CASE k.op = "retire"
  <2>1. \/ LockOrder(k) = <<own>>
        \/ LockOrder(k) = <<own, other>> /\ k.type < k.target
        \/ LockOrder(k) = <<other, own>> /\ k.target < k.type
    BY <1>1, <1>7 DEF LockOrder, Ascending, own, other
  <2> QED BY <1>1, <1>2, <1>3, <1>4, <2>1
<1>8. CASE k.op \in {"upload", "restore"}
  <2>1. LockOrder(k) = <<own, kind, late>>
    BY <1>8 DEF LockOrder, own, kind, late
  <2>2. /\ Len(LockOrder(k)) = 3 /\ LockOrder(k)[1] = own /\ LockOrder(k)[2] = kind
        /\ LockOrder(k)[3] = late
    BY <2>1
  <2>3. j \in {1, 2, 3} /\ \A i \in 1..(j - 1) : i \in {1, 2} /\ i < j
    BY <2>2
  <2> QED BY <1>1, <1>2, <2>2, <2>3
<1>9. CASE k.op \notin {"none", "bind", "retire", "upload", "restore"}
  <2>1. LockOrder(k) = <<own, kind>>
    BY <1>9 DEF LockOrder, own, kind
  <2> QED BY <1>1, <1>2, <1>4, <2>1
<1> QED BY <1>5, <1>6, <1>7, <1>8, <1>9

\* Of some numbers, one is the highest.
LEMMA Highest ==
  ASSUME NEW n \in Nat, NEW N, N \subseteq 0..n, N # {}
  PROVE  \E h \in N : \A m \in N : m <= h
<1> DEFINE R == OpToRel(<, Nat) T == {n - m : m \in N}
<1>1. IsWellFoundedOn(R, Nat)
  BY NatLessThanWellFounded
<1>2. T \subseteq Nat /\ T # {}
  <2>1. \A m \in 0..n : n - m \in Nat
    OBVIOUS
  <2>2. \A m \in N : n - m \in T /\ n - m \in Nat
    BY <2>1
  <2> QED BY <2>2
<1>3. PICK x \in T : \A y \in T : ~(<<y, x>> \in R)
  <2> HIDE DEF R, T
  <2> QED BY <1>1, <1>2, WFMin
<1>4. \A y \in T : ~(y < x)
  BY <1>2, <1>3 DEF OpToRel
<1>5. PICK h \in N : x = n - h
  OBVIOUS
<1>6. ASSUME NEW m \in N PROVE m <= h
  <2>1. n - m \in T /\ m \in Nat /\ h \in Nat
    OBVIOUS
  <2>2. ~(n - m < n - h)
    BY <1>4, <1>5, <2>1
  <2> QED BY <2>1, <2>2
<1> QED BY <1>6

Wanted(p) == LockOrder(task[p])[task[p].got + 1]

\* Among those who wait, one waits for a lock of the highest rank; who holds
\* that one has no lower rank left to wait for.
LEMMA SomebodyMoves ==
  ASSUME DraftInv, BoundInv, NEW n \in Nat, Type \subseteq 0..n
  PROVE  LocksResolve
<1> SUFFICES ASSUME NEW b \in Editor, Blocked(b)
             PROVE  \E p \in Editor : task[p].op # "none" /\ ~Blocked(p)
  BY DEF LocksResolve
<1>1. ASSUME NEW p \in Editor
      PROVE  /\ task[p] \in Task /\ task[p].got \in 0..Len(LockOrder(task[p]))
             /\ (task[p].op = "retire" => task[p].target # task[p].type)
             /\ Len(LockOrder(task[p])) \in Nat
  BY OrderLength DEF DraftInv, TemplatesTypeOK, BoundInv, JudgedRight
<1> DEFINE rank(p) == RankOf(Wanted(p).on, n)
           ranks == {rank(p) : p \in {q \in Editor : Blocked(q)}}
<1>2. ASSUME NEW p \in Editor, Blocked(p)
      PROVE  /\ rank(p) \in 0..(n + 2)
             /\ \A l \in Holds(p) : RankOf(l.on, n) < rank(p)
  <2> DEFINE j == task[p].got + 1
  <2>1. Short(p)
    BY <1>2 DEF Blocked
  <2>2. j \in 1..Len(LockOrder(task[p])) /\ 1..task[p].got = 1..(j - 1)
    BY <1>1, <2>1 DEF Short
  <2> HIDE DEF j
  <2>3. /\ RankOf(LockOrder(task[p])[j].on, n) \in 0..(n + 2)
        /\ \A i \in 1..(j - 1) :
              RankOf(LockOrder(task[p])[i].on, n) < RankOf(LockOrder(task[p])[j].on, n)
    BY <1>1, <2>2, OrderAscends
  <2> QED BY <2>2, <2>3 DEF Wanted, Holds, j
<1>3. PICK p \in Editor : Blocked(p) /\ \A q \in Editor : Blocked(q) => rank(q) <= rank(p)
  <2>1. ranks \subseteq 0..(n + 2) /\ ranks # {} /\ n + 2 \in Nat
    BY <1>2
  <2>2. PICK h \in ranks : \A m \in ranks : m <= h
    <3> HIDE DEF ranks
    <3> QED BY <2>1, Highest
  <2> QED BY <2>2
<1>4. PICK q \in Editor \ {p} : \E l \in Holds(q) : Conflict(l, Wanted(p))
  BY <1>3 DEF Blocked, Wanted
<1>5. \E l \in Holds(q) : RankOf(l.on, n) = rank(p)
  BY <1>4 DEF Conflict
<1>6. ~Blocked(q)
  <2>1. SUFFICES ASSUME Blocked(q) PROVE FALSE
    OBVIOUS
  <2>2. rank(p) < rank(q) /\ rank(q) <= rank(p)
    BY <1>2, <1>3, <1>4, <1>5, <2>1
  <2>3. rank(p) \in Nat /\ rank(q) \in Nat
    BY <1>2, <1>3, <2>1
  <2> HIDE DEF rank
  <2> QED BY <2>2, <2>3
<1>7. task[q].op # "none"
  <2>1. task[q].op = "none" => Len(LockOrder(task[q])) = 0
    BY DEF LockOrder
  <2>2. task[q].op = "none" => Holds(q) = {}
    BY <1>1, <2>1 DEF Holds
  <2> QED BY <1>4, <2>2
<1> QED BY <1>6, <1>7

\* While the ids are those of some number of types, those who wait for a lock
\* never wait for one another (the order of the locks in retireTemplateType
\* and nextVersionNo).
THEOREM LocksAlwaysResolve ==
  ASSUME NEW n \in Nat, Type \subseteq 0..n
  PROVE  TemplatesSpec => []LocksResolve
<1>1. DraftInv /\ BoundInv => LocksResolve
  BY SomebodyMoves
<1> QED BY BoundsHold, <1>1, PTL

=============================================================================
