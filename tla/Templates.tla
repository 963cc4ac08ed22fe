----------------------------- MODULE Templates -----------------------------
(***************************************************************************)
(* Invoice templates (services/billing/invoice-template): types, their     *)
(* layout and settings versions, and the accounts bound to them.           *)
(*                                                                         *)
(* An operation begins with what it reads outside its transaction, takes   *)
(* its locks one by one, and then reads, tests and writes in one step, as  *)
(* nobody else may then write what it looks at.  Binding and retiring read *)
(* and write in two steps, as they hold a type for sharing only.           *)
(*                                                                         *)
(* Abstractions.  Files, structures and tokens are known by the write that *)
(* made them, a number of the clock.  Blobs are content-addressed and      *)
(* never removed, so only which content a version names is kept.  A        *)
(* package, a rendering or a database may fail: an operation may give up   *)
(* at any time.  The page a manager works on is read in one step.          *)
(***************************************************************************)
EXTENDS Naturals, Sequences

CONSTANTS
    Type,       \* ids of template types
    Standard,   \* the default type
    Ban,        \* billing accounts
    Editor,     \* managers, each with one page open and in one operation
    MaxClock    \* bound: writes there are tokens for

ASSUME TemplatesAssumption ==
    /\ Type \subseteq Nat /\ Standard \in Type
    /\ Ban # {} /\ MaxClock \in Nat

VARIABLES
    family,     \* rows of types
    layout,     \* layout versions of a type, by number
    setting,    \* settings versions of a type, by number
    ban,        \* type of an account, and the write that bound it
    page,       \* what a manager's page shows
    task,       \* operations under way
    clock       \* last write

tvars == <<family, layout, setting, ban, page, task, clock>>

-----------------------------------------------------------------------------
VersionStatus == {"DRAFT", "ACTIVE", "RETIRED"}

LayoutVersion == [status : VersionStatus, files : Nat, token : Nat]

\* built: the structure and the files its own files were generated from;
\* shown: the files its activator had seen (a history variable).
SettingVersion ==
    [status : VersionStatus, structure : Nat, layout : Nat, token : Nat,
     built : Nat \X Nat, shown : Nat]

\* token and draft are the form's, seen and upload the tokens the upload dialog
\* sends; saw is the structure the form started from (a history variable).
Page ==
    [type : Type, token : Nat, draft : Nat, seen : Nat, upload : Nat, saw : Nat, files : Nat]

Binding == [type : Type, at : Nat]

Operation == {"none", "save", "upload", "restore", "discard", "activate", "bind", "retire"}

Task ==
    [op : Operation, type : Type, target : Type, ban : Ban, was : Binding,
     structure : Nat, layout : Nat, files : Nat, pair : BOOLEAN, loaded : BOOLEAN,
     got : Nat]

HasDraft(rows) == rows # <<>> /\ rows[Len(rows)].status = "DRAFT"

TemplatesTypeOK ==
    /\ family \in [Type -> {"none", "open", "retired"}]
    /\ layout \in [Type -> Seq(LayoutVersion)]
    /\ setting \in [Type -> Seq(SettingVersion)]
    /\ \A t \in Type : \A n \in DOMAIN setting[t] : setting[t][n].layout \in DOMAIN layout[t]
    /\ ban \in [Ban -> Binding]
    /\ page \in [Editor -> Page]
    /\ task \in [Editor -> Task]
    /\ clock \in Nat

\* A draft is its type's last version: numbers grow, and an index allows one
\* draft of each kind.
DraftOf(rows) == rows[Len(rows)]
TokenOf(rows) == IF HasDraft(rows) THEN DraftOf(rows).token ELSE 0

\* The immutable first versions of Standard.
Default(t, n) == t = Standard /\ n = 1

ActiveOf(t, rows) == {n \in DOMAIN rows : rows[n].status = "ACTIVE" /\ ~Default(t, n)}

\* resolveGeneratedForFamily, for a type that is not retired.
InUse(t) ==
    IF ActiveOf(t, setting[t]) # {} THEN ActiveOf(t, setting[t])
    ELSE {n \in DOMAIN setting[t] : Default(t, n)}

\* What the page of a type shows: its draft, or else the version in use.
PageOf(t, layouts, settings, inUse) ==
    LET shows == IF HasDraft(settings) THEN {Len(settings)} ELSE inUse
        row == settings[CHOOSE n \in shows : TRUE]
    IN  [type |-> t, token |-> TokenOf(settings), seen |-> TokenOf(settings),
         draft |-> IF HasDraft(settings) THEN Len(settings) ELSE 0,
         upload |-> TokenOf(layouts),
         saw |-> IF shows = {} THEN 0 ELSE row.structure,
         files |-> IF shows = {} THEN 0 ELSE layouts[row.layout].files]

NoTask ==
    [op |-> "none", type |-> Standard, target |-> Standard,
     ban |-> CHOOSE b \in Ban : TRUE, was |-> [type |-> Standard, at |-> 0],
     structure |-> 0, layout |-> 0, files |-> 0, pair |-> FALSE, loaded |-> FALSE,
     got |-> 0]

TemplatesInit ==
    /\ family = [t \in Type |-> IF t = Standard THEN "open" ELSE "none"]
    /\ layout = [t \in Type |-> IF t = Standard
                                THEN <<[status |-> "ACTIVE", files |-> 0, token |-> 0]>>
                                ELSE <<>>]
    /\ setting = [t \in Type |-> IF t = Standard
                                 THEN <<[status |-> "ACTIVE", structure |-> 0, layout |-> 1,
                                         token |-> 0, built |-> <<0, 0>>, shown |-> 0]>>
                                 ELSE <<>>]
    /\ ban = [b \in Ban |-> [type |-> Standard, at |-> 0]]
    /\ page = [p \in Editor |-> [type |-> Standard, token |-> 0, draft |-> 0, seen |-> 0,
                                 upload |-> 0, saw |-> 0, files |-> 0]]
    /\ task = [p \in Editor |-> NoTask]
    /\ clock = 0

-----------------------------------------------------------------------------
(* Locks: rows of types, shared or for update, and the kinds of versions.  *)

Row(t, mode) == [on |-> <<"type", t>>, mode |-> mode]
Kind(kind) == [on |-> <<kind, 0>>, mode |-> "update"]

\* Mutant of Ascending: the type to be retired is locked before its target.
OwnFirst(k) ==
    IF k.target = Standard THEN <<Row(k.type, "update")>>
    ELSE <<Row(k.type, "update"), Row(k.target, "share")>>

\* The order of retireTemplateType, over the ids.
Ascending(k) ==
    LET own == Row(k.type, "update")
        other == Row(k.target, "share")
    IN  IF k.target = Standard THEN <<own>>
        ELSE IF k.type < k.target THEN <<own, other>> ELSE <<other, own>>

\* Mutant of LockOrder: an account is bound without a lock on the type.
BindUnlocked(k) ==
    CASE k.op \in {"none", "bind"} -> <<>>
      [] k.op = "retire" -> Ascending(k)
      [] OTHER -> <<Row(k.type, "update"), Kind("generated")>>

\* What an operation locks, in this order.
LockOrder(k) ==
    CASE k.op = "none" -> <<>>
      [] k.op = "bind" -> IF k.type = Standard THEN <<>> ELSE <<Row(k.type, "share")>>
      [] k.op = "retire" -> Ascending(k)
      [] k.op \in {"upload", "restore"} ->
            <<Row(k.type, "update"), Kind("generated"), Kind("layout")>>  \* nextVersionNo
      [] OTHER -> <<Row(k.type, "update"), Kind("generated")>>

Holds(p) == {LockOrder(task[p])[i] : i \in 1..task[p].got}
Short(p) == task[p].got < Len(LockOrder(task[p]))
Conflict(a, b) == a.on = b.on /\ "update" \in {a.mode, b.mode}

Blocked(p) ==
    /\ Short(p)
    /\ \E q \in Editor \ {p} : \E l \in Holds(q) :
          Conflict(l, LockOrder(task[p])[task[p].got + 1])

Acquire(p) ==
    /\ Short(p) /\ ~Blocked(p)
    /\ task[p].op = "activate" => task[p].loaded
    /\ task' = [task EXCEPT ![p].got = @ + 1]
    /\ UNCHANGED <<family, layout, setting, ban, page, clock>>

\* All locks are held: the transaction's reads and writes may be one step.
Ready(p, op) == task[p].op = op /\ ~Short(p)

Done(p) == task' = [task EXCEPT ![p] = NoTask]

\* Refused, or rolled back.
GiveUp(p) ==
    /\ task[p].op # "none" /\ Done(p)
    /\ UNCHANGED <<family, layout, setting, ban, page, clock>>

-----------------------------------------------------------------------------
(* Outside the transactions.                                               *)

OpenPage(p, t) ==
    /\ family[t] = "open" /\ task[p].op = "none"
    /\ page' = [page EXCEPT ![p] = PageOf(t, layout[t], setting[t], InUse(t))]
    /\ UNCHANGED <<family, layout, setting, ban, task, clock>>

BeginTask(p, k) ==
    /\ task[p].op = "none"
    /\ task' = [task EXCEPT ![p] = k]
    /\ UNCHANGED <<family, layout, setting, ban, page, clock>>

BeginEdit(p, op) ==
    /\ op = "discard" => page[p].draft # 0
    /\ BeginTask(p, [NoTask EXCEPT !.op = op, !.type = page[p].type])

\* matchExpectedDraft: the draft the dialog knew of, or none as then.
Expected(p) == page[p].upload = TokenOf(layout[page[p].type])

\* The number an upload is for.
UploadNo(t) == IF HasDraft(layout[t]) THEN Len(layout[t]) ELSE Len(layout[t]) + 1

BeginUpload(p, op) ==
    LET t == page[p].type
    IN  /\ family[t] = "open" /\ Expected(p)
        /\ BeginTask(p, [NoTask EXCEPT !.op = op, !.type = t, !.layout = UploadNo(t)])

\* activateTemplate, steps 1 and 2.
BeginActivate(p) ==
    LET t == page[p].type
    IN  /\ family[t] = "open"
        /\ HasDraft(setting[t]) /\ Len(setting[t]) = page[p].draft
        /\ DraftOf(setting[t]).token = page[p].token
        /\ BeginTask(p, [NoTask EXCEPT !.op = "activate", !.type = t,
                            !.structure = DraftOf(setting[t]).structure,
                            !.layout = DraftOf(setting[t]).layout])

\* activateTemplate, step 3: the layout is read after the draft, and the
\* version's own files are generated from the two.
LoadLayout(p) ==
    LET k == task[p] row == layout[k.type][k.layout]
    IN  /\ k.op = "activate" /\ ~k.loaded
        /\ task' = [task EXCEPT ![p].loaded = TRUE, ![p].files = row.files,
                                ![p].pair = row.status = "DRAFT"]
        /\ UNCHANGED <<family, layout, setting, ban, page, clock>>

BeginBind(p, b, t) ==
    BeginTask(p, [NoTask EXCEPT !.op = "bind", !.type = t, !.ban = b, !.was = ban[b]])

\* Refused for Standard, and with itself as the target.
BeginRetire(p, t, u) ==
    /\ t # Standard /\ u # t
    /\ BeginTask(p, [NoTask EXCEPT !.op = "retire", !.type = t, !.target = u])

-----------------------------------------------------------------------------
(* The transactions.                                                       *)

\* Mutant of StillOpen: the early answer, without a lock, was enough.
EverOpen(t) == family[t] # "none"

\* Under the type's lock: the type exists and has not been retired meanwhile.
StillOpen(t) == family[t] = "open"

CreateType(t) ==
    /\ family[t] = "none"
    /\ family' = [family EXCEPT ![t] = "open"]
    /\ UNCHANGED <<layout, setting, ban, page, task, clock>>

\* saveTemplateDraft over the working draft, or as the first one.
SaveDraft(p) ==
    LET t == page[p].type
        saved == IF HasDraft(setting[t])
                 THEN [setting[t] EXCEPT ![Len(setting[t])].structure = clock + 1,
                                         ![Len(setting[t])].token = clock + 1]
                 ELSE Append(setting[t],
                        [status |-> "DRAFT", structure |-> clock + 1,
                         layout |-> setting[t][CHOOSE n \in InUse(t) : TRUE].layout,
                         token |-> clock + 1, built |-> <<0, 0>>, shown |-> 0])
    IN  /\ Ready(p, "save") /\ StillOpen(t) /\ clock < MaxClock
        /\ page[p].token = TokenOf(setting[t])
        /\ ~HasDraft(setting[t]) => InUse(t) # {}
        /\ setting' = [setting EXCEPT ![t] = saved]
        /\ page' = [page EXCEPT ![p] = PageOf(t, layout[t], saved, {})]
        /\ clock' = clock + 1
        /\ Done(p)
        /\ UNCHANGED <<family, layout, ban>>

\* saveTemplateDraft, DRAFT_LAYOUT_REPLACED: equal tokens are an upload's, and
\* the form goes on with them and its values.
AdoptToken(p) ==
    LET t == page[p].type draft == DraftOf(setting[t])
    IN  /\ Ready(p, "save") /\ StillOpen(t)
        /\ HasDraft(setting[t]) /\ draft.token # page[p].token
        /\ HasDraft(layout[t]) /\ DraftOf(layout[t]).token = draft.token
        /\ page' = [page EXCEPT ![p].token = draft.token,
                                ![p].files = layout[t][draft.layout].files]
        /\ Done(p)
        /\ UNCHANGED <<family, layout, setting, ban, clock>>

\* Mutant of Discarded: the layout's draft stays.
LayoutStays(t) ==
    /\ setting' = [setting EXCEPT ![t][Len(setting[t])].status = "RETIRED"]
    /\ UNCHANGED layout

\* The settings' draft, and the layout's if there is one.
Discarded(t) ==
    /\ setting' = [setting EXCEPT ![t][Len(setting[t])].status = "RETIRED"]
    /\ layout' = IF HasDraft(layout[t])
                 THEN [layout EXCEPT ![t][Len(layout[t])].status = "RETIRED"] ELSE layout

DiscardDraft(p) ==
    LET t == page[p].type
    IN  /\ Ready(p, "discard") /\ StillOpen(t)
        /\ HasDraft(setting[t]) /\ Len(setting[t]) = page[p].draft
        /\ DraftOf(setting[t]).token = page[p].token
        /\ Discarded(t)
        /\ Done(p)
        /\ UNCHANGED <<family, ban, page, clock>>

\* installLayoutPackage.  The layout's draft is written over or appended, and
\* the settings' draft is pointed at it or made; only a restore replaces the
\* structure, and only then do the two tokens differ.
InstallLayout(p) ==
    LET t == page[p].type
        restore == task[p].op = "restore"
        token == IF restore THEN clock + 2 ELSE clock + 1
        number == UploadNo(t)
        row == [status |-> "DRAFT", files |-> clock + 1, token |-> clock + 1]
        base == IF HasDraft(setting[t]) THEN DraftOf(setting[t]).structure
                ELSE IF InUse(t) = {} THEN 0
                ELSE setting[t][CHOOSE n \in InUse(t) : TRUE].structure
        draft == [status |-> "DRAFT", layout |-> number, token |-> token,
                  structure |-> IF restore THEN token ELSE base,
                  built |-> <<0, 0>>, shown |-> 0]
        at == IF HasDraft(setting[t]) THEN Len(setting[t]) ELSE Len(setting[t]) + 1
    IN  /\ Ready(p, "upload") \/ Ready(p, "restore")
        /\ StillOpen(t) /\ token <= MaxClock
        /\ Expected(p) /\ task[p].layout = number
        /\ restore => page[p].seen = TokenOf(setting[t])
        /\ layout' = [layout EXCEPT ![t] = SubSeq(@, 1, number - 1) \o <<row>>]
        /\ setting' = [setting EXCEPT ![t] = SubSeq(@, 1, at - 1) \o <<draft>>]
        /\ clock' = token
        /\ Done(p)
        /\ UNCHANGED <<family, ban, page>>

\* retireActive, of one kind.
Retired(t, rows) ==
    [n \in DOMAIN rows |-> IF n \in ActiveOf(t, rows)
                           THEN [rows[n] EXCEPT !.status = "RETIRED"] ELSE rows[n]]

\* Mutant of StillDraft: only the early, unlocked look at the draft.
NotLookedAtAgain(p) ==
    HasDraft(setting[task[p].type])

\* Step 8: the draft and its layout are still those that were loaded.
StillDraft(p) ==
    LET k == task[p] draft == DraftOf(setting[k.type])
    IN  /\ HasDraft(setting[k.type]) /\ Len(setting[k.type]) = page[p].draft
        /\ draft.token = page[p].token
        /\ k.pair => /\ layout[k.type][k.layout].status = "DRAFT"
                     /\ layout[k.type][k.layout].files = k.files
                     /\ draft.layout = k.layout

ActivateTemplate(p) ==
    LET k == task[p] t == k.type last == Len(setting[t])
    IN  /\ Ready(p, "activate") /\ k.loaded /\ StillOpen(t)
        /\ StillDraft(p)
        /\ layout' = IF k.pair
                     THEN [layout EXCEPT ![t] = [Retired(t, @) EXCEPT ![k.layout].status = "ACTIVE"]]
                     ELSE layout
        /\ setting' = [setting EXCEPT ![t] = [Retired(t, @) EXCEPT
                          ![last].status = "ACTIVE",
                          ![last].built = <<k.structure, k.files>>,
                          ![last].shown = page[p].files]]
        /\ Done(p)
        /\ UNCHANGED <<family, ban, page, clock>>

\* isUsable and assertBindableTemplate; Standard stands for null.
Usable(t) == t = Standard \/ (family[t] = "open" /\ ActiveOf(t, setting[t]) # {})

\* What is bound, or takes the accounts over, is judged under its lock.
Judge(p) ==
    LET k == task[p]
    IN  /\ ~k.loaded
        /\ \/ Ready(p, "bind") /\ Usable(k.type)
           \/ Ready(p, "retire") /\ StillOpen(k.type) /\ Usable(k.target)
        /\ task' = [task EXCEPT ![p].loaded = TRUE]
        /\ UNCHANGED <<family, layout, setting, ban, page, clock>>

BindTemplate(p) ==
    LET k == task[p]
    IN  /\ Ready(p, "bind") /\ k.loaded /\ clock < MaxClock
        /\ ban[k.ban] = k.was /\ k.was.type # k.type
        /\ ban' = [ban EXCEPT ![k.ban] = [type |-> k.type, at |-> clock + 1]]
        /\ clock' = clock + 1
        /\ Done(p)
        /\ UNCHANGED <<family, layout, setting, page>>

RetireType(p) ==
    LET k == task[p]
    IN  /\ Ready(p, "retire") /\ k.loaded /\ clock < MaxClock
        /\ ban' = [b \in Ban |-> IF ban[b].type = k.type
                                 THEN [type |-> k.target, at |-> clock + 1] ELSE ban[b]]
        /\ family' = [family EXCEPT ![k.type] = "retired"]
        /\ clock' = clock + 1
        /\ Done(p)
        /\ UNCHANGED <<layout, setting, page>>

-----------------------------------------------------------------------------
TemplatesNext ==
    \/ \E t \in Type : CreateType(t)
    \/ \E p \in Editor :
          \/ Acquire(p) \/ GiveUp(p) \/ LoadLayout(p) \/ Judge(p) \/ BeginActivate(p)
          \/ SaveDraft(p) \/ AdoptToken(p) \/ DiscardDraft(p) \/ InstallLayout(p)
          \/ ActivateTemplate(p) \/ BindTemplate(p) \/ RetireType(p)
          \/ \E op \in {"save", "discard"} : BeginEdit(p, op)
          \/ \E op \in {"upload", "restore"} : BeginUpload(p, op)
          \/ \E t \in Type :
                \/ OpenPage(p, t)
                \/ \E b \in Ban : BeginBind(p, b, t)
                \/ \E u \in Type : BeginRetire(p, t, u)

TemplatesSpec == TemplatesInit /\ [][TemplatesNext]_tvars

=============================================================================
