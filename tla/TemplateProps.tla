--------------------------- MODULE TemplateProps ---------------------------
(***************************************************************************)
(* What Templates promises.                                                *)
(***************************************************************************)
EXTENDS Templates

\* A version in use was generated from its own structure and from the layout it
\* names, and that layout is the one its activator was shown: draft, layout and
\* files are read without a lock by activateTemplate, while others save and
\* upload.
ActivatedAsShown ==
    \A t \in Type : \A n \in DOMAIN setting[t] :
        LET row == setting[t][n] files == layout[t][row.layout].files
        IN  row.status = "ACTIVE" => row.built = <<row.structure, files>> /\ row.shown = files

\* Versions point at layouts that exist (the types), a layout's draft never
\* stands alone, and no version in use, or to be, points at a layout that was
\* thrown away.
LayoutsPaired ==
    /\ TemplatesTypeOK
    /\ \A t \in Type :
          /\ HasDraft(layout[t]) =>
                HasDraft(setting[t]) /\ DraftOf(setting[t]).layout = Len(layout[t])
          /\ \A n \in DOMAIN setting[t] :
                LET used == layout[t][setting[t][n].layout].status
                IN  CASE setting[t][n].status = "ACTIVE" -> used = "ACTIVE"
                      [] setting[t][n].status = "DRAFT" -> used \in {"DRAFT", "ACTIVE"}
                      [] OTHER -> TRUE

\* The run-start capture finds a version for every account: what it is bound to
\* is never retired or without a version in use, whoever binds, moves,
\* activates and retires at once.
BoundIsUsable == \A b \in Ban : Usable(ban[b].type)

\* A retired type's versions stay as the retirement left them, although an
\* operation that found it open may still be under way.
RetiredStays ==
    [][\A t \in Type : family[t] = "retired" =>
            layout'[t] = layout[t] /\ setting'[t] = setting[t]]_tvars

\* Those who wait for a lock never wait for one another.
LocksResolve ==
    (\E p \in Editor : Blocked(p)) => \E p \in Editor : task[p].op # "none" /\ ~Blocked(p)

\* A save never replaces settings its form has not seen: "never
\* last-writer-wins" (types/billing.ts, DRAFT_CONFLICT).
NoBlindSave ==
    [][\A p \in Editor : SaveDraft(p) =>
            LET t == page[p].type
            IN  HasDraft(setting[t]) => DraftOf(setting[t]).structure = page[p].saw]_tvars

=============================================================================
