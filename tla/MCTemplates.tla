---------------------------- MODULE MCTemplates ----------------------------
(***************************************************************************)
(* Small instances of Templates for TLC, three desks.  "types": from       *)
(* nothing, one manager works while the others look at Standard.           *)
(* "drafting" and "binding" go on from two types in use, one of them with  *)
(* an uploaded draft: the managers edit Standard, or they activate, bind   *)
(* and retire.                                                             *)
(***************************************************************************)
EXTENDS TemplateProps

InUseSince(n) == [status |-> "ACTIVE", structure |-> 0, layout |-> 1, token |-> n,
                  built |-> <<0, n>>, shown |-> n]

Uploaded(n, status) == [status |-> status, files |-> n, token |-> n]

Busy(home) ==
    /\ family = [t \in Type |-> "open"]
    /\ layout = [t \in Type |-> IF t = 1 THEN <<Uploaded(1, "ACTIVE"), Uploaded(3, "DRAFT")>>
                                ELSE <<Uploaded(t, "ACTIVE")>>]
    /\ setting = [t \in Type |-> IF t = 1
                                 THEN <<InUseSince(1),
                                        [status |-> "DRAFT", structure |-> 0, layout |-> 2,
                                         token |-> 3, built |-> <<0, 0>>, shown |-> 0]>>
                                 ELSE <<InUseSince(t)>>]
    /\ ban = [b \in Ban |-> [type |-> Standard, at |-> 0]]
    /\ page = [p \in Editor |-> PageOf(home, layout[home], setting[home], {1})]
    /\ task = [p \in Editor |-> NoTask]
    /\ clock = 3

TemplatesAt(desk) ==
    CASE desk = "drafting" -> Busy(Standard)
      [] desk = "binding" -> Busy(1)
      [] OTHER -> TemplatesInit

TypesDesk ==
    /\ TemplatesNext
    /\ clock' <= 1
    /\ \E p \in Editor : \A q \in Editor \ {p} :
          task'[q] = NoTask /\ page'[q].type = Standard /\ page'[q].token = 0

DraftingDesk ==
    /\ TemplatesNext
    /\ \A p \in Editor : page'[p].type = Standard /\ task'[p].op \notin {"bind", "retire"}

BindingDesk ==
    /\ TemplatesNext
    /\ clock' <= 5
    /\ \A p \in Editor :
          page'[p].type = 1 /\ task'[p].op \notin {"save", "upload", "restore"}

=============================================================================
