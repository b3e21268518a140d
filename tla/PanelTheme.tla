----------------------------- MODULE PanelTheme -----------------------------
(***************************************************************************)
(* web/src/ThemeProvider.tsx over web/src/lib/theme.ts, and the sections   *)
(* of web/src/pages/Settings.tsx that choose, edit and preview a theme.    *)
(*                                                                         *)
(* look: the choice, the custom themes the provider knows, and what the    *)
(* tab is painted with.  The provider outlives the pages, and so do the    *)
(* handlers that act on it; the editor, `view`, does not.                  *)
(* view: the theme being edited or None, busy, and the custom themes the   *)
(* cleanup of the preview was closed over.                                 *)
(* host: nothing.  The profile and the themes in it are changed in other   *)
(* browsers too, so the daemon answers with any.                           *)
(*                                                                         *)
(* Left out: the colours, the cache for the next load of the tab, export.  *)
(***************************************************************************)
EXTENDS PanelApi

CONSTANT Customs \* ids custom themes may have

VARIABLE look

System == "system"
Builtin == {"dark", "light"}
ThemeChoices == {System} \cup Builtin \cup Customs
Preview == "preview"

Found == {None}

Opening == [editing |-> None, busy |-> FALSE, seen |-> look.customs]

FirstCalls(cs) == cs

Types ==
    view \in [editing : Customs \cup {None}, busy : BOOLEAN, seen : SUBSET Customs]

Waits == view.busy

LookType ==
    look \in [choice : ThemeChoices, customs : SUBSET Customs,
              painted : ThemeChoices \cup {Preview}]

-----------------------------------------------------------------------------
(* theme.ts.                                                               *)

\* apply: a custom theme that is not known is painted dark.
Apply(choice, customs) == IF choice \in Customs \ customs THEN "dark" ELSE choice

\* baseOf; the custom themes here are dark, and so is the system.
BaseOf(choice) == IF choice = "light" THEN "light" ELSE "dark"

-----------------------------------------------------------------------------
(* ThemeProvider.                                                          *)

LoadThemes(cs, h, arg) == Add(cs, h, Call("listCustomThemes", arg))

\* The first paint is the cached choice, before any custom theme is known.
LookInit(choice) == look = [choice |-> choice, customs |-> {}, painted |-> Apply(choice, {})]

\* The effect on [choice, customThemes] paints again: after every load, and
\* when the choice changes.
Loaded(customs, choice) ==
    [choice |-> choice, customs |-> customs, painted |-> Apply(choice, customs)]

\* setChoice, by a handler that knew the themes `seen`.
Chosen(choice, seen) ==
    [look EXCEPT !.choice = choice,
                 !.painted = Apply(choice, IF choice = look.choice THEN seen ELSE look.customs)]

\* The effect on [serverChoice]: the profile wins over the cache.
Adopt(choice) == IF choice = look.choice THEN look ELSE Chosen(choice, look.customs)

\* watchSystem: the preference of the system paints over whatever is shown.
SystemChanges ==
    /\ look.choice = System
    /\ look' = [look EXCEPT !.painted = System]
    /\ UNCHANGED <<apiVars, view, host, calls>>

\* setChoice by a button: applied here, then saved.
SetChoice(choice) ==
    /\ Ask("provider", "updateMe", None)
    /\ look' = Chosen(choice, look.customs)
    /\ UNCHANGED <<apiVars, view, host>>

\* toggleLightDark, in the sidebar of every page.
Toggle == SetChoice(IF BaseOf(look.choice) = "dark" THEN "light" ELSE "dark")

-----------------------------------------------------------------------------
(* The daemon.                                                             *)

\* What the handlers await goes on when the page is left.
Handlers == {"provider", "saveTheme", "removeTheme"}

Serve(i) ==
    /\ i[1] \in Handlers
    /\ \/ Asked(i, "listCustomThemes") /\ \E themes \in SUBSET Customs : Answer(i, themes)
       \/ Asked(i, "updateMe") /\ Answer(i, None)
       \/ Asked(i, "createCustomTheme") /\ ((\E id \in Customs : Answer(i, id)) \/ Reject(i))
       \/ Asked(i, "updateCustomTheme") /\ (Answer(i, At(i).arg.id) \/ Reject(i))
       \/ Asked(i, "deleteCustomTheme") /\ (Answer(i, None) \/ Reject(i))
    /\ UNCHANGED <<apiVars, view, host>>

-----------------------------------------------------------------------------
(* Settings.                                                               *)

\* A card of ThemeSection.
PickTheme == \E choice \in {System} \cup Builtin \cup look.customs : SetChoice(choice)

\* The effect on [accent, radius, base], when the editor opens too: the tab
\* itself is painted with what is edited.
Previewed(l) == [l EXCEPT !.painted = Preview]

\* Its cleanup.
EndPreview == [look EXCEPT !.painted = Apply(look.choice, view.seen)]

\* A field of the editor, or handleImport, which starts another theme.
Edit ==
    /\ look' = Previewed(look)
    /\ \E editing \in {view.editing, None} :
         view' = [view EXCEPT !.seen = look.customs, !.editing = editing]
    /\ UNCHANGED <<apiVars, host, calls>>

\* handleSave; the theme saved is loaded, chosen, and edited from there on.
Save ==
    /\ ~view.busy
    /\ Ask("saveTheme", IF view.editing = None THEN "createCustomTheme" ELSE "updateCustomTheme",
           [id |-> view.editing, seen |-> look.customs])
    /\ view' = [view EXCEPT !.busy = TRUE]
    /\ UNCHANGED <<apiVars, host, look>>

\* A handler that returns to a page that is gone sets nothing there.  Bound:
\* Settings is not opened again while one goes on.
Here(next) == IF page = "theme" THEN next ELSE view

SettleSave(i) ==
    LET arg == At(i).arg
    IN  \/ /\ Replied(i, "saveTheme") /\ At(i).op \in ThemeCalls.writes
           /\ calls' = LoadThemes(Without(i), "saveTheme", [arg EXCEPT !.id = At(i).val])
           /\ UNCHANGED <<view, look>>
        \/ /\ Failed(i, "saveTheme") /\ At(i).op \in ThemeCalls.writes
           /\ calls' = Without(i)
           /\ view' = Here([view EXCEPT !.busy = FALSE])
           /\ UNCHANGED look
        \/ /\ At(i).op = "listCustomThemes"
           /\ \/ Replied(i, "saveTheme") /\ look' = Loaded(At(i).val, arg.id)
              \/ Failed(i, "saveTheme") /\ look' = Chosen(arg.id, arg.seen)
           /\ calls' = Add(Without(i), "saveTheme", Call("updateMe", arg.id))
           /\ UNCHANGED view
        \/ /\ Ended(i, "saveTheme") /\ At(i).op = "updateMe"
           /\ calls' = Without(i)
           /\ view' = Here([view EXCEPT !.busy = FALSE, !.editing = arg])
           /\ UNCHANGED look

\* handleDelete, which knows what there was when it was pressed.
Delete ==
    /\ \E id \in look.customs :
         Ask("removeTheme", "deleteCustomTheme",
             [id |-> id, chosen |-> look.choice = id, seen |-> look.customs])
    /\ UNCHANGED <<apiVars, view, host, look>>

SettleDelete(i) ==
    LET arg == At(i).arg
    IN  \/ /\ Got(i, "removeTheme", "deleteCustomTheme") /\ arg.chosen
           /\ look' = Chosen("dark", arg.seen)
           /\ calls' = Add(Without(i), "removeTheme", Call("updateMe", None))
           /\ UNCHANGED view
        \/ /\ Got(i, "removeTheme", "deleteCustomTheme") /\ ~arg.chosen
           /\ calls' = LoadThemes(Without(i), "provider", None)
           /\ view' = Here([view EXCEPT !.editing = IF @ = arg.id THEN None ELSE @])
           /\ UNCHANGED look
        \/ /\ Failed(i, "removeTheme") /\ At(i).op = "deleteCustomTheme"
           /\ calls' = Without(i) /\ UNCHANGED <<view, look>>
        \/ /\ Ended(i, "removeTheme") /\ At(i).op = "updateMe"
           /\ calls' = LoadThemes(Without(i), "provider", None)
           /\ view' = Here([view EXCEPT !.editing = None])
           /\ UNCHANGED look

\* reloadCustomThemes and setChoice swallow what fails.
SettleProvider(i) ==
    /\ \/ Got(i, "provider", "listCustomThemes") /\ look' = Loaded(At(i).val, look.choice)
       \/ (Failed(i, "provider") \/ Got(i, "provider", "updateMe")) /\ UNCHANGED look
    /\ calls' = Without(i)
    /\ UNCHANGED view

Settle(i) ==
    /\ SettleSave(i) \/ SettleDelete(i) \/ SettleProvider(i)
    /\ UNCHANGED <<token, host>>

Next == PickTheme \/ Edit \/ Save \/ Delete \/ SystemChanges
=============================================================================
