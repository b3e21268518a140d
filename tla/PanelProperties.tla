-------------------------- MODULE PanelProperties --------------------------
(***************************************************************************)
(* web/src/pages/ServerSettings.tsx: the editor of server.properties.      *)
(*                                                                         *)
(* view: the value the file had when it was read last (None until it was), *)
(* what was typed over it (None for a row that was not touched), saving.   *)
(* host: the value in the file.  One key stands for all of them.           *)
(*                                                                         *)
(* Left out: the filter, the schema, the note about a restart.             *)
(***************************************************************************)
EXTENDS PanelApi

CONSTANT Drafts \* what a field may hold

Found == [value : Drafts]

Opening == [settings |-> None, draft |-> None, saving |-> FALSE]

FirstCalls(cs) == Add(cs, "reload", Call("getSettings", None))

Types ==
    view \in [settings : Drafts \cup {None}, draft : Drafts \cup {None}, saving : BOOLEAN]

Waits == view.saving

-----------------------------------------------------------------------------
\* A value the file cannot hold is refused.
Serve(i) ==
    /\ \/ Asked(i, "getSettings") /\ Answer(i, host.value) /\ UNCHANGED host
       \/ /\ Asked(i, "patchSettings")
          /\ \/ Answer(i, At(i).arg) /\ host' = [value |-> At(i).arg]
             \/ Reject(i) /\ UNCHANGED host
    /\ UNCHANGED <<apiVars, view>>

SettleLoad(i) ==
    /\ \/ Replied(i, "reload") /\ view' = [view EXCEPT !.settings = At(i).val, !.draft = None]
       \/ Failed(i, "reload") /\ UNCHANGED view
    /\ calls' = Without(i)

\* set; a field may be typed in while it is being saved.
Type(value) ==
    /\ view.settings # None
    /\ view' = [view EXCEPT !.draft = value]
    /\ UNCHANGED <<apiVars, host, calls>>

\* changedCount.
Changed == view.settings # None /\ view.draft \notin {None, view.settings}

\* handleSave sends what differs from what was read.
Save ==
    /\ Changed /\ ~view.saving
    /\ Ask("save", "patchSettings", view.draft)
    /\ view' = [view EXCEPT !.saving = TRUE]
    /\ UNCHANGED <<apiVars, host>>

\* Mutant: saving is reset after a success alone.
SavedOnly(i) ==
    /\ \/ /\ Replied(i, "save")
          /\ view' = [settings |-> At(i).val, draft |-> None, saving |-> FALSE]
       \/ Failed(i, "save") /\ UNCHANGED view
    /\ calls' = Without(i)

\* The draft goes, whatever was typed meanwhile.
SettleSave(i) ==
    /\ \/ /\ Replied(i, "save")
          /\ view' = [settings |-> At(i).val, draft |-> None, saving |-> FALSE]
       \/ Failed(i, "save") /\ view' = [view EXCEPT !.saving = FALSE]
    /\ calls' = Without(i)

Settle(i) ==
    /\ SettleLoad(i) \/ SettleSave(i)
    /\ UNCHANGED <<token, host>>

Next == Save \/ \E value \in Drafts : Type(value)
=============================================================================
