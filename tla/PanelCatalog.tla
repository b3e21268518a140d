---------------------------- MODULE PanelCatalog ----------------------------
(***************************************************************************)
(* web/src/pages/ServerCatalog.tsx: the add-ons a server could have and    *)
(* the ones it has.                                                        *)
(*                                                                         *)
(* view: the search box, what the server loads (None until known, "none"   *)
(* for a core that loads nothing), busy, and the reloads an install has    *)
(* scheduled.                                                              *)
(* host: what the server loads.                                            *)
(*                                                                         *)
(* Left out: what is installed, but for the calls that list and change it. *)
(***************************************************************************)
EXTENDS PanelSearch

Found == [loader : {"none", "paper"}]

Opening == [box |-> emptyBox, loader |-> None, busy |-> FALSE, later |-> 0]

ReloadInstalled(cs, h) == Add(cs, h, Call("listInstalled", None))

FirstCalls(cs) == ReloadInstalled(Add(cs, "effect", Call("serverContent", None)), "reload")

Types ==
    view \in [box : BoxType, loader : {None, "none", "paper"}, busy : BOOLEAN,
              later : 0..2]

Waits == view.busy

\* The box is there unless the core loads nothing, and searches for a loader.
Ready == view.loader = "paper"

-----------------------------------------------------------------------------
Serve(i) ==
    /\ \/ Asked(i, "serverContent") /\ Answer(i, host.loader)
       \/ Asked(i, "listInstalled") /\ Answer(i, None)
       \/ Asked(i, "searchCatalog") /\ Answer(i, At(i).arg)
       \/ /\ Asked(i, "installAddon") \/ Asked(i, "toggleInstalled") \/ Asked(i, "deleteInstalled")
          /\ Answer(i, None) \/ Reject(i)
    /\ UNCHANGED <<apiVars, view, host>>

\* The content effect; the search effect depends on what came.
SettleContent(i) ==
    \/ /\ Replied(i, "effect")
       /\ LET ready == At(i).val = "paper"
          IN  /\ view' = [view EXCEPT !.loader = At(i).val,
                                      !.box = Typed(@, view.box.query, ready)]
              /\ calls' = Superseded(Without(i), view.box.query, ready)
    \/ Failed(i, "effect") /\ calls' = Without(i) /\ UNCHANGED view

\* reloadInstalled, awaited by nobody.
SettleInstalled(i) == Ended(i, "reload") /\ calls' = Without(i) /\ UNCHANGED view

TypeQuery(query) == view.loader # "none" /\ Type(query, Ready)

\* handleInstall: what it would bring is asked first, and confirmed.
Install ==
    /\ view.box.hits \notin {None, Nothing} /\ ~view.busy
    /\ view.later = 0 \* bound
    /\ Ask("save", "installAddon", "dry run")
    /\ view' = [view EXCEPT !.busy = TRUE]
    /\ UNCHANGED <<apiVars, host>>

SettleInstall(i) ==
    \/ /\ Replied(i, "save") /\ At(i).arg = "dry run"
       /\ \/ /\ calls' = Add(Without(i), "save", Call("installAddon", "install"))
             /\ UNCHANGED view
          \/ /\ calls' = Without(i)
             /\ view' = [view EXCEPT !.busy = FALSE]
    \/ /\ Replied(i, "save") /\ At(i).arg = "install"
       /\ calls' = Without(i)
       /\ view' = [view EXCEPT !.busy = FALSE, !.later = 2]
    \/ /\ Failed(i, "save")
       /\ calls' = Without(i)
       /\ view' = [view EXCEPT !.busy = FALSE]

\* The two timers it leaves behind.
Later ==
    /\ view.later > 0
    /\ view' = [view EXCEPT !.later = @ - 1]
    /\ calls' = ReloadInstalled(calls, "reload")
    /\ UNCHANGED <<apiVars, host>>

\* handleToggle and handleDelete await the list before they end.
Change(op) ==
    /\ ~view.busy
    /\ Ask("change", op, None)
    /\ view' = [view EXCEPT !.busy = TRUE]
    /\ UNCHANGED <<apiVars, host>>

Toggle == Change("toggleInstalled")
Delete == Change("deleteInstalled")

SettleChange(i) ==
    \/ /\ Replied(i, "change") /\ At(i).op # "listInstalled"
       /\ calls' = ReloadInstalled(Without(i), "change")
       /\ UNCHANGED view
    \/ /\ Failed(i, "change") \/ Got(i, "change", "listInstalled")
       /\ calls' = Without(i)
       /\ view' = [view EXCEPT !.busy = FALSE]

Settle(i) ==
    /\ \/ SettleContent(i) \/ SettleInstalled(i) \/ SettleSearch(i)
       \/ SettleInstall(i) \/ SettleChange(i)
    /\ UNCHANGED <<token, host>>

Next ==
    \/ \E query \in Queries \cup {Short} : TypeQuery(query)
    \/ Search \/ Install \/ Later \/ Toggle \/ Delete
=============================================================================
