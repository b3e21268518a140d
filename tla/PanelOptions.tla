---------------------------- MODULE PanelOptions ----------------------------
(***************************************************************************)
(* web/src/pages/ServerOptions.tsx: the panel's own settings of a server.  *)
(*                                                                         *)
(* view: the options as the parent last heard of them, the draft, saving,  *)
(* and whether the proxies to choose from are known.                       *)
(* host: the options the daemon keeps.                                     *)
(*                                                                         *)
(* Left out: an empty name, which is filled in again.                      *)
(***************************************************************************)
EXTENDS PanelApi

CONSTANTS Drafts, DefaultDraft \* what the options may be, and were when it opened

Found == [options : {DefaultDraft}]

Opening == [server |-> DefaultDraft, draft |-> DefaultDraft, saving |-> FALSE, proxies |-> FALSE]

FirstCalls(cs) == Add(cs, "effect", Call("listServers", None))

Types ==
    view \in [server : Drafts, draft : Drafts, saving : BOOLEAN, proxies : BOOLEAN]

Waits == view.saving

-----------------------------------------------------------------------------
Serve(i) ==
    /\ \/ Asked(i, "listServers") /\ Answer(i, None) /\ UNCHANGED host
       \/ Asked(i, "listCores") /\ Answer(i, None) /\ UNCHANGED host
       \/ /\ Asked(i, "patchServer")
          /\ \/ Answer(i, At(i).arg) /\ host' = [options |-> At(i).arg]
             \/ Reject(i) /\ UNCHANGED host
    /\ UNCHANGED <<apiVars, view>>

\* The options are changed in another browser.
HostMoves ==
    /\ \E options \in Drafts : host' = [options |-> options]
    /\ UNCHANGED <<apiVars, view, calls>>

\* The parent polls; the draft stays what it is.
ParentLearns ==
    /\ view' = [view EXCEPT !.server = host.options]
    /\ UNCHANGED <<apiVars, host, calls>>

-----------------------------------------------------------------------------
\* The proxies are the servers whose core is one; a failure leaves none.
SettleProxies(i) ==
    \/ /\ Got(i, "effect", "listServers")
       /\ calls' = Add(Without(i), "effect", Call("listCores", None))
       /\ UNCHANGED view
    \/ /\ Got(i, "effect", "listCores")
       /\ calls' = Without(i)
       /\ view' = [view EXCEPT !.proxies = TRUE]
    \/ /\ Failed(i, "effect")
       /\ calls' = Without(i)
       /\ UNCHANGED view

Edit(options) ==
    /\ options # view.draft
    /\ view' = [view EXCEPT !.draft = options]
    /\ UNCHANGED <<apiVars, host, calls>>

changed == view.draft # view.server

Reset ==
    /\ changed /\ ~view.saving
    /\ view' = [view EXCEPT !.draft = view.server]
    /\ UNCHANGED <<apiVars, host, calls>>

\* handleSave sends the whole draft, over whatever the options are by then.
Save ==
    /\ changed /\ ~view.saving
    /\ Ask("save", "patchServer", view.draft)
    /\ view' = [view EXCEPT !.saving = TRUE]
    /\ UNCHANGED <<apiVars, host>>

\* onSaved hands the answer to the parent.
SettleSave(i) ==
    /\ \/ Replied(i, "save") /\ view' = [view EXCEPT !.saving = FALSE, !.server = At(i).val]
       \/ Failed(i, "save") /\ view' = [view EXCEPT !.saving = FALSE]
    /\ calls' = Without(i)

Settle(i) ==
    /\ SettleProxies(i) \/ SettleSave(i)
    /\ UNCHANGED <<token, host>>

Next ==
    \/ HostMoves \/ ParentLearns \/ Reset \/ Save
    \/ \E options \in Drafts : Edit(options)
=============================================================================
