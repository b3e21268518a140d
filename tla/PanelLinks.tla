----------------------------- MODULE PanelLinks -----------------------------
(***************************************************************************)
(* web/src/components/LinkedAccounts.tsx and the account section of        *)
(* web/src/pages/Settings.tsx: chat accounts linked to this one, and its   *)
(* password.                                                               *)
(*                                                                         *)
(* view: the providers drawn as linked, the one whose buttons wait, the    *)
(* one a code is shown for, and the custom themes the editor's preview,    *)
(* on the same page, was closed over.                                      *)
(* host: nothing; a link is made and broken in the chat too, so the daemon *)
(* answers with any.                                                       *)
(***************************************************************************)
EXTENDS PanelApi

CONSTANT Providers \* "discord", "telegram"

VARIABLE look \* PanelTheme

Found == {None}

Opening == [links |-> {}, busy |-> None, issued |-> None, seen |-> look.customs]

Reload(cs, h) == Add(cs, h, Call("listIntegrations", None))

FirstCalls(cs) == Reload(cs, "reload")

Types ==
    /\ view.links \subseteq Providers
    /\ {view.busy, view.issued} \subseteq Providers \cup {None}

Waits == view.busy # None

-----------------------------------------------------------------------------
Serve(i) ==
    /\ \/ Asked(i, "listIntegrations") /\ \E links \in SUBSET Providers : Answer(i, links)
       \/ Asked(i, "createLinkCode") /\ (Answer(i, None) \/ Reject(i))
       \/ Asked(i, "unlinkIntegration") /\ (Answer(i, None) \/ Reject(i))
       \/ Asked(i, "updateMe") /\ (Answer(i, None) \/ Reject(i))
    /\ UNCHANGED <<apiVars, view, host>>

SettleReload(i) ==
    /\ \/ Replied(i, "reload") /\ view' = [view EXCEPT !.links = At(i).val]
       \/ Failed(i, "reload") /\ UNCHANGED view
    /\ calls' = Without(i)

\* A provider's button waits for that provider alone, and only for the last.
Press(op, provider) ==
    /\ view.busy # provider
    /\ Ask("change", op, provider)
    /\ view' = [view EXCEPT !.busy = provider]
    /\ UNCHANGED <<apiVars, host>>

RequestCode(provider) == provider \notin view.links /\ Press("createLinkCode", provider)
Unlink(provider) == provider \in view.links /\ Press("unlinkIntegration", provider)

\* The code of the last answer is the one shown; unlink awaits the list.
SettleChange(i) ==
    \/ /\ Got(i, "change", "createLinkCode")
       /\ calls' = Without(i)
       /\ view' = [view EXCEPT !.busy = None, !.issued = At(i).arg]
    \/ /\ Got(i, "change", "unlinkIntegration")
       /\ calls' = Reload(Without(i), "change")
       /\ UNCHANGED view
    \/ /\ Got(i, "change", "listIntegrations")
       /\ calls' = Without(i)
       /\ view' = [view EXCEPT !.busy = None, !.links = At(i).val]
    \/ /\ Failed(i, "change")
       /\ calls' = Without(i)
       /\ view' = [view EXCEPT !.busy = None]

\* The countdown forgets a code the daemon takes no more.
Expire ==
    /\ view.issued # None
    /\ view' = [view EXCEPT !.issued = None]
    /\ UNCHANGED <<apiVars, host, calls>>

\* handleSubmit of the account section.
ChangePassword ==
    /\ Ask("save", "updateMe", None)
    /\ UNCHANGED <<apiVars, view, host>>

SettlePassword(i) == Ended(i, "save") /\ calls' = Without(i) /\ UNCHANGED view

Settle(i) ==
    /\ SettleReload(i) \/ SettleChange(i) \/ SettlePassword(i)
    /\ UNCHANGED <<token, host>>

Next ==
    \/ \E provider \in Providers : RequestCode(provider) \/ Unlink(provider)
    \/ Expire \/ ChangePassword
=============================================================================
