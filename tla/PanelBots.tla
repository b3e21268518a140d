----------------------------- MODULE PanelBots -----------------------------
(***************************************************************************)
(* web/src/components/BotSettings.tsx: the bots, followed while one of     *)
(* them is on its way to its platform.                                     *)
(*                                                                         *)
(* view: whether a bot drawn is pending, whether the timer that follows it *)
(* runs, whether an error is drawn, and the provider whose buttons wait.   *)
(* host: nothing; a bot connects and fails by itself, so the daemon        *)
(* answers with any.                                                       *)
(***************************************************************************)
EXTENDS PanelApi

CONSTANT Providers \* "discord", "telegram"

Found == {None}

Opening == [pending |-> FALSE, timer |-> FALSE, error |-> FALSE, busy |-> None]

Reload(cs, h) == Add(cs, h, Call("listBots", None))

FirstCalls(cs) == Reload(cs, "reload")

Types ==
    view \in [pending : BOOLEAN, timer : BOOLEAN, error : BOOLEAN, busy : Providers \cup {None}]

Waits == view.busy # None

-----------------------------------------------------------------------------
Serve(i) ==
    /\ \/ Asked(i, "listBots") /\ \E pending \in BOOLEAN : Answer(i, pending)
       \/ Asked(i, "saveBot") /\ (Answer(i, None) \/ Reject(i))
       \/ Asked(i, "deleteBot") /\ (Answer(i, None) \/ Reject(i))
    /\ UNCHANGED <<apiVars, view, host>>

\* setBots; the effect on [bots] starts the timer over, or stops it.
Read(pending) == [view EXCEPT !.pending = pending, !.timer = pending, !.error = FALSE]

\* Mutant: a reload that the timer asked for fails silently.
FailSilently(i) ==
    /\ \/ Replied(i, "reload") /\ view' = Read(At(i).val)
       \/ Failed(i, "reload") /\ UNCHANGED view
    /\ calls' = Without(i)

\* A reload that failed draws no bots, so no effect runs: the timer that asked
\* for it was the last.
SettleReload(i) ==
    /\ \/ Replied(i, "reload") /\ view' = Read(At(i).val)
       \/ Failed(i, "reload") /\ view' = [view EXCEPT !.error = TRUE]
    /\ calls' = Without(i)

Follow ==
    /\ view.timer
    /\ view' = [view EXCEPT !.timer = FALSE]
    /\ calls' = Reload(calls, "reload")
    /\ UNCHANGED <<apiVars, host>>

\* save and forget.
Press(op, provider) ==
    /\ view.busy # provider
    /\ Ask("change", op, provider)
    /\ view' = [view EXCEPT !.busy = provider, !.error = FALSE]
    /\ UNCHANGED <<apiVars, host>>

SettleChange(i) ==
    \/ /\ Replied(i, "change") /\ At(i).op # "listBots"
       /\ calls' = Reload(Without(i), "change")
       /\ UNCHANGED view
    \/ /\ Got(i, "change", "listBots")
       /\ calls' = Without(i)
       /\ view' = [Read(At(i).val) EXCEPT !.busy = None]
    \/ /\ Failed(i, "change")
       /\ calls' = Without(i)
       /\ view' = [view EXCEPT !.busy = None, !.error = TRUE]

Settle(i) ==
    /\ SettleReload(i) \/ SettleChange(i)
    /\ UNCHANGED <<token, host>>

Next ==
    \/ Follow
    \/ \E provider \in Providers, op \in BotCalls.writes : Press(op, provider)

\* A bot drawn as connecting is being asked about, or the page says what failed.
FollowedOrSaid ==
    view.pending => \/ view.timer \/ view.error
                    \/ {"reload", "change"} \cap DOMAIN calls # {}
=============================================================================
