---------------------------- MODULE PanelConnect ----------------------------
(***************************************************************************)
(* web/src/pages/ServerConnect.tsx: how players reach a server, with the   *)
(* buttons that ask the router and the relay to let them.                  *)
(*                                                                         *)
(* view: the answer drawn (None until one came) and busy.                  *)
(* host: what the router does with the port, and whose the tunnel is.      *)
(*                                                                         *)
(* Left out: the addresses, the clipboard, the states of the internet      *)
(* section that offer nothing ("shut" stands for them).                    *)
(***************************************************************************)
EXTENDS PanelApi

Info == [net : {"shut", "can_forward", "forwarded"}, relay : {"off", "here", "other"}]

Found == Info

Opening == [info |-> None, busy |-> FALSE]

Reload(cs, h) == Add(cs, h, Call("serverConnect", None))

FirstCalls(cs) == Reload(cs, "reload")

Types == view.info \in Info \cup {None} /\ view.busy \in BOOLEAN /\ host \in Info

Waits == view.busy

-----------------------------------------------------------------------------
\* The router and the relay may each say no; the tunnel is taken over freely.
Serve(i) ==
    /\ \/ Asked(i, "serverConnect") /\ Answer(i, host) /\ UNCHANGED host
       \/ /\ Asked(i, "forwardPort") /\ host.net # "shut"
          /\ host' = [host EXCEPT !.net = "forwarded"] /\ Answer(i, host')
       \/ /\ Asked(i, "unforwardPort") /\ host.net # "shut"
          /\ host' = [host EXCEPT !.net = "can_forward"] /\ Answer(i, None)
       \/ /\ Asked(i, "enableRelay")
          /\ host' = [host EXCEPT !.relay = "here"] /\ Answer(i, host')
       \/ /\ Asked(i, "disableRelay")
          /\ host' = [host EXCEPT !.relay = "off"] /\ Answer(i, None)
       \/ /\ At(i).op \in ConnectCalls.writes /\ At(i).st = "sent"
          /\ Reject(i) /\ UNCHANGED host
    /\ UNCHANGED <<apiVars, view>>

SettleReload(i) ==
    /\ \/ Replied(i, "reload") /\ view' = [view EXCEPT !.info = At(i).val]
       \/ Failed(i, "reload") /\ UNCHANGED view
    /\ calls' = Without(i)

Press(op) ==
    /\ view.info # None /\ ~view.busy
    /\ Ask("change", op, None)
    /\ view' = [view EXCEPT !.busy = TRUE]
    /\ UNCHANGED <<apiVars, host>>

\* The buttons of the two sections.
Forward == view.info.net = "can_forward" /\ Press("forwardPort")
Unforward == view.info.net = "forwarded" /\ Press("unforwardPort")
EnableRelay == view.info.relay # "here" /\ Press("enableRelay")
DisableRelay == view.info.relay = "here" /\ Press("disableRelay")

\* forward and enableRelay are answered with what is drawn next; unforward and
\* disableRelay ask for it and go on waiting.
SettleChange(i) ==
    \/ /\ Replied(i, "change") /\ At(i).op \in {"unforwardPort", "disableRelay"}
       /\ calls' = Reload(Without(i), "change")
       /\ UNCHANGED view
    \/ /\ Replied(i, "change") /\ At(i).op \notin {"unforwardPort", "disableRelay"}
       /\ view' = [info |-> At(i).val, busy |-> FALSE]
       /\ calls' = Without(i)
    \/ /\ Failed(i, "change")
       /\ view' = [view EXCEPT !.busy = FALSE]
       /\ calls' = Without(i)

Settle(i) ==
    /\ SettleReload(i) \/ SettleChange(i)
    /\ UNCHANGED <<token, host>>

Next ==
    /\ view.info # None
    /\ Forward \/ Unforward \/ EnableRelay \/ DisableRelay
=============================================================================
