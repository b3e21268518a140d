--------------------------- MODULE PanelModpacks ---------------------------
(***************************************************************************)
(* web/src/pages/ServerModpacks.tsx: the modpack of a server, and an       *)
(* install of another followed to its end.                                 *)
(*                                                                         *)
(* view: the search box, busy, and the task followed or None.              *)
(* host: the tasks there are, running or over.                             *)
(*                                                                         *)
(* Left out: which modpack is installed, the plan shown before an install, *)
(* and that the button waits for the server to stop.                       *)
(***************************************************************************)
EXTENDS PanelSearch

CONSTANT MaxTasks \* bound: installs

Found == {[tasks |-> <<>>]}

Opening == [box |-> emptyBox, busy |-> FALSE, task |-> None]

ReloadInstalled(cs) == Add(cs, "reload", Call("serverModpack", None))

FirstCalls(cs) == ReloadInstalled(cs)

Task == [id : 1..MaxTasks, over : BOOLEAN]

Types ==
    /\ view \in [box : BoxType, busy : BOOLEAN, task : Task \cup {None}]
    /\ host.tasks \in Seq(BOOLEAN)

Waits == view.busy

-----------------------------------------------------------------------------
Serve(i) ==
    /\ \/ /\ Asked(i, "serverModpack") /\ Answer(i, None)
          /\ UNCHANGED host
       \/ /\ Asked(i, "searchCatalog") /\ Answer(i, At(i).arg)
          /\ UNCHANGED host
       \/ /\ Asked(i, "getTask")
          /\ Answer(i, [id |-> At(i).arg, over |-> host.tasks[At(i).arg]])
          /\ UNCHANGED host
       \/ /\ Asked(i, "installModpack") /\ At(i).arg = "dry run"
          /\ Answer(i, None) \/ Reject(i)
          /\ UNCHANGED host
       \/ /\ Asked(i, "installModpack") /\ At(i).arg = "install"
          /\ IF Len(host.tasks) < MaxTasks
               THEN /\ Answer(i, Len(host.tasks) + 1)
                    /\ host' = [tasks |-> Append(host.tasks, FALSE)]
               ELSE Reject(i) /\ UNCHANGED host
    /\ UNCHANGED <<apiVars, view>>

\* A task ends, well or badly.
HostMoves ==
    /\ \E n \in DOMAIN host.tasks :
         ~host.tasks[n] /\ host' = [tasks |-> [host.tasks EXCEPT ![n] = TRUE]]
    /\ UNCHANGED <<apiVars, view, calls>>

-----------------------------------------------------------------------------
installing == view.task # None /\ ~view.task.over

\* handleInstall: what it would replace is asked first, and confirmed.
Install ==
    /\ view.box.hits \notin {None, Nothing}
    /\ ~view.busy /\ ~installing
    /\ Ask("save", "installModpack", "dry run")
    /\ view' = [view EXCEPT !.busy = TRUE]
    /\ UNCHANGED <<apiVars, host>>

\* Mutant: a task is followed whether there is one or not.
FollowAnyway(i) ==
    /\ Ended(i, "save")
    /\ calls' = Without(i)
    /\ view' = [view EXCEPT !.busy = FALSE, !.task = [id |-> At(i).val, over |-> FALSE]]

SettleInstall(i) ==
    \/ /\ Replied(i, "save") /\ At(i).arg = "dry run"
       /\ \/ /\ calls' = Add(Without(i), "save", Call("installModpack", "install"))
             /\ UNCHANGED view
          \/ /\ calls' = Without(i)
             /\ view' = [view EXCEPT !.busy = FALSE]
    \/ /\ Replied(i, "save") /\ At(i).arg = "install"
       /\ calls' = Without(i)
       /\ view' = [view EXCEPT !.busy = FALSE, !.task = [id |-> At(i).val, over |-> FALSE]]
    \/ /\ Failed(i, "save")
       /\ calls' = Without(i)
       /\ view' = [view EXCEPT !.busy = FALSE]

\* The interval of the effect on [task].
Poll ==
    /\ installing
    /\ Room
    /\ calls' = Add(calls, "poll", Call("getTask", view.task.id))
    /\ UNCHANGED <<apiVars, view, host>>

\* Whatever task is followed by then, the one that was asked about is from now.
SettlePoll(i) ==
    \/ /\ Replied(i, "poll")
       /\ view' = [view EXCEPT !.task = At(i).val]
       /\ calls' = IF At(i).val.over THEN ReloadInstalled(Without(i)) ELSE Without(i)
    \/ Failed(i, "poll") /\ calls' = Without(i) /\ UNCHANGED view

SettleInstalled(i) == Ended(i, "reload") /\ calls' = Without(i) /\ UNCHANGED view

Settle(i) ==
    /\ SettleInstalled(i) \/ SettleSearch(i) \/ SettleInstall(i) \/ SettlePoll(i)
    /\ UNCHANGED <<token, host>>

Next ==
    \/ \E query \in Queries \cup {Short} : Type(query, TRUE)
    \/ Search \/ Install \/ Poll \/ HostMoves
=============================================================================
