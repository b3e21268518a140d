---------------------------- MODULE PanelBackups ----------------------------
(***************************************************************************)
(* web/src/pages/ServerBackups.tsx: the backups of a server and their      *)
(* schedule.  Backups is the other end.                                    *)
(*                                                                         *)
(* view: how the backup drawn stands, busy, the schedule last heard of and *)
(* the draft of it, each None until there is one.                          *)
(* host: how the backup stands ("none" when there is none), the schedule.  *)
(* A schedule is told apart by the draft it was saved from.                *)
(*                                                                         *)
(* Left out: that the restore buttons wait for the server to stop.         *)
(***************************************************************************)
EXTENDS PanelApi

CONSTANT Drafts,      \* the schedules a user types
         DefaultDraft \* the one shown where none could be read

States == {"none", "running", "done"}

\* What the daemon answers for no schedule: an empty one.
Unset == "unset"

Schedules == Drafts \cup {Unset}

Found == [backup : States, schedule : Schedules]

Opening == [backup |-> "none", busy |-> FALSE, schedule |-> None, draft |-> None]

Reload(cs, h) == Add(cs, h, Call("listBackups", None))

FirstCalls(cs) == Reload(Add(cs, "effect", Call("getBackupSchedule", None)), "reload")

Types ==
    view \in [backup : States, busy : BOOLEAN,
              schedule : Schedules \cup {None}, draft : Schedules \cup {None}]

Waits == view.busy

-----------------------------------------------------------------------------
(* The daemon; one backup at a time.                                       *)

ServeChange(i) ==
    \/ /\ Asked(i, "createBackup")
       /\ IF host.backup = "running" THEN Reject(i) /\ UNCHANGED host
          ELSE Answer(i, None) /\ host' = [host EXCEPT !.backup = "running"]
    \/ /\ Asked(i, "deleteBackup")
       /\ IF host.backup = "done" THEN Answer(i, None) /\ host' = [host EXCEPT !.backup = "none"]
          ELSE Reject(i) /\ UNCHANGED host
    \/ /\ Asked(i, "putBackupSchedule")
       /\ \/ Answer(i, At(i).arg) /\ host' = [host EXCEPT !.schedule = At(i).arg]
          \/ Reject(i) /\ UNCHANGED host

ServeRead(i) ==
    /\ \/ Asked(i, "listBackups") /\ Answer(i, host.backup)
       \/ Asked(i, "getBackupSchedule") /\ Answer(i, host.schedule)
       \/ /\ Asked(i, "restoreBackup")
          /\ (host.backup = "done" /\ Answer(i, None)) \/ Reject(i)
       \/ Asked(i, "downloadBackup") /\ Answer(i, None)
    /\ UNCHANGED host

Serve(i) ==
    /\ ServeChange(i) \/ ServeRead(i)
    /\ UNCHANGED <<apiVars, view>>

HostMoves ==
    /\ host.backup = "running"
    /\ host' = [host EXCEPT !.backup = "done"]
    /\ UNCHANGED <<apiVars, view, calls>>

-----------------------------------------------------------------------------
(* The list.                                                               *)

\* The interval, while something drawn is in flight.
Tick ==
    /\ view.backup = "running"
    /\ Room /\ calls' = Reload(calls, "reload")
    /\ UNCHANGED <<apiVars, view, host>>

SettleReload(i) ==
    /\ \/ Replied(i, "reload") /\ view' = [view EXCEPT !.backup = At(i).val]
       \/ Failed(i, "reload") /\ UNCHANGED view
    /\ calls' = Without(i)

\* The buttons wait for one another.
Press(op) ==
    /\ ~view.busy
    /\ Ask("change", op, None)
    /\ view' = [view EXCEPT !.busy = TRUE]
    /\ UNCHANGED <<apiVars, host>>

Create == Press("createBackup")
Delete == view.backup # "none" /\ Press("deleteBackup")
Restore == view.backup = "done" /\ Press("restoreBackup")

\* handleCreate and handleDelete await the list before they end.
SettleChange(i) ==
    \/ /\ Replied(i, "change") /\ At(i).op \in {"createBackup", "deleteBackup"}
       /\ calls' = Reload(Without(i), "change")
       /\ UNCHANGED view
    \/ /\ Failed(i, "change") \/ Got(i, "change", "restoreBackup")
       /\ calls' = Without(i)
       /\ view' = [view EXCEPT !.busy = FALSE]
    \/ /\ Got(i, "change", "listBackups")
       /\ calls' = Without(i)
       /\ view' = [view EXCEPT !.busy = FALSE, !.backup = At(i).val]

Download ==
    /\ view.backup = "done"
    /\ Ask("read", "downloadBackup", None)
    /\ UNCHANGED <<apiVars, view, host>>

SettleDownload(i) == Ended(i, "read") /\ calls' = Without(i) /\ UNCHANGED view

-----------------------------------------------------------------------------
(* The schedule.                                                           *)

\* A schedule that could not be read is taken for none.
SettleSchedule(i) ==
    /\ \/ Replied(i, "effect") /\ view' = [view EXCEPT !.schedule = At(i).val, !.draft = At(i).val]
       \/ Failed(i, "effect") /\ view' = [view EXCEPT !.draft = DefaultDraft]
    /\ calls' = Without(i)

Edit(draft) ==
    /\ view.draft # None /\ draft # view.draft
    /\ view' = [view EXCEPT !.draft = draft]
    /\ UNCHANGED <<apiVars, host, calls>>

scheduleChanged == view.draft # None /\ view.draft # view.schedule

SaveSchedule ==
    /\ scheduleChanged /\ ~view.busy
    /\ Ask("save", "putBackupSchedule", view.draft)
    /\ view' = [view EXCEPT !.busy = TRUE]
    /\ UNCHANGED <<apiVars, host>>

SettleSave(i) ==
    /\ \/ Replied(i, "save") /\ view' = [view EXCEPT !.busy = FALSE, !.schedule = At(i).val]
       \/ Failed(i, "save") /\ view' = [view EXCEPT !.busy = FALSE]
    /\ calls' = Without(i)

-----------------------------------------------------------------------------
Settle(i) ==
    /\ \/ SettleReload(i) \/ SettleChange(i) \/ SettleDownload(i)
       \/ SettleSchedule(i) \/ SettleSave(i)
    /\ UNCHANGED <<token, host>>

Next ==
    \/ Tick \/ HostMoves
    \/ Create \/ Restore \/ Delete \/ Download
    \/ SaveSchedule \/ \E draft \in Drafts : Edit(draft)
=============================================================================
