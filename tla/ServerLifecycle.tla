--------------------------- MODULE ServerLifecycle ---------------------------
(***************************************************************************)
(* internal/api: one server as the panel runs it - power requests          *)
(* (servers.go), the watcher that turns its status into events (events.go) *)
(* and auto-restart (autostart.go) - over the runner of ProcessRunner.     *)
(*                                                                         *)
(* A power request checks the status and starts a task; the task, the      *)
(* watcher and every auto-restart are goroutines that overlap with each    *)
(* other.  The runner is abstracted to what it promises: one process at a  *)
(* time, known by its number, whose end is published before its hub is     *)
(* closed.  Statuses other than an ending wake nobody here.                *)
(***************************************************************************)
EXTENDS Naturals

CONSTANTS
    Tasks,          \* goroutines of the task registry that power or delete requests use
    Restarters,     \* goroutines autoRestart spawns
    Boot,           \* the goroutine of StartAutoStartServers
    AutoStart,      \* server.AutoStart (server.AutoRestart is on)
    MaxAttempts,    \* autoRestartAttempts
    MaxLaunches,    \* bound: processes launched
    MaxBoots        \* bound: times the daemon dies

Actors == Tasks \cup Restarters \cup {Boot}
Launches == 1..MaxLaunches

ASSUME LifecycleAssumption ==
    /\ Tasks \cap Restarters = {} /\ Boot \notin Tasks \cup Restarters
    /\ AutoStart \in BOOLEAN
    /\ MaxAttempts \in Nat \ {0} /\ MaxLaunches \in Nat /\ MaxBoots \in Nat

VARIABLES
    row,        \* the status column of the server's row; "deleted": no row
    known,      \* the process the runner has under the server's id; 0: none
    proc,       \* the status of each process
    hubOpen,    \* its hub is open
    pc, act, mine, \* each goroutine: where it is, for which action, with which process
    watched,    \* what the watcher of each launch is subscribed to; 0: there is none
    inbox,      \* the ending in its status channel
    tries,      \* restartWindow.count; 0: no entry, or one older than autoRestartWindow
    granted,    \* history: restarts allowed since somebody decided on a start or the
                \* window began
    phase,      \* "up", or "boot" until ReconcileServers is done
    boots

procVars == <<known, proc, hubOpen>>
actorVars == <<pc, act, mine>>
watchVars == <<watched, inbox>>
budgetVars == <<tries, granted>>
daemonVars == <<phase, boots>>
vars == <<row, procVars, actorVars, watchVars, budgetVars, daemonVars>>

Live == {"running", "stopping"}
Ended == {"stopped", "crashed"}
Actions == {"start", "stop", "kill", "restart", "delete"}
PCs == {"idle", "begin", "sleep", "start", "running", "failed", "watch",
        "stop", "stopping", "kill", "record", "forget", "boot"}

TypeOK ==
    /\ row \in {"stopped", "running", "crashed", "deleted"}
    /\ known \in 0..MaxLaunches
    /\ proc \in [Launches -> Live \cup Ended \cup {"none", "lost"}]
    /\ hubOpen \in [Launches -> BOOLEAN]
    /\ pc \in [Actors -> PCs] /\ act \in [Actors -> Actions]
    /\ mine \in [Actors -> 0..MaxLaunches]
    /\ watched \in [Launches -> 0..MaxLaunches]
    /\ inbox \in [Launches -> Ended \cup {"none"}]
    /\ tries \in 0..MaxAttempts /\ granted \in Nat
    /\ phase \in {"up", "boot"} /\ boots \in 0..MaxBoots

Init ==
    /\ row = "stopped"
    /\ known = 0
    /\ proc = [g \in Launches |-> "none"]
    /\ hubOpen = [g \in Launches |-> FALSE]
    /\ pc = [a \in Actors |-> "idle"]
    /\ act = [a \in Actors |-> "start"]
    /\ mine = [a \in Actors |-> 0]
    /\ watched = [g \in Launches |-> 0]
    /\ inbox = [g \in Launches |-> "none"]
    /\ tries = 0 /\ granted = 0
    /\ phase = "up" /\ boots = 0

-----------------------------------------------------------------------------
(* The runner, as its callers see it *)

\* runner.Status(...).IsActive(); a server the runner does not know is not active.
IsActive == known # 0 /\ proc[known] \in Live

\* reap, as far as close(p.exited): the ending is assigned and published.
EndAs(g, s) ==
    /\ proc' = [proc EXCEPT ![g] = s]
    /\ inbox' = [w \in Launches |-> IF watched[w] = g THEN s ELSE inbox[w]]

\* The server exits by itself, cleanly or not.
Exits(g) ==
    /\ proc[g] \in Live
    /\ \E s \in IF proc[g] = "stopping" THEN {"stopped"} ELSE Ended : EndAs(g, s)
    /\ UNCHANGED <<row, known, hubOpen, actorVars, watched, budgetVars, daemonVars>>

\* reap's last step.
HubCloses(g) ==
    /\ proc[g] \in Ended
    /\ hubOpen[g]
    /\ hubOpen' = [hubOpen EXCEPT ![g] = FALSE]
    /\ UNCHANGED <<row, known, proc, actorVars, watchVars, budgetVars, daemonVars>>

\* Kill: no exit code saves the process from having crashed, unless Stop left its mark.
Killed(g) == EndAs(g, IF proc[g] = "stopping" THEN "stopped" ELSE "crashed")

-----------------------------------------------------------------------------
(* Requests and their tasks *)

\* Goroutine a goes on to a step, for an action, with a process in hand.
GoWith(a, to, action, g) ==
    /\ pc' = [pc EXCEPT ![a] = to]
    /\ act' = [act EXCEPT ![a] = action]
    /\ mine' = [mine EXCEPT ![a] = g]

\* What it holds means nothing before startServer and after its end.
Go(a, to) == IF to \in {"idle", "start"} THEN GoWith(a, to, "start", 0)
                                        ELSE GoWith(a, to, act[a], mine[a])

Step(a, from, to) == pc[a] = from /\ Go(a, to)

\* recordStatus: a row that is gone stays gone.
Record(s) == row' = IF row = "deleted" THEN row ELSE s

\* handlePower and handleDeleteServer up to the answer: the status is checked, and
\* the work begins later, in a goroutine.
Request(t, action) ==
    /\ pc[t] = "idle"
    /\ phase = "up"
    /\ row # "deleted"
    /\ action = "start" => ~IsActive
    /\ action \in {"stop", "kill"} => IsActive
    /\ GoWith(t, "begin", action, 0)
    /\ UNCHANGED <<row, procVars, watchVars, budgetVars, daemonVars>>

\* autoRestarter.forget.
Forget == tries' = 0 /\ granted' = 0

\* runPower as far as its first call of the runner: a start or restart somebody asked
\* for clears the crash budget.
Begin(t) ==
    /\ pc[t] = "begin"
    /\ LET stops == act[t] = "stop" \/ (act[t] = "restart" /\ IsActive)
           kills == act[t] = "kill" \/ (act[t] = "delete" /\ IsActive)
       IN  Go(t, IF stops THEN "stop" ELSE IF kills THEN "kill"
                 ELSE IF act[t] = "delete" THEN "forget" ELSE "start")
    /\ IF act[t] \in {"start", "restart"}
       THEN Forget
       ELSE UNCHANGED budgetVars
    /\ UNCHANGED <<row, procVars, watchVars, daemonVars>>

\* runner.Stop marks the process and waits.
Stop(t) ==
    /\ pc[t] = "stop"
    /\ IsActive
    /\ GoWith(t, "stopping", act[t], known)
    /\ proc' = [proc EXCEPT ![known] = "stopping"]
    /\ UNCHANGED <<row, known, hubOpen, watchVars, budgetVars, daemonVars>>

StopTimesOut(t) ==
    /\ pc[t] = "stopping"
    /\ proc[mine[t]] \in Live
    /\ Killed(mine[t])
    /\ UNCHANGED <<row, known, hubOpen, actorVars, watched, budgetVars, daemonVars>>

StopReturns(t) ==
    /\ pc[t] = "stopping"
    /\ proc[mine[t]] \in Ended
    /\ Go(t, IF act[t] = "restart" THEN "start" ELSE "record")
    /\ UNCHANGED <<row, procVars, watchVars, budgetVars, daemonVars>>

Kill(t) ==
    /\ pc[t] = "kill"
    /\ IsActive
    /\ Killed(known)
    /\ Go(t, IF act[t] = "delete" THEN "forget" ELSE "record")
    /\ UNCHANGED <<row, known, hubOpen, watched, budgetVars, daemonVars>>

\* ErrNotRunning ends the task; a deletion goes on.
NotRunning(t) ==
    /\ pc[t] \in {"stop", "kill"}
    /\ ~IsActive
    /\ Go(t, IF act[t] = "delete" THEN "forget" ELSE "idle")
    /\ UNCHANGED <<row, procVars, watchVars, budgetVars, daemonVars>>

RecordStopped(t) ==
    /\ Step(t, "record", "idle")
    /\ Record("stopped")
    /\ UNCHANGED <<procVars, watchVars, budgetVars, daemonVars>>

\* The row and the directory go.
DeleteRow(t) ==
    /\ Step(t, "forget", "idle")
    /\ row' = "deleted"
    /\ UNCHANGED <<procVars, watchVars, budgetVars, daemonVars>>

-----------------------------------------------------------------------------
(* startServer, for a task, an auto-restart or the boot *)

Unused(g) == proc[g] = "none" /\ \A h \in Launches : h < g => proc[h] # "none"

\* Mutant: the crash budget is cleared in startServer, where auto-restart passes too.
LaunchForgets(a) ==
    /\ pc[a] = "start"
    /\ ~IsActive
    /\ \E g \in Launches :
         /\ Unused(g)
         /\ known' = g
         /\ proc' = [proc EXCEPT ![g] = "running"]
         /\ hubOpen' = [hubOpen EXCEPT ![g] = TRUE]
         /\ GoWith(a, "running", "start", g)
    /\ tries' = 0
    /\ UNCHANGED <<row, watchVars, granted, daemonVars>>

\* Provisioning is done and runner.Start launches the process.
Launch(a) ==
    /\ pc[a] = "start"
    /\ ~IsActive
    /\ \E g \in Launches :
         /\ Unused(g)
         /\ known' = g
         /\ proc' = [proc EXCEPT ![g] = "running"]
         /\ hubOpen' = [hubOpen EXCEPT ![g] = TRUE]
         /\ GoWith(a, "running", "start", g)
    /\ UNCHANGED <<row, watchVars, budgetVars, daemonVars>>

\* Provisioning fails, the launch fails, or the server is running already.
LaunchFails(a) ==
    /\ Step(a, "start", "failed")
    /\ UNCHANGED <<row, procVars, watchVars, budgetVars, daemonVars>>

\* Whatever went wrong, the row says crashed.
RecordCrashed(a) ==
    /\ Step(a, "failed", "idle")
    /\ Record("crashed")
    /\ UNCHANGED <<procVars, watchVars, budgetVars, daemonVars>>

RecordRunning(a) ==
    /\ Step(a, "running", "watch")
    /\ Record("running")
    /\ UNCHANGED <<procVars, watchVars, budgetVars, daemonVars>>

\* Mutant: the watcher is left out when an auto-restart starts the server.
WatchServerByHand(a) ==
    /\ Step(a, "watch", "idle")
    /\ IF a \in Tasks /\ hubOpen[known]
       THEN watched' = [watched EXCEPT ![mine[a]] = known]
       ELSE UNCHANGED watched
    /\ UNCHANGED <<row, procVars, inbox, budgetVars, daemonVars>>

\* WatchServer subscribes to whatever the runner has under the id by now.  A hub that
\* is closed hands out closed channels, and the watcher ends at once.
WatchServer(a) ==
    /\ Step(a, "watch", "idle")
    /\ IF hubOpen[known] THEN watched' = [watched EXCEPT ![mine[a]] = known]
                         ELSE UNCHANGED watched
    /\ UNCHANGED <<row, procVars, inbox, budgetVars, daemonVars>>

-----------------------------------------------------------------------------
(* The watcher, and auto-restart *)

WatcherLeaves(w) == watched' = [watched EXCEPT ![w] = 0]

\* autoRestarter.allow.
\* Mutant: the count grows past its limit.
MayTryOnceMore == tries <= MaxAttempts

MayTry == tries < MaxAttempts

Allow ==
    /\ tries' = tries + 1
    /\ granted' = granted + 1

\* emitStatus for a crash: while the row exists and the budget allows it, a goroutine
\* goes to sleep and will restart the server.  For any other ending, nothing.
WatcherSeesEnd(w) ==
    /\ inbox[w] # "none"
    /\ inbox' = [inbox EXCEPT ![w] = "none"]
    /\ IF inbox[w] = "crashed" /\ row # "deleted" /\ MayTry
       THEN \E r \in Restarters :
              /\ pc[r] = "idle"
              /\ GoWith(r, "sleep", "start", watched[w])
              /\ Allow
       ELSE UNCHANGED <<actorVars, budgetVars>>
    /\ UNCHANGED <<row, procVars, watched, daemonVars>>

\* Mutant: the watcher drains its channels but never leaves.
WatcherStays(w) ==
    /\ watched[w] # 0
    /\ ~hubOpen[watched[w]]
    /\ inbox[w] # "none"
    /\ inbox' = [inbox EXCEPT ![w] = "none"]
    /\ UNCHANGED <<row, procVars, actorVars, watched, budgetVars, daemonVars>>

\* The select may see a closed channel first, and an ending still in the other one is
\* lost with it.
WatcherEnds(w) ==
    /\ watched[w] # 0
    /\ ~hubOpen[watched[w]]
    /\ WatcherLeaves(w)
    /\ inbox' = [inbox EXCEPT ![w] = "none"]
    /\ UNCHANGED <<row, procVars, actorVars, budgetVars, daemonVars>>

\* autoRestartDelay is over.
Wakes(r) ==
    /\ Step(r, "sleep", "start")
    /\ UNCHANGED <<row, procVars, watchVars, budgetVars, daemonVars>>

WindowPasses ==
    /\ tries > 0
    /\ tries' = 0
    /\ granted' = 0
    /\ UNCHANGED <<row, procVars, actorVars, watchVars, daemonVars>>

-----------------------------------------------------------------------------
(* The daemon *)

\* Everything in memory goes; a process that was running is out of reach.
DaemonDies ==
    /\ phase = "up"
    /\ boots < MaxBoots
    /\ boots' = boots + 1
    /\ phase' = "boot"
    /\ known' = 0
    /\ proc' = [g \in Launches |-> IF proc[g] = "none" THEN "none" ELSE "lost"]
    /\ hubOpen' = [g \in Launches |-> FALSE]
    /\ pc' = [a \in Actors |-> "idle"]
    /\ act' = [a \in Actors |-> "start"]
    /\ mine' = [a \in Actors |-> 0]
    /\ watched' = [w \in Launches |-> 0]
    /\ inbox' = [w \in Launches |-> "none"]
    /\ Forget
    /\ UNCHANGED row

\* Mutant: only rows that say crashed are looked at.
ReconcileServersSkips ==
    /\ Step(Boot, "idle", "boot")
    /\ phase = "boot" /\ phase' = "up"
    /\ row' = IF row = "crashed" /\ known = 0 THEN "stopped" ELSE row
    /\ UNCHANGED <<procVars, watchVars, budgetVars, boots>>

\* A row that claims a process the new daemon does not know is corrected; then the
\* goroutine of StartAutoStartServers is started, and the API is served.
ReconcileServers ==
    /\ Step(Boot, "idle", "boot")
    /\ phase = "boot" /\ phase' = "up"
    /\ row' = IF row = "running" /\ known = 0 THEN "stopped" ELSE row
    /\ UNCHANGED <<procVars, watchVars, budgetVars, boots>>

StartAutoStartServers ==
    /\ Step(Boot, "boot", IF AutoStart /\ row # "deleted" /\ ~IsActive THEN "start" ELSE "idle")
    /\ UNCHANGED <<row, procVars, watchVars, budgetVars, daemonVars>>

-----------------------------------------------------------------------------
StartServer(a) ==
    \/ Launch(a) \/ LaunchFails(a)
    \/ RecordCrashed(a) \/ RecordRunning(a) \/ WatchServer(a)

Task(t) ==
    \/ Begin(t) \/ Stop(t) \/ StopTimesOut(t) \/ StopReturns(t)
    \/ Kill(t) \/ NotRunning(t) \/ RecordStopped(t) \/ DeleteRow(t)

Watcher(w) == WatcherSeesEnd(w) \/ WatcherEnds(w)

Next ==
    \/ \E t \in Tasks, action \in Actions : Request(t, action)
    \/ \E t \in Tasks : Task(t)
    \/ \E a \in Actors : StartServer(a)
    \/ \E r \in Restarters : Wakes(r)
    \/ \E w \in Launches : Watcher(w)
    \/ \E g \in Launches : Exits(g) \/ HubCloses(g)
    \/ WindowPasses \/ DaemonDies \/ ReconcileServers \/ StartAutoStartServers

\* Goroutines run and timers fire; nothing makes an operator ask or a server exit.
Fairness ==
    /\ \A t \in Tasks : WF_vars(Task(t))
    /\ \A a \in Actors : WF_vars(StartServer(a))
    /\ \A r \in Restarters : WF_vars(Wakes(r))
    /\ WF_vars(StartAutoStartServers)
    /\ \A w \in Launches : WF_vars(Watcher(w))
    /\ \A g \in Launches : WF_vars(HubCloses(g))

Spec == Init /\ [][Next]_vars
FairSpec == Spec /\ Fairness

-----------------------------------------------------------------------------
(* What is checked *)

\* "Three tries in ten minutes" (autostart.go): between two decisions to start the
\* server, no window holds more restarts than that, whoever else starts it meanwhile.
CrashBudget == granted <= MaxAttempts

\* A process that runs under a start that has finished is watched: its crash will be
\* reported, whoever started it.
WatchedWhileLive ==
    IsActive /\ (\A a \in Actors : pc[a] \in {"running", "watch"} => mine[a] # known) =>
        \E w \in Launches : watched[w] = known

\* Once the daemon is up again, no row claims a process that nothing manages.
NoGhost == phase = "up" /\ known = 0 => row # "running"

\* No watcher outlives the process it watches.
WatchersLeave ==
    \A w \in Launches :
        watched[w] # 0 /\ proc[watched[w]] \in Ended ~> watched[w] = 0

-----------------------------------------------------------------------------
(* What the repository says, and the code does not keep *)

RestartsWhatRan ==
    \A r \in Restarters : pc[r] = "start" /\ pc'[r] = "running" => row # "stopped"

\* autoRestart (autostart.go:124): "Only a crash. A server the operator stopped stays
\* stopped".  A process the operator killed has crashed for the runner, and a restart
\* that went to sleep before the operator's decision does not look at the row again.
StoppedStaysStopped == [][RestartsWhatRan]_vars
=============================================================================
