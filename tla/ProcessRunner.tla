---------------------------- MODULE ProcessRunner ----------------------------
(***************************************************************************)
(* internal/runner/process.go: ProcessRunner, the supervisor that runs     *)
(* every Minecraft server as a child process of the daemon.                *)
(*                                                                         *)
(* The runner keeps a map from server ids to `process` structs.  Its API   *)
(* (Start, Stop, Kill, Shutdown) is called from many goroutines at once,   *)
(* and every process has a goroutine of its own, reap.  Two mutexes are    *)
(* involved, r.mu for the map and p.mu for one struct, and neither is held *)
(* across a whole call: an action below is one section of a call between   *)
(* two points where another goroutine may get in.  In particular setStatus *)
(* assigns the status under p.mu and publishes it after the unlock, so the *)
(* two are separate actions.                                               *)
(*                                                                         *)
(* Console lines are not modelled here (see ConsoleHub).  A group kill of  *)
(* a process that exists is assumed to succeed.                            *)
(***************************************************************************)
CONSTANTS
    Servers,    \* server ids
    Procs,      \* identities of `process` structs: bounds the number of launches
    Callers,    \* goroutines that call Start, Stop and Kill
    MayShutDown,\* whether the daemon may go down
    Impatient,  \* the callers whose context may be cancelled while they wait
    NoProc,     \* "no process" in the map and in a goroutine's locals
    NoServer,   \* the argument of a goroutine that is in no call
    None        \* "no status"

\* A goroutine named by a server id is the one Shutdown spawns for that server.
Goroutines == Callers \cup Servers
\* Everyone who calls setStatus: those goroutines, and reap of each process.
Actors == Goroutines \cup Procs

ASSUME RunnerAssumption ==
    /\ Callers \cap Servers = {}
    /\ Goroutines \cap Procs = {}
    /\ MayShutDown \in BOOLEAN
    /\ Impatient \subseteq Callers
    /\ NoProc \notin Procs
    /\ NoServer \notin Servers
    /\ None \notin {"none", "starting", "running", "stopping", "stopped", "crashed"}

\* Status.IsActive.
Active == {"starting", "running", "stopping"}
Final == {"stopped", "crashed"}

VARIABLES
    procs,      \* r.procs
    id,         \* p.id, a server
    status,     \* p.status; "none" before the struct exists
    stopping,   \* p.stopping
    word,       \* the stop word is in p's stdin
    os,         \* the operating system's view of the child
    exited,     \* p.exited is closed
    hubOpen,    \* p.hub accepts publishes
    reported,   \* the endings (Final statuses) p.hub has published
    rpc,        \* where reap(p) is
    final,      \* reap's local `final`
    pc,         \* where each goroutine is in its call
    srv,        \* its argument: a server id
    tgt,        \* its local `p`
    seen,       \* history: what Start's check found in the map
    pub,        \* the ending an actor has assigned and not yet published
    down,       \* where Shutdown is
    snap        \* Shutdown's snapshot of the map

\* "lingering": the child is gone and a process it left behind holds the pipes.
\* "killed" is "gone" by the runner's own signal.
OSStates == {"none", "failed", "alive", "lingering", "gone", "killed"}
Living == {"alive", "lingering"}
Over == {"gone", "killed"}
RPCs == {"none", "waiting", "decided", "settled", "released", "done"}
PCs == {"idle", "build", "launch", "abortHub", "abortExit", "announce", "supervise",
        "pick", "lookup", "check", "mark", "stopping", "word", "wait",
        "kill", "killWait"}

childVars == <<word, os>>
procVars == <<procs, id, status, stopping, exited>>
busVars == <<hubOpen, reported, pub>>
reapVars == <<rpc, final>>
callVars == <<pc, srv, tgt, seen>>
downVars == <<down, snap>>
vars == <<childVars, procVars, busVars, reapVars, callVars, downVars>>

TypeOK ==
    /\ procs \in [Servers -> Procs \cup {NoProc}]
    /\ id \in [Procs -> Servers \cup {NoServer}]
    /\ status \in [Procs -> Active \cup Final \cup {"none"}]
    /\ stopping \in [Procs -> BOOLEAN]
    /\ word \in [Procs -> BOOLEAN]
    /\ os \in [Procs -> OSStates]
    /\ exited \in [Procs -> BOOLEAN]
    /\ hubOpen \in [Procs -> BOOLEAN]
    /\ reported \in [Procs -> SUBSET Final]
    /\ rpc \in [Procs -> RPCs]
    /\ final \in [Procs -> Final \cup {None}]
    /\ pc \in [Goroutines -> PCs]
    /\ srv \in [Goroutines -> Servers \cup {NoServer}]
    /\ tgt \in [Goroutines -> Procs \cup {NoProc}]
    /\ seen \in [Goroutines -> Procs \cup {NoProc}]
    /\ pub \in [Actors -> Final \cup {None}]
    /\ down \in {"up", "stopping", "down"}
    /\ snap \subseteq Procs

Init ==
    /\ procs = [s \in Servers |-> NoProc]
    /\ id = [p \in Procs |-> NoServer]
    /\ status = [p \in Procs |-> "none"]
    /\ stopping = [p \in Procs |-> FALSE]
    /\ word = [p \in Procs |-> FALSE]
    /\ os = [p \in Procs |-> "none"]
    /\ exited = [p \in Procs |-> FALSE]
    /\ hubOpen = [p \in Procs |-> TRUE]
    /\ reported = [p \in Procs |-> {}]
    /\ rpc = [p \in Procs |-> "none"]
    /\ final = [p \in Procs |-> None]
    /\ pc = [g \in Goroutines |-> "idle"]
    /\ srv = [g \in Goroutines |-> NoServer]
    /\ tgt = [g \in Goroutines |-> NoProc]
    /\ seen = [g \in Goroutines |-> NoProc]
    /\ pub = [a \in Actors |-> None]
    /\ down = "up"
    /\ snap = {}

-----------------------------------------------------------------------------
(* The pieces the calls are made of. *)

\* The goroutine g goes from one section of its call to the next.
Goto(g, from, to) ==
    /\ pc[g] = from
    /\ pub[g] = None
    /\ pc' = [pc EXCEPT ![g] = to]

\* The call of g is over; its locals are gone.
Return(g) ==
    /\ pc' = [pc EXCEPT ![g] = "idle"]
    /\ srv' = [srv EXCEPT ![g] = NoServer]
    /\ tgt' = [tgt EXCEPT ![g] = NoProc]
    /\ seen' = [seen EXCEPT ![g] = NoProc]

\* setStatus up to the unlock: the assignment, and what is left to publish.  The
\* hub's subscribers matter here only for how a process ended, so publishing any
\* other status is not a step.
SetStatus(a, p, s) ==
    /\ status' = [status EXCEPT ![p] = s]
    /\ pub' = [pub EXCEPT ![a] = IF status[p] # s /\ s \in Final THEN s ELSE None]

Subject(a) == IF a \in Procs THEN a ELSE tgt[a]

\* The rest of setStatus: Hub.PublishStatus, which a closed hub ignores.
Publish(a) ==
    /\ pub[a] # None
    /\ LET p == Subject(a) IN
         reported' = [reported EXCEPT ![p] = IF hubOpen[p] THEN @ \cup {pub[a]} ELSE @]
    /\ pub' = [pub EXCEPT ![a] = None]
    /\ UNCHANGED <<childVars, procVars, hubOpen, reapVars, callVars, downVars>>

-----------------------------------------------------------------------------
(* Start *)

\* The identity of a struct nobody has created or is about to.
Fresh(p) ==
    /\ status[p] = "none"
    /\ \A g \in Goroutines : pc[g] = "build" => tgt[g] # p

\* Mutant: a server on its way down may be started.
StartCheckMidStop(c, s) ==
    /\ pc[c] = "idle"
    /\ procs[s] # NoProc => status[procs[s]] \notin {"starting", "running"}
    /\ \E p \in Procs :
         /\ Fresh(p)
         /\ tgt' = [tgt EXCEPT ![c] = p]
    /\ pc' = [pc EXCEPT ![c] = "build"]
    /\ srv' = [srv EXCEPT ![c] = s]
    /\ seen' = [seen EXCEPT ![c] = procs[s]]
    /\ UNCHANGED <<childVars, procVars, busVars, reapVars, downVars>>

\* The check under r.mu.  (ErrAlreadyRunning changes nothing.)
StartCheck(c, s) ==
    /\ pc[c] = "idle"
    /\ procs[s] # NoProc => status[procs[s]] \notin Active
    /\ \E p \in Procs :
         /\ Fresh(p)
         /\ tgt' = [tgt EXCEPT ![c] = p]
    /\ pc' = [pc EXCEPT ![c] = "build"]
    /\ srv' = [srv EXCEPT ![c] = s]
    /\ seen' = [seen EXCEPT ![c] = procs[s]]
    /\ UNCHANGED <<childVars, procVars, busVars, reapVars, downVars>>

\* No command line, no directory or no pipes: nothing was registered.
StartBuildFails(c) ==
    /\ pc[c] = "build"
    /\ Return(c)
    /\ UNCHANGED <<childVars, procVars, busVars, reapVars, downVars>>

\* The new struct goes into the map, whatever the map holds by now.
StartRegister(c) ==
    /\ Goto(c, "build", "launch")
    /\ procs' = [procs EXCEPT ![srv[c]] = tgt[c]]
    /\ id' = [id EXCEPT ![tgt[c]] = srv[c]]
    /\ status' = [status EXCEPT ![tgt[c]] = "starting"]
    /\ UNCHANGED <<childVars, stopping, exited, busVars, reapVars,
                   srv, tgt, seen, downVars>>

StartLaunch(c) ==
    /\ Goto(c, "launch", "announce")
    /\ os' = [os EXCEPT ![tgt[c]] = "alive"]
    /\ UNCHANGED <<word, procVars, busVars, reapVars, srv, tgt, seen, downVars>>

StartLaunchFails(c) ==
    /\ pc[c] = "launch"
    /\ pub[c] = None
    /\ os' = [os EXCEPT ![tgt[c]] = "failed"]
    /\ SetStatus(c, tgt[c], "crashed")
    /\ pc' = [pc EXCEPT ![c] = "abortHub"]
    /\ UNCHANGED <<word, procs, id, stopping, exited, hubOpen, reported, reapVars,
                   srv, tgt, seen, downVars>>

StartAbortHub(c) ==
    /\ Goto(c, "abortHub", "abortExit")
    /\ hubOpen' = [hubOpen EXCEPT ![tgt[c]] = FALSE]
    /\ UNCHANGED <<childVars, procVars, reported, pub, reapVars, srv, tgt, seen, downVars>>

StartAbortExit(c) ==
    /\ pc[c] = "abortExit"
    /\ exited' = [exited EXCEPT ![tgt[c]] = TRUE]
    /\ Return(c)
    /\ UNCHANGED <<childVars, procs, id, status, stopping, busVars, reapVars, downVars>>

\* Running is assigned whatever the status has become meanwhile.
StartAnnounce(c) ==
    /\ pc[c] = "announce"
    /\ pub[c] = None
    /\ SetStatus(c, tgt[c], "running")
    /\ pc' = [pc EXCEPT ![c] = "supervise"]
    /\ UNCHANGED <<childVars, procs, id, stopping, exited, hubOpen, reported, reapVars,
                   srv, tgt, seen, downVars>>

\* Mutant: Start returns without the goroutine.
StartSuperviseForgets(c) ==
    /\ pc[c] = "supervise"
    /\ Return(c)
    /\ UNCHANGED <<childVars, procVars, busVars, reapVars, downVars>>

\* go r.reap(p)
StartSupervise(c) ==
    /\ pc[c] = "supervise"
    /\ pub[c] = None
    /\ rpc' = [rpc EXCEPT ![tgt[c]] = "waiting"]
    /\ Return(c)
    /\ UNCHANGED <<childVars, procVars, busVars, final, downVars>>

-----------------------------------------------------------------------------
(* The child, and reap *)

\* The server exits: by itself, because it was asked, or by crashing.
ChildExits(p) ==
    /\ os[p] = "alive"
    /\ \E how \in {"lingering", "gone"} : os' = [os EXCEPT ![p] = how]
    /\ UNCHANGED <<word, procVars, busVars, reapVars, callVars, downVars>>

\* The last process it left behind closes the pipes.
PipesClose(p) ==
    /\ os[p] = "lingering"
    /\ os' = [os EXCEPT ![p] = "gone"]
    /\ UNCHANGED <<word, procVars, busVars, reapVars, callVars, downVars>>

\* Mutant: cmd.Wait alone, without waiting for the readers to drain the pipes.
ReapDecideEarly(p) ==
    /\ rpc[p] = "waiting"
    /\ os[p] \in Over \cup {"lingering"}
    /\ final' = [final EXCEPT ![p] = "stopped"]
    /\ rpc' = [rpc EXCEPT ![p] = "decided"]
    /\ UNCHANGED <<childVars, procVars, busVars, callVars, downVars>>

\* Mutant: the final status is never worked out.
ReapDecideUnset(p) ==
    /\ rpc[p] = "waiting"
    /\ os[p] \in Over
    /\ rpc' = [rpc EXCEPT ![p] = "decided"]
    /\ UNCHANGED <<childVars, procVars, busVars, final, callVars, downVars>>

\* The readers are done, Wait has returned (with an error unless the exit code is
\* zero, which after a kill it is not), and stopping is read under p.mu.
ReapDecide(p) ==
    /\ rpc[p] = "waiting"
    /\ os[p] \in Over
    /\ \E failed \in IF os[p] = "killed" THEN {TRUE} ELSE BOOLEAN :
         final' = [final EXCEPT ![p] = IF failed /\ ~stopping[p]
                                       THEN "crashed" ELSE "stopped"]
    /\ rpc' = [rpc EXCEPT ![p] = "decided"]
    /\ UNCHANGED <<childVars, procVars, busVars, callVars, downVars>>

ReapSettle(p) ==
    /\ rpc[p] = "decided"
    /\ SetStatus(p, p, final[p])
    /\ rpc' = [rpc EXCEPT ![p] = "settled"]
    /\ UNCHANGED <<childVars, procs, id, stopping, exited, hubOpen, reported, final,
                   callVars, downVars>>

\* Mutant: exited closes before the status has been published.
ReapReleaseEarly(p) ==
    /\ rpc[p] = "settled"
    /\ exited' = [exited EXCEPT ![p] = TRUE]
    /\ rpc' = [rpc EXCEPT ![p] = "released"]
    /\ UNCHANGED <<childVars, procs, id, status, stopping, busVars, final,
                   callVars, downVars>>

\* Mutant: exited is never closed.
ReapReleaseForgets(p) ==
    /\ rpc[p] = "settled"
    /\ pub[p] = None
    /\ rpc' = [rpc EXCEPT ![p] = "released"]
    /\ UNCHANGED <<childVars, procVars, busVars, final, callVars, downVars>>

\* close(p.exited)
ReapRelease(p) ==
    /\ rpc[p] = "settled"
    /\ pub[p] = None
    /\ exited' = [exited EXCEPT ![p] = TRUE]
    /\ rpc' = [rpc EXCEPT ![p] = "released"]
    /\ UNCHANGED <<childVars, procs, id, status, stopping, busVars, final, callVars, downVars>>

ReapCloseHub(p) ==
    /\ rpc[p] = "released"
    /\ hubOpen' = [hubOpen EXCEPT ![p] = FALSE]
    /\ rpc' = [rpc EXCEPT ![p] = "done"]
    /\ UNCHANGED <<childVars, procVars, reported, pub, final, callVars, downVars>>

-----------------------------------------------------------------------------
(* Stop and Kill *)

\* r.lookup(id) as part of a call; without a process it is ErrServerNotFound, and
\* the call is over.
Lookup(g, s) ==
    /\ procs[s] # NoProc
    /\ tgt' = [tgt EXCEPT ![g] = procs[s]]

StopCall(c, s) ==
    /\ Goto(c, "idle", "check")
    /\ Lookup(c, s)
    /\ srv' = [srv EXCEPT ![c] = s]
    /\ UNCHANGED <<childVars, procVars, busVars, reapVars, seen, downVars>>

KillCall(c, s) ==
    /\ Goto(c, "idle", "kill")
    /\ Lookup(c, s)
    /\ srv' = [srv EXCEPT ![c] = s]
    /\ UNCHANGED <<childVars, procVars, busVars, reapVars, seen, downVars>>

StopCheck(g) ==
    /\ Goto(g, "check", "mark")
    /\ status[tgt[g]] \in Active
    /\ UNCHANGED <<childVars, procVars, busVars, reapVars, srv, tgt, seen, downVars>>

\* ErrNotRunning.
StopRefused(g) ==
    /\ pc[g] = "check"
    /\ status[tgt[g]] \notin Active
    /\ Return(g)
    /\ UNCHANGED <<childVars, procVars, busVars, reapVars, downVars>>

\* Mutant: Stop does not leave its mark.
StopMarkForgets(g) ==
    /\ Goto(g, "mark", "stopping")
    /\ UNCHANGED <<childVars, procVars, busVars, reapVars, srv, tgt, seen, downVars>>

StopMark(g) ==
    /\ Goto(g, "mark", "stopping")
    /\ stopping' = [stopping EXCEPT ![tgt[g]] = TRUE]
    /\ UNCHANGED <<childVars, procs, id, status, exited, busVars, reapVars,
                   srv, tgt, seen, downVars>>

StopAnnounce(g) ==
    /\ pc[g] = "stopping"
    /\ SetStatus(g, tgt[g], "stopping")
    /\ pc' = [pc EXCEPT ![g] = "word"]
    /\ UNCHANGED <<childVars, procs, id, stopping, exited, hubOpen, reported, reapVars,
                   srv, tgt, seen, downVars>>

\* The write lands in the pipe, which exists before the child does.
StopWrite(g) ==
    /\ Goto(g, "word", "wait")
    /\ os[tgt[g]] \in {"none"} \cup Living
    /\ word' = [word EXCEPT ![tgt[g]] = TRUE]
    /\ UNCHANGED <<os, procVars, busVars, reapVars, srv, tgt, seen, downVars>>

\* Stop falls back on Kill(ctx, id), which looks the id up again.
FallBackOnKill(g, from) ==
    /\ Goto(g, from, "kill")
    /\ Lookup(g, srv[g])
    /\ UNCHANGED <<childVars, procVars, busVars, reapVars, srv, seen, downVars>>

\* Nobody reads stdin any more.
StopWriteFails(g) ==
    /\ FallBackOnKill(g, "word")
    /\ os[tgt[g]] \in {"failed", "lingering"} \cup Over

StopTimesOut(g) == FallBackOnKill(g, "wait")

\* case <-p.exited, in Stop and in Kill.
SeesExit(g) ==
    /\ pc[g] \in {"wait", "killWait"}
    /\ exited[tgt[g]]
    /\ Return(g)
    /\ UNCHANGED <<childVars, procVars, busVars, reapVars, downVars>>

\* case <-ctx.Done(), in Stop and in Kill.  Shutdown's context has a deadline.
GivesUp(g) ==
    /\ g \in Impatient \cup Servers
    /\ pc[g] \in {"wait", "killWait"}
    /\ Return(g)
    /\ UNCHANGED <<childVars, procVars, busVars, reapVars, downVars>>

\* Already reaped, or never launched: ErrNotRunning.
KillRefused(g) ==
    /\ pc[g] = "kill"
    /\ exited[tgt[g]] \/ os[tgt[g]] \in {"none", "failed"}
    /\ Return(g)
    /\ UNCHANGED <<childVars, procVars, busVars, reapVars, downVars>>

\* group.kill reaches the child and everything it left behind.  A group that is
\* already gone (ESRCH) is what was asked for.
KillGroup(g) ==
    /\ Goto(g, "kill", "killWait")
    /\ ~exited[tgt[g]]
    /\ os[tgt[g]] \in Living \cup Over
    /\ os' = [os EXCEPT ![tgt[g]] = IF @ = "alive" THEN "killed"
                                      ELSE IF @ = "lingering" THEN "gone" ELSE @]
    /\ UNCHANGED <<word, procVars, busVars, reapVars, srv, tgt, seen, downVars>>

-----------------------------------------------------------------------------
(* Shutdown *)

Registered == {procs[s] : s \in Servers} \ {NoProc}

\* The snapshot of the map, once, when the daemon goes down.
ShutdownBegin ==
    /\ MayShutDown
    /\ down = "up"
    /\ down' = "stopping"
    /\ snap' = Registered
    /\ LET has == {s \in Servers : procs[s] # NoProc} IN
         /\ pc' = [g \in Goroutines |-> IF g \in has THEN "pick" ELSE pc[g]]
         /\ srv' = [g \in Goroutines |-> IF g \in has THEN g ELSE srv[g]]
         /\ tgt' = [g \in Goroutines |-> IF g \in has THEN procs[g] ELSE tgt[g]]
    /\ UNCHANGED <<childVars, procVars, busVars, reapVars, seen>>

\* A server that is active is stopped by a goroutine of its own.
ShutdownPick(s) ==
    /\ Goto(s, "pick", "lookup")
    /\ status[tgt[s]] \in Active
    /\ UNCHANGED <<childVars, procVars, busVars, reapVars, srv, tgt, seen, downVars>>

ShutdownLookup(s) ==
    /\ Goto(s, "lookup", "check")
    /\ Lookup(s, s)
    /\ UNCHANGED <<childVars, procVars, busVars, reapVars, srv, seen, downVars>>

ShutdownSkip(s) ==
    /\ pc[s] = "pick"
    /\ status[tgt[s]] \notin Active
    /\ Return(s)
    /\ UNCHANGED <<childVars, procVars, busVars, reapVars, downVars>>

\* wg.Wait has returned: the hubs of the snapshot are closed.
ShutdownClose ==
    /\ down = "stopping"
    /\ \A s \in Servers : pc[s] = "idle"
    /\ down' = "down"
    /\ hubOpen' = [p \in Procs |-> hubOpen[p] /\ p \notin snap]
    /\ UNCHANGED <<childVars, procVars, reported, pub, reapVars, callVars, snap>>

-----------------------------------------------------------------------------
\* What a call does without being asked again, once it has begun.
StartStep(c) ==
    \/ StartRegister(c) \/ StartBuildFails(c)
    \/ StartLaunch(c) \/ StartLaunchFails(c)
    \/ StartAbortHub(c) \/ StartAbortExit(c)
    \/ StartAnnounce(c) \/ StartSupervise(c)

StopStep(g) ==
    \/ StopCheck(g) \/ StopRefused(g)
    \/ StopMark(g) \/ StopAnnounce(g)
    \/ StopWrite(g) \/ StopWriteFails(g)
    \/ StopTimesOut(g) \/ SeesExit(g)
    \/ KillRefused(g) \/ KillGroup(g)

ShutdownStep(s) == ShutdownPick(s) \/ ShutdownSkip(s) \/ ShutdownLookup(s)

Reap(p) == ReapDecide(p) \/ ReapSettle(p) \/ ReapRelease(p) \/ ReapCloseHub(p)

Call(c, s) == StartCheck(c, s) \/ StopCall(c, s) \/ KillCall(c, s)

Environment ==
    \/ \E c \in Callers, s \in Servers : Call(c, s)
    \/ \E g \in Goroutines : GivesUp(g)
    \/ \E p \in Procs : ChildExits(p) \/ PipesClose(p)

Next ==
    \/ Environment
    \/ \E c \in Callers : StartStep(c)
    \/ \E g \in Goroutines : StopStep(g)
    \/ \E s \in Servers : ShutdownStep(s)
    \/ \E p \in Procs : Reap(p)
    \/ \E a \in Actors : Publish(a)
    \/ ShutdownBegin \/ ShutdownClose

Spec == Init /\ [][Next]_vars

\* The Go scheduler runs every goroutine and every timer fires.  Nothing makes a
\* child exit by itself, a caller call, or a context be cancelled.
Fairness ==
    /\ \A c \in Callers : WF_vars(StartStep(c))
    /\ \A g \in Goroutines : WF_vars(StopStep(g))
    /\ \A s \in Servers : WF_vars(ShutdownStep(s))
    /\ \A p \in Procs : WF_vars(Reap(p))
    /\ \A a \in Actors : WF_vars(Publish(a))
    /\ WF_vars(ShutdownClose)

FairSpec == Spec /\ Fairness

-----------------------------------------------------------------------------
(* What is checked *)

\* A child that is alive, or whose helpers still hold its pipes, is never
\* reported as stopped or crashed: IsActive errs on the safe side, so Start
\* (which asks only the status) cannot launch over it.
LiveIsActive ==
    \A p \in Procs : os[p] \in Living => status[p] \in Active

\* A server that was sent the stop word is never reported as crashed, whatever
\* its exit code and however it raced with Stop: `stopping` is set before the
\* word is written and read after the child is gone.
AskedIsNotCrash ==
    \A p \in Procs :
        word[p] /\ os[p] # "failed" => status[p] # "crashed" /\ "crashed" \notin reported[p]

\* When p.exited closes, the subscribers have been told how the process ended,
\* and told one thing; only a hub that Shutdown closed first keeps it from them.
EndIsReported ==
    \A p \in Procs :
        /\ ~(Final \subseteq reported[p])
        /\ exited[p] => reported[p] \cap Final # {} \/ (down = "down" /\ p \in snap)

DisplacesByOverlap ==
    \A s \in Servers :
        LET p == procs[s] IN
          p # NoProc /\ procs'[s] # p /\ os[p] \notin {"failed"} \cup Over =>
            \E c \in Callers : pc[c] = "build" /\ srv[c] = s /\ seen[c] # p

\* The map forgets a process that is not over only when two Starts overlapped:
\* the one that replaces it had looked before it was registered.
NoSilentDisplacement == [][DisplacesByOverlap]_vars

\* No call hangs: Stop's timeout leads to Kill, and Kill to a reaped process.
CallsReturn == \A g \in Goroutines : pc[g] # "idle" ~> pc[g] = "idle"

\* A process that is over is reaped, and its subscribers are released.
DeadIsReaped ==
    \A p \in Procs : os[p] \in {"failed"} \cup Over ~> exited[p] /\ ~hubOpen[p]

-----------------------------------------------------------------------------
(* What the repository says of the runner, and the code does not keep *)

\* IsActive, runner.go:19: "reports whether the status means a process is alive".
\* A Stop that checked the status before reap settled it assigns Stopping after:
\* the server can then be neither started, stopped nor killed.
StatusIsHonest == \A p \in Procs : exited[p] => status[p] \notin Active

\* TestProcessRunnerDoubleStartRejected: "second Start = %v, want ErrAlreadyRunning".
\* Start lets go of r.mu between its check and the registration.
OneChildPerServer ==
    \A p, q \in Procs : os[p] = "alive" /\ os[q] = "alive" /\ id[p] = id[q] => p = q
=============================================================================
