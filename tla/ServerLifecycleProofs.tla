----------------------- MODULE ServerLifecycleProofs -----------------------
(***************************************************************************)
(* Theorems about ServerLifecycle, for any number of requests, restarts,   *)
(* launches and deaths of the daemon.                                      *)
(*                                                                         *)
(* The budget is exact (granted = tries).  That a live process is watched  *)
(* rests on its hub being open, and on whoever launched it still being on  *)
(* the way to WatchServer with its number in hand.                         *)
(***************************************************************************)
EXTENDS ServerLifecycle, TLAPS

\* Between the launch and the watcher: runStart after runner.Start.
Starters == {"running", "watch"}

HubsStayOpen == \A g \in Launches : proc[g] \in Live => hubOpen[g]

StartersHold ==
    \A a \in Actors : pc[a] \in Starters => mine[a] \in Launches /\ known # 0

LifecycleInv ==
    TypeOK /\ granted = tries /\ HubsStayOpen /\ StartersHold /\ WatchedWhileLive /\ NoGhost

\* The parts of TypeOK, the budget with what it promises.
ServerTypes ==
    /\ row \in {"stopped", "running", "crashed", "deleted"}
    /\ known \in 0..MaxLaunches
    /\ hubOpen \in [Launches -> BOOLEAN]

ProcessTypes == proc \in [Launches -> Live \cup Ended \cup {"none", "lost"}]

ActorTypes ==
    pc \in [Actors -> PCs] /\ act \in [Actors -> Actions] /\ mine \in [Actors -> 0..MaxLaunches]

WatchTypes == watched \in [Launches -> 0..MaxLaunches]

InboxTypes == inbox \in [Launches -> Ended \cup {"none"}]

BudgetIsExact ==
    /\ tries \in 0..MaxAttempts /\ granted = tries
    /\ phase \in {"up", "boot"} /\ boots \in 0..MaxBoots

\* What a step leaves of who is between a launch and its watcher.
SameStarters ==
    \A b \in Actors : /\ pc'[b] \in Starters <=> pc[b] \in Starters
                      /\ pc[b] \in Starters => mine'[b] = mine[b]

-----------------------------------------------------------------------------
\* TypeOK and the exact budget are their parts, in a state and in the next.
LEMMA LifecycleParts ==
    /\ TypeOK /\ granted = tries <=>
         /\ ServerTypes /\ ProcessTypes /\ ActorTypes /\ WatchTypes /\ InboxTypes
         /\ BudgetIsExact
    /\ (TypeOK /\ granted = tries)' <=>
         (/\ ServerTypes /\ ProcessTypes /\ ActorTypes /\ WatchTypes /\ InboxTypes
          /\ BudgetIsExact)'
BY LifecycleAssumption DEF TypeOK, ServerTypes, ProcessTypes, ActorTypes, WatchTypes, InboxTypes,
   BudgetIsExact

\* Whatever counts a restart, counts it against the window: no step grants one more.
LEMMA BudgetStays == ASSUME BudgetIsExact, [Next]_vars PROVE BudgetIsExact'
BY LifecycleAssumption DEF BudgetIsExact, vars, procVars, actorVars, watchVars, budgetVars,
   daemonVars, Next, Task, StartServer, Watcher, Request, Begin, Stop, StopTimesOut,
   StopReturns, Kill, NotRunning, RecordStopped, DeleteRow, Launch, LaunchFails,
   RecordCrashed, RecordRunning, WatchServer, WatcherSeesEnd, WatcherEnds, Wakes,
   WindowPasses, DaemonDies, ReconcileServers, StartAutoStartServers, Exits, HubCloses,
   Forget, MayTry, Allow

\* A goroutine that moves to a step of its own leaves the others where they are.
LEMMA GoWithMoves ==
    ASSUME ActorTypes, NEW a \in Actors, NEW to \in PCs, NEW action \in Actions,
           NEW g \in 0..MaxLaunches, GoWith(a, to, action, g)
    PROVE  /\ ActorTypes'
           /\ pc'[a] = to /\ mine'[a] = g
           /\ \A b \in Actors : b # a => pc'[b] = pc[b] /\ mine'[b] = mine[b]
BY DEF ActorTypes, GoWith

\* Unless it comes from a launch or goes to one, nobody's way to the watcher changes.
LEMMA GoKeepsStarters ==
    ASSUME ActorTypes, NEW a \in Actors, NEW to \in PCs, Go(a, to),
           pc[a] \in Starters <=> to \in Starters
    PROVE  ActorTypes' /\ SameStarters
<1>1. CASE to \in {"idle", "start"}
  <2>1. GoWith(a, to, "start", 0) /\ "start" \in Actions /\ 0 \in 0..MaxLaunches
    BY <1>1, LifecycleAssumption DEF Go, Actions
  <2>2. to \notin Starters  BY <1>1 DEF Starters
  <2> QED  BY <2>1, <2>2, GoWithMoves DEF SameStarters
<1>2. CASE to \notin {"idle", "start"}
  <2>1. GoWith(a, to, act[a], mine[a]) /\ act[a] \in Actions /\ mine[a] \in 0..MaxLaunches
    BY <1>2 DEF Go, ActorTypes
  <2> QED  BY <2>1, GoWithMoves DEF SameStarters
<1> QED  BY <1>1, <1>2

\* The same for a step that begins with a process in hand.
LEMMA GoWithKeepsStarters ==
    ASSUME ActorTypes, NEW a \in Actors, NEW to \in PCs \ Starters, NEW action \in Actions,
           NEW g \in 0..MaxLaunches, GoWith(a, to, action, g), pc[a] \notin Starters
    PROVE  ActorTypes' /\ SameStarters
BY GoWithMoves DEF SameStarters

\* Goroutines that do not move.
LEMMA NobodyMoves ==
    ASSUME ActorTypes, UNCHANGED actorVars
    PROVE  ActorTypes' /\ SameStarters
BY DEF ActorTypes, SameStarters, actorVars

\* A step that launches nothing, follows nothing and forgets nothing: the server the
\* runner knows is as watched as it was.
LEMMA StillWatched ==
    ASSUME LifecycleInv, SameStarters, known' = known,
           \A g \in Launches : proc'[g] \in Live => proc[g] \in Live /\ hubOpen'[g] = hubOpen[g],
           \A w \in Launches : watched'[w] = watched[w] \/ ~hubOpen[watched[w]],
           phase' = phase, row' = "running" => row = "running" \/ known # 0
    PROVE  (HubsStayOpen /\ StartersHold /\ WatchedWhileLive /\ NoGhost)'
<1>1. HubsStayOpen'  BY DEF LifecycleInv, HubsStayOpen
<1>2. StartersHold'  BY DEF LifecycleInv, StartersHold, SameStarters
<1>3. NoGhost'  BY DEF LifecycleInv, NoGhost
<1>4. WatchedWhileLive'
  <2> SUFFICES ASSUME IsActive', \A a \in Actors : pc'[a] \in Starters => mine'[a] # known
               PROVE  \E w \in Launches : watched'[w] = known
    BY DEF WatchedWhileLive, Starters
  <2>1. known \in Launches /\ proc[known] \in Live /\ hubOpen[known]
    BY LifecycleAssumption DEF IsActive, LifecycleInv, TypeOK, Launches, HubsStayOpen
  <2>2. IsActive  BY <2>1 DEF IsActive
  <2>3. \A a \in Actors : pc[a] \in Starters => mine[a] # known  BY DEF SameStarters
  <2>4. PICK w \in Launches : watched[w] = known
    BY <2>2, <2>3 DEF LifecycleInv, WatchedWhileLive, Starters
  <2> QED  BY <2>1, <2>4
<1> QED  BY <1>1, <1>2, <1>3, <1>4

\* The invariant holds before anybody asked for anything.
LEMMA InitialLifecycle == Init => LifecycleInv
<1> SUFFICES ASSUME Init PROVE LifecycleInv
  OBVIOUS
<1>1. ServerTypes /\ ProcessTypes /\ WatchTypes /\ InboxTypes /\ BudgetIsExact
  BY LifecycleAssumption
  DEF Init, ServerTypes, ProcessTypes, WatchTypes, InboxTypes, BudgetIsExact
<1>2. ActorTypes  BY LifecycleAssumption DEF Init, ActorTypes, PCs, Actions
<1>3. HubsStayOpen /\ StartersHold /\ NoGhost
  BY DEF Init, HubsStayOpen, StartersHold, NoGhost, Starters, Live
<1>4. WatchedWhileLive  BY DEF Init, WatchedWhileLive, IsActive
<1> QED  BY <1>1, <1>2, <1>3, <1>4, LifecycleParts DEF LifecycleInv

\* Every step of a request, a watcher, a restart, a process and the daemon keeps it.
LEMMA InductiveLifecycle == LifecycleInv /\ [Next]_vars => LifecycleInv'
<1> SUFFICES ASSUME LifecycleInv, [Next]_vars PROVE LifecycleInv'
  OBVIOUS
<1> USE DEF procVars, watchVars, daemonVars
<1>t. /\ ServerTypes /\ ProcessTypes /\ ActorTypes /\ WatchTypes /\ InboxTypes
      /\ BudgetIsExact
  BY LifecycleParts DEF LifecycleInv
<1>b. BudgetIsExact'  BY <1>t, BudgetStays
<1>k. known = 0 \/ known \in Launches
  BY <1>t, LifecycleAssumption DEF ServerTypes, Launches
<1> DEFINE Types == ServerTypes /\ ProcessTypes /\ WatchTypes /\ InboxTypes
           Safe == HubsStayOpen /\ StartersHold /\ WatchedWhileLive /\ NoGhost
<1>q. Types' /\ ActorTypes' /\ Safe' => LifecycleInv'
  BY <1>b, LifecycleParts DEF LifecycleInv
<1> HIDE DEF Types, Safe
<1>1. ASSUME NEW t \in Tasks, NEW action \in Actions, Request(t, action)
      PROVE  LifecycleInv'
  <2>1. Types'
    BY <1>1, <1>t DEF Types, Request, ServerTypes, ProcessTypes, WatchTypes, InboxTypes
  <2>2. ActorTypes' /\ SameStarters
    <3>1. t \in Actors /\ "begin" \in PCs \ Starters /\ 0 \in 0..MaxLaunches
          /\ GoWith(t, "begin", action, 0) /\ pc[t] \notin Starters
      BY <1>1, LifecycleAssumption DEF Request, Actors, PCs, Starters
    <3> QED  BY <1>t, <3>1, GoWithKeepsStarters
  <2>3. Safe'  BY <1>1, <2>2, StillWatched DEF Safe, Request
  <2> QED  BY <1>q, <2>1, <2>2, <2>3
<1>2. ASSUME NEW t \in Tasks, Begin(t) PROVE LifecycleInv'
  <2>1. Types'
    BY <1>2, <1>t DEF Types, Begin, ServerTypes, ProcessTypes, WatchTypes, InboxTypes
  <2>2. ActorTypes' /\ SameStarters
    <3>1. PICK to \in {"stop", "kill", "forget", "start"} : Go(t, to)
      BY <1>2 DEF Begin
    <3>2. t \in Actors /\ to \in PCs /\ to \notin Starters /\ pc[t] \notin Starters
      BY <1>2, <3>1 DEF Begin, Actors, PCs, Starters
    <3> QED  BY <1>t, <3>1, <3>2, GoKeepsStarters
  <2>3. Safe'  BY <1>2, <2>2, StillWatched DEF Safe, Begin
  <2> QED  BY <1>q, <2>1, <2>2, <2>3
<1>3. ASSUME NEW t \in Tasks, Stop(t) PROVE LifecycleInv'
  <2>1. known \in Launches /\ proc[known] \in Live /\ proc' = [proc EXCEPT ![known] = "stopping"]
    BY <1>3, <1>k DEF Stop, IsActive
  <2>2. Types'
    BY <1>3, <1>t, <2>1
    DEF Types, Stop, ServerTypes, ProcessTypes, WatchTypes, InboxTypes, Live
  <2>3. ActorTypes' /\ SameStarters
    <3>1. t \in Actors /\ "stopping" \in PCs \ Starters /\ known \in 0..MaxLaunches
          /\ act[t] \in Actions /\ GoWith(t, "stopping", act[t], known) /\ pc[t] \notin Starters
      BY <1>3, <1>t DEF Stop, Actors, PCs, Starters, ServerTypes, ActorTypes
    <3> QED  BY <1>t, <3>1, GoWithKeepsStarters
  <2>4. \A g \in Launches : proc'[g] \in Live => proc[g] \in Live
    BY <1>t, <2>1 DEF ProcessTypes
  <2>5. Safe'  BY <1>3, <2>3, <2>4, StillWatched DEF Safe, Stop
  <2> QED  BY <1>q, <2>2, <2>3, <2>5
<1>e. ASSUME NEW g \in Launches, NEW s \in Ended, EndAs(g, s)
      PROVE  /\ ProcessTypes' /\ InboxTypes'
             /\ \A h \in Launches : proc'[h] \in Live => proc[h] \in Live
  BY <1>e, <1>t DEF EndAs, ProcessTypes, InboxTypes, Live, Ended
<1>4. ASSUME NEW g \in Launches, Exits(g) PROVE LifecycleInv'
  <2>1. PICK s \in Ended : EndAs(g, s)
    BY <1>4 DEF Exits, Ended
  <2>2. Types'  BY <1>4, <1>t, <1>e, <2>1 DEF Types, Exits, ServerTypes, WatchTypes
  <2>3. ActorTypes' /\ SameStarters  BY <1>4, <1>t, NobodyMoves DEF Exits
  <2>4. Safe'  BY <1>4, <1>e, <2>1, <2>3, StillWatched DEF Safe, Exits
  <2> QED  BY <1>q, <2>2, <2>3, <2>4
<1>5. ASSUME NEW t \in Tasks, StopTimesOut(t) PROVE LifecycleInv'
  <2>1. mine[t] \in 0..MaxLaunches  BY <1>t DEF ActorTypes, Actors
  <2>2. /\ \A h \in Launches : proc'[h] \in Live => proc[h] \in Live
        /\ ProcessTypes' /\ InboxTypes'
    BY <1>5, <1>t, <2>1
    DEF StopTimesOut, Killed, EndAs, ProcessTypes, InboxTypes, Live, Ended
  <2>3. Types'  BY <1>5, <1>t, <2>2 DEF Types, StopTimesOut, ServerTypes, WatchTypes
  <2>4. ActorTypes' /\ SameStarters  BY <1>5, <1>t, NobodyMoves DEF StopTimesOut
  <2>5. Safe'  BY <1>5, <2>2, <2>4, StillWatched DEF Safe, StopTimesOut
  <2> QED  BY <1>q, <2>3, <2>4, <2>5
<1>6. ASSUME NEW t \in Tasks, StopReturns(t) \/ NotRunning(t) \/ RecordStopped(t) \/ DeleteRow(t)
      PROVE  LifecycleInv'
  <2>1. Types'
    BY <1>6, <1>t DEF Types, StopReturns, NotRunning, RecordStopped, DeleteRow, Record,
       ServerTypes, ProcessTypes, WatchTypes, InboxTypes
  <2>2. ActorTypes' /\ SameStarters
    <3>1. PICK to \in {"start", "record", "forget", "idle"} : Go(t, to)
      BY <1>6 DEF StopReturns, NotRunning, RecordStopped, DeleteRow, Step
    <3>2. t \in Actors /\ to \in PCs /\ to \notin Starters /\ pc[t] \notin Starters
      BY <1>6, <3>1
      DEF StopReturns, NotRunning, RecordStopped, DeleteRow, Step, Actors, PCs, Starters
    <3> QED  BY <1>t, <3>1, <3>2, GoKeepsStarters
  <2>3. Safe'
    BY <1>6, <2>2, StillWatched
    DEF Safe, StopReturns, NotRunning, RecordStopped, DeleteRow, Record
  <2> QED  BY <1>q, <2>1, <2>2, <2>3
<1>7. ASSUME NEW t \in Tasks, Kill(t) PROVE LifecycleInv'
  <2>1. known \in Launches  BY <1>7, <1>k DEF Kill, IsActive
  <2>2. PICK s \in Ended : EndAs(known, s)  BY <1>7 DEF Kill, Killed, Ended
  <2>3. Types'  BY <1>7, <1>t, <1>e, <2>1, <2>2 DEF Types, Kill, ServerTypes, WatchTypes
  <2>4. ActorTypes' /\ SameStarters
    <3>1. PICK to \in {"forget", "record"} : Go(t, to)  BY <1>7 DEF Kill
    <3>2. t \in Actors /\ to \in PCs /\ to \notin Starters /\ pc[t] \notin Starters
      BY <1>7, <3>1 DEF Kill, Actors, PCs, Starters
    <3> QED  BY <1>t, <3>1, <3>2, GoKeepsStarters
  <2>5. Safe'  BY <1>7, <1>e, <2>1, <2>2, <2>4, StillWatched DEF Safe, Kill
  <2> QED  BY <1>q, <2>3, <2>4, <2>5
<1>8. ASSUME NEW a \in Actors, Launch(a) PROVE LifecycleInv'
  <2>1. PICK g \in Launches :
          /\ Unused(g) /\ known' = g
          /\ proc' = [proc EXCEPT ![g] = "running"]
          /\ hubOpen' = [hubOpen EXCEPT ![g] = TRUE]
          /\ GoWith(a, "running", "start", g)
    BY <1>8 DEF Launch
  <2>2. g \in 1..MaxLaunches /\ g # 0  BY LifecycleAssumption DEF Launches
  <2>3. Types'
    <3>1. ServerTypes' /\ ProcessTypes'
      BY <1>8, <1>t, <2>1, <2>2, LifecycleAssumption
      DEF Launch, ServerTypes, ProcessTypes, Live
    <3>2. WatchTypes' /\ InboxTypes'  BY <1>8, <1>t DEF Launch, WatchTypes, InboxTypes
    <3> QED  BY <3>1, <3>2 DEF Types
  <2>4. /\ ActorTypes' /\ pc'[a] = "running" /\ mine'[a] = g
        /\ \A b \in Actors : b # a => pc'[b] = pc[b] /\ mine'[b] = mine[b]
    <3>1. "running" \in PCs /\ "start" \in Actions /\ g \in 0..MaxLaunches
      BY <2>2, LifecycleAssumption DEF PCs, Actions
    <3> QED  BY <1>t, <2>1, <3>1, GoWithMoves
  <2>5. HubsStayOpen'
    BY <1>t, <2>1 DEF LifecycleInv, HubsStayOpen, ServerTypes, ProcessTypes
  <2>6. StartersHold'  BY <2>1, <2>2, <2>4 DEF LifecycleInv, StartersHold
  <2>7. WatchedWhileLive'  BY <2>1, <2>4 DEF WatchedWhileLive
  <2>8. NoGhost'  BY <2>1, <2>2 DEF NoGhost
  <2> QED  BY <1>q, <2>3, <2>4, <2>5, <2>6, <2>7, <2>8 DEF Safe
<1>9. ASSUME NEW a \in Actors, LaunchFails(a) \/ RecordCrashed(a) \/ RecordRunning(a)
      PROVE  LifecycleInv'
  <2>1. Types'
    BY <1>9, <1>t DEF Types, LaunchFails, RecordCrashed, RecordRunning, Record,
       ServerTypes, ProcessTypes, WatchTypes, InboxTypes
  <2>2. ActorTypes' /\ SameStarters
    <3>1. PICK to \in {"failed", "idle", "watch"} :
            Go(a, to) /\ (pc[a] \in Starters <=> to \in Starters)
      BY <1>9 DEF LaunchFails, RecordCrashed, RecordRunning, Step, Starters
    <3>2. to \in PCs  BY <3>1 DEF PCs
    <3> QED  BY <1>t, <3>1, <3>2, GoKeepsStarters
  <2>3. row' = "running" => row = "running" \/ known # 0
    BY <1>9 DEF LifecycleInv, StartersHold, Starters, LaunchFails, RecordCrashed,
       RecordRunning, Record, Step
  <2>4. Safe'
    BY <1>9, <2>2, <2>3, StillWatched DEF Safe, LaunchFails, RecordCrashed, RecordRunning
  <2> QED  BY <1>q, <2>1, <2>2, <2>4
<1>10. ASSUME NEW a \in Actors, WatchServer(a) PROVE LifecycleInv'
  <2>1. pc[a] = "watch" /\ Go(a, "idle") /\ mine[a] \in Launches /\ known # 0
    BY <1>10 DEF WatchServer, Step, LifecycleInv, StartersHold, Starters
  <2>2. /\ ActorTypes' /\ pc'[a] = "idle"
        /\ \A b \in Actors : b # a => pc'[b] = pc[b] /\ mine'[b] = mine[b]
    <3>1. GoWith(a, "idle", "start", 0) /\ "idle" \in PCs /\ "start" \in Actions
          /\ 0 \in 0..MaxLaunches
      BY <2>1, LifecycleAssumption DEF Go, PCs, Actions
    <3> QED  BY <1>t, <3>1, GoWithMoves
  <2>3. \/ ~hubOpen[known] /\ watched' = watched
        \/ watched' = [watched EXCEPT ![mine[a]] = known]
    BY <1>10 DEF WatchServer
  <2>4. Types'
    BY <1>10, <1>t, <2>1, <2>3
    DEF Types, WatchServer, ServerTypes, ProcessTypes, WatchTypes, InboxTypes
  <2>5. HubsStayOpen'  BY <1>10 DEF WatchServer, LifecycleInv, HubsStayOpen
  <2>6. StartersHold'  BY <1>10, <2>2 DEF WatchServer, LifecycleInv, StartersHold, Starters
  <2>7. WatchedWhileLive'
    <3> SUFFICES ASSUME IsActive PROVE \E w \in Launches : watched'[w] = known
      BY <1>10 DEF WatchServer, WatchedWhileLive, IsActive
    <3>1. hubOpen[known]  BY <1>k DEF IsActive, LifecycleInv, HubsStayOpen
    <3> QED  BY <1>t, <2>1, <2>3, <3>1 DEF WatchTypes
  <2>8. NoGhost'  BY <1>10, <2>1 DEF WatchServer, NoGhost
  <2> QED  BY <1>q, <2>2, <2>4, <2>5, <2>6, <2>7, <2>8 DEF Safe
<1>11. ASSUME NEW r \in Restarters, Wakes(r) PROVE LifecycleInv'
  <2>1. Types'
    BY <1>11, <1>t DEF Types, Wakes, ServerTypes, ProcessTypes, WatchTypes, InboxTypes
  <2>2. ActorTypes' /\ SameStarters
    <3>1. r \in Actors /\ "start" \in PCs /\ Go(r, "start") /\ pc[r] \notin Starters
          /\ "start" \notin Starters
      BY <1>11 DEF Wakes, Step, Actors, PCs, Starters
    <3> QED  BY <1>t, <3>1, GoKeepsStarters
  <2>3. Safe'  BY <1>11, <2>2, StillWatched DEF Safe, Wakes
  <2> QED  BY <1>q, <2>1, <2>2, <2>3
<1>12. ASSUME NEW w \in Launches, WatcherSeesEnd(w) PROVE LifecycleInv'
  <2>1. Types'
    BY <1>12, <1>t
    DEF Types, WatcherSeesEnd, ServerTypes, ProcessTypes, WatchTypes, InboxTypes
  <2>2. ActorTypes' /\ SameStarters
    <3>1. CASE UNCHANGED actorVars  BY <1>t, <3>1, NobodyMoves
    <3>2. CASE \E r \in Restarters : pc[r] = "idle" /\ GoWith(r, "sleep", "start", watched[w])
      <4>1. PICK r \in Restarters : pc[r] = "idle" /\ GoWith(r, "sleep", "start", watched[w])
        BY <3>2
      <4>2. r \in Actors /\ "sleep" \in PCs \ Starters /\ "start" \in Actions
            /\ watched[w] \in 0..MaxLaunches /\ pc[r] \notin Starters
        BY <1>t, <4>1 DEF Actors, PCs, Starters, Actions, WatchTypes
      <4> QED  BY <1>t, <4>1, <4>2, GoWithKeepsStarters
    <3> QED  BY <1>12, <3>1, <3>2 DEF WatcherSeesEnd
  <2>3. Safe'  BY <1>12, <2>2, StillWatched DEF Safe, WatcherSeesEnd
  <2> QED  BY <1>q, <2>1, <2>2, <2>3
<1>13. ASSUME NEW w \in Launches, WatcherEnds(w) PROVE LifecycleInv'
  <2>1. Types'
    BY <1>13, <1>t, LifecycleAssumption
    DEF Types, WatcherEnds, WatcherLeaves, ServerTypes, ProcessTypes, WatchTypes, InboxTypes
  <2>2. ActorTypes' /\ SameStarters  BY <1>13, <1>t, NobodyMoves DEF WatcherEnds
  <2>3. \A v \in Launches : watched'[v] = watched[v] \/ ~hubOpen[watched[v]]
    BY <1>13, <1>t DEF WatcherEnds, WatcherLeaves, WatchTypes
  <2>4. Safe'  BY <1>13, <2>2, <2>3, StillWatched DEF Safe, WatcherEnds
  <2> QED  BY <1>q, <2>1, <2>2, <2>4
<1>14. ASSUME NEW g \in Launches, HubCloses(g) PROVE LifecycleInv'
  <2>1. Types'
    BY <1>14, <1>t DEF Types, HubCloses, ServerTypes, ProcessTypes, WatchTypes, InboxTypes
  <2>2. ActorTypes' /\ SameStarters  BY <1>14, <1>t, NobodyMoves DEF HubCloses
  <2>3. \A h \in Launches : proc'[h] \in Live => proc[h] \in Live /\ hubOpen'[h] = hubOpen[h]
    BY <1>14, <1>t DEF HubCloses, ServerTypes, Live, Ended
  <2>4. Safe'  BY <1>14, <2>2, <2>3, StillWatched DEF Safe, HubCloses
  <2> QED  BY <1>q, <2>1, <2>2, <2>4
<1>15. CASE WindowPasses
  <2>1. Types'
    BY <1>15, <1>t DEF Types, WindowPasses, ServerTypes, ProcessTypes, WatchTypes, InboxTypes
  <2>2. ActorTypes' /\ SameStarters  BY <1>15, <1>t, NobodyMoves DEF WindowPasses
  <2>3. Safe'  BY <1>15, <2>2, StillWatched DEF Safe, WindowPasses
  <2> QED  BY <1>q, <2>1, <2>2, <2>3
<1>16. CASE DaemonDies
  <2>1. Types'
    BY <1>16, <1>t, LifecycleAssumption
    DEF Types, DaemonDies, ServerTypes, ProcessTypes, WatchTypes, InboxTypes
  <2>2. ActorTypes'
    BY <1>16, LifecycleAssumption DEF DaemonDies, ActorTypes, PCs, Actions
  <2>3. HubsStayOpen' /\ StartersHold' /\ NoGhost'
    BY <1>16 DEF DaemonDies, HubsStayOpen, StartersHold, NoGhost, Starters, Live
  <2>4. WatchedWhileLive'  BY <1>16 DEF DaemonDies, WatchedWhileLive, IsActive
  <2> QED  BY <1>q, <2>1, <2>2, <2>3, <2>4 DEF Safe
<1>17. CASE ReconcileServers
  <2>1. Types'
    BY <1>17, <1>t
    DEF Types, ReconcileServers, ServerTypes, ProcessTypes, WatchTypes, InboxTypes
  <2>2. ActorTypes' /\ SameStarters
    <3>1. Boot \in Actors /\ "boot" \in PCs /\ Go(Boot, "boot") /\ pc[Boot] \notin Starters
          /\ "boot" \notin Starters
      BY <1>17 DEF ReconcileServers, Step, Actors, PCs, Starters
    <3> QED  BY <1>t, <3>1, GoKeepsStarters
  <2>3. HubsStayOpen' /\ StartersHold'
    BY <1>17, <2>2
    DEF ReconcileServers, LifecycleInv, HubsStayOpen, StartersHold, SameStarters
  <2>4. NoGhost'  BY <1>17 DEF ReconcileServers, NoGhost
  <2>5. WatchedWhileLive'
    BY <1>17, <2>2
    DEF ReconcileServers, LifecycleInv, WatchedWhileLive, IsActive, SameStarters, Starters
  <2> QED  BY <1>q, <2>1, <2>2, <2>3, <2>4, <2>5 DEF Safe
<1>18. CASE StartAutoStartServers
  <2>1. Types'
    BY <1>18, <1>t
    DEF Types, StartAutoStartServers, ServerTypes, ProcessTypes, WatchTypes, InboxTypes
  <2>2. ActorTypes' /\ SameStarters
    <3>1. PICK to \in {"start", "idle"} : Go(Boot, to)
      BY <1>18 DEF StartAutoStartServers, Step
    <3>2. Boot \in Actors /\ to \in PCs /\ to \notin Starters /\ pc[Boot] \notin Starters
      BY <1>18, <3>1 DEF StartAutoStartServers, Step, Actors, PCs, Starters
    <3> QED  BY <1>t, <3>1, <3>2, GoKeepsStarters
  <2>3. Safe'  BY <1>18, <2>2, StillWatched DEF Safe, StartAutoStartServers
  <2> QED  BY <1>q, <2>1, <2>2, <2>3
<1>19. CASE UNCHANGED vars
  <2>1. Types'
    BY <1>19, <1>t DEF Types, vars, ServerTypes, ProcessTypes, WatchTypes, InboxTypes
  <2>2. ActorTypes' /\ SameStarters  BY <1>19, <1>t, NobodyMoves DEF vars
  <2>3. Safe'  BY <1>19, <2>2, StillWatched DEF Safe, vars
  <2> QED  BY <1>q, <2>1, <2>2, <2>3
<1> QED
  BY <1>1, <1>2, <1>3, <1>4, <1>5, <1>6, <1>7, <1>8, <1>9, <1>10, <1>11, <1>12, <1>13,
     <1>14, <1>15, <1>16, <1>17, <1>18, <1>19
  DEF Next, Task, StartServer, Watcher

-----------------------------------------------------------------------------
\* In every state, whatever requests, endings and deaths of the daemon come together.
THEOREM LifecycleInvariance == Spec => []LifecycleInv
<1>1. Init => LifecycleInv  BY InitialLifecycle
<1>2. LifecycleInv /\ [Next]_vars => LifecycleInv'  BY InductiveLifecycle
<1> QED  BY <1>1, <1>2, PTL DEF Spec

\* The variables keep their types.
THEOREM LifecycleTypes == Spec => []TypeOK
<1>1. LifecycleInv => TypeOK  BY DEF LifecycleInv
<1> QED  BY <1>1, LifecycleInvariance, PTL

\* autoRestarter.allow: no window between two decisions holds more restarts than
\* autoRestartAttempts, however many goroutines restart and however often they crash.
THEOREM BudgetHolds == Spec => []CrashBudget
<1>1. LifecycleInv => CrashBudget
  BY LifecycleAssumption DEF LifecycleInv, TypeOK, CrashBudget
<1> QED  BY <1>1, LifecycleInvariance, PTL

\* startServer and WatchServer: a process that runs under a finished start has a watcher,
\* however starts, stops and endings overlap.
THEOREM LiveIsWatched == Spec => []WatchedWhileLive
<1>1. LifecycleInv => WatchedWhileLive  BY DEF LifecycleInv
<1> QED  BY <1>1, LifecycleInvariance, PTL

\* ReconcileServers: once the daemon is up, a row that says running has a process behind
\* it or one that was known to the runner.
THEOREM NoGhostRows == Spec => []NoGhost
<1>1. LifecycleInv => NoGhost  BY DEF LifecycleInv
<1> QED  BY <1>1, LifecycleInvariance, PTL
=============================================================================
