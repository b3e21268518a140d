------------------------- MODULE ProcessRunnerProofs -------------------------
(***************************************************************************)
(* Theorems about ProcessRunner, for any number of servers, launches and   *)
(* concurrent callers.                                                     *)
(*                                                                         *)
(* LiveIsActive is not inductive: that a live child has an active status   *)
(* rests on reap having settled the status only after the child is gone,   *)
(* on there being one Start call and at most one reap per struct, and on   *)
(* no call ever holding a struct that was not registered.  IInv says that. *)
(***************************************************************************)
EXTENDS ProcessRunner, TLAPS

Starting == {"build", "launch", "abortHub", "abortExit", "announce", "supervise"}
Settled == {"settled", "released", "done"}

\* The locals of a call: a struct and a server id from its first step to its last.
Locals ==
    \A g \in Goroutines :
        pc[g] # "idle" => srv[g] \in Servers /\ tgt[g] \in Procs

\* A struct belongs to one Start call, and only callers call Start.
OneStarter ==
    \A g \in Goroutines : pc[g] \in Starting =>
        /\ g \in Callers
        /\ \A h \in Goroutines : pc[h] \in Starting /\ tgt[g] = tgt[h] => g = h

\* What each stage of a call knows of its struct.
Stages ==
    \A g \in Goroutines :
        LET p == tgt[g] IN
          /\ pc[g] = "build" => status[p] = "none"
          /\ pc[g] \notin {"idle", "build"} => status[p] # "none"
          /\ pc[g] = "launch" => os[p] = "none"
          /\ pc[g] \in {"abortHub", "abortExit"} => os[p] = "failed"
          /\ pc[g] \in {"announce", "supervise"} =>
               os[p] \in Living \cup Over /\ rpc[p] = "none"
          /\ pc[g] \in {"stopping", "word", "wait"} => stopping[p]

\* What the map and a struct nobody has created hold.
Registry ==
    /\ \A s \in Servers : procs[s] # NoProc => status[procs[s]] # "none"
    /\ \A p \in Procs : status[p] = "none" => os[p] = "none"

\* reap runs for a launched child and goes past its wait only when the child is gone.
Reaping ==
    \A p \in Procs :
        /\ rpc[p] # "none" => os[p] \in Living \cup Over
        /\ rpc[p] \notin {"none", "waiting"} => os[p] \in Over /\ final[p] \in Final

\* An ending is assigned by reap or by the Start that could not launch.
Endings ==
    \A p \in Procs : status[p] \in Final => os[p] = "failed" \/ rpc[p] \in Settled

\* What StartCheck saw is over, and stays over.
SeenIsOver ==
    \A g \in Goroutines :
        pc[g] = "build" /\ seen[g] # NoProc => os[seen[g]] \in {"failed"} \cup Over

\* The stop word follows the mark; reap's verdict follows both.
Verdict ==
    \A p \in Procs :
        /\ word[p] => stopping[p]
        /\ rpc[p] \notin {"none", "waiting"} /\ final[p] = "crashed" => ~word[p]
        /\ os[p] # "failed" /\ (status[p] = "crashed" \/ "crashed" \in reported[p]) =>
             rpc[p] \in Settled /\ final[p] = "crashed"

\* What is still to be published is what was assigned.
Unpublished ==
    \A a \in Actors :
        pub[a] # None =>
          \/ a \in Goroutines /\ pc[a] = "abortHub"
          \/ a \in Procs /\ rpc[a] = "settled" /\ pub[a] = final[a]

IInv ==
    /\ TypeOK
    /\ Locals /\ OneStarter /\ Stages /\ Registry
    /\ Reaping /\ Endings /\ SeenIsOver /\ Verdict /\ Unpublished

-----------------------------------------------------------------------------
\* IInv holds before anyone has called the runner.
LEMMA Initially == Init => IInv
BY RunnerAssumption
   DEF Init, IInv, TypeOK, Locals, OneStarter, Stages, Registry, Reaping, Endings, SeenIsOver,
       Verdict, Unpublished, Goroutines, Actors, Active, Final, Living, Over, OSStates, RPCs,
       PCs, Starting, Settled

\* Every step of every call, of reap, of Shutdown and of the child keeps IInv.
LEMMA Inductive == IInv /\ [Next]_vars => IInv'
<1> SUFFICES ASSUME IInv, [Next]_vars PROVE IInv'
  OBVIOUS
<1> USE RunnerAssumption DEF IInv, Goroutines, Actors, Active, Final, Living, Over, Starting,
       Settled, childVars, procVars, busVars, reapVars, callVars, downVars
<1>1. ASSUME NEW c \in Callers, NEW s \in Servers, StartCheck(c, s)
      PROVE  IInv'
  <2>1. TypeOK'  BY <1>1 DEF TypeOK, OSStates, RPCs, PCs, StartCheck, Fresh
  <2>2. Locals'  BY <1>1 DEF Locals, TypeOK, StartCheck, Fresh
  <2>3. OneStarter'  BY <1>1 DEF OneStarter, TypeOK, Locals, Stages, StartCheck, Fresh
  <2>4. Stages'  BY <1>1 DEF Stages, TypeOK, StartCheck, Fresh
  <2>5. SeenIsOver'
      BY <1>1 DEF SeenIsOver, TypeOK, Locals, Registry, Endings, Reaping, StartCheck, Fresh
  <2>6. Unpublished'  BY <1>1 DEF Unpublished, StartCheck, Fresh
  <2>7. (Registry /\ Reaping /\ Endings /\ Verdict)'
      BY <1>1 DEF Registry, Reaping, Endings, Verdict, StartCheck, Fresh
  <2> QED  BY <2>1, <2>2, <2>3, <2>4, <2>5, <2>6, <2>7
<1>2. ASSUME NEW c \in Callers, NEW s \in Servers, StopCall(c, s)
      PROVE  IInv'
  <2>1. TypeOK'  BY <1>2 DEF TypeOK, OSStates, RPCs, PCs, StopCall, Goto, Lookup
  <2>2. Locals'  BY <1>2 DEF Locals, TypeOK, StopCall, Goto, Lookup
  <2>3. OneStarter'  BY <1>2 DEF OneStarter, StopCall, Goto, Lookup
  <2>4. Stages'
      BY <1>2 DEF Stages, TypeOK, Locals, Registry, Endings, Reaping, StopCall, Goto, Lookup
  <2>5. SeenIsOver'  BY <1>2 DEF SeenIsOver, StopCall, Goto, Lookup
  <2>6. Unpublished'  BY <1>2 DEF Unpublished, StopCall, Goto, Lookup
  <2>7. (Registry /\ Reaping /\ Endings /\ Verdict)'
      BY <1>2 DEF Registry, Reaping, Endings, Verdict, StopCall, Goto, Lookup
  <2> QED  BY <2>1, <2>2, <2>3, <2>4, <2>5, <2>6, <2>7
<1>3. ASSUME NEW c \in Callers, NEW s \in Servers, KillCall(c, s)
      PROVE  IInv'
  <2>1. TypeOK'  BY <1>3 DEF TypeOK, OSStates, RPCs, PCs, KillCall, Goto, Lookup
  <2>2. Locals'  BY <1>3 DEF Locals, TypeOK, KillCall, Goto, Lookup
  <2>3. OneStarter'  BY <1>3 DEF OneStarter, KillCall, Goto, Lookup
  <2>4. Stages'
      BY <1>3 DEF Stages, TypeOK, Locals, Registry, Endings, Reaping, KillCall, Goto, Lookup
  <2>5. SeenIsOver'  BY <1>3 DEF SeenIsOver, KillCall, Goto, Lookup
  <2>6. Unpublished'  BY <1>3 DEF Unpublished, KillCall, Goto, Lookup
  <2>7. (Registry /\ Reaping /\ Endings /\ Verdict)'
      BY <1>3 DEF Registry, Reaping, Endings, Verdict, KillCall, Goto, Lookup
  <2> QED  BY <2>1, <2>2, <2>3, <2>4, <2>5, <2>6, <2>7
<1>4. ASSUME NEW c \in Callers, StartRegister(c)
      PROVE  IInv'
  <2>1. TypeOK'  BY <1>4 DEF TypeOK, OSStates, RPCs, PCs, StartRegister, Goto
  <2>2. Locals'  BY <1>4 DEF Locals, StartRegister, Goto
  <2>3. OneStarter'  BY <1>4 DEF OneStarter, StartRegister, Goto
  <2>4. Stages'
      BY <1>4 DEF Stages, TypeOK, Locals, OneStarter, Registry, Reaping, Endings,
         StartRegister, Goto
  <2>5. Registry'  BY <1>4 DEF Registry, TypeOK, StartRegister, Goto
  <2>6. Endings'  BY <1>4 DEF Endings, StartRegister, Goto
  <2>7. SeenIsOver'  BY <1>4 DEF SeenIsOver, StartRegister, Goto
  <2>8. Verdict'  BY <1>4 DEF Verdict, StartRegister, Goto
  <2>9. Unpublished'  BY <1>4 DEF Unpublished, StartRegister, Goto
  <2>10. Reaping'  BY <1>4 DEF Reaping, StartRegister, Goto
  <2> QED  BY <2>1, <2>2, <2>3, <2>4, <2>5, <2>6, <2>7, <2>8, <2>9, <2>10
<1>5. ASSUME NEW c \in Callers, StartBuildFails(c)
      PROVE  IInv'
  <2>1. TypeOK'  BY <1>5 DEF TypeOK, OSStates, RPCs, PCs, StartBuildFails, Return
  <2>2. Locals'  BY <1>5 DEF Locals, TypeOK, StartBuildFails, Return
  <2>3. OneStarter'  BY <1>5 DEF OneStarter, Locals, StartBuildFails, Return
  <2>4. Stages'  BY <1>5 DEF Stages, TypeOK, StartBuildFails, Return
  <2>5. SeenIsOver'  BY <1>5 DEF SeenIsOver, StartBuildFails, Return
  <2>6. Unpublished'  BY <1>5 DEF Unpublished, StartBuildFails, Return
  <2>7. (Registry /\ Reaping /\ Endings /\ Verdict)'
      BY <1>5 DEF Registry, Reaping, Endings, Verdict, StartBuildFails, Return
  <2> QED  BY <2>1, <2>2, <2>3, <2>4, <2>5, <2>6, <2>7
<1>6. ASSUME NEW c \in Callers, StartLaunch(c)
      PROVE  IInv'
  <2>1. TypeOK'  BY <1>6 DEF TypeOK, OSStates, RPCs, PCs, StartLaunch, Goto
  <2>2. Locals'  BY <1>6 DEF Locals, StartLaunch, Goto
  <2>3. OneStarter'  BY <1>6 DEF OneStarter, StartLaunch, Goto
  <2>4. Stages'
      BY <1>6 DEF Stages, TypeOK, Locals, OneStarter, Registry, Reaping, Endings,
         StartLaunch, Goto
  <2>5. Registry'
      BY <1>6 DEF Registry, TypeOK, Locals, OneStarter, Stages, StartLaunch, Goto
  <2>6. Reaping'  BY <1>6 DEF Reaping, TypeOK, Locals, OneStarter, Stages, StartLaunch, Goto
  <2>7. Endings'  BY <1>6 DEF Endings, TypeOK, Locals, OneStarter, Stages, StartLaunch, Goto
  <2>8. SeenIsOver'
      BY <1>6 DEF SeenIsOver, TypeOK, Locals, OneStarter, Stages, StartLaunch, Goto
  <2>9. Verdict'  BY <1>6 DEF Verdict, TypeOK, Locals, OneStarter, Stages, StartLaunch, Goto
  <2>10. Unpublished'  BY <1>6 DEF Unpublished, StartLaunch, Goto
  <2> QED  BY <2>1, <2>2, <2>3, <2>4, <2>5, <2>6, <2>7, <2>8, <2>9, <2>10
<1>7. ASSUME NEW c \in Callers, StartLaunchFails(c)
      PROVE  IInv'
  <2>1. TypeOK'  BY <1>7 DEF TypeOK, OSStates, RPCs, PCs, StartLaunchFails, SetStatus
  <2>2. Locals'  BY <1>7 DEF Locals, StartLaunchFails, SetStatus
  <2>3. OneStarter'  BY <1>7 DEF OneStarter, StartLaunchFails, SetStatus
  <2>4. Stages'  BY <1>7 DEF Stages, TypeOK, Locals, OneStarter, StartLaunchFails, SetStatus
  <2>5. Registry'  BY <1>7 DEF Registry, TypeOK, StartLaunchFails, SetStatus
  <2>6. Reaping'
      BY <1>7 DEF Reaping, TypeOK, Locals, OneStarter, Stages, StartLaunchFails, SetStatus
  <2>7. Endings'  BY <1>7 DEF Endings, TypeOK, StartLaunchFails, SetStatus
  <2>8. SeenIsOver'  BY <1>7 DEF SeenIsOver, StartLaunchFails, SetStatus
  <2>9. Verdict'  BY <1>7 DEF Verdict, TypeOK, StartLaunchFails, SetStatus
  <2>10. Unpublished'  BY <1>7 DEF Unpublished, TypeOK, StartLaunchFails, SetStatus
  <2> QED  BY <2>1, <2>2, <2>3, <2>4, <2>5, <2>6, <2>7, <2>8, <2>9, <2>10
<1>8. ASSUME NEW c \in Callers, StartAbortHub(c)
      PROVE  IInv'
  <2>1. TypeOK'  BY <1>8 DEF TypeOK, OSStates, RPCs, PCs, StartAbortHub, Goto
  <2>2. Locals'  BY <1>8 DEF Locals, StartAbortHub, Goto
  <2>3. OneStarter'  BY <1>8 DEF OneStarter, StartAbortHub, Goto
  <2>4. Stages'  BY <1>8 DEF Stages, StartAbortHub, Goto
  <2>5. SeenIsOver'  BY <1>8 DEF SeenIsOver, StartAbortHub, Goto
  <2>6. Unpublished'  BY <1>8 DEF Unpublished, StartAbortHub, Goto
  <2>7. (Registry /\ Reaping /\ Endings /\ Verdict)'
      BY <1>8 DEF Registry, Reaping, Endings, Verdict, StartAbortHub, Goto
  <2> QED  BY <2>1, <2>2, <2>3, <2>4, <2>5, <2>6, <2>7
<1>9. ASSUME NEW c \in Callers, StartAbortExit(c)
      PROVE  IInv'
  <2>1. TypeOK'  BY <1>9 DEF TypeOK, OSStates, RPCs, PCs, StartAbortExit, Return
  <2>2. Locals'  BY <1>9 DEF Locals, TypeOK, StartAbortExit, Return
  <2>3. OneStarter'  BY <1>9 DEF OneStarter, Locals, StartAbortExit, Return
  <2>4. Stages'  BY <1>9 DEF Stages, TypeOK, StartAbortExit, Return
  <2>5. SeenIsOver'  BY <1>9 DEF SeenIsOver, StartAbortExit, Return
  <2>6. Unpublished'  BY <1>9 DEF Unpublished, StartAbortExit, Return
  <2>7. (Registry /\ Reaping /\ Endings /\ Verdict)'
      BY <1>9 DEF Registry, Reaping, Endings, Verdict, StartAbortExit, Return
  <2> QED  BY <2>1, <2>2, <2>3, <2>4, <2>5, <2>6, <2>7
<1>10. ASSUME NEW c \in Callers, StartAnnounce(c)
      PROVE  IInv'
  <2>1. TypeOK'  BY <1>10 DEF TypeOK, OSStates, RPCs, PCs, StartAnnounce, SetStatus
  <2>2. Locals'  BY <1>10 DEF Locals, StartAnnounce, SetStatus
  <2>3. OneStarter'  BY <1>10 DEF OneStarter, StartAnnounce, SetStatus
  <2>4. Stages'  BY <1>10 DEF Stages, StartAnnounce, SetStatus
  <2>5. Registry'  BY <1>10 DEF Registry, StartAnnounce, SetStatus
  <2>6. Endings'  BY <1>10 DEF Endings, StartAnnounce, SetStatus
  <2>7. SeenIsOver'  BY <1>10 DEF SeenIsOver, StartAnnounce, SetStatus
  <2>8. Verdict'  BY <1>10 DEF Verdict, StartAnnounce, SetStatus
  <2>9. Unpublished'  BY <1>10 DEF Unpublished, StartAnnounce, SetStatus
  <2>10. Reaping'  BY <1>10 DEF Reaping, StartAnnounce, SetStatus
  <2> QED  BY <2>1, <2>2, <2>3, <2>4, <2>5, <2>6, <2>7, <2>8, <2>9, <2>10
<1>11. ASSUME NEW c \in Callers, StartSupervise(c)
      PROVE  IInv'
  <2>1. TypeOK'  BY <1>11 DEF TypeOK, OSStates, RPCs, PCs, StartSupervise, Return
  <2>2. Locals'  BY <1>11 DEF Locals, TypeOK, StartSupervise, Return
  <2>3. OneStarter'  BY <1>11 DEF OneStarter, Locals, StartSupervise, Return
  <2>4. Stages'  BY <1>11 DEF Stages, TypeOK, Locals, OneStarter, StartSupervise, Return
  <2>5. Reaping'
      BY <1>11 DEF Reaping, TypeOK, Locals, OneStarter, Stages, StartSupervise, Return
  <2>6. Endings'
      BY <1>11 DEF Endings, TypeOK, Locals, OneStarter, Stages, StartSupervise, Return
  <2>7. SeenIsOver'  BY <1>11 DEF SeenIsOver, StartSupervise, Return
  <2>8. Verdict'
      BY <1>11 DEF Verdict, TypeOK, Locals, OneStarter, Stages, StartSupervise, Return
  <2>9. Unpublished'
      BY <1>11 DEF Unpublished, TypeOK, Locals, OneStarter, Stages, StartSupervise, Return
  <2>10. Registry'  BY <1>11 DEF Registry, StartSupervise, Return
  <2> QED  BY <2>1, <2>2, <2>3, <2>4, <2>5, <2>6, <2>7, <2>8, <2>9, <2>10
<1>12. ASSUME NEW g \in Goroutines, StopCheck(g)
      PROVE  IInv'
  <2>1. TypeOK'  BY <1>12 DEF TypeOK, OSStates, RPCs, PCs, StopCheck, Goto
  <2>2. Locals'  BY <1>12 DEF Locals, StopCheck, Goto
  <2>3. OneStarter'  BY <1>12 DEF OneStarter, StopCheck, Goto
  <2>4. Stages'  BY <1>12 DEF Stages, StopCheck, Goto
  <2>5. SeenIsOver'  BY <1>12 DEF SeenIsOver, StopCheck, Goto
  <2>6. Unpublished'  BY <1>12 DEF Unpublished, StopCheck, Goto
  <2>7. (Registry /\ Reaping /\ Endings /\ Verdict)'
      BY <1>12 DEF Registry, Reaping, Endings, Verdict, StopCheck, Goto
  <2> QED  BY <2>1, <2>2, <2>3, <2>4, <2>5, <2>6, <2>7
<1>13. ASSUME NEW g \in Goroutines, StopRefused(g)
      PROVE  IInv'
  <2>1. TypeOK'  BY <1>13 DEF TypeOK, OSStates, RPCs, PCs, StopRefused, Return
  <2>2. Locals'  BY <1>13 DEF Locals, TypeOK, StopRefused, Return
  <2>3. OneStarter'  BY <1>13 DEF OneStarter, StopRefused, Return
  <2>4. Stages'  BY <1>13 DEF Stages, TypeOK, StopRefused, Return
  <2>5. SeenIsOver'  BY <1>13 DEF SeenIsOver, StopRefused, Return
  <2>6. Unpublished'  BY <1>13 DEF Unpublished, StopRefused, Return
  <2>7. (Registry /\ Reaping /\ Endings /\ Verdict)'
      BY <1>13 DEF Registry, Reaping, Endings, Verdict, StopRefused, Return
  <2> QED  BY <2>1, <2>2, <2>3, <2>4, <2>5, <2>6, <2>7
<1>14. ASSUME NEW g \in Goroutines, StopMark(g)
      PROVE  IInv'
  <2>1. TypeOK'  BY <1>14 DEF TypeOK, OSStates, RPCs, PCs, StopMark, Goto
  <2>2. Locals'  BY <1>14 DEF Locals, StopMark, Goto
  <2>3. OneStarter'  BY <1>14 DEF OneStarter, StopMark, Goto
  <2>4. Stages'  BY <1>14 DEF Stages, TypeOK, Locals, StopMark, Goto
  <2>5. SeenIsOver'  BY <1>14 DEF SeenIsOver, StopMark, Goto
  <2>6. Verdict'  BY <1>14 DEF Verdict, StopMark, Goto
  <2>7. Unpublished'  BY <1>14 DEF Unpublished, StopMark, Goto
  <2>8. (Registry /\ Reaping /\ Endings)'
      BY <1>14 DEF Registry, Reaping, Endings, StopMark, Goto
  <2> QED  BY <2>1, <2>2, <2>3, <2>4, <2>5, <2>6, <2>7, <2>8
<1>15. ASSUME NEW g \in Goroutines, StopAnnounce(g)
      PROVE  IInv'
  <2>1. TypeOK'  BY <1>15 DEF TypeOK, OSStates, RPCs, PCs, StopAnnounce, SetStatus
  <2>2. Locals'  BY <1>15 DEF Locals, StopAnnounce, SetStatus
  <2>3. OneStarter'  BY <1>15 DEF OneStarter, StopAnnounce, SetStatus
  <2>4. Stages'  BY <1>15 DEF Stages, StopAnnounce, SetStatus
  <2>5. Registry'  BY <1>15 DEF Registry, StopAnnounce, SetStatus
  <2>6. Endings'  BY <1>15 DEF Endings, StopAnnounce, SetStatus
  <2>7. SeenIsOver'  BY <1>15 DEF SeenIsOver, StopAnnounce, SetStatus
  <2>8. Verdict'  BY <1>15 DEF Verdict, StopAnnounce, SetStatus
  <2>9. Unpublished'  BY <1>15 DEF Unpublished, StopAnnounce, SetStatus
  <2>10. Reaping'  BY <1>15 DEF Reaping, StopAnnounce, SetStatus
  <2> QED  BY <2>1, <2>2, <2>3, <2>4, <2>5, <2>6, <2>7, <2>8, <2>9, <2>10
<1>16. ASSUME NEW g \in Goroutines, StopWrite(g)
      PROVE  IInv'
  <2>1. TypeOK'  BY <1>16 DEF TypeOK, OSStates, RPCs, PCs, StopWrite, Goto
  <2>2. Locals'  BY <1>16 DEF Locals, StopWrite, Goto
  <2>3. OneStarter'  BY <1>16 DEF OneStarter, StopWrite, Goto
  <2>4. Stages'  BY <1>16 DEF Stages, StopWrite, Goto
  <2>5. SeenIsOver'  BY <1>16 DEF SeenIsOver, StopWrite, Goto
  <2>6. Verdict'  BY <1>16 DEF Verdict, TypeOK, Locals, Stages, Reaping, StopWrite, Goto
  <2>7. Unpublished'  BY <1>16 DEF Unpublished, StopWrite, Goto
  <2>8. (Registry /\ Reaping /\ Endings)'
      BY <1>16 DEF Registry, Reaping, Endings, StopWrite, Goto
  <2> QED  BY <2>1, <2>2, <2>3, <2>4, <2>5, <2>6, <2>7, <2>8
<1>17. ASSUME NEW g \in Goroutines, StopWriteFails(g)
      PROVE  IInv'
  <2>1. TypeOK'
      BY <1>17 DEF TypeOK, Locals, OSStates, RPCs, PCs, StopWriteFails, FallBackOnKill,
         Goto, Lookup
  <2>2. Locals'  BY <1>17 DEF Locals, TypeOK, StopWriteFails, FallBackOnKill, Goto, Lookup
  <2>3. OneStarter'  BY <1>17 DEF OneStarter, StopWriteFails, FallBackOnKill, Goto, Lookup
  <2>4. Stages'
      BY <1>17 DEF Stages, TypeOK, Locals, Registry, Endings, Reaping, StopWriteFails,
         FallBackOnKill, Goto, Lookup
  <2>5. SeenIsOver'  BY <1>17 DEF SeenIsOver, StopWriteFails, FallBackOnKill, Goto, Lookup
  <2>6. Unpublished'  BY <1>17 DEF Unpublished, StopWriteFails, FallBackOnKill, Goto, Lookup
  <2>7. (Registry /\ Reaping /\ Endings /\ Verdict)'
      BY <1>17 DEF Registry, Reaping, Endings, Verdict, StopWriteFails, FallBackOnKill,
         Goto, Lookup
  <2> QED  BY <2>1, <2>2, <2>3, <2>4, <2>5, <2>6, <2>7
<1>18. ASSUME NEW g \in Goroutines, StopTimesOut(g)
      PROVE  IInv'
  <2>1. TypeOK'
      BY <1>18 DEF TypeOK, Locals, OSStates, RPCs, PCs, StopTimesOut, FallBackOnKill, Goto,
         Lookup
  <2>2. Locals'  BY <1>18 DEF Locals, TypeOK, StopTimesOut, FallBackOnKill, Goto, Lookup
  <2>3. OneStarter'  BY <1>18 DEF OneStarter, StopTimesOut, FallBackOnKill, Goto, Lookup
  <2>4. Stages'
      BY <1>18 DEF Stages, TypeOK, Locals, Registry, Endings, Reaping, StopTimesOut,
         FallBackOnKill, Goto, Lookup
  <2>5. SeenIsOver'  BY <1>18 DEF SeenIsOver, StopTimesOut, FallBackOnKill, Goto, Lookup
  <2>6. Unpublished'  BY <1>18 DEF Unpublished, StopTimesOut, FallBackOnKill, Goto, Lookup
  <2>7. (Registry /\ Reaping /\ Endings /\ Verdict)'
      BY <1>18 DEF Registry, Reaping, Endings, Verdict, StopTimesOut, FallBackOnKill, Goto,
         Lookup
  <2> QED  BY <2>1, <2>2, <2>3, <2>4, <2>5, <2>6, <2>7
<1>19. ASSUME NEW g \in Goroutines, SeesExit(g)
      PROVE  IInv'
  <2>1. TypeOK'  BY <1>19 DEF TypeOK, OSStates, RPCs, PCs, SeesExit, Return
  <2>2. Locals'  BY <1>19 DEF Locals, TypeOK, SeesExit, Return
  <2>3. OneStarter'  BY <1>19 DEF OneStarter, SeesExit, Return
  <2>4. Stages'  BY <1>19 DEF Stages, TypeOK, SeesExit, Return
  <2>5. SeenIsOver'  BY <1>19 DEF SeenIsOver, SeesExit, Return
  <2>6. Unpublished'  BY <1>19 DEF Unpublished, SeesExit, Return
  <2>7. (Registry /\ Reaping /\ Endings /\ Verdict)'
      BY <1>19 DEF Registry, Reaping, Endings, Verdict, SeesExit, Return
  <2> QED  BY <2>1, <2>2, <2>3, <2>4, <2>5, <2>6, <2>7
<1>20. ASSUME NEW g \in Goroutines, GivesUp(g)
      PROVE  IInv'
  <2>1. TypeOK'  BY <1>20 DEF TypeOK, OSStates, RPCs, PCs, GivesUp, Return
  <2>2. Locals'  BY <1>20 DEF Locals, TypeOK, GivesUp, Return
  <2>3. OneStarter'  BY <1>20 DEF OneStarter, GivesUp, Return
  <2>4. Stages'  BY <1>20 DEF Stages, TypeOK, GivesUp, Return
  <2>5. SeenIsOver'  BY <1>20 DEF SeenIsOver, GivesUp, Return
  <2>6. Unpublished'  BY <1>20 DEF Unpublished, GivesUp, Return
  <2>7. (Registry /\ Reaping /\ Endings /\ Verdict)'
      BY <1>20 DEF Registry, Reaping, Endings, Verdict, GivesUp, Return
  <2> QED  BY <2>1, <2>2, <2>3, <2>4, <2>5, <2>6, <2>7
<1>21. ASSUME NEW g \in Goroutines, KillRefused(g)
      PROVE  IInv'
  <2>1. TypeOK'  BY <1>21 DEF TypeOK, OSStates, RPCs, PCs, KillRefused, Return
  <2>2. Locals'  BY <1>21 DEF Locals, TypeOK, KillRefused, Return
  <2>3. OneStarter'  BY <1>21 DEF OneStarter, KillRefused, Return
  <2>4. Stages'  BY <1>21 DEF Stages, TypeOK, KillRefused, Return
  <2>5. SeenIsOver'  BY <1>21 DEF SeenIsOver, KillRefused, Return
  <2>6. Unpublished'  BY <1>21 DEF Unpublished, KillRefused, Return
  <2>7. (Registry /\ Reaping /\ Endings /\ Verdict)'
      BY <1>21 DEF Registry, Reaping, Endings, Verdict, KillRefused, Return
  <2> QED  BY <2>1, <2>2, <2>3, <2>4, <2>5, <2>6, <2>7
<1>22. ASSUME NEW g \in Goroutines, KillGroup(g)
      PROVE  IInv'
  <2>1. TypeOK'  BY <1>22 DEF TypeOK, OSStates, RPCs, PCs, KillGroup, Goto
  <2>2. Locals'  BY <1>22 DEF Locals, KillGroup, Goto
  <2>3. OneStarter'  BY <1>22 DEF OneStarter, KillGroup, Goto
  <2>4. Stages'  BY <1>22 DEF Stages, KillGroup, Goto
  <2>5. Registry'  BY <1>22 DEF Registry, KillGroup, Goto
  <2>6. Reaping'  BY <1>22 DEF Reaping, KillGroup, Goto
  <2>7. Endings'  BY <1>22 DEF Endings, KillGroup, Goto
  <2>8. SeenIsOver'  BY <1>22 DEF SeenIsOver, KillGroup, Goto
  <2>9. Verdict'  BY <1>22 DEF Verdict, KillGroup, Goto
  <2>10. Unpublished'  BY <1>22 DEF Unpublished, KillGroup, Goto
  <2> QED  BY <2>1, <2>2, <2>3, <2>4, <2>5, <2>6, <2>7, <2>8, <2>9, <2>10
<1>23. ASSUME NEW s \in Servers, ShutdownPick(s)
      PROVE  IInv'
  <2>1. TypeOK'  BY <1>23 DEF TypeOK, OSStates, RPCs, PCs, ShutdownPick, Goto
  <2>2. Locals'  BY <1>23 DEF Locals, ShutdownPick, Goto
  <2>3. OneStarter'  BY <1>23 DEF OneStarter, ShutdownPick, Goto
  <2>4. Stages'  BY <1>23 DEF Stages, ShutdownPick, Goto
  <2>5. SeenIsOver'  BY <1>23 DEF SeenIsOver, ShutdownPick, Goto
  <2>6. Unpublished'  BY <1>23 DEF Unpublished, ShutdownPick, Goto
  <2>7. (Registry /\ Reaping /\ Endings /\ Verdict)'
      BY <1>23 DEF Registry, Reaping, Endings, Verdict, ShutdownPick, Goto
  <2> QED  BY <2>1, <2>2, <2>3, <2>4, <2>5, <2>6, <2>7
<1>24. ASSUME NEW s \in Servers, ShutdownSkip(s)
      PROVE  IInv'
  <2>1. TypeOK'  BY <1>24 DEF TypeOK, OSStates, RPCs, PCs, ShutdownSkip, Return
  <2>2. Locals'  BY <1>24 DEF Locals, TypeOK, ShutdownSkip, Return
  <2>3. OneStarter'  BY <1>24 DEF OneStarter, ShutdownSkip, Return
  <2>4. Stages'  BY <1>24 DEF Stages, TypeOK, ShutdownSkip, Return
  <2>5. SeenIsOver'  BY <1>24 DEF SeenIsOver, ShutdownSkip, Return
  <2>6. Unpublished'  BY <1>24 DEF Unpublished, ShutdownSkip, Return
  <2>7. (Registry /\ Reaping /\ Endings /\ Verdict)'
      BY <1>24 DEF Registry, Reaping, Endings, Verdict, ShutdownSkip, Return
  <2> QED  BY <2>1, <2>2, <2>3, <2>4, <2>5, <2>6, <2>7
<1>25. ASSUME NEW s \in Servers, ShutdownLookup(s)
      PROVE  IInv'
  <2>1. TypeOK'  BY <1>25 DEF TypeOK, OSStates, RPCs, PCs, ShutdownLookup, Goto, Lookup
  <2>2. Locals'  BY <1>25 DEF Locals, TypeOK, ShutdownLookup, Goto, Lookup
  <2>3. OneStarter'  BY <1>25 DEF OneStarter, ShutdownLookup, Goto, Lookup
  <2>4. Stages'
      BY <1>25 DEF Stages, TypeOK, Locals, Registry, Endings, Reaping, ShutdownLookup, Goto,
         Lookup
  <2>5. SeenIsOver'  BY <1>25 DEF SeenIsOver, ShutdownLookup, Goto, Lookup
  <2>6. Unpublished'  BY <1>25 DEF Unpublished, ShutdownLookup, Goto, Lookup
  <2>7. (Registry /\ Reaping /\ Endings /\ Verdict)'
      BY <1>25 DEF Registry, Reaping, Endings, Verdict, ShutdownLookup, Goto, Lookup
  <2> QED  BY <2>1, <2>2, <2>3, <2>4, <2>5, <2>6, <2>7
<1>26. ASSUME NEW p \in Procs, ReapDecide(p)
      PROVE  IInv'
  <2>1. TypeOK'  BY <1>26 DEF TypeOK, OSStates, RPCs, PCs, ReapDecide
  <2>2. Stages'  BY <1>26 DEF Stages, ReapDecide
  <2>3. Reaping'  BY <1>26 DEF Reaping, TypeOK, ReapDecide
  <2>4. Endings'  BY <1>26 DEF Endings, ReapDecide
  <2>5. Verdict'  BY <1>26 DEF Verdict, TypeOK, ReapDecide
  <2>6. Unpublished'  BY <1>26 DEF Unpublished, ReapDecide
  <2>7. (Locals /\ OneStarter /\ Registry /\ SeenIsOver)'
      BY <1>26 DEF Locals, OneStarter, Registry, SeenIsOver, ReapDecide
  <2> QED  BY <2>1, <2>2, <2>3, <2>4, <2>5, <2>6, <2>7
<1>27. ASSUME NEW p \in Procs, ReapSettle(p)
      PROVE  IInv'
  <2>1. TypeOK'
      BY <1>27 DEF TypeOK, Locals, Stages, Reaping, OSStates, RPCs, PCs, ReapSettle,
         SetStatus
  <2>2. Stages'
      BY <1>27 DEF Stages, TypeOK, Locals, Registry, Endings, Reaping, ReapSettle, SetStatus
  <2>3. Registry'  BY <1>27 DEF Registry, TypeOK, ReapSettle, SetStatus
  <2>4. Reaping'  BY <1>27 DEF Reaping, ReapSettle, SetStatus
  <2>5. Endings'  BY <1>27 DEF Endings, TypeOK, ReapSettle, SetStatus
  <2>6. Verdict'  BY <1>27 DEF Verdict, TypeOK, ReapSettle, SetStatus
  <2>7. Unpublished'  BY <1>27 DEF Unpublished, TypeOK, ReapSettle, SetStatus
  <2>8. (Locals /\ OneStarter /\ SeenIsOver)'
      BY <1>27 DEF Locals, OneStarter, SeenIsOver, ReapSettle, SetStatus
  <2> QED  BY <2>1, <2>2, <2>3, <2>4, <2>5, <2>6, <2>7, <2>8
<1>28. ASSUME NEW p \in Procs, ReapRelease(p)
      PROVE  IInv'
  <2>1. TypeOK'  BY <1>28 DEF TypeOK, OSStates, RPCs, PCs, ReapRelease
  <2>2. Stages'  BY <1>28 DEF Stages, ReapRelease
  <2>3. Reaping'  BY <1>28 DEF Reaping, ReapRelease
  <2>4. Endings'  BY <1>28 DEF Endings, ReapRelease
  <2>5. Verdict'  BY <1>28 DEF Verdict, ReapRelease
  <2>6. Unpublished'  BY <1>28 DEF Unpublished, ReapRelease
  <2>7. (Locals /\ OneStarter /\ Registry /\ SeenIsOver)'
      BY <1>28 DEF Locals, OneStarter, Registry, SeenIsOver, ReapRelease
  <2> QED  BY <2>1, <2>2, <2>3, <2>4, <2>5, <2>6, <2>7
<1>29. ASSUME NEW p \in Procs, ReapCloseHub(p)
      PROVE  IInv'
  <2>1. TypeOK'  BY <1>29 DEF TypeOK, OSStates, RPCs, PCs, ReapCloseHub
  <2>2. Stages'  BY <1>29 DEF Stages, ReapCloseHub
  <2>3. Reaping'  BY <1>29 DEF Reaping, ReapCloseHub
  <2>4. Endings'  BY <1>29 DEF Endings, ReapCloseHub
  <2>5. Verdict'  BY <1>29 DEF Verdict, ReapCloseHub
  <2>6. Unpublished'  BY <1>29 DEF Unpublished, ReapCloseHub
  <2>7. (Locals /\ OneStarter /\ Registry /\ SeenIsOver)'
      BY <1>29 DEF Locals, OneStarter, Registry, SeenIsOver, ReapCloseHub
  <2> QED  BY <2>1, <2>2, <2>3, <2>4, <2>5, <2>6, <2>7
<1>30. ASSUME NEW p \in Procs, ChildExits(p)
      PROVE  IInv'
  <2>1. TypeOK'  BY <1>30 DEF TypeOK, OSStates, RPCs, PCs, ChildExits
  <2>2. Stages'  BY <1>30 DEF Stages, ChildExits
  <2>3. Registry'  BY <1>30 DEF Registry, ChildExits
  <2>4. Reaping'  BY <1>30 DEF Reaping, ChildExits
  <2>5. Endings'  BY <1>30 DEF Endings, ChildExits
  <2>6. SeenIsOver'  BY <1>30 DEF SeenIsOver, ChildExits
  <2>7. Verdict'  BY <1>30 DEF Verdict, ChildExits
  <2>8. (Locals /\ OneStarter /\ Unpublished)'
      BY <1>30 DEF Locals, OneStarter, Unpublished, ChildExits
  <2> QED  BY <2>1, <2>2, <2>3, <2>4, <2>5, <2>6, <2>7, <2>8
<1>31. ASSUME NEW p \in Procs, PipesClose(p)
      PROVE  IInv'
  <2>1. TypeOK'  BY <1>31 DEF TypeOK, OSStates, RPCs, PCs, PipesClose
  <2>2. Stages'  BY <1>31 DEF Stages, PipesClose
  <2>3. Registry'  BY <1>31 DEF Registry, PipesClose
  <2>4. Reaping'  BY <1>31 DEF Reaping, PipesClose
  <2>5. Endings'  BY <1>31 DEF Endings, PipesClose
  <2>6. SeenIsOver'  BY <1>31 DEF SeenIsOver, PipesClose
  <2>7. Verdict'  BY <1>31 DEF Verdict, PipesClose
  <2>8. (Locals /\ OneStarter /\ Unpublished)'
      BY <1>31 DEF Locals, OneStarter, Unpublished, PipesClose
  <2> QED  BY <2>1, <2>2, <2>3, <2>4, <2>5, <2>6, <2>7, <2>8
<1>32. ASSUME NEW a \in Actors, Publish(a)
      PROVE  IInv'
  <2>1. TypeOK'  BY <1>32 DEF TypeOK, OSStates, RPCs, PCs, Publish, Subject
  <2>2. Verdict'
      BY <1>32 DEF Verdict, TypeOK, Locals, Stages, Registry, Reaping, Endings, Unpublished,
         Publish, Subject
  <2>3. Unpublished'  BY <1>32 DEF Unpublished, Publish, Subject
  <2>4. (Locals /\ OneStarter /\ Stages /\ Registry /\ Reaping /\ Endings /\ SeenIsOver)'
      BY <1>32 DEF Locals, OneStarter, Stages, Registry, Reaping, Endings, SeenIsOver,
         Publish, Subject
  <2> QED  BY <2>1, <2>2, <2>3, <2>4
<1>33. ASSUME ShutdownBegin
      PROVE  IInv'
  <2>1. TypeOK'  BY <1>33 DEF TypeOK, OSStates, RPCs, PCs, ShutdownBegin, Registered
  <2>2. Locals'  BY <1>33 DEF Locals, TypeOK, ShutdownBegin, Registered
  <2>3. OneStarter'  BY <1>33 DEF OneStarter, ShutdownBegin, Registered
  <2>4. Stages'
      BY <1>33 DEF Stages, TypeOK, Locals, Registry, Endings, Reaping, ShutdownBegin,
         Registered
  <2>5. SeenIsOver'  BY <1>33 DEF SeenIsOver, ShutdownBegin, Registered
  <2>6. Unpublished'
      BY <1>33 DEF Unpublished, TypeOK, Locals, OneStarter, Stages, Registry, Reaping,
         Endings, SeenIsOver, Verdict, ShutdownBegin, Registered
  <2>7. (Registry /\ Reaping /\ Endings /\ Verdict)'
      BY <1>33 DEF Registry, Reaping, Endings, Verdict, ShutdownBegin, Registered
  <2> QED  BY <2>1, <2>2, <2>3, <2>4, <2>5, <2>6, <2>7
<1>34. ASSUME ShutdownClose
      PROVE  IInv'
  <2>1. TypeOK'  BY <1>34 DEF TypeOK, OSStates, RPCs, PCs, ShutdownClose
  <2>2. (Locals /\ OneStarter /\ Stages /\ Registry /\ Reaping /\ Endings /\ SeenIsOver /\
         Verdict /\ Unpublished)'
      BY <1>34 DEF Locals, OneStarter, Stages, Registry, Reaping, Endings, SeenIsOver,
         Verdict, Unpublished, ShutdownClose
  <2> QED  BY <2>1, <2>2
<1>35. CASE UNCHANGED vars
  BY <1>35 DEF vars, TypeOK, Locals, OneStarter, Stages, Registry, Reaping, Endings,
       SeenIsOver, Verdict, Unpublished
<1> QED  BY <1>1, <1>2, <1>3, <1>4, <1>5, <1>6, <1>7, <1>8, <1>9, <1>10, <1>11, <1>12,
     <1>13, <1>14, <1>15, <1>16, <1>17, <1>18, <1>19, <1>20, <1>21, <1>22, <1>23, <1>24,
     <1>25, <1>26, <1>27, <1>28, <1>29, <1>30, <1>31, <1>32, <1>33, <1>34, <1>35 DEF Next,
     Call, Environment, StartStep, StopStep, ShutdownStep, Reap

-----------------------------------------------------------------------------
(* The theorems *)

\* The inductive invariant holds of every behaviour of the runner.
THEOREM Invariance == Spec => []IInv
<1>1. Init => IInv
  BY Initially
<1>2. IInv /\ [Next]_vars => IInv'
  BY Inductive
<1> QED  BY <1>1, <1>2, PTL DEF Spec

\* Every variable keeps its type, however the calls overlap.
THEOREM TypeCorrect == Spec => []TypeOK
<1>1. IInv => TypeOK
  BY DEF IInv
<1> QED  BY <1>1, Invariance, PTL

\* A live child is never reported as stopped or crashed.  What Endings says of an
\* ending that was assigned, and Reaping of reap, together leave no other way.
THEOREM LiveStaysActive == Spec => []LiveIsActive
<1>1. IInv => LiveIsActive
  <2> SUFFICES ASSUME IInv, NEW p \in Procs, os[p] \in Living  PROVE status[p] \in Active
    BY DEF LiveIsActive
  <2>1. status[p] # "none"
    BY DEF IInv, Registry, Living
  <2>2. status[p] \notin Final
    BY DEF IInv, Endings, Reaping, Settled, Living, Over, Final
  <2> QED  BY <2>1, <2>2 DEF IInv, TypeOK, Active, Final
<1> QED  BY <1>1, Invariance, PTL

\* A server that was sent the stop word is never reported as crashed.
THEOREM AskedNeverCrash == Spec => []AskedIsNotCrash
<1>1. IInv => AskedIsNotCrash
  <2> SUFFICES ASSUME IInv, NEW p \in Procs, word[p], os[p] # "failed"
               PROVE  status[p] # "crashed" /\ "crashed" \notin reported[p]
    BY DEF AskedIsNotCrash
  <2> QED  BY DEF IInv, Verdict, Settled
<1> QED  BY <1>1, Invariance, PTL

\* The map forgets a process that is not over only through overlapping Starts.
THEOREM DisplacementIsOverlap == Spec => NoSilentDisplacement
<1>1. IInv /\ [Next]_vars => [DisplacesByOverlap]_vars
  <2> SUFFICES ASSUME IInv, Next, NEW s \in Servers, procs[s] # NoProc,
                      procs'[s] # procs[s], os[procs[s]] \notin {"failed"} \cup Over
               PROVE  \E c \in Callers : pc[c] = "build" /\ srv[c] = s /\ seen[c] # procs[s]
    BY DEF DisplacesByOverlap, vars, procVars
  <2>1. ASSUME NEW c \in Callers, StartRegister(c)
        PROVE  pc[c] = "build" /\ srv[c] = s /\ seen[c] # procs[s]
    <3>1. pc[c] = "build"
      BY <2>1 DEF StartRegister, Goto
    <3>2. srv[c] = s
      BY <2>1 DEF StartRegister, IInv, TypeOK
    <3>3. seen[c] # procs[s]
      BY <3>1 DEF IInv, SeenIsOver, Goroutines
    <3> QED  BY <3>1, <3>2, <3>3
  <2>2. \E c \in Callers : StartRegister(c)
    <3> SUFFICES ASSUME \A c \in Callers : ~StartRegister(c)  PROVE procs' = procs
      OBVIOUS
    <3> USE DEF procVars
    <3>1. CASE Environment
      BY <3>1 DEF Environment, Call, StartCheck, StopCall, KillCall, GivesUp, ChildExits,
                  PipesClose
    <3>2. ASSUME NEW c \in Callers, StartStep(c)  PROVE procs' = procs
      BY <3>2 DEF StartStep, StartBuildFails, StartLaunch, StartLaunchFails, StartAbortHub,
                  StartAbortExit, StartAnnounce, StartSupervise
    <3>3. ASSUME NEW g \in Goroutines, StopStep(g)  PROVE procs' = procs
      BY <3>3 DEF StopStep, StopCheck, StopRefused, StopMark, StopAnnounce, StopWrite,
                  StopWriteFails, StopTimesOut, FallBackOnKill, SeesExit, KillRefused, KillGroup
    <3>4. ASSUME NEW t \in Servers, ShutdownStep(t)  PROVE procs' = procs
      BY <3>4 DEF ShutdownStep, ShutdownPick, ShutdownSkip, ShutdownLookup
    <3>5. ASSUME NEW p \in Procs, Reap(p)  PROVE procs' = procs
      BY <3>5 DEF Reap, ReapDecide, ReapSettle, ReapRelease, ReapCloseHub
    <3>6. ASSUME NEW a \in Actors, Publish(a)  PROVE procs' = procs
      BY <3>6 DEF Publish
    <3>7. CASE ShutdownBegin \/ ShutdownClose
      BY <3>7 DEF ShutdownBegin, ShutdownClose
    <3> QED  BY <3>1, <3>2, <3>3, <3>4, <3>5, <3>6, <3>7 DEF Next
  <2> QED  BY <2>1, <2>2
<1> QED  BY <1>1, Invariance, PTL DEF Spec, NoSilentDisplacement

-----------------------------------------------------------------------------
(* How a process ended, and who is told *)

\* Shutdown has closed the hub of a process it had in its snapshot.
ShutOut(p) == down = "down" /\ p \in snap

Told(p) == reported[p] \cap Final # {} \/ ShutOut(p)

\* A Start that could not launch publishes "crashed" and nothing else does for its
\* struct; "stopped" is the word of reap alone.
OneVerdict ==
    /\ \A p \in Procs : "stopped" \in reported[p] =>
         os[p] # "failed" /\ rpc[p] \in Settled /\ final[p] = "stopped"
    /\ \A g \in Goroutines : pc[g] = "abortHub" /\ pub[g] # None => pub[g] = "crashed"

\* A hub that is closed before Shutdown was closed by the one who had published.
HubsCloseLast ==
    \A p \in Procs : ~hubOpen[p] =>
        \/ ShutOut(p)
        \/ rpc[p] = "done"
        \/ os[p] = "failed" /\ \A g \in Goroutines : pc[g] = "abortHub" => tgt[g] # p

\* Whoever has published its ending, or cannot any more, goes on to close p.exited.
ToldFirst ==
    /\ \A p \in Procs :
         /\ rpc[p] = "settled" /\ pub[p] = None => Told(p)
         /\ rpc[p] \in {"released", "done"} => Told(p)
         /\ exited[p] => Told(p)
    /\ \A g \in Goroutines :
         /\ pc[g] = "abortHub" /\ pub[g] = None => Told(tgt[g])
         /\ pc[g] = "abortExit" => Told(tgt[g])

Reporting == OneVerdict /\ HubsCloseLast /\ ToldFirst

\* A step that is nobody's ending, and that brings no call to where one is dealt with,
\* changes nothing in that.
LEMMA ReportingStays ==
    ASSUME Reporting, UNCHANGED <<reported, rpc, final, exited, hubOpen, pub, downVars>>,
           \A p \in Procs : os'[p] = "failed" <=> os[p] = "failed",
           \A g \in Goroutines : pc'[g] \in {"abortHub", "abortExit"} =>
                                   pc'[g] = pc[g] /\ tgt'[g] = tgt[g]
    PROVE  Reporting'
<1> USE DEF Reporting, downVars
<1>1. \A p \in Procs : ShutOut(p)' = ShutOut(p) /\ Told(p)' = Told(p)
  BY DEF ShutOut, Told
<1>2. OneVerdict'  BY DEF OneVerdict
<1>3. HubsCloseLast'  BY <1>1 DEF HubsCloseLast
<1>4. ToldFirst'
  <2>1. \A p \in Procs :
          /\ rpc'[p] = "settled" /\ pub'[p] = None => Told(p)'
          /\ rpc'[p] \in {"released", "done"} => Told(p)'
          /\ exited'[p] => Told(p)'
    BY <1>1 DEF ToldFirst
  <2>2. ASSUME NEW g \in Goroutines
        PROVE  /\ pc'[g] = "abortHub" /\ pub'[g] = None => Told(tgt[g])'
               /\ pc'[g] = "abortExit" => Told(tgt[g])'
    BY DEF ToldFirst, Told, ShutOut
  <2> QED  BY <2>1, <2>2 DEF ToldFirst
<1> QED  BY <1>2, <1>3, <1>4

\* The invariant holds before anyone has called the runner.
LEMMA ReportingBegins == Init => Reporting
BY DEF Init, Reporting, OneVerdict, HubsCloseLast, ToldFirst

\* Every step of Start, reap and Shutdown, and what is published, keeps it.
LEMMA ReportingInductive == IInv /\ Reporting /\ [Next]_vars => Reporting'
<1> SUFFICES ASSUME IInv, Reporting, [Next]_vars PROVE Reporting'
  OBVIOUS
<1> USE RunnerAssumption DEF Goroutines, Actors, childVars, procVars, busVars, reapVars, callVars,
       downVars
<1> USE DEF IInv
<1>1. CASE Environment
  <2>1. /\ UNCHANGED <<reported, rpc, final, exited, hubOpen, pub, downVars>>
        /\ \A p \in Procs : os'[p] = "failed" <=> os[p] = "failed"
        /\ \A g \in Goroutines : pc'[g] \in {"abortHub", "abortExit"} =>
                                   pc'[g] = pc[g] /\ tgt'[g] = tgt[g]
    BY <1>1 DEF TypeOK, Environment, Call, StartCheck, StopCall, KillCall, Goto, Lookup, GivesUp,
                Return, ChildExits, PipesClose
  <2> QED  BY <2>1, ReportingStays
<1>2. ASSUME NEW g \in Goroutines, StopStep(g) PROVE Reporting'
  <2>1. /\ UNCHANGED <<reported, rpc, final, exited, hubOpen, downVars>>
        /\ \A h \in Goroutines : pc'[h] \in {"abortHub", "abortExit"} =>
                                   pc'[h] = pc[h] /\ tgt'[h] = tgt[h]
    BY <1>2 DEF TypeOK, StopStep, StopCheck, StopRefused, StopMark, StopAnnounce, StopWrite,
                StopWriteFails, StopTimesOut, FallBackOnKill, SeesExit, KillRefused, KillGroup,
                Goto, Lookup, Return, SetStatus
  <2>2. pub' = pub
    BY <1>2 DEF TypeOK, Unpublished, StopStep, StopCheck, StopRefused, StopMark, StopAnnounce,
                StopWrite, StopWriteFails, StopTimesOut, FallBackOnKill, SeesExit, KillRefused,
                KillGroup, SetStatus, Final
  <2>3. \A p \in Procs : os'[p] = "failed" <=> os[p] = "failed"
    BY <1>2 DEF TypeOK, StopStep, StopCheck, StopRefused, StopMark, StopAnnounce, StopWrite,
                StopWriteFails, StopTimesOut, FallBackOnKill, SeesExit, KillRefused, KillGroup,
                SetStatus, Living, Over
  <2> QED  BY <2>1, <2>2, <2>3, ReportingStays
<1>3. ASSUME NEW s \in Servers, ShutdownStep(s) PROVE Reporting'
  <2>1. /\ UNCHANGED <<reported, rpc, final, exited, hubOpen, pub, downVars>>
        /\ \A p \in Procs : os'[p] = "failed" <=> os[p] = "failed"
        /\ \A g \in Goroutines : pc'[g] \in {"abortHub", "abortExit"} =>
                                   pc'[g] = pc[g] /\ tgt'[g] = tgt[g]
    BY <1>3 DEF TypeOK, ShutdownStep, ShutdownPick, ShutdownSkip, ShutdownLookup, Goto, Lookup,
                Return
  <2> QED  BY <2>1, ReportingStays
<1>4. ASSUME NEW c \in Callers,
             StartRegister(c) \/ StartBuildFails(c) \/ StartLaunch(c)
      PROVE  Reporting'
  <2>1. /\ UNCHANGED <<reported, rpc, final, exited, hubOpen, pub, downVars>>
        /\ \A p \in Procs : os'[p] = "failed" <=> os[p] = "failed"
        /\ \A g \in Goroutines : pc'[g] \in {"abortHub", "abortExit"} =>
                                   pc'[g] = pc[g] /\ tgt'[g] = tgt[g]
    BY <1>4 DEF TypeOK, Stages, Locals, StartRegister, StartBuildFails, StartLaunch, Goto, Return
  <2> QED  BY <2>1, ReportingStays
<1>5. ASSUME NEW c \in Callers, StartAnnounce(c) PROVE Reporting'
  <2>1. /\ UNCHANGED <<reported, rpc, final, exited, hubOpen, pub, downVars, os, tgt>>
        /\ \A g \in Goroutines : pc'[g] \in {"abortHub", "abortExit"} => pc'[g] = pc[g]
    BY <1>5 DEF TypeOK, StartAnnounce, SetStatus, Final
  <2> QED  BY <2>1, ReportingStays
<1>6. ASSUME NEW c \in Callers, StartSupervise(c) PROVE Reporting'
  <2>1. OneVerdict'
    BY <1>6 DEF Reporting, OneVerdict, TypeOK, Locals, Stages, StartSupervise, Return, Settled
  <2>2. HubsCloseLast'
    BY <1>6 DEF Reporting, HubsCloseLast, ShutOut, TypeOK, Locals, Stages, StartSupervise, Return
  <2>3. ToldFirst'
    BY <1>6 DEF Reporting, ToldFirst, Told, ShutOut, TypeOK, Locals, Stages, StartSupervise, Return
  <2> QED  BY <2>1, <2>2, <2>3 DEF Reporting
<1>7. ASSUME NEW c \in Callers, StartLaunchFails(c) PROVE Reporting'
  <2>1. OneVerdict'
    BY <1>7 DEF Reporting, OneVerdict, TypeOK, Locals, Stages, Reaping, StartLaunchFails,
                SetStatus, Settled, Living, Over
  <2>2. HubsCloseLast'
    BY <1>7 DEF Reporting, HubsCloseLast, ShutOut, TypeOK, Locals, Stages, Reaping, OneStarter,
                Starting, StartLaunchFails, SetStatus, Living, Over
  <2>3. ToldFirst'
    BY <1>7 DEF Reporting, ToldFirst, Told, ShutOut, TypeOK, Locals, Stages, Reaping, Endings,
                StartLaunchFails, SetStatus, Settled, Living, Over, Final
  <2> QED  BY <2>1, <2>2, <2>3 DEF Reporting
<1>8. ASSUME NEW c \in Callers, StartAbortHub(c) PROVE Reporting'
  <2>1. OneVerdict'  BY <1>8 DEF Reporting, OneVerdict, TypeOK, StartAbortHub, Goto
  <2>2. HubsCloseLast'
    BY <1>8 DEF Reporting, HubsCloseLast, ShutOut, TypeOK, Locals, Stages, OneStarter, Starting,
                StartAbortHub, Goto
  <2>3. ToldFirst'
    BY <1>8 DEF Reporting, ToldFirst, Told, ShutOut, TypeOK, Locals, StartAbortHub, Goto
  <2> QED  BY <2>1, <2>2, <2>3 DEF Reporting
<1>9. ASSUME NEW c \in Callers, StartAbortExit(c) PROVE Reporting'
  <2>1. OneVerdict'  BY <1>9 DEF Reporting, OneVerdict, TypeOK, StartAbortExit, Return
  <2>2. HubsCloseLast'
    BY <1>9 DEF Reporting, HubsCloseLast, ShutOut, TypeOK, StartAbortExit, Return
  <2>3. ToldFirst'
    BY <1>9 DEF Reporting, ToldFirst, Told, ShutOut, TypeOK, Locals, StartAbortExit, Return
  <2> QED  BY <2>1, <2>2, <2>3 DEF Reporting
<1>10. ASSUME NEW p \in Procs, ReapDecide(p) PROVE Reporting'
  <2>1. OneVerdict'  BY <1>10 DEF Reporting, OneVerdict, TypeOK, ReapDecide, Settled
  <2>2. HubsCloseLast'
    BY <1>10 DEF Reporting, HubsCloseLast, ShutOut, TypeOK, ReapDecide
  <2>3. ToldFirst'
    BY <1>10 DEF Reporting, ToldFirst, Told, ShutOut, TypeOK, ReapDecide
  <2> QED  BY <2>1, <2>2, <2>3 DEF Reporting
<1>11. ASSUME NEW p \in Procs, ReapSettle(p) PROVE Reporting'
  <2>1. OneVerdict'
    BY <1>11 DEF Reporting, OneVerdict, TypeOK, ReapSettle, SetStatus, Settled
  <2>2. HubsCloseLast'
    BY <1>11 DEF Reporting, HubsCloseLast, ShutOut, TypeOK, ReapSettle, SetStatus
  <2>3. pub'[p] # None
    BY <1>11 DEF TypeOK, Reaping, Endings, ReapSettle, SetStatus, Settled, Final, Over
  <2>4. ToldFirst'
    BY <1>11, <2>3 DEF Reporting, ToldFirst, Told, ShutOut, TypeOK, ReapSettle, SetStatus
  <2> QED  BY <2>1, <2>2, <2>4 DEF Reporting
<1>12. ASSUME NEW p \in Procs, ReapRelease(p) PROVE Reporting'
  <2>1. OneVerdict'  BY <1>12 DEF Reporting, OneVerdict, TypeOK, ReapRelease, Settled
  <2>2. HubsCloseLast'
    BY <1>12 DEF Reporting, HubsCloseLast, ShutOut, TypeOK, ReapRelease
  <2>3. ToldFirst'
    BY <1>12 DEF Reporting, ToldFirst, Told, ShutOut, TypeOK, ReapRelease
  <2> QED  BY <2>1, <2>2, <2>3 DEF Reporting
<1>13. ASSUME NEW p \in Procs, ReapCloseHub(p) PROVE Reporting'
  <2>1. OneVerdict'  BY <1>13 DEF Reporting, OneVerdict, TypeOK, ReapCloseHub, Settled
  <2>2. HubsCloseLast'
    BY <1>13 DEF Reporting, HubsCloseLast, ShutOut, TypeOK, ReapCloseHub
  <2>3. ToldFirst'
    BY <1>13 DEF Reporting, ToldFirst, Told, ShutOut, TypeOK, ReapCloseHub
  <2> QED  BY <2>1, <2>2, <2>3 DEF Reporting
<1>14. ASSUME NEW a \in Actors, Publish(a) PROVE Reporting'
  <2>p. Subject(a) \in Procs
    BY <1>14 DEF Publish, Subject, TypeOK, Unpublished, Locals
  <2> PICK p \in Procs : p = Subject(a)  BY <2>p
  <2>1. /\ pub[a] \in Final /\ pub'[a] = None
        /\ \/ a \in Goroutines /\ pc[a] = "abortHub" /\ tgt[a] = p /\ os[p] = "failed"
              /\ pub[a] = "crashed" /\ rpc[p] = "none"
           \/ a = p /\ rpc[p] = "settled" /\ pub[a] = final[p] /\ os[p] \in Over
    BY <1>14 DEF Publish, Subject, Reporting, OneVerdict, TypeOK, Unpublished, Locals, Stages,
                 Reaping, Living, Over
  <2>2. /\ reported' = [reported EXCEPT ![p] = IF hubOpen[p] THEN @ \cup {pub[a]} ELSE @]
        /\ pub' = [pub EXCEPT ![a] = None]
        /\ UNCHANGED <<os, rpc, final, exited, hubOpen, pc, tgt, down, snap>>
    BY <1>14 DEF Publish
  <2>3. /\ reported \in [Procs -> SUBSET Final] /\ pub \in [Actors -> Final \cup {None}]
        /\ None \notin Final
    BY DEF TypeOK, Final
  <2>4. Told(p)'
    <3>1. CASE hubOpen[p]
      <4>1. pub[a] \in reported'[p]  BY ONLY <2>1, <2>2, <2>3, <3>1
      <4> QED  BY ONLY <2>1, <4>1 DEF Told
    <3>2. CASE ~hubOpen[p]
      <4>1. \/ ShutOut(p)
            \/ rpc[p] = "done"
            \/ os[p] = "failed" /\ \A g \in Goroutines : pc[g] = "abortHub" => tgt[g] # p
        BY <3>2 DEF Reporting, HubsCloseLast
      <4>2. ShutOut(p)  BY ONLY <2>1, <4>1 DEF Over
      <4> QED  BY <2>2, <4>2 DEF Told, ShutOut
    <3> QED  BY <3>1, <3>2
  <2>5. \A q \in Procs : q # p => reported'[q] = reported[q]  BY ONLY <2>1, <2>2, <2>3
  <2>6. \A q \in Procs : Told(q) => Told(q)'
    BY <2>2, <2>4, <2>5 DEF Told, ShutOut
  <2>7. OneVerdict'
    <3>1. ASSUME NEW q \in Procs, "stopped" \in reported'[q]
          PROVE  os[q] # "failed" /\ rpc[q] \in Settled /\ final[q] = "stopped"
      <4>1. CASE "stopped" \in reported[q]  BY <4>1 DEF Reporting, OneVerdict
      <4>2. CASE "stopped" \notin reported[q]
        <5>1. q = p /\ pub[a] = "stopped"  BY ONLY <2>1, <2>2, <2>3, <2>5, <3>1, <4>2
        <5> QED  BY <2>1, <5>1 DEF Over, Settled
      <4> QED  BY <4>1, <4>2
    <3>2. \A g \in Goroutines : pub'[g] = pub[g] \/ pub'[g] = None  BY ONLY <2>2, <2>3
    <3> QED  BY <2>2, <3>1, <3>2 DEF Reporting, OneVerdict
  <2>8. HubsCloseLast'  BY <2>2 DEF Reporting, HubsCloseLast, ShutOut
  <2>9. ToldFirst'
    <3>1. \A q \in Procs : pub'[q] = None => pub[q] = None \/ q = a
      BY ONLY <2>2, <2>3
    <3>2. \A g \in Goroutines : pub'[g] = None => pub[g] = None \/ g = a
      BY ONLY <2>2, <2>3
    <3>3. /\ a \in Procs => a = p
          /\ a \in Goroutines => tgt[a] = p
      BY ONLY <2>1, RunnerAssumption DEF Goroutines
    <3>4. \A g \in Goroutines : pc[g] \in {"abortHub", "abortExit"} => tgt[g] \in Procs
      BY DEF Locals
    <3>5. \A q \in Procs :
            /\ rpc[q] = "settled" /\ pub'[q] = None => Told(q)'
            /\ rpc[q] \in {"released", "done"} => Told(q)'
            /\ exited[q] => Told(q)'
      BY <2>4, <2>6, <3>1, <3>3 DEF Reporting, ToldFirst
    <3>6. ASSUME NEW g \in Goroutines
          PROVE  /\ pc[g] = "abortHub" /\ pub'[g] = None => Told(tgt[g])'
                 /\ pc[g] = "abortExit" => Told(tgt[g])'
      <4>1. Told(tgt[g])' <=> reported'[tgt[g]] \cap Final # {} \/ ShutOut(tgt[g])
        BY <2>2 DEF Told, ShutOut
      <4> QED
        BY <2>2, <2>4, <2>6, <3>2, <3>3, <3>4 DEF Reporting, ToldFirst, Told, ShutOut
    <3> QED  BY <2>2, <3>5, <3>6 DEF ToldFirst
  <2> QED  BY <2>7, <2>8, <2>9 DEF Reporting
<1>15. ASSUME ShutdownBegin PROVE Reporting'
  <2>1. \A p \in Procs : ~ShutOut(p)  BY <1>15 DEF ShutdownBegin, ShutOut
  <2>2. /\ UNCHANGED <<reported, rpc, final, exited, hubOpen, pub, os>>
        /\ \A g \in Goroutines : pc'[g] \in {"abortHub", "abortExit"} =>
                                   pc'[g] = pc[g] /\ tgt'[g] = tgt[g]
    BY <1>15 DEF ShutdownBegin
  <2>3. OneVerdict'  BY <2>2 DEF Reporting, OneVerdict
  <2>4. HubsCloseLast'  BY <2>1, <2>2 DEF Reporting, HubsCloseLast
  <2>5. ToldFirst'
    BY <2>1, <2>2 DEF Reporting, ToldFirst, Told, Locals
  <2> QED  BY <2>3, <2>4, <2>5 DEF Reporting
<1>16. ASSUME ShutdownClose PROVE Reporting'
  <2>1. OneVerdict'  BY <1>16 DEF ShutdownClose, Reporting, OneVerdict
  <2>2. HubsCloseLast'  BY <1>16 DEF ShutdownClose, Reporting, HubsCloseLast, ShutOut
  <2>3. ToldFirst'  BY <1>16 DEF ShutdownClose, Reporting, ToldFirst, Told, ShutOut
  <2> QED  BY <2>1, <2>2, <2>3 DEF Reporting
<1>17. CASE UNCHANGED vars
  BY <1>17, ReportingStays DEF vars
<1> QED  BY <1>1, <1>2, <1>3, <1>4, <1>5, <1>6, <1>7, <1>8, <1>9, <1>10, <1>11, <1>12,
     <1>13, <1>14, <1>15, <1>16, <1>17 DEF Next, StartStep, Reap

\* When Stop or Kill is let go of a process, its subscribers know how it ended, and know
\* one thing: for any number of calls that overlap, with a Shutdown anywhere between.
THEOREM EndAlwaysReported == Spec => []EndIsReported
<1>1. Init => IInv /\ Reporting  BY Initially, ReportingBegins
<1>2. IInv /\ Reporting /\ [Next]_vars => (IInv /\ Reporting)'
  BY Inductive, ReportingInductive
<1>3. ASSUME IInv, Reporting PROVE EndIsReported
  <2> SUFFICES ASSUME NEW p \in Procs
               PROVE  /\ ~(Final \subseteq reported[p])
                      /\ exited[p] => reported[p] \cap Final # {} \/ ShutOut(p)
    BY DEF EndIsReported, ShutOut
  <2>1. ~({"stopped", "crashed"} \subseteq reported[p])
    BY <1>3 DEF IInv, Verdict, Reporting, OneVerdict
  <2>2. exited[p] => Told(p)  BY <1>3 DEF Reporting, ToldFirst
  <2> QED  BY <2>1, <2>2 DEF Told, Final
<1> QED  BY <1>1, <1>2, <1>3, PTL DEF Spec
=============================================================================
