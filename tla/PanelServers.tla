---------------------------- MODULE PanelServers ----------------------------
(***************************************************************************)
(* web/src/pages/Servers.tsx: the list of servers, a card for each, and    *)
(* the form that creates one.                                              *)
(*                                                                         *)
(* view: the list (None until one came), the cards whose buttons wait, and *)
(* the form or None.  The form keeps the core chosen, the core whose       *)
(* versions are listed under it, and the core the version picked is of     *)
(* (None: nothing picked yet; a core's versions are told apart by nothing  *)
(* else here).                                                             *)
(* host: the status of every server, and the cores the daemon offers.      *)
(*                                                                         *)
(* Left out: the samples of the CPU trace, the banners.                    *)
(***************************************************************************)
EXTENDS PanelApi

CONSTANTS Ids,     \* ids servers have or may get
          Cores,   \* the cores there are
          Default  \* "paper", the one the form starts with

emptyForm ==
    [core |-> Default, cores |-> {}, listed |-> None, version |-> None, busy |-> FALSE]

\* What the page may find at the daemon, and what it starts with.
Found == [servers : {[s \in ids |-> "stopped"] : ids \in SUBSET Ids},
          cores : {Cores, Cores \ {Default}}]

Opening == [servers |-> None, busy |-> {}, form |-> None]

Reload(cs) == Add(cs, "reload", Call("listServers", None))

FirstCalls(cs) == Reload(cs)

Waits == view.busy # {} \/ (view.form # None /\ view.form.busy)

Types ==
    /\ view.servers = None \/ DOMAIN view.servers \subseteq Ids
    /\ view.busy \subseteq Ids
    /\ \/ view.form = None
       \/ view.form \in [core: Cores, cores: SUBSET Cores, listed: Cores \cup {None},
                         version: Cores \cup {None}, busy: BOOLEAN]

-----------------------------------------------------------------------------
(* The daemon.                                                             *)

ServeList(i) ==
    /\ Asked(i, "listServers")
    /\ Answer(i, host.servers)
    /\ UNCHANGED host

\* handlePower: accepted or not by the status of this moment, which the page
\* may not know; a task takes the server further when it comes to it.
ServePower(i) ==
    /\ Asked(i, "power")
    /\ Answer(i, None) \/ Reject(i)
    /\ UNCHANGED host

ServeCores(i) ==
    /\ Asked(i, "listCores")
    /\ Answer(i, host.cores)
    /\ UNCHANGED host

\* The versions of a core, which the daemon asks upstream.
ServeVersions(i) ==
    /\ Asked(i, "listCoreVersions")
    /\ Answer(i, At(i).arg)
    /\ UNCHANGED host

\* A core the daemon does not offer, or a name taken, is refused.
ServeCreate(i) ==
    /\ Asked(i, "createServer")
    /\ LET new == Ids \ DOMAIN host.servers
       IN  IF new # {} /\ At(i).arg.core \in host.cores
             THEN \E id \in new :
                    /\ Answer(i, None)
                    /\ host' = [host EXCEPT !.servers =
                                  [s \in DOMAIN @ \cup {id} |->
                                     IF s = id THEN "creating" ELSE @[s]]]
             ELSE Reject(i) /\ UNCHANGED host

Serve(i) ==
    /\ ServeList(i) \/ ServePower(i) \/ ServeCores(i) \/ ServeVersions(i) \/ ServeCreate(i)
    /\ UNCHANGED <<apiVars, view>>

\* Bound: the form is opened over a list at rest, which rests while it is open.
Alone == view.form = None

Rest ==
    /\ view.servers = host.servers
    /\ \A id \in DOMAIN host.servers : host.servers[id] = "stopped"
    /\ DOMAIN calls \subseteq {"orphan"}

HostMoves ==
    /\ Alone
    /\ \E id \in DOMAIN host.servers :
         \E status \in Becomes(host.servers[id]) :
            host' = [host EXCEPT !.servers[id] = status]
    /\ UNCHANGED <<apiVars, view, calls>>

-----------------------------------------------------------------------------
(* The list.                                                               *)

Tick == Alone /\ Room /\ calls' = Reload(calls) /\ UNCHANGED <<apiVars, view, host>>

\* reload: the last answer to come is what is drawn, whichever was asked last.
SettleReload(i) ==
    \/ /\ Replied(i, "reload")
       /\ view' = [view EXCEPT !.servers = At(i).val, !.busy = @ \cap DOMAIN At(i).val]
       /\ calls' = Without(i)
    \/ /\ Failed(i, "reload")
       /\ calls' = Without(i)
       /\ UNCHANGED view

\* The buttons of a card.
Offers(id, action) ==
    /\ view.servers # None /\ id \in DOMAIN view.servers
    /\ id \notin view.busy
    /\ IF view.servers[id] = "running" THEN action \in {"restart", "stop"}
       ELSE view.servers[id] \notin {"starting", "stopping"} /\ action = "start"

Power(id, action) ==
    /\ Alone
    /\ Offers(id, action)
    /\ Ask("change", "power", id)
    /\ view' = [view EXCEPT !.busy = @ \cup {id}]
    /\ UNCHANGED <<apiVars, host>>

\* power: the list is loaded again, and the button let go meanwhile.
SettlePower(i) ==
    /\ \/ Replied(i, "change") /\ calls' = Reload(Without(i))
       \/ Failed(i, "change") /\ calls' = Without(i)
    /\ view' = [view EXCEPT !.busy = @ \ {At(i).arg}]

-----------------------------------------------------------------------------
(* The form.                                                               *)

\* The effect on [core]: the versions asked for before are not waited for.
AskVersions(cs, core) ==
    Add(Forget(cs, {"versions"}), "versions", Call("listCoreVersions", core))

\* The form is gone; its createServer goes on.
CloseForm(cs) == Rename(Forget(cs, {"effect", "versions"}), "save", "orphan")

\* "Создать сервер" and, while it is open, "Отмена".
ToggleForm ==
    /\ IF view.form = None
         THEN /\ Rest
              /\ view' = [view EXCEPT !.form = emptyForm]
              /\ calls' = AskVersions(Add(calls, "effect", Call("listCores", None)), Default)
         ELSE /\ view' = [view EXCEPT !.form = None]
              /\ calls' = CloseForm(calls)
    /\ UNCHANGED <<apiVars, host>>

\* A default the daemon does not offer gives way to one it does.
SettleCores(i) ==
    \/ /\ Replied(i, "effect")
       /\ LET form == [view.form EXCEPT !.cores = At(i).val]
          IN  IF form.core \in form.cores
                THEN view' = [view EXCEPT !.form = form] /\ calls' = Without(i)
                ELSE \E core \in form.cores :
                       /\ view' = [view EXCEPT !.form = [form EXCEPT !.core = core, !.listed = None]]
                       /\ calls' = AskVersions(Without(i), core)
    \/ Failed(i, "effect") /\ calls' = Without(i) /\ UNCHANGED view

PickCore(core) ==
    /\ view.form # None /\ core \in view.form.cores \ {view.form.core}
    /\ view' = [view EXCEPT !.form.core = core, !.form.listed = None]
    /\ calls' = AskVersions(calls, core)
    /\ UNCHANGED <<apiVars, host>>

\* The newest release of the list is picked; with no list one is typed.
SettleVersions(i) ==
    \/ /\ Replied(i, "versions")
       /\ view' = [view EXCEPT !.form.listed = At(i).val, !.form.version = At(i).val]
       /\ calls' = Without(i)
    \/ /\ Failed(i, "versions")
       /\ calls' = Without(i)
       /\ UNCHANGED view

\* The field a version is typed in is there while no list is.
TypeVersion ==
    /\ view.form # None /\ view.form.listed = None
    /\ view' = [view EXCEPT !.form.version = view.form.core]
    /\ UNCHANGED <<apiVars, host, calls>>

\* handleSubmit; both selects and the eula are filled in.
Submit ==
    /\ view.form # None /\ ~view.form.busy /\ view.form.version # None
    /\ Ask("save", "createServer",
           [core |-> view.form.core, version |-> view.form.version])
    /\ view' = [view EXCEPT !.form.busy = TRUE]
    /\ UNCHANGED <<apiVars, host>>

\* onCreated closes whatever form is open by then: the one that was cancelled
\* while its call was in flight may have been followed by another.
SettleSubmit(i) ==
    \/ /\ Replied(i, "save") \/ Replied(i, "orphan")
       /\ view' = [view EXCEPT !.form = None]
       /\ calls' = Reload(CloseForm(Without(i)))
    \/ /\ Failed(i, "save")
       /\ view' = [view EXCEPT !.form.busy = FALSE]
       /\ calls' = Without(i)
    \/ Failed(i, "orphan") /\ calls' = Without(i) /\ UNCHANGED view

-----------------------------------------------------------------------------
Settle(i) ==
    /\ SettleReload(i) \/ SettlePower(i) \/ SettleCores(i) \/ SettleVersions(i) \/ SettleSubmit(i)
    /\ UNCHANGED <<token, host>>

User ==
    \/ \E id \in Ids, action \in Powers : Power(id, action)
    \/ ToggleForm
    \/ \E core \in Cores : PickCore(core)
    \/ TypeVersion
    \/ Submit

Next == User \/ Tick \/ HostMoves

\* What is listed is of the core chosen, and so is the version picked from it.
VersionsBelong ==
    (view.form # None /\ view.form.listed # None)
        => view.form.listed = view.form.core /\ view.form.version = view.form.core
=============================================================================
