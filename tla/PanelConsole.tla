---------------------------- MODULE PanelConsole ----------------------------
(***************************************************************************)
(* web/src/pages/ServerDetail.tsx: one server, its status, its power       *)
(* buttons and its console.                                                *)
(*                                                                         *)
(* The status comes two ways, from a poll every five seconds and over the  *)
(* console's WebSocket, and decides itself whether there is a socket.      *)
(*                                                                         *)
(* view: the status drawn, None until one came.                            *)
(* host: the status of the server, None once it is deleted.                *)
(* sockets: those the tab has neither closed nor lost, the one socketRef   *)
(* points at last; `news` is the status on its way to the page, and one    *)
(* that is "ended" is told nothing any more, which the page does not know. *)
(*                                                                         *)
(* Left out: the lines, the metrics, the text of the command, the badge    *)
(* of the connection.  ConsoleSocket is the other end.                     *)
(***************************************************************************)
EXTENDS PanelApi

VARIABLE sockets

Found == [status : {"stopped", "running"}]

Opening == [status |-> None]

FirstCalls(cs) == Add(cs, "reload", Call("getServer", None))

Types ==
    /\ view \in [status : Statuses \cup {None}]
    /\ host.status \in Statuses \cup {None}

SocketType ==
    sockets \in Seq([st : {"connecting", "open", "ended"}, news : Statuses \cup {None}])

\* consoleAvailable.
Available(status) == status \in Live

-----------------------------------------------------------------------------
(* The effect on [consoleAvailable].                                       *)

\* Its cleanup: close() for the socket there is, `closed` for one to come.
CloseRef == IF sockets = <<>> THEN <<>> ELSE RemoveAt(sockets, Len(sockets))

Closed(cs) == Rename(cs, "connect", "closed")

\* The page draws a status; cs stays in flight, the sockets stay as ss.
Draw(status, cs, ss) ==
    LET was == Available(view.status)
        is == Available(status)
    IN  /\ view' = [status |-> status]
        /\ sockets' = IF was /\ ~is THEN CloseRef ELSE ss
        /\ calls' = CASE ~was /\ is -> Add(cs, "connect", Call("consoleTicket", None))
                      [] was /\ ~is -> Closed(cs)
                      [] OTHER      -> cs

-----------------------------------------------------------------------------
(* The daemon.                                                             *)

\* Every open socket is told of a status; one not read yet is replaced.  The
\* one of a server that stops is the last.
Phase(status) == IF status \in Live THEN "open" ELSE "ended"

Tell(status) ==
    sockets' = [n \in DOMAIN sockets |->
                  IF sockets[n].st = "open" THEN [st |-> Phase(status), news |-> status]
                                            ELSE sockets[n]]

ServeDelete(i) ==
    /\ Asked(i, "deleteServer")
    /\ IF host.status = None THEN Reject(i) ELSE Answer(i, None)
    /\ host' = [status |-> None]
    /\ Tell("stopped")

ServeOther(i) ==
    /\ \/ /\ Asked(i, "getServer")
          /\ IF host.status = None THEN Reject(i) ELSE Answer(i, host.status)
       \/ /\ Asked(i, "consoleTicket")
          /\ IF host.status = None THEN Reject(i) ELSE Answer(i, None)
       \/ (Asked(i, "power") \/ Asked(i, "sendCommand")) /\ Answer(i, None)
    /\ UNCHANGED <<host, sockets>>

Serve(i) ==
    /\ ServeDelete(i) \/ ServeOther(i)
    /\ UNCHANGED <<apiVars, view>>

HostMoves ==
    /\ \E status \in Becomes(host.status) : host' = [status |-> status] /\ Tell(status)
    /\ UNCHANGED <<apiVars, view, calls>>

-----------------------------------------------------------------------------
(* The sockets.                                                            *)

\* The upgrade; the daemon sends the status of a server that runs at once, and
\* closes the socket of one that does not.
Opens(n) ==
    /\ sockets[n].st = "connecting"
    /\ sockets' = [sockets EXCEPT ![n] =
                     [st   |-> Phase(host.status),
                      news |-> IF host.status \in Live THEN host.status ELSE None]]
    /\ UNCHANGED <<apiVars, view, host, calls>>

\* onmessage, a status frame.
Hears(n) ==
    /\ sockets[n].news # None
    /\ view.status # None
    /\ Draw(sockets[n].news, calls, [sockets EXCEPT ![n].news = None])
    /\ UNCHANGED <<apiVars, host>>

\* onclose: the daemon was done with it, and the last status may have been lost
\* to that; or it breaks.  Nothing opens another while the page still draws a
\* server that runs.
Ends(n) ==
    /\ \/ sockets[n].st = "ended" /\ UNCHANGED faults
       \/ faults < MaxFaults /\ faults' = faults + 1
    /\ sockets' = RemoveAt(sockets, n)
    /\ UNCHANGED <<token, view, host, calls>>

-----------------------------------------------------------------------------
(* The page.                                                               *)

\* Mutant: the socket is trusted with the status once there was one.
TickUntilDrawn ==
    /\ Room /\ view.status = None
    /\ calls' = Add(calls, "reload", Call("getServer", None))
    /\ UNCHANGED <<apiVars, view, host, sockets>>

\* setInterval.
Tick ==
    /\ Room
    /\ calls' = Add(calls, "reload", Call("getServer", None))
    /\ UNCHANGED <<apiVars, view, host, sockets>>

SettleReload(i) ==
    \/ Replied(i, "reload") /\ Draw(At(i).val, Without(i), sockets)
    \/ Failed(i, "reload") /\ calls' = Without(i) /\ UNCHANGED <<view, sockets>>

\* Mutant: `closed` is not looked at once the ticket came.
ConnectAnyway(i) ==
    /\ \/ /\ Replied(i, "connect") \/ Replied(i, "closed")
          /\ sockets' = Append(sockets, [st |-> "connecting", news |-> None])
       \/ (Failed(i, "connect") \/ Failed(i, "closed")) /\ UNCHANGED sockets
    /\ calls' = Without(i)
    /\ UNCHANGED view

\* connect, once there is a ticket: the effect may be over by then, and the
\* socket is closed again.
SettleConnect(i) ==
    /\ \/ Replied(i, "connect") /\ sockets' = Append(sockets, [st |-> "connecting", news |-> None])
       \/ (Failed(i, "connect") \/ Ended(i, "closed")) /\ UNCHANGED sockets
    /\ calls' = Without(i)
    /\ UNCHANGED view

\* The buttons: restart, stop and kill, or start.
Offers(action) ==
    /\ view.status # None
    /\ (action = "start") <=> (view.status \notin {"running", "starting"})

\* handlePower: no button waits for another, and whether the daemon refuses is
\* only worded.
Power(action) ==
    /\ Offers(action)
    /\ Ask("change", "power", None)
    /\ UNCHANGED <<apiVars, view, host, sockets>>

\* handleCommand, without a socket that is open; with one it is sent there.
Command ==
    /\ view.status # None
    /\ \A n \in DOMAIN sockets : sockets[n].st = "connecting"
    /\ Ask("change", "sendCommand", None)
    /\ UNCHANGED <<apiVars, view, host, sockets>>

\* handleDelete, once the name is typed.
Delete ==
    /\ view.status # None
    /\ Ask("delete", "deleteServer", None)
    /\ UNCHANGED <<apiVars, view, host, sockets>>

\* These change nothing here; the success of a delete is Panel's.
SettleOther(i) ==
    /\ Ended(i, "change") \/ Failed(i, "delete")
    /\ calls' = Without(i)
    /\ UNCHANGED <<view, sockets>>

Settle(i) ==
    /\ SettleReload(i) \/ SettleConnect(i) \/ SettleOther(i)
    /\ UNCHANGED <<token, host>>

Next ==
    \/ Tick \/ Command \/ Delete \/ HostMoves
    \/ \E action \in Powers : Power(action)
    \/ \E n \in DOMAIN sockets : Opens(n) \/ Hears(n) \/ Ends(n)
=============================================================================
