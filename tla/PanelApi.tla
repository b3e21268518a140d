------------------------------ MODULE PanelApi ------------------------------
(***************************************************************************)
(* web/src/lib/api.ts: every call the panel makes of the daemon.           *)
(*                                                                         *)
(* The panel is one browser tab.  A page asks for something, goes on       *)
(* drawing, and the handler that asked resumes when the answer settles:    *)
(* `calls` is what is in flight, for each handler that awaits something    *)
(* its calls, the oldest first.  A call is the operation and what it       *)
(* names, the token it was sent with until it is answered, and its answer. *)
(* Answers come in any order.  A call that fails may have failed on its    *)
(* way there or on its way back.                                           *)
(*                                                                         *)
(* `view` is the state of the page that is open and `host` what the daemon *)
(* knows about the same things; each page module says what is in both.     *)
(***************************************************************************)
EXTENDS Naturals, FiniteSets, Sequences

CONSTANTS None,      \* null, undefined: no value
          MaxCalls,  \* bound: the user and the timers ask only below this
          MaxFaults  \* bound: calls that fail on the way

ASSUME ApiAssumption == MaxCalls \in Nat \ {0} /\ MaxFaults \in Nat

VARIABLES
    page,     \* the route that is drawn; "login" is one
    token,    \* what localStorage keeps
    view, host, calls,
    faults    \* calls that failed so far

apiVars == <<token, faults>>

\* A token that the daemon takes no more, whichever it was.
Revoked == 0

(***************************************************************************)
(* The operations, by what their method is: a GET, or one that changes     *)
(* something.  uploadFile, downloadFile and downloadBackup go around       *)
(* request() with the same token and the same errors.                      *)
(***************************************************************************)
AuthCalls == [reads |-> {"me"}, writes |-> {"login", "logout", "updateMe"}]

ServerCalls == [reads  |-> {"listServers", "getServer", "getTask"},
                writes |-> {"createServer", "deleteServer", "power"}]

\* consoleSocket is the ticket and then the WebSocket made with it.
ConsoleCalls == [reads |-> {"consoleHistory"}, writes |-> {"sendCommand", "consoleTicket"}]

FileCalls ==
    [reads  |-> {"listFiles", "readFile", "downloadFile"},
     writes |-> {"writeFile", "deleteFile", "makeDirectory", "movePath", "unarchive",
                 "uploadFile"}]

PropertyCalls == [reads |-> {"getSettings"}, writes |-> {"patchSettings"}]

BackupCalls ==
    [reads  |-> {"listBackups", "getBackupSchedule", "downloadBackup"},
     writes |-> {"createBackup", "deleteBackup", "restoreBackup", "putBackupSchedule"}]

AdminCalls == [reads  |-> {"listUsers"},
               writes |-> {"patchServer", "createUser", "patchUser", "deleteUser"}]

CatalogCalls ==
    [reads  |-> {"serverContent", "searchCatalog", "catalogProject", "listInstalled"},
     writes |-> {"installAddon"}]

ConnectCalls ==
    [reads  |-> {"serverConnect"},
     writes |-> {"enableRelay", "disableRelay", "forwardPort", "unforwardPort"}]

InstalledCalls == [reads  |-> {"serverModpack"},
                   writes |-> {"installModpack", "toggleInstalled", "deleteInstalled"}]

ThemeCalls == [reads  |-> {"listBuiltinThemes", "listCustomThemes"},
               writes |-> {"createCustomTheme", "updateCustomTheme", "deleteCustomTheme"}]

TokenCalls == [reads |-> {"listTokens"}, writes |-> {"createApiToken", "deleteApiToken"}]

BotCalls == [reads |-> {"listBots"}, writes |-> {"saveBot", "deleteBot"}]

LinkCalls == [reads  |-> {"listIntegrations"},
              writes |-> {"createLinkCode", "unlinkIntegration"}]

CoreCalls == [reads |-> {"listCores", "listCoreVersions"}, writes |-> {}]

Api == {AuthCalls, ServerCalls, ConsoleCalls, FileCalls, PropertyCalls, BackupCalls,
        AdminCalls, CatalogCalls, ConnectCalls, InstalledCalls, ThemeCalls, TokenCalls,
        BotCalls, LinkCalls, CoreCalls}

Operations == UNION {section.reads \cup section.writes : section \in Api}

-----------------------------------------------------------------------------
\* request(): the token is read when the call is made.
Call(op, arg) == [op |-> op, arg |-> arg, tok |-> token, st |-> "sent", val |-> None]

InFlight == UNION {{h} \X DOMAIN calls[h] : h \in DOMAIN calls}

Room == Cardinality(InFlight) < MaxCalls

At(i) == calls[i[1]][i[2]]

Put(cs, h, queue) ==
    [k \in (DOMAIN cs \ {h}) \cup (IF queue = <<>> THEN {} ELSE {h}) |->
       IF k = h THEN queue ELSE cs[k]]

Queue(cs, h) == IF h \in DOMAIN cs THEN cs[h] ELSE <<>>

Add(cs, h, call) == Put(cs, h, Append(Queue(cs, h), call))

Ask(h, op, arg) == Room /\ calls' = Add(calls, h, Call(op, arg))

\* As in SequencesExt, all of which every page that Panel instantiates would
\* bring into every proof.
RemoveAt(queue, n) == SubSeq(queue, 1, n - 1) \o SubSeq(queue, n + 1, Len(queue))

Without(i) == Put(calls, i[1], RemoveAt(calls[i[1]], i[2]))

\* The calls whose answer the page would ignore are forgotten: an effect's
\* `cancelled`, a sequence number passed on, a component that is gone.
Forget(cs, handlers) == [h \in DOMAIN cs \ handlers |-> cs[h]]

\* What h awaits is from here on awaited by another instance of it.
Rename(cs, h, as) == Put(Put(cs, h, <<>>), as, Queue(cs, as) \o Queue(cs, h))

-----------------------------------------------------------------------------
\* The daemon's half of a call.
Accepted(tok) == tok \notin {None, Revoked}

Asked(i, op) ==
    /\ At(i).op = op
    /\ At(i).st = "sent"
    /\ Accepted(At(i).tok)

Update(i, call) == calls' = [calls EXCEPT ![i[1]][i[2]] = call]

Answered(call, st, val) == [call EXCEPT !.st = st, !.val = val, !.tok = None]

Answer(i, val) == Update(i, Answered(At(i), "ok", val))

Reject(i) == Update(i, Answered(At(i), "err", None))

\* 401: the token is no session's.
Unauthorized(i) ==
    /\ At(i).st = "sent"
    /\ At(i).op # "login"
    /\ ~Accepted(At(i).tok)
    /\ Reject(i)
    /\ UNCHANGED <<apiVars, view, host>>

\* The page's half: the promise is settled and the handler goes on.  A call
\* that is not refused may still be lost, and so may the answer to it.
Replied(i, h) == i[1] = h /\ At(i).st = "ok" /\ UNCHANGED faults

Got(i, h, op) == Replied(i, h) /\ At(i).op = op

Failed(i, h) ==
    /\ i[1] = h
    /\ \/ At(i).st = "err" /\ UNCHANGED faults
       \/ At(i).st # "err" /\ faults < MaxFaults /\ faults' = faults + 1

Ended(i, h) == Replied(i, h) \/ Failed(i, h)

-----------------------------------------------------------------------------
\* What a server is.  One that crashed is told apart from a stopped one by its
\* badge alone.
Statuses == {"creating", "stopped", "starting", "running", "stopping"}

Live == {"starting", "running", "stopping"}

\* Where the daemon takes a server: a task, a schedule, another user, a crash.
Becomes(status) ==
    CASE status = "creating" -> {"stopped"}
      [] status = "stopped"  -> {"starting"}
      [] status = "starting" -> {"running", "stopped"}
      [] status = "running"  -> {"stopping", "stopped"}
      [] status = "stopping" -> {"stopped"}
      [] OTHER               -> {}

Powers == {"start", "stop", "restart", "kill"}
=============================================================================
