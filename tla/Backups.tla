------------------------------- MODULE Backups --------------------------------
(***************************************************************************)
(* internal/api/backups.go, internal/backup and the backup action of        *)
(* internal/api/schedules.go: the backups of one server, which stays and   *)
(* has a backup schedule that is enabled.                                  *)
(*                                                                         *)
(* A backup is a row in the database and a zip on disk, and nothing makes  *)
(* one step of the two.  Requests, the clock of the backup schedule and    *)
(* chains of the general scheduler all create backups; each is archived by *)
(* runBackup, in a task with a deadline: once that has passed, statements  *)
(* made with the task's context fail.  Backups are numbered in the order   *)
(* of their rows.  A statement of the database is one step, and fails only *)
(* when its context is over.                                               *)
(***************************************************************************)
EXTENDS Naturals, FiniteSets

CONSTANTS
    Handlers,   \* goroutines of requests that create or delete a backup
    Keep,       \* keep_last of the backup schedule
    MayBeLate,  \* whether the deadline of a task may pass
    MaxBackups, \* bound: backups
    MaxSlots,   \* bound: times the backup schedule comes due
    MaxBoots    \* bound: times the daemon dies

Ids == 1..MaxBackups

ASSUME BackupsAssumption ==
    /\ Keep \in Nat \ {0} /\ MayBeLate \in BOOLEAN
    /\ MaxBackups \in Nat /\ MaxSlots \in Nat /\ MaxBoots \in Nat

VARIABLES
    row,        \* the state column of each backup; "none" before, "deleted" after the row
    zip,        \* its archive: "stuck" if a delete request could not remove it
    finished,   \* history: the backups that were ever done
    job,        \* where runBackup is
    late,       \* the deadline of its task has passed
    stale,      \* what pruneBackups still has to delete
    req, arg,   \* each request: where it is, and the backup it deletes
    slots,      \* how many times the schedule has come due
    marked,     \* the last of them that last_run_at covers
    tick,       \* where the ticker is
    fired,      \* history: scheduled backups
    restore, from, \* where a restore is, and of which backup
    world,      \* the server's directory: "cut" once a restore was interrupted
    up, saving, \* the server is active; it writes the world out by itself
    boots

recordVars == <<row, zip, finished>>
jobVars == <<job, late, stale>>
reqVars == <<req, arg>>
tickVars == <<slots, marked, tick, fired>>
restoreVars == <<restore, from, world>>
serverVars == <<up, saving>>
vars == <<recordVars, jobVars, reqVars, tickVars, restoreVars, serverVars, boots>>

Unsettled == {"pending", "running"}
Jobs == {"none", "begin", "archive", "finish", "prune", "pruneFile", "pruneRow", "resume", "over"}

TypeOK ==
    /\ row \in [Ids -> Unsettled \cup {"none", "done", "failed", "deleted"}]
    /\ zip \in [Ids -> {"absent", "present", "stuck"}]
    /\ finished \subseteq Ids
    /\ job \in [Ids -> Jobs] /\ late \in [Ids -> BOOLEAN]
    /\ stale \in [Ids -> SUBSET Ids]
    /\ req \in [Handlers -> {"idle", "create", "file", "row"}]
    /\ arg \in [Handlers -> Ids \cup {0}]
    /\ slots \in 0..MaxSlots /\ marked \in 0..slots
    /\ tick \in {"idle", "create"} /\ fired \in Nat
    /\ restore \in {"idle", "open", "unpack"} /\ from \in Ids \cup {0}
    /\ world \in {"whole", "partial", "cut"}
    /\ up \in BOOLEAN /\ saving \in BOOLEAN
    /\ boots \in 0..MaxBoots

Init ==
    /\ row = [b \in Ids |-> "none"] /\ zip = [b \in Ids |-> "absent"]
    /\ finished = {}
    /\ job = [b \in Ids |-> "none"] /\ late = [b \in Ids |-> FALSE]
    /\ stale = [b \in Ids |-> {}]
    /\ req = [h \in Handlers |-> "idle"] /\ arg = [h \in Handlers |-> 0]
    /\ slots = 0 /\ marked = 0 /\ tick = "idle" /\ fired = 0
    /\ restore = "idle" /\ from = 0 /\ world = "whole"
    /\ up = FALSE /\ saving = TRUE
    /\ boots = 0

-----------------------------------------------------------------------------
(* The rows *)

\* RunningFor: some backup of the server is pending or running.
RunningFor == \E b \in Ids : row[b] \in Unsettled

Unused(b) == row[b] = "none" /\ \A c \in Ids : c < b => row[c] # "none"

\* A new row, pending, and runBackup about to begin.
Create(b) ==
    /\ Unused(b)
    /\ row' = [row EXCEPT ![b] = "pending"]
    /\ job' = [job EXCEPT ![b] = "begin"]
    /\ UNCHANGED <<zip, finished, late, stale>>

\* An UPDATE with the context of b's task.
SetState(b, s) == row' = [row EXCEPT ![b] = IF late[b] THEN @ ELSE s]

-----------------------------------------------------------------------------
(* runBackup *)

Goes(b, at, to) == job[b] = at /\ job' = [job EXCEPT ![b] = to]

\* Without its first statement the backup is not begun, and nothing is deferred.
BeginLate(b) ==
    /\ Goes(b, "begin", "over")
    /\ late[b]
    /\ UNCHANGED <<recordVars, late, stale, reqVars, tickVars, restoreVars, serverVars, boots>>

\* The row says running; a server that is active is sent save-off and save-all.
Begin(b) ==
    /\ Goes(b, "begin", "archive")
    /\ ~late[b]
    /\ SetState(b, "running")
    /\ saving' = (saving /\ ~up)
    /\ UNCHANGED <<zip, finished, late, stale, reqVars, tickVars, restoreVars, up, boots>>

\* Manager.Create: the walk looks at the context, the rename puts the archive in place.
ArchiveDone(b) ==
    /\ Goes(b, "archive", "finish")
    /\ ~late[b]
    /\ zip' = [zip EXCEPT ![b] = "present"]
    /\ UNCHANGED <<row, finished, late, stale, reqVars, tickVars, restoreVars, serverVars, boots>>

\* Mutant: a failure leaves the row as it is.
ArchiveFailsQuietly(b) ==
    /\ Goes(b, "archive", "resume")
    /\ UNCHANGED <<recordVars, late, stale, reqVars, tickVars, restoreVars, serverVars, boots>>

\* Late, or any other error: the temporary file is removed and the row says so.
ArchiveFails(b) ==
    /\ Goes(b, "archive", "resume")
    /\ SetState(b, "failed")
    /\ UNCHANGED <<zip, finished, late, stale, reqVars, tickVars, restoreVars, serverVars, boots>>

Finish(b) ==
    /\ Goes(b, "finish", IF late[b] THEN "resume" ELSE "prune")
    /\ SetState(b, "done")
    /\ finished' = IF late[b] THEN finished ELSE finished \cup {b}
    /\ UNCHANGED <<zip, late, stale, reqVars, tickVars, restoreVars, serverVars, boots>>

\* BackupRepo.Prune: the rows beyond the newest Keep.
Beyond(rows) == {b \in rows : Cardinality({c \in rows : c > b}) >= Keep}

\* Mutant: every row counts towards the limit, whatever its state.
StaleOfAll == {b \in Beyond({c \in Ids : row[c] \notin {"none", "deleted"}}) : row[b] = "done"}

Stale == Beyond({b \in Ids : row[b] = "done"})

\* What b's prune has left to delete, and where that takes it.
Prunes(b, at, left) ==
    /\ Goes(b, at, IF left = {} THEN "resume" ELSE "pruneFile")
    /\ stale' = [stale EXCEPT ![b] = left]

PruneList(b) ==
    /\ Prunes(b, "prune", IF late[b] THEN {} ELSE Stale)
    /\ UNCHANGED <<recordVars, late, reqVars, tickVars, restoreVars, serverVars, boots>>

\* The list is in the order of ListByServer, the newest first.
NextStale(b) == CHOOSE s \in stale[b] : \A t \in stale[b] : t <= s

PruneFile(b) ==
    /\ Goes(b, "pruneFile", "pruneRow")
    /\ zip' = [zip EXCEPT ![NextStale(b)] = "absent"]
    /\ UNCHANGED <<row, finished, late, stale, reqVars, tickVars, restoreVars, serverVars, boots>>

\* Mutant: an archive that cannot be removed is taken for removed.
PruneFileFailsQuietly(b) ==
    /\ Goes(b, "pruneFile", "pruneRow")
    /\ UNCHANGED <<recordVars, late, stale, reqVars, tickVars, restoreVars, serverVars, boots>>

\* An archive that cannot be removed keeps its row.
PruneFileFails(b) ==
    /\ Prunes(b, "pruneFile", stale[b] \ {NextStale(b)})
    /\ zip[NextStale(b)] # "absent"
    /\ UNCHANGED <<recordVars, late, reqVars, tickVars, restoreVars, serverVars, boots>>

PruneRow(b) ==
    /\ Prunes(b, "pruneRow", stale[b] \ {NextStale(b)})
    /\ row' = [row EXCEPT ![NextStale(b)] = IF late[b] THEN @ ELSE "deleted"]
    /\ UNCHANGED <<zip, finished, late, reqVars, tickVars, restoreVars, serverVars, boots>>

\* Mutant: the deferred call looks at the deadline.
ResumeSavingInTime(b) ==
    /\ Goes(b, "resume", "over")
    /\ saving' = (saving \/ (up /\ ~late[b]))
    /\ UNCHANGED <<recordVars, late, stale, reqVars, tickVars, restoreVars,
                   up, boots>>

\* save-on, to a server that is active.
ResumeSaving(b) ==
    /\ Goes(b, "resume", "over")
    /\ saving' = (saving \/ up)
    /\ UNCHANGED <<recordVars, late, stale, reqVars, tickVars, restoreVars,
                   up, boots>>

\* TaskTimeout.
Deadline(b) ==
    /\ MayBeLate
    /\ job[b] \notin {"none", "over"}
    /\ ~late[b]
    /\ late' = [late EXCEPT ![b] = TRUE]
    /\ UNCHANGED <<recordVars, job, stale, reqVars, tickVars, restoreVars, serverVars, boots>>

-----------------------------------------------------------------------------
(* Requests *)

CreateCheck(h) ==
    /\ req[h] = "idle"
    /\ ~RunningFor
    /\ req' = [req EXCEPT ![h] = "create"]
    /\ UNCHANGED <<recordVars, jobVars, arg, tickVars, restoreVars,
                   serverVars, boots>>

Answer(h) ==
    /\ req' = [req EXCEPT ![h] = "idle"]
    /\ arg' = [arg EXCEPT ![h] = 0]

CreateRow(h) ==
    /\ req[h] = "create"
    /\ \E b \in Ids : Create(b)
    /\ Answer(h)
    /\ UNCHANGED <<tickVars, restoreVars, serverVars, boots>>

\* handleDeleteBackup reads the row.
DeleteCheck(h, b) ==
    /\ req[h] = "idle"
    /\ row[b] \in {"done", "failed"}
    /\ req' = [req EXCEPT ![h] = "file"]
    /\ arg' = [arg EXCEPT ![h] = b]
    /\ UNCHANGED <<recordVars, jobVars, tickVars, restoreVars, serverVars, boots>>

\* An archive that cannot be removed does not save the row.
DeleteFile(h) ==
    /\ req[h] = "file"
    /\ \/ zip' = [zip EXCEPT ![arg[h]] = "absent"]
       \/ zip' = [zip EXCEPT ![arg[h]] = IF @ = "absent" THEN @ ELSE "stuck"]
    /\ req' = [req EXCEPT ![h] = "row"]
    /\ UNCHANGED <<row, finished, jobVars, arg, tickVars, restoreVars,
                   serverVars, boots>>

DeleteRow(h) ==
    /\ req[h] = "row"
    /\ row' = [row EXCEPT ![arg[h]] = "deleted"]
    /\ Answer(h)
    /\ UNCHANGED <<zip, finished, jobVars, tickVars, restoreVars,
                   serverVars, boots>>

\* The client hangs up, and the statement that is next fails.
HangsUp(h) ==
    /\ req[h] \in {"create", "row"}
    /\ Answer(h)
    /\ UNCHANGED <<recordVars, jobVars, tickVars, restoreVars, serverVars, boots>>

-----------------------------------------------------------------------------
(* The backup schedule: one ticker *)

SlotPasses ==
    /\ slots < MaxSlots
    /\ slots' = slots + 1
    /\ UNCHANGED <<recordVars, jobVars, reqVars, marked, tick, fired,
                   restoreVars, serverVars, boots>>

\* Mutant: the run is not recorded.
FireDueBackupsForgets ==
    /\ tick = "idle"
    /\ marked < slots
    /\ ~RunningFor
    /\ tick' = "create"
    /\ UNCHANGED <<recordVars, jobVars, reqVars, slots, marked, fired, restoreVars,
                   serverVars, boots>>

\* Mutant: the next run is recorded instead of this one.
FireDueBackupsAhead ==
    /\ tick = "idle"
    /\ marked < slots
    /\ ~RunningFor
    /\ tick' = "create"
    /\ marked' = slots + 1
    /\ UNCHANGED <<recordVars, jobVars, reqVars, slots, fired, restoreVars,
                   serverVars, boots>>

\* fireDueBackups, and startScheduledBackup as far as MarkScheduleRun, recorded before
\* the work starts.  Slots that have passed meanwhile are taken together.
FireDueBackups ==
    /\ tick = "idle"
    /\ marked < slots
    /\ ~RunningFor
    /\ tick' = "create"
    /\ marked' = slots
    /\ UNCHANGED <<recordVars, jobVars, reqVars, slots, fired, restoreVars,
                   serverVars, boots>>

TickCreate ==
    /\ tick = "create"
    /\ \E b \in Ids : Create(b)
    /\ tick' = "idle"
    /\ fired' = fired + 1
    /\ UNCHANGED <<reqVars, slots, marked, restoreVars, serverVars, boots>>

-----------------------------------------------------------------------------
(* The chains of the scheduler *)

\* ActionBackup asks nobody whether a backup is running, and archives in the chain's
\* task.
ChainBackup ==
    /\ \E b \in Ids : Create(b)
    /\ UNCHANGED <<reqVars, tickVars, restoreVars, serverVars, boots>>

-----------------------------------------------------------------------------
(* Restore *)

\* handleRestoreBackup checks; the work is a task's.
RestoreCheck(b) ==
    /\ restore = "idle"
    /\ row[b] = "done"
    /\ ~up
    /\ restore' = "open"
    /\ from' = b
    /\ UNCHANGED <<recordVars, jobVars, reqVars, tickVars, world,
                   serverVars, boots>>

\* Mutant: the directory is cleared before the archive is opened.
RestoreOpenClears ==
    /\ restore = "open"
    /\ world' = "partial"
    /\ restore' = IF zip[from] # "absent" THEN "unpack" ELSE "idle"
    /\ from' = 0
    /\ UNCHANGED <<recordVars, jobVars, reqVars, tickVars,
                   serverVars, boots>>

\* The archive is opened, and then the directory cleared.
RestoreOpen ==
    /\ restore = "open"
    /\ IF zip[from] # "absent"
       THEN restore' = "unpack" /\ world' = "partial"
       ELSE restore' = "idle" /\ UNCHANGED world
    /\ from' = 0
    /\ UNCHANGED <<recordVars, jobVars, reqVars, tickVars,
                   serverVars, boots>>

RestoreDone ==
    /\ restore = "unpack"
    /\ restore' = "idle"
    /\ world' = "whole"
    /\ UNCHANGED <<recordVars, jobVars, reqVars, tickVars, from,
                   serverVars, boots>>

\* A deadline or an error between two entries.
RestoreFails ==
    /\ restore = "unpack"
    /\ restore' = "idle"
    /\ world' = "cut"
    /\ UNCHANGED <<recordVars, jobVars, reqVars, tickVars, from, serverVars, boots>>

-----------------------------------------------------------------------------
(* The server and the daemon *)

\* A process starts out saving, and takes its setting with it.
ServerStartsOrEnds ==
    /\ up' = ~up
    /\ saving' = TRUE
    /\ UNCHANGED <<recordVars, jobVars, reqVars, tickVars, restoreVars, boots>>

\* Rows, archives and half a world stay; the tasks and requests are gone, and so is what
\* an archive not yet renamed was worth.
DaemonDies ==
    /\ boots < MaxBoots
    /\ boots' = boots + 1
    /\ job' = [b \in Ids |-> "none"] /\ late' = [b \in Ids |-> FALSE]
    /\ stale' = [b \in Ids |-> {}]
    /\ req' = [h \in Handlers |-> "idle"] /\ arg' = [h \in Handlers |-> 0]
    /\ tick' = "idle"
    /\ restore' = "idle" /\ from' = 0
    /\ world' = IF restore = "unpack" THEN "cut" ELSE world
    /\ up' = FALSE /\ saving' = TRUE
    /\ UNCHANGED <<recordVars, slots, marked, fired>>

-----------------------------------------------------------------------------
RunBackup(b) ==
    \/ BeginLate(b) \/ Begin(b) \/ ArchiveDone(b) \/ ArchiveFails(b) \/ Finish(b)
    \/ PruneList(b) \/ PruneFile(b) \/ PruneFileFails(b) \/ PruneRow(b)
    \/ ResumeSaving(b)

Request(h) ==
    \/ CreateCheck(h) \/ CreateRow(h)
    \/ (\E b \in Ids : DeleteCheck(h, b)) \/ DeleteFile(h) \/ DeleteRow(h)
    \/ HangsUp(h)

Ticker == FireDueBackups \/ TickCreate

Restore == RestoreOpen \/ RestoreDone \/ RestoreFails

Next ==
    \/ \E b \in Ids : RunBackup(b) \/ Deadline(b) \/ RestoreCheck(b)
    \/ \E h \in Handlers : Request(h)
    \/ SlotPasses \/ Ticker
    \/ ChainBackup
    \/ Restore
    \/ ServerStartsOrEnds \/ DaemonDies

\* Tasks run and the ticker ticks; nothing makes a request or a chain begin, a
\* deadline pass, or the server start or end.
Fairness ==
    /\ \A b \in Ids : WF_vars(RunBackup(b))
    /\ WF_vars(Ticker)
    /\ WF_vars(Restore)

Spec == Init /\ [][Next]_vars
FairSpec == Spec /\ Fairness

-----------------------------------------------------------------------------
(* What is checked *)

\* No archive takes up the disk without a row to find it by, whoever deletes what and
\* wherever the daemon dies, save one that a delete request could not remove.
ArchiveHasRow == \A b \in Ids : row[b] \in {"none", "deleted"} => zip[b] # "present"

\* Retention never reaches into the newest Keep: what a prune has on its list was
\* followed by that many backups that were done, also when they finish, fail or are
\* deleted around it.
PruneSparesNewest ==
    \A b \in Ids : \A s \in stale[b] : Cardinality({c \in finished : c > s}) >= Keep

\* A slot of the schedule is taken at most once, also across a crash.
FiredOnce == fired <= marked

\* A row in flight, which refuses every other backup, has a task at work on it,
\* unless that was late or the daemon died.
InFlightIsWorkedOn ==
    \A b \in Ids :
        row[b] \in Unsettled => job[b] \notin {"none", "over"} \/ late[b] \/ boots > 0

\* The world is whole or being restored, unless a restore was interrupted: an
\* archive that is gone by the time the task runs costs nothing.
RestoreAllOrNothing == world = "partial" => restore = "unpack"

\* "This must run whatever happened above" (resumeSaving): the server has stopped saving
\* only while a backup is at work that will turn it on again.
SavingComesBack == ~saving => \E b \in Ids : job[b] \notin {"none", "begin", "over"}

-----------------------------------------------------------------------------
(* What the repository says of the backups, and the code does not keep *)

Room == \E b \in Ids : Unused(b)

\* fireDueBackups (backups.go:529): "a daemon that was down over a scheduled time takes
\* the backup once on the next tick".  The row of a backup that the daemon took down
\* with it says running for good, and no backup is taken ever again.  (Room: the bound.)
MissedSlotIsTaken == marked < slots /\ Room ~> marked = slots \/ ~Room
=============================================================================
