----------------------------- MODULE PanelFiles -----------------------------
(***************************************************************************)
(* web/src/pages/ServerFiles.tsx: one directory of a server, its rows and  *)
(* an editor in their place.                                               *)
(*                                                                         *)
(* view: the directory (`dir`), the directory the rows are of (None while  *)
(* none were read), the flag `loading` that hides them, the file in the    *)
(* editor (where it is and which file its text came from) and `saving`.    *)
(* host: nothing; a directory is told apart by its place alone, and the    *)
(* reads that fail are those that are lost.                                *)
(*                                                                         *)
(* Left out: names, sorting, sizes, the banners.                           *)
(***************************************************************************)
EXTENDS PanelApi

CONSTANTS Dirs,      \* the directories, Root among them
          Root,
          MaxUpload  \* bound: files chosen at once

Found == {None}

Opening == [dir |-> Root, of |-> None, loading |-> TRUE, editing |-> None, saving |-> FALSE]

\* load(target), which several handlers call and nobody waits for.
Load(cs, target) == Add(cs, "reload", Call("listFiles", target))

FirstCalls(cs) == Load(cs, Root)

Text == [path : Dirs, content : Dirs]

Types ==
    view \in [dir : Dirs, of : Dirs \cup {None}, loading : BOOLEAN,
              editing : Text \cup {None}, saving : BOOLEAN]

Waits == view.saving

\* A name taken, what is gone meanwhile, an archive that is broken are refused.
Serve(i) ==
    /\ At(i).op \in FileCalls.reads \cup FileCalls.writes
    /\ Asked(i, At(i).op)
    /\ Answer(i, At(i).arg) \/ (At(i).op \in FileCalls.writes /\ Reject(i))
    /\ UNCHANGED <<apiVars, view, host>>

-----------------------------------------------------------------------------
(* Directories.                                                            *)

\* Mutant: the breadcrumbs change at once, the rows when they are read.
GoThere(target) ==
    /\ Room
    /\ view' = [view EXCEPT !.loading = TRUE, !.dir = target]
    /\ calls' = Load(calls, target)
    /\ UNCHANGED <<apiVars, host>>

\* The table is drawn: no editor in its place, nothing being loaded.
Rows == view.editing = None /\ ~view.loading /\ view.of # None

\* A breadcrumb, "up", or a row that is a directory.
Open(target) ==
    /\ Room
    /\ view' = [view EXCEPT !.loading = TRUE]
    /\ calls' = Load(calls, target)
    /\ UNCHANGED <<apiVars, host>>

\* The rows and the directory change together; any load that ends shows rows.
SettleLoad(i) ==
    /\ \/ Replied(i, "reload") /\ view' = [view EXCEPT !.dir = At(i).arg, !.of = At(i).arg, !.loading = FALSE]
       \/ Failed(i, "reload") /\ view' = [view EXCEPT !.loading = FALSE]
    /\ calls' = Without(i)

-----------------------------------------------------------------------------
(* Files.                                                                  *)

\* openEntry of a file that can be edited.
ReadFile ==
    /\ Rows
    /\ Ask("read", "readFile", view.of)
    /\ UNCHANGED <<apiVars, view, host>>

\* The text that comes replaces whatever is edited by then.
SettleRead(i) ==
    /\ \/ /\ Got(i, "read", "readFile")
          /\ view' = [view EXCEPT !.editing = [path |-> At(i).arg, content |-> At(i).val]]
       \/ (Failed(i, "read") \/ Got(i, "read", "downloadFile")) /\ UNCHANGED view
    /\ calls' = Without(i)

Cancel ==
    /\ view.editing # None /\ ~view.saving
    /\ view' = [view EXCEPT !.editing = None]
    /\ UNCHANGED <<apiVars, host, calls>>

\* handleSave; the directory loaded after it is the one of when it was pressed.
Save ==
    /\ view.editing # None /\ ~view.saving
    /\ Ask("save", "writeFile", [text |-> view.editing, dir |-> view.dir])
    /\ view' = [view EXCEPT !.saving = TRUE]
    /\ UNCHANGED <<apiVars, host>>

SettleSave(i) ==
    \/ /\ Replied(i, "save")
       /\ view' = [view EXCEPT !.saving = FALSE, !.editing = None, !.loading = TRUE]
       /\ calls' = Load(Without(i), At(i).arg.dir)
    \/ /\ Failed(i, "save")
       /\ view' = [view EXCEPT !.saving = FALSE]
       /\ calls' = Without(i)

\* handleDownload; what comes is handed to the browser.
Download ==
    /\ Rows
    /\ Ask("read", "downloadFile", view.of)
    /\ UNCHANGED <<apiVars, view, host>>

-----------------------------------------------------------------------------
(* Changes to a directory, each of which loads it again.                   *)

Change(op, arg) == Ask("change", op, arg) /\ UNCHANGED <<apiVars, view, host>>

DeleteFile == Rows /\ Change("deleteFile", [dir |-> view.dir, from |-> view.of, to |-> None])

\* The path of the row, and the new name in the directory shown.
MoveFile == Rows /\ Change("movePath", [dir |-> view.dir, from |-> view.of, to |-> view.dir])

MakeDirectory == Change("makeDirectory", [dir |-> view.dir, from |-> None, to |-> view.dir])

Unarchive == Rows /\ Change("unarchive", [dir |-> view.dir, from |-> view.of, to |-> view.dir])

SettleChange(i) ==
    \/ /\ Replied(i, "change")
       /\ view' = [view EXCEPT !.loading = TRUE]
       /\ calls' = Load(Without(i), At(i).arg.dir)
    \/ Failed(i, "change") /\ calls' = Without(i) /\ UNCHANGED view

\* handleUpload: one file after another, all into the directory of the start.
Upload ==
    /\ \E left \in 1..MaxUpload :
         Ask("upload", "uploadFile", [dir |-> view.dir, left |-> left])
    /\ UNCHANGED <<apiVars, view, host>>

SettleUpload(i) ==
    LET arg == At(i).arg
    IN  \/ /\ Replied(i, "upload") /\ arg.left > 1
           /\ calls' = Add(Without(i), "upload",
                           Call("uploadFile", [arg EXCEPT !.left = @ - 1]))
           /\ UNCHANGED view
        \/ /\ Replied(i, "upload") /\ arg.left = 1
           /\ view' = [view EXCEPT !.loading = TRUE]
           /\ calls' = Load(Without(i), arg.dir)
        \/ Failed(i, "upload") /\ calls' = Without(i) /\ UNCHANGED view

-----------------------------------------------------------------------------
Settle(i) ==
    /\ \/ SettleLoad(i) \/ SettleRead(i) \/ SettleSave(i)
       \/ SettleChange(i) \/ SettleUpload(i)
    /\ UNCHANGED <<token, host>>

Next ==
    \/ \E target \in Dirs : Open(target)
    \/ ReadFile \/ Cancel \/ Save \/ Download
    \/ DeleteFile \/ MoveFile \/ MakeDirectory \/ Unarchive \/ Upload

\* A rename moves a file nowhere, and a text is written to the file it came from.
StaysPut ==
    \A i \in InFlight :
        /\ At(i).op = "movePath" => At(i).arg.from = At(i).arg.to
        /\ At(i).op = "writeFile" => At(i).arg.text.path = At(i).arg.text.content
=============================================================================
