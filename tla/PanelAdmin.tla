----------------------------- MODULE PanelAdmin -----------------------------
(***************************************************************************)
(* web/src/pages/Admin.tsx: the accounts of the panel.                     *)
(*                                                                         *)
(* view: the accounts drawn, whether the list is being loaded, which hides *)
(* it, and what the buttons wait for: a row, "new" for the form, or None.  *)
(* host: the accounts there are.  Role, block and password of an account   *)
(* are not told apart.                                                     *)
(***************************************************************************)
EXTENDS PanelApi

CONSTANTS Users, \* the accounts there may be
          Me     \* the one signed in

New == "new"

Found == [users : {users \in SUBSET Users : Me \in users}]

Opening == [users |-> {}, loading |-> TRUE, busy |-> None]

Reload(cs, h) == Add(cs, h, Call("listUsers", None))

FirstCalls(cs) == Reload(cs, "reload")

Types ==
    /\ view \in [users : SUBSET Users, loading : BOOLEAN, busy : Users \cup {None, New}]
    /\ host.users \subseteq Users

Waits == view.busy # None \/ view.loading

-----------------------------------------------------------------------------
\* A name taken, a password too short, an account that is gone are refused.
Serve(i) ==
    /\ \/ Asked(i, "listUsers") /\ Answer(i, host.users) /\ UNCHANGED host
       \/ /\ Asked(i, "createUser")
          /\ \/ \E new \in Users \ host.users :
                  Answer(i, None) /\ host' = [users |-> host.users \cup {new}]
             \/ Reject(i) /\ UNCHANGED host
       \/ /\ Asked(i, "patchUser") \/ Asked(i, "deleteUser")
          /\ \/ /\ At(i).arg \in host.users /\ Answer(i, None)
                /\ host' = [users |-> IF At(i).op = "deleteUser" THEN host.users \ {At(i).arg}
                                                                 ELSE host.users]
             \/ Reject(i) /\ UNCHANGED host
    /\ UNCHANGED <<apiVars, view>>

SettleReload(i) ==
    /\ \/ Replied(i, "reload") /\ view' = [view EXCEPT !.users = At(i).val, !.loading = FALSE]
       \/ Failed(i, "reload") /\ view' = [view EXCEPT !.loading = FALSE]
    /\ calls' = Without(i)

\* The form waits for itself alone.
Create ==
    /\ view.busy # New
    /\ Ask("change", "createUser", New)
    /\ view' = [view EXCEPT !.busy = New]
    /\ UNCHANGED <<apiVars, host>>

\* A button of a row; those of every row wait for whatever is under way.
Press(op, id) ==
    /\ ~view.loading /\ id \in view.users
    /\ view.busy = None
    /\ Ask("change", op, id)
    /\ view' = [view EXCEPT !.busy = id]
    /\ UNCHANGED <<apiVars, host>>

\* patch, for a password, a role or a block; the latter two not of oneself.
Patch(id) == Press("patchUser", id)
DeleteUser(id) == id # Me /\ Press("deleteUser", id)

\* Each ends by loading the list, which hides the rows meanwhile.  Whatever
\* else was under way, nothing waits when the first of them is over.
SettleChange(i) ==
    \/ /\ Replied(i, "change") /\ At(i).op # "listUsers"
       /\ calls' = Reload(Without(i), "change")
       /\ view' = [view EXCEPT !.loading = TRUE]
    \/ /\ \/ /\ Got(i, "change", "listUsers")
             /\ view' = [users |-> At(i).val, loading |-> FALSE, busy |-> None]
          \/ /\ Failed(i, "change")
             /\ view' = [view EXCEPT !.busy = None, !.loading = @ /\ At(i).op # "listUsers"]
       /\ calls' = Without(i)

Settle(i) ==
    /\ SettleReload(i) \/ SettleChange(i)
    /\ UNCHANGED <<token, host>>

Next == Create \/ \E id \in Users : Patch(id) \/ DeleteUser(id)
=============================================================================
