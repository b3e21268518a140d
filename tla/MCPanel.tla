------------------------------ MODULE MCPanel ------------------------------
(***************************************************************************)
(* Panel in a tab that starts on any of its pages, as an administrator:    *)
(* with no token, with one the daemon takes no more, or with a good one.   *)
(* The user stays on the page, but for what leads away from it by itself,  *)
(* the way from one page that paints a preview to one that does not, and   *)
(* the sign-out from the page that holds a socket.                         *)
(***************************************************************************)
EXTENDS Panel

MCStarts == [role : {"admin"}, page : Pages, choice : {"system"}]

MCLinks == [p \in Pages \cup {"login"} |-> IF p = "links" THEN {"bots"} ELSE {}]

MCExits == {"console"}
MCThemed == {"theme"}
=============================================================================
