----------------------------- MODULE ConsoleFeed -----------------------------
(***************************************************************************)
(* What internal/runner's console promises its viewers, without saying how *)
(* (bus.go, console.go).  Lines are numbered in the order they were said.  *)
(* A viewer gets a tail of what had been said when it joined, then every   *)
(* line after that, in order and once; a line passes a viewer by only when *)
(* it has left Slack of them unread, and nobody ever waits for a viewer.   *)
(***************************************************************************)
EXTENDS Naturals, Sequences

CONSTANTS Viewers,
          Slack,    \* how far behind a viewer may fall before it misses lines
          Scrollback\* how many old lines a viewer may be given

VARIABLES said,     \* the number of lines said
          view,     \* the lines each viewer has been given, read or not
          unread,   \* how many of them it has not read
          phase     \* "away", "watching" or "over"

feedVars == <<said, view, unread, phase>>

FeedInit ==
    /\ said = 0
    /\ view = [v \in Viewers |-> <<>>]
    /\ unread = [v \in Viewers |-> 0]
    /\ phase = [v \in Viewers |-> "away"]

\* A line is said: it goes to everyone watching who is not too far behind.
Say ==
    /\ said' = said + 1
    /\ LET gets == {v \in Viewers : phase[v] = "watching" /\ unread[v] < Slack} IN
         /\ view' = [v \in Viewers |-> IF v \in gets THEN Append(view[v], said') ELSE view[v]]
         /\ unread' = [v \in Viewers |-> IF v \in gets THEN unread[v] + 1 ELSE unread[v]]
    /\ UNCHANGED phase

\* A viewer joins, with the last n lines.  Joining a feed that is over is allowed.
Join(v) ==
    /\ phase[v] = "away"
    /\ \E n \in 0..Scrollback :
         /\ n <= said
         /\ view' = [view EXCEPT ![v] = [i \in 1..n |-> said - n + i]]
    /\ \E p \in {"watching", "over"} : phase' = [phase EXCEPT ![v] = p]
    /\ UNCHANGED <<said, unread>>

Read(v) ==
    /\ unread[v] > 0
    /\ unread' = [unread EXCEPT ![v] = @ - 1]
    /\ UNCHANGED <<said, view, phase>>

\* Some viewers are sent away: one that leaves, or all when the feed ends.
Over ==
    /\ \E gone \in SUBSET Viewers :
         /\ gone # {}
         /\ \A v \in gone : phase[v] = "watching"
         /\ phase' = [v \in Viewers |-> IF v \in gone THEN "over" ELSE phase[v]]
    /\ UNCHANGED <<said, view, unread>>

FeedNext == Say \/ Over \/ \E v \in Viewers : Join(v) \/ Read(v)

FeedSpec == FeedInit /\ [][FeedNext]_feedVars
=============================================================================
