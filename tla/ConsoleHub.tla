----------------------------- MODULE ConsoleHub ------------------------------
(***************************************************************************)
(* internal/runner: the console of one running server.  RingBuffer         *)
(* (ringbuf.go) is the scrollback, bus (bus.go) the fan-out, Hub           *)
(* (console.go) the two behind one mutex.  Lines are published by the two  *)
(* readers of process.capture and numbered in the order they take h.mu.    *)
(*                                                                         *)
(* h.mu, b.mu and r.mu are three mutexes: Publish and SubscribeWithHistory *)
(* hold h.mu throughout, but Close and the plain Subscribe take only b.mu  *)
(* and may come between their two halves.  The fan-out itself is one step: *)
(* b.mu keeps subscribing and closing out, and a receive between two sends *)
(* is one before or after them.                                            *)
(***************************************************************************)
EXTENDS Integers, Sequences

CONSTANTS
    Streams,    \* the goroutines that publish: stdout and stderr
    Readers,    \* viewers that call SubscribeWithHistory
    Watchers,   \* viewers that call Subscribe
    Slow,       \* the viewers that need not ever read
    Cap,        \* ConsoleBufferLines
    Queue,      \* subscriberQueue
    Wanted,     \* the n of SubscribeWithHistory
    MaxLines,   \* bound: lines published
    Free        \* "nobody holds h.mu"

Viewers == Readers \cup Watchers

ASSUME HubAssumption ==
    /\ Cap \in Nat \ {0} /\ Queue \in Nat \ {0} /\ Wanted \in Nat /\ MaxLines \in Nat
    /\ Streams \cap Viewers = {} /\ Readers \cap Watchers = {}
    /\ Slow \subseteq Viewers
    /\ Free \notin Streams \cup Viewers

VARIABLES
    buf, next, count,   \* RingBuffer; the index of a slot is 0 .. Cap-1
    said,               \* history: how many lines were added
    lock,               \* who holds h.mu
    closed,             \* b.closed
    sub,                \* what each viewer is
    history,            \* what SubscribeWithHistory returned to it
    queue,              \* its channel
    heard,              \* history: what it received from the channel, in order
    missed              \* sub.dropped

ringVars == <<buf, next, count, said>>
viewVars == <<history, queue, heard, missed>>
vars == <<ringVars, lock, closed, sub, viewVars>>

\* "snapped": between the two halves of SubscribeWithHistory; "open": registered;
\* "shut": its channel is closed; "gone": it saw that.
SubStates == {"none", "snapped", "open", "shut", "gone"}
Lines == 1..MaxLines

TypeOK ==
    /\ buf \in [0..Cap-1 -> 0..MaxLines] /\ next \in 0..Cap-1 /\ count \in 0..Cap
    /\ said \in 0..MaxLines
    /\ lock \in Streams \cup Readers \cup {Free}
    /\ closed \in BOOLEAN
    /\ sub \in [Viewers -> SubStates]
    /\ history \in [Viewers -> Seq(Lines)]
    /\ heard \in [Viewers -> Seq(Lines)]
    /\ queue \in [Viewers -> Seq(Lines)]
    /\ \A v \in Viewers : Len(queue[v]) <= Queue
    /\ missed \in [Viewers -> 0..MaxLines]

Init ==
    /\ buf = [i \in 0..Cap-1 |-> 0] /\ next = 0 /\ count = 0
    /\ said = 0
    /\ lock = Free
    /\ closed = FALSE
    /\ sub = [v \in Viewers |-> "none"]
    /\ history = [v \in Viewers |-> <<>>]
    /\ queue = [v \in Viewers |-> <<>>]
    /\ heard = [v \in Viewers |-> <<>>]
    /\ missed = [v \in Viewers |-> 0]

-----------------------------------------------------------------------------
(* RingBuffer *)

\* Mutant: the counter runs past the capacity.
AddUncapped(line) ==
    /\ buf' = [buf EXCEPT ![next] = line]
    /\ next' = (next + 1) % Cap
    /\ count' = count + 1

Add(line) ==
    /\ buf' = [buf EXCEPT ![next] = line]
    /\ next' = (next + 1) % Cap
    /\ count' = IF count < Cap THEN count + 1 ELSE count

\* Mutant: the newest line is left out.
LastOffByOne(n) ==
    LET m == IF n > count THEN count ELSE n
        start == (next - m - 1 + Cap) % Cap
    IN  [i \in 1..m |-> buf[(start + i - 1) % Cap]]

Last(n) ==
    LET m == IF n > count THEN count ELSE n
        start == (next - m + Cap) % Cap
    IN  [i \in 1..m |-> buf[(start + i - 1) % Cap]]

-----------------------------------------------------------------------------
(* Publish: the line is recorded, then fanned out *)

PublishAdd(s) ==
    /\ lock = Free
    /\ said < MaxLines
    /\ lock' = s
    /\ said' = said + 1
    /\ Add(said + 1)
    /\ UNCHANGED <<closed, sub, viewVars>>

\* Mutant: a line lost is not counted.
FanOutUncounted ==
    LET room == {v \in Viewers : ~closed /\ sub[v] = "open" /\ Len(queue[v]) < Queue} IN
    /\ queue' = [v \in Viewers |-> IF v \in room THEN Append(queue[v], said) ELSE queue[v]]
    /\ missed' = missed

\* Mutant: a full queue gives up its oldest line for the newest.
FanOutEvicts ==
    LET open == {v \in Viewers : ~closed /\ sub[v] = "open"}
        full == {v \in open : Len(queue[v]) >= Queue}
    IN  /\ queue' = [v \in Viewers |->
                        IF v \in full THEN Append(Tail(queue[v]), said)
                        ELSE IF v \in open THEN Append(queue[v], said) ELSE queue[v]]
        /\ missed' = [v \in Viewers |-> IF v \in full THEN missed[v] + 1 ELSE missed[v]]

\* bus.publish: a viewer whose queue is full misses the line.
FanOut ==
    LET open == {v \in Viewers : ~closed /\ sub[v] = "open"}
        full == {v \in open : Len(queue[v]) >= Queue}
    IN  /\ queue' = [v \in Viewers |-> IF v \in open \ full THEN Append(queue[v], said)
                                       ELSE queue[v]]
        /\ missed' = [v \in Viewers |-> IF v \in full THEN missed[v] + 1 ELSE missed[v]]

\* Mutant: the sends block until there is room.
PublishFanOutBlocks(s) ==
    /\ lock = s
    /\ \A v \in Viewers : sub[v] = "open" => Len(queue[v]) < Queue
    /\ lock' = Free
    /\ FanOut
    /\ UNCHANGED <<ringVars, closed, sub, history, heard>>

PublishFanOut(s) ==
    /\ lock = s
    /\ lock' = Free
    /\ FanOut
    /\ UNCHANGED <<ringVars, closed, sub, history, heard>>

-----------------------------------------------------------------------------
(* Subscribing *)

\* Mutant: the snapshot is taken without holding h.mu up to the registration.
SnapshotUnlocked(v) ==
    /\ sub[v] = "none"
    /\ sub' = [sub EXCEPT ![v] = "snapped"]
    /\ history' = [history EXCEPT ![v] = Last(Wanted)]
    /\ UNCHANGED <<ringVars, lock, closed, queue, heard, missed>>

\* SubscribeWithHistory as far as buf.Last.
Snapshot(v) ==
    /\ sub[v] = "none"
    /\ lock = Free
    /\ lock' = v
    /\ sub' = [sub EXCEPT ![v] = "snapped"]
    /\ history' = [history EXCEPT ![v] = Last(Wanted)]
    /\ UNCHANGED <<ringVars, closed, queue, heard, missed>>

\* Mutant: bus.subscribe without looking at closed.
RegisterBlindly(v) == sub' = [sub EXCEPT ![v] = "open"]

\* bus.subscribe: a closed bus hands back a closed channel.
Register(v) == sub' = [sub EXCEPT ![v] = IF closed THEN "shut" ELSE "open"]

SubscribeWithHistory(v) ==
    /\ sub[v] = "snapped"
    /\ lock' = Free
    /\ Register(v)
    /\ UNCHANGED <<ringVars, closed, viewVars>>

\* Subscribe takes no h.mu.
Subscribe(v) ==
    /\ sub[v] = "none"
    /\ Register(v)
    /\ UNCHANGED <<ringVars, lock, closed, viewVars>>

-----------------------------------------------------------------------------
(* The viewers, and the end *)

\* A closed channel still gives what is in it.
Receive(v) ==
    /\ sub[v] \in {"open", "shut"}
    /\ queue[v] # <<>>
    /\ heard' = [heard EXCEPT ![v] = Append(@, Head(queue[v]))]
    /\ queue' = [queue EXCEPT ![v] = Tail(@)]
    /\ UNCHANGED <<ringVars, lock, closed, sub, history, missed>>

SeesEnd(v) ==
    /\ sub[v] = "shut"
    /\ queue[v] = <<>>
    /\ sub' = [sub EXCEPT ![v] = "gone"]
    /\ UNCHANGED <<ringVars, lock, closed, viewVars>>

\* bus.remove, by the viewer or by its context.
Unsubscribe(v) ==
    /\ sub[v] = "open"
    /\ sub' = [sub EXCEPT ![v] = "shut"]
    /\ UNCHANGED <<ringVars, lock, closed, viewVars>>

\* bus.close.
Close ==
    /\ ~closed
    /\ closed' = TRUE
    /\ sub' = [v \in Viewers |-> IF sub[v] = "open" THEN "shut" ELSE sub[v]]
    /\ UNCHANGED <<ringVars, lock, viewVars>>

Hears(v) == Receive(v) \/ SeesEnd(v)

Next ==
    \/ \E s \in Streams : PublishAdd(s) \/ PublishFanOut(s)
    \/ \E v \in Readers : Snapshot(v) \/ SubscribeWithHistory(v)
    \/ \E v \in Watchers : Subscribe(v)
    \/ \E v \in Viewers : Hears(v) \/ Unsubscribe(v)
    \/ Close

\* Whoever holds h.mu goes on; viewers read, except the slow ones.
Fairness ==
    /\ \A s \in Streams : WF_vars(PublishFanOut(s))
    /\ \A v \in Readers : WF_vars(SubscribeWithHistory(v))
    /\ \A v \in Viewers \ Slow : WF_vars(Hears(v))

Spec == Init /\ [][Next]_vars
FairSpec == Spec /\ Fairness

-----------------------------------------------------------------------------
(* What is checked *)

\* The lines the fan-out is done with.
Told == IF lock \in Streams THEN said - 1 ELSE said

Consecutive(from, to) == [i \in 1..(to - from + 1) |-> from + i - 1]

\* RingBuffer.Last(n) is the last n lines added, oldest first, or as many as were
\* added or fit, whatever the write index has wrapped to.
RingIsTail ==
    \A n \in 0..Cap + 1 :
        LET m == CHOOSE k \in {n, said, Cap} : \A j \in {n, said, Cap} : k <= j
        IN  Last(n) = Consecutive(said - m + 1, said)

\* "Gap-free" (console.go): for a viewer that missed nothing the scrollback and
\* the stream join without a hole or a repeat, and reach the latest line told.
GapFree ==
    \A v \in Readers :
        LET all == history[v] \o heard[v] \o queue[v] IN
          sub[v] = "open" /\ missed[v] = 0 =>
            all = Consecutive(Told - Len(all) + 1, Told)

\* Every line told since a viewer joined is heard, queued or counted as missed.
MissesAreCounted ==
    \A v \in Readers :
        sub[v] = "open" /\ history[v] # <<>> =>
            history[v][Len(history[v])] + Len(heard[v]) + Len(queue[v]) + missed[v] = Told

\* The hub keeps the promise of ConsoleFeed: one order for everyone, no repeats,
\* and a line lost only to a full queue.
phase == [v \in Viewers |-> CASE sub[v] \in {"none", "snapped"} -> "away"
                               [] sub[v] = "open" -> "watching"
                               [] OTHER -> "over"]

Feed == INSTANCE ConsoleFeed WITH
    Slack <- Queue,
    Scrollback <- Wanted,
    said <- Told,
    view <- [v \in Viewers |-> IF phase[v] = "away" THEN <<>>
                               ELSE history[v] \o heard[v] \o queue[v]],
    unread <- [v \in Viewers |-> Len(queue[v])],
    phase <- phase

ImplementsFeed == Feed!FeedSpec

\* A viewer that never reads holds up neither the reader of the server's output
\* nor, through it, the server.
PublishNeverWaits == \A s \in Streams : lock = s ~> lock # s

\* Every loop over a subscription ends once the hub is closed, also one that
\* subscribes as it closes or after.
EndReachesAll ==
    \A v \in Viewers \ Slow : closed /\ sub[v] \in {"open", "shut"} ~> sub[v] = "gone"
=============================================================================
