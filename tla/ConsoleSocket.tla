---------------------------- MODULE ConsoleSocket ----------------------------
(***************************************************************************)
(* internal/api/console.go: runConsoleSocket, one viewer's WebSocket.      *)
(*                                                                         *)
(* Three goroutines share the channel `outbound`: the handler (history,    *)
(* status, then readPump), the fan-out that copies the two subscriptions   *)
(* into it, and writePump, which alone writes to the connection.  They end *)
(* in an order of their own: sending on a closed channel panics and takes  *)
(* the daemon down with every server it runs.                              *)
(*                                                                         *)
(* The hub is the one of ConsoleHub, seen through the two channels it      *)
(* hands out; lines are numbered, 1 .. Old being the scrollback.           *)
(***************************************************************************)
EXTENDS Naturals, Sequences

CONSTANTS Old,      \* lines of scrollback when the viewer joins
          Queue,    \* subscriberQueue
          Outbound, \* outboundQueue
          MaxLines, \* bound: the last line published
          MaxFrames \* bound: rejected frames the client sends

ASSUME SocketAssumption ==
    /\ Old \in Nat /\ MaxLines \in Nat /\ MaxFrames \in Nat
    /\ Queue \in Nat \ {0} /\ Outbound \in Nat \ {0}
    /\ Old <= MaxLines

VARIABLES
    lines, said,        \* the line channel; the last line published
    linesShut,          \* it is closed
    statuses,           \* how many statuses are in the status channel
    statusesShut,
    main, fan, writer,  \* where the goroutines are
    pushed,             \* how many lines of history the handler is past
    cancelled,          \* ctx is done
    outbound, outShut,  \* the channel between them
    sent,               \* the last line that reached the peer, or 0
    peer,               \* the connection is up
    frames,             \* rejected frames so far
    panicked            \* someone sent on the closed channel

hubVars == <<lines, said, linesShut, statuses, statusesShut>>
outVars == <<outbound, outShut, panicked>>
vars == <<hubVars, main, fan, writer, pushed, cancelled, outVars, sent, peer, frames>>

\* A line is sent as its number.
Status == 0
Rejection == MaxLines + 1
Frame == 0..MaxLines + 1
Mains == {"history", "status", "read", "cancel", "wait", "close", "drain", "done"}

TypeOK ==
    /\ lines \in Seq(1..MaxLines) /\ Len(lines) <= Queue
    /\ said \in Old..MaxLines
    /\ statuses \in 0..1
    /\ linesShut \in BOOLEAN /\ statusesShut \in BOOLEAN /\ cancelled \in BOOLEAN
    /\ outShut \in BOOLEAN /\ peer \in BOOLEAN /\ panicked \in BOOLEAN
    /\ main \in Mains
    /\ fan \in {"none", "run", "over"}
    /\ writer \in {"run", "over"}
    /\ pushed \in 0..Old
    /\ outbound \in Seq(Frame) /\ Len(outbound) <= Outbound
    /\ sent \in 0..MaxLines
    /\ frames \in 0..MaxFrames

\* SubscribeWithHistory and SubscribeStatus have returned; writePump is started.
Init ==
    /\ lines = <<>> /\ said = Old /\ linesShut = FALSE
    /\ statuses = 0 /\ statusesShut = FALSE
    /\ main = "history" /\ fan = "none" /\ writer = "run"
    /\ pushed = 0
    /\ cancelled = FALSE
    /\ outbound = <<>> /\ outShut = FALSE /\ panicked = FALSE
    /\ sent = 0
    /\ peer = TRUE
    /\ frames = 0

-----------------------------------------------------------------------------
(* The hub and the peer *)

HubPublishes ==
    /\ ~linesShut
    /\ said < MaxLines
    /\ said' = said + 1
    /\ lines' = IF Len(lines) < Queue THEN Append(lines, said') ELSE lines
    /\ UNCHANGED <<linesShut, statuses, statusesShut, main, fan, writer, pushed, cancelled,
                   outVars, sent, peer, frames>>

HubPublishesStatus ==
    /\ ~statusesShut
    /\ statuses = 0
    /\ statuses' = 1
    /\ UNCHANGED <<lines, said, linesShut, statusesShut, main, fan, writer, pushed, cancelled,
                   outVars, sent, peer, frames>>

\* Hub.Close: the lines first.
HubClosesLines ==
    /\ ~linesShut
    /\ linesShut' = TRUE
    /\ UNCHANGED <<lines, said, statuses, statusesShut, main, fan, writer, pushed, cancelled,
                   outVars, sent, peer, frames>>

HubClosesStatuses ==
    /\ linesShut
    /\ ~statusesShut
    /\ statusesShut' = TRUE
    /\ UNCHANGED <<lines, said, linesShut, statuses, main, fan, writer, pushed, cancelled,
                   outVars, sent, peer, frames>>

PeerLeaves ==
    /\ peer
    /\ peer' = FALSE
    /\ UNCHANGED <<hubVars, main, fan, writer, pushed, cancelled, outVars, sent, frames>>

-----------------------------------------------------------------------------
(* trySend: never blocks; a full channel loses the frame.  The select does not  *)
(* guard against a closed one.                                                  *)

\* Mutant: one frame more than the channel holds.
TrySendOver(f) ==
    /\ outbound' = IF ~outShut /\ Len(outbound) <= Outbound THEN Append(outbound, f)
                   ELSE outbound
    /\ panicked' = (panicked \/ outShut)
    /\ UNCHANGED outShut

TrySend(f) ==
    /\ outbound' = IF ~outShut /\ Len(outbound) < Outbound THEN Append(outbound, f)
                   ELSE outbound
    /\ panicked' = (panicked \/ outShut)
    /\ UNCHANGED outShut

-----------------------------------------------------------------------------
(* The handler *)

\* Mutant: the fan-out is started before the history is in the channel.
PushHistoryLate ==
    /\ main = "history"
    /\ pushed < Old
    /\ TrySend(pushed + 1)
    /\ pushed' = pushed + 1
    /\ fan' = IF fan = "none" THEN "run" ELSE fan
    /\ UNCHANGED <<hubVars, main, writer, cancelled, sent, peer, frames>>

PushHistory ==
    /\ main = "history"
    /\ pushed < Old
    /\ TrySend(pushed + 1)
    /\ pushed' = pushed + 1
    /\ UNCHANGED <<hubVars, main, fan, writer, cancelled, sent, peer, frames>>

\* After the last line of history: the current status, if the server is known.
PushStatus ==
    /\ main = "history"
    /\ pushed = Old
    /\ main' = "status"
    /\ TrySend(Status) \/ UNCHANGED outVars
    /\ UNCHANGED <<hubVars, fan, writer, pushed, cancelled, sent, peer, frames>>

StartFanOut ==
    /\ main = "status"
    /\ fan' = "run"
    /\ main' = "read"
    /\ UNCHANGED <<hubVars, writer, pushed, cancelled, outVars, sent, peer, frames>>

\* readPump answers a frame it rejects, or a command that failed.
Reject ==
    /\ main = "read"
    /\ peer
    /\ frames < MaxFrames
    /\ frames' = frames + 1
    /\ TrySend(Rejection)
    /\ UNCHANGED <<hubVars, main, fan, writer, pushed, cancelled, sent, peer>>

\* ReadMessage fails: the peer is gone, or, with no writer left to ping it, no pong
\* has moved the read deadline.
ReadFails ==
    /\ main = "read"
    /\ ~peer \/ writer = "over"
    /\ main' = "cancel"
    /\ UNCHANGED <<hubVars, fan, writer, pushed, cancelled, outVars, sent, peer, frames>>

Cancel ==
    /\ main = "cancel"
    /\ cancelled' = TRUE
    /\ main' = "wait"
    /\ UNCHANGED <<hubVars, fan, writer, pushed, outVars, sent, peer, frames>>

\* Mutant: cancelling is taken to be enough.
DoesNotWait ==
    /\ main = "wait"
    /\ main' = "close"
    /\ UNCHANGED <<hubVars, fan, writer, pushed, cancelled, outVars, sent, peer, frames>>

\* fanOut.Wait()
WaitForFanOut ==
    /\ main = "wait"
    /\ fan = "over"
    /\ main' = "close"
    /\ UNCHANGED <<hubVars, fan, writer, pushed, cancelled, outVars, sent, peer, frames>>

CloseOutbound ==
    /\ main = "close"
    /\ outShut' = TRUE
    /\ main' = "drain"
    /\ UNCHANGED <<hubVars, fan, writer, pushed, cancelled, outbound, panicked,
                   sent, peer, frames>>

\* <-writerDone, then the deferred conn.Close and the two unsubscribes.
Return ==
    /\ main = "drain"
    /\ writer = "over"
    /\ main' = "done"
    /\ peer' = FALSE
    /\ UNCHANGED <<hubVars, fan, writer, pushed, cancelled, outVars, sent, frames>>

-----------------------------------------------------------------------------
(* The fan-out: a select over three channels, ready ones in any order *)

FanOutLine ==
    /\ fan = "run"
    /\ lines # <<>>
    /\ lines' = Tail(lines)
    /\ TrySend(Head(lines))
    /\ UNCHANGED <<said, linesShut, statuses, statusesShut, main, fan, writer, pushed,
                   cancelled, sent, peer, frames>>

FanOutStatus ==
    /\ fan = "run"
    /\ statuses > 0
    /\ statuses' = statuses - 1
    /\ TrySend(Status)
    /\ UNCHANGED <<lines, said, linesShut, statusesShut, main, fan, writer, pushed,
                   cancelled, sent, peer, frames>>

\* Mutant: the select does not look at ctx.
FanOutEndsLate ==
    /\ fan = "run"
    /\ \/ linesShut /\ lines = <<>>
       \/ statusesShut /\ statuses = 0
    /\ fan' = "over"
    /\ cancelled' = TRUE
    /\ UNCHANGED <<hubVars, main, writer, pushed, outVars, sent, peer, frames>>

\* ctx is done, or one of the channels is closed and empty, whatever the other still
\* holds; the deferred cancel runs.
FanOutEnds ==
    /\ fan = "run"
    /\ \/ cancelled
       \/ linesShut /\ lines = <<>>
       \/ statusesShut /\ statuses = 0
    /\ fan' = "over"
    /\ cancelled' = TRUE
    /\ UNCHANGED <<hubVars, main, writer, pushed, outVars, sent, peer, frames>>

-----------------------------------------------------------------------------
(* writePump *)

WriteFrame ==
    /\ writer = "run"
    /\ peer
    /\ outbound # <<>>
    /\ sent' = IF Head(outbound) \in 1..MaxLines THEN Head(outbound) ELSE sent
    /\ outbound' = Tail(outbound)
    /\ UNCHANGED <<hubVars, main, fan, writer, pushed, cancelled, outShut, panicked,
                   peer, frames>>

\* A frame the peer does not take within writeWait, or a ping to a peer that is gone.
WriteFails ==
    /\ writer = "run"
    /\ outbound # <<>> \/ ~peer
    /\ writer' = "over"
    /\ outbound' = IF outbound = <<>> THEN outbound ELSE Tail(outbound)
    /\ UNCHANGED <<hubVars, main, fan, pushed, cancelled, outShut, panicked,
                   sent, peer, frames>>

\* outbound is closed and empty: the close frame.
WriterEnds ==
    /\ writer = "run"
    /\ outShut
    /\ outbound = <<>>
    /\ writer' = "over"
    /\ UNCHANGED <<hubVars, main, fan, pushed, cancelled, outVars, sent, peer, frames>>

-----------------------------------------------------------------------------
Main ==
    \/ PushHistory \/ PushStatus \/ StartFanOut
    \/ ReadFails \/ Cancel \/ WaitForFanOut \/ CloseOutbound \/ Return

FanOut == FanOutLine \/ FanOutStatus \/ FanOutEnds

Writer == WriteFrame \/ WriterEnds \/ (~peer /\ WriteFails)

Environment ==
    \/ HubPublishes \/ HubPublishesStatus \/ HubClosesLines \/ HubClosesStatuses
    \/ PeerLeaves \/ Reject \/ WriteFails

Next == Main \/ FanOut \/ Writer \/ Environment

\* The three goroutines run, the select is fair to a case that stays ready, the
\* ping ticker and the deadlines fire.  Nothing makes the peer leave.
Fairness == WF_vars(Main) /\ WF_vars(FanOut) /\ WF_vars(Writer) /\ WF_vars(FanOutEnds)

Spec == Init /\ [][Next]_vars
FairSpec == Spec /\ Fairness

-----------------------------------------------------------------------------
(* What is checked *)

\* However a disconnect races a log line, nobody sends on the closed channel.
NeverPanics == ~panicked

\* The peer gets lines in the order they were said and none of them twice, across
\* the seam between the scrollback and the stream: those that are on their way come
\* after the last one that arrived.
InOrder ==
    LET way == outbound \o lines
        numbered == {j \in 1..Len(way) : way[j] \in 1..MaxLines}
    IN  \A j \in numbered :
          way[j] > sent /\ \A i \in numbered : i < j => way[i] < way[j]

\* When the peer is gone the handler returns and leaves no goroutine behind.
PeerGoneIsOver == ~peer ~> main = "done" /\ fan # "run" /\ writer = "over"

-----------------------------------------------------------------------------
(* What the repository says of the socket, and the code does not keep *)

\* TestConsoleWebSocketClosesWhenServerStops (console_test.go:781): "Stopping the
\* server must close the socket rather than leave it hanging".  The fan-out ends and
\* cancels ctx, but readPump waits on the connection alone.
StopClosesSocket == linesShut /\ statusesShut ~> main = "done"
=============================================================================
