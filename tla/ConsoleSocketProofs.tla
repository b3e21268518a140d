------------------------ MODULE ConsoleSocketProofs ------------------------
(***************************************************************************)
(* Theorems about ConsoleSocket, for queues and scrollbacks of any length. *)
(*                                                                         *)
(* That nobody sends on the closed channel rests on the order in which the *)
(* handler ends (EndsInOrder); that lines keep their order rests on where  *)
(* each of the two channels stands against the history (LinesAhead).       *)
(***************************************************************************)
EXTENDS ConsoleSocket, SequenceTheorems, TLAPS

\* What is where after an element was added at the end, or lost.
LEMMA AddedOrLost ==
    ASSUME NEW S, NEW s \in Seq(S), NEW e \in S, NEW t, t = s \/ t = Append(s, e)
    PROVE  /\ t \in Seq(S) /\ Len(t) \in Nat /\ Len(s) \in Nat /\ Len(t) <= Len(s) + 1
           /\ \A k \in 1..Len(t) : \/ k \in 1..Len(s) /\ t[k] = s[k]
                                   \/ k = Len(s) + 1 /\ t[k] = e
<1>1. Len(s) \in Nat  BY LenProperties
<1>2. CASE t = s  BY <1>1, <1>2
<1>3. CASE t = Append(s, e)
  <2>1. /\ Append(s, e) \in Seq(S) /\ Len(Append(s, e)) = Len(s) + 1
        /\ \A k \in 1..Len(s) : Append(s, e)[k] = s[k]
        /\ Append(s, e)[Len(s) + 1] = e
    BY AppendProperties
  <2>2. t \in Seq(S) /\ Len(t) = Len(s) + 1 /\ t[Len(s) + 1] = e
        /\ \A k \in 1..Len(s) : t[k] = s[k]
    BY ONLY <2>1, <1>3
  <2> QED  BY ONLY <1>1, <2>2
<1> QED  BY <1>2, <1>3

\* What is where after the first element was taken.
LEMMA Taken ==
    ASSUME NEW S, NEW s \in Seq(S), s # <<>>, NEW t, t = Tail(s)
    PROVE  /\ t \in Seq(S) /\ Len(s) \in Nat /\ Len(t) = Len(s) - 1
           /\ Head(s) = s[1] /\ s[1] \in S /\ 1 \in 1..Len(s)
           /\ \A k \in 1..Len(t) : k + 1 \in 1..Len(s) /\ t[k] = s[k + 1]
<1>1. Len(s) \in Nat /\ Len(s) # 0  BY EmptySeq, LenProperties
<1>2. /\ Tail(s) \in Seq(S) /\ Len(Tail(s)) = Len(s) - 1
      /\ \A k \in 1..Len(Tail(s)) : Tail(s)[k] = s[k + 1]
  BY HeadTailProperties
<1>3. t \in Seq(S) /\ Len(t) = Len(s) - 1 /\ \A k \in 1..Len(t) : t[k] = s[k + 1]
  BY ONLY <1>2, t = Tail(s)
<1>4. Head(s) = s[1] OBVIOUS
<1>5. 1 \in 1..Len(s) /\ s[1] \in S  BY <1>1, ElementOfSeq
<1>6. \A k \in 1..Len(t) : k + 1 \in 1..Len(s)  BY ONLY <1>1, <1>3
<1> QED  BY ONLY <1>1, <1>3, <1>4, <1>5, <1>6

\* The handler closes the channel once the fan-out is over, which has not begun
\* before the history is through.
EndsInOrder ==
    /\ outShut <=> main \in {"drain", "done"}
    /\ main \in {"close", "drain", "done"} => fan = "over"
    /\ main \in {"history", "status"} => fan = "none"

\* Where the lines of outbound are, between the frames that are not lines.
Numbered == {i \in 1..Len(outbound) : outbound[i] \in 1..MaxLines}

\* The line channel is ahead of outbound, outbound of the peer, and while the history
\* is pushed both of what comes next.
LinesAhead ==
    /\ \A k \in 1..Len(lines) : Old < lines[k] /\ lines[k] <= said /\ sent < lines[k]
    /\ \A k, l \in 1..Len(lines) : k < l => lines[k] < lines[l]
    /\ \A i \in Numbered :
         /\ sent < outbound[i] /\ outbound[i] <= said
         /\ main = "history" => outbound[i] <= pushed
         /\ \A k \in 1..Len(lines) : outbound[i] < lines[k]
    /\ \A i, j \in Numbered : i < j => outbound[i] < outbound[j]
    /\ sent <= said
    /\ main = "history" => sent <= pushed

SocketInv == TypeOK /\ EndsInOrder /\ NeverPanics /\ LinesAhead

\* The parts of TypeOK: what the channels hold, and the rest.
ChannelsFit ==
    /\ lines \in Seq(1..MaxLines) /\ Len(lines) <= Queue
    /\ outbound \in Seq(Frame) /\ Len(outbound) <= Outbound

CountsInRange ==
    /\ said \in Old..MaxLines /\ statuses \in 0..1
    /\ pushed \in 0..Old /\ sent \in 0..MaxLines /\ frames \in 0..MaxFrames

FlagsAreBoolean ==
    /\ linesShut \in BOOLEAN /\ statusesShut \in BOOLEAN /\ cancelled \in BOOLEAN
    /\ outShut \in BOOLEAN /\ peer \in BOOLEAN /\ panicked \in BOOLEAN

GoroutinesAreSomewhere ==
    main \in Mains /\ fan \in {"none", "run", "over"} /\ writer \in {"run", "over"}

-----------------------------------------------------------------------------
\* TypeOK is its parts, in a state and in the next.
LEMMA TypeParts ==
    /\ TypeOK <=> ChannelsFit /\ CountsInRange /\ FlagsAreBoolean /\ GoroutinesAreSomewhere
    /\ TypeOK' <=>
         (ChannelsFit /\ CountsInRange /\ FlagsAreBoolean /\ GoroutinesAreSomewhere)'
BY DEF TypeOK, ChannelsFit, CountsInRange, FlagsAreBoolean, GoroutinesAreSomewhere

\* Every step keeps the parts that are not about the channels.
LEMMA PartsStay ==
    ASSUME CountsInRange, FlagsAreBoolean, GoroutinesAreSomewhere, [Next]_vars
    PROVE  (CountsInRange /\ FlagsAreBoolean /\ GoroutinesAreSomewhere)'
<1> USE DEF vars, hubVars, outVars, Next, Main, FanOut, Writer, Environment, HubPublishes,
    HubPublishesStatus, HubClosesLines, HubClosesStatuses, PeerLeaves, PushHistory,
    PushStatus, StartFanOut, Reject, ReadFails, Cancel, WaitForFanOut, CloseOutbound,
    Return, FanOutLine, FanOutStatus, FanOutEnds, WriteFrame, WriteFails, WriterEnds
<1>1. CountsInRange'  BY SocketAssumption DEF CountsInRange
<1>2. FlagsAreBoolean'  BY DEF FlagsAreBoolean, TrySend
<1>3. GoroutinesAreSomewhere'  BY DEF GoroutinesAreSomewhere, Mains
<1> QED  BY <1>1, <1>2, <1>3

\* trySend adds the frame at the end, or loses it.
LEMMA TrySendAppends ==
    ASSUME TypeOK, ~outShut, NEW f \in Frame, TrySend(f)
    PROVE  /\ outbound' \in Seq(Frame) /\ Len(outbound') <= Outbound
           /\ outShut' = FALSE /\ panicked' = panicked
           /\ outbound' = outbound \/ outbound' = Append(outbound, f)
<1>1. outbound \in Seq(Frame) /\ Len(outbound) <= Outbound /\ outShut \in BOOLEAN
      /\ panicked \in BOOLEAN
  BY DEF TypeOK
<1>2. outShut' = FALSE /\ panicked' = panicked
  BY <1>1 DEF TrySend
<1>3. Append(outbound, f) \in Seq(Frame) /\ Len(Append(outbound, f)) = Len(outbound) + 1
  BY <1>1, AppendProperties
<1>4. outbound' = IF Len(outbound) < Outbound THEN Append(outbound, f) ELSE outbound
  BY DEF TrySend
<1> QED  BY <1>1, <1>2, <1>3, <1>4, LenProperties, SocketAssumption

\* The numbered frames after one more was sent, or lost.
LEMMA NumberedAppend ==
    ASSUME TypeOK, NEW f \in Frame, outbound' = outbound \/ outbound' = Append(outbound, f)
    PROVE  \A i \in Numbered' :
             \/ i \in Numbered /\ outbound'[i] = outbound[i]
             \/ /\ f \in 1..MaxLines /\ outbound'[i] = f
                /\ i = Len(outbound) + 1 /\ \A j \in Numbered : j < i
<1> SUFFICES ASSUME NEW i \in Numbered'
             PROVE  \/ i \in Numbered /\ outbound'[i] = outbound[i]
                    \/ /\ f \in 1..MaxLines /\ outbound'[i] = f
                       /\ i = Len(outbound) + 1 /\ \A j \in Numbered : j < i
  OBVIOUS
<1>1. outbound \in Seq(Frame) /\ Len(outbound) \in Nat  BY LenProperties DEF TypeOK
<1>2. CASE outbound' = outbound  BY <1>2 DEF Numbered
<1>3. CASE outbound' = Append(outbound, f)
  <2>1. /\ Len(outbound') = Len(outbound) + 1
        /\ \A j \in 1..Len(outbound) : outbound'[j] = outbound[j]
        /\ outbound'[Len(outbound) + 1] = f
    BY <1>1, <1>3, AppendProperties
  <2>2. i \in 1..Len(outbound) + 1 /\ outbound'[i] \in 1..MaxLines
    BY <2>1 DEF Numbered
  <2>3. CASE i \in 1..Len(outbound)  BY <2>1, <2>2, <2>3 DEF Numbered
  <2>4. CASE i = Len(outbound) + 1
    BY <1>1, <2>1, <2>2, <2>4 DEF Numbered
  <2> QED  BY <1>1, <2>2, <2>3, <2>4
<1> QED  BY <1>2, <1>3

\* The numbered frames after the first was taken.
LEMMA NumberedTail ==
    ASSUME TypeOK, outbound # <<>>, outbound' = Tail(outbound)
    PROVE  /\ outbound' \in Seq(Frame) /\ Len(outbound') <= Outbound
           /\ Head(outbound) = outbound[1] /\ outbound[1] \in Frame
           /\ \A i \in Numbered' : i + 1 \in Numbered /\ outbound'[i] = outbound[i + 1]
<1>1. outbound \in Seq(Frame) /\ Len(outbound) \in Nat /\ Len(outbound) <= Outbound
  BY LenProperties DEF TypeOK
<1>2. /\ outbound' \in Seq(Frame) /\ Len(outbound') = Len(outbound) - 1
      /\ \A i \in 1..Len(outbound') : outbound'[i] = outbound[i + 1]
  BY <1>1, HeadTailProperties
<1>3. Head(outbound) = outbound[1] /\ outbound[1] \in Frame
  BY <1>1, EmptySeq, ElementOfSeq
<1> QED  BY <1>1, <1>2, <1>3, SocketAssumption DEF Numbered

\* LinesAhead says of a step what it says of a state when nothing it is about moves.
LEMMA StillAhead ==
    ASSUME LinesAhead, UNCHANGED <<outbound, lines, said, sent, pushed>>,
           main' = "history" => main = "history"
    PROVE  LinesAhead'
BY DEF LinesAhead, Numbered

\* A frame that is no line is sent, or lost.
LEMMA AheadOfOther ==
    ASSUME TypeOK, LinesAhead, NEW f \in Frame \ (1..MaxLines),
           outbound' = outbound \/ outbound' = Append(outbound, f),
           UNCHANGED <<lines, said, sent, pushed>>, main' = "history" => main = "history"
    PROVE  LinesAhead'
<1>1. \A i \in Numbered' : i \in Numbered /\ outbound'[i] = outbound[i]
  BY NumberedAppend
<1> QED  BY <1>1 DEF LinesAhead

\* The invariant holds when the socket is opened.
LEMMA InitialSocket == Init => SocketInv
<1> SUFFICES ASSUME Init PROVE SocketInv
  OBVIOUS
<1> USE SocketAssumption DEF Init
<1>1. TypeOK
  <2>1. ChannelsFit  BY EmptySeq DEF ChannelsFit
  <2>2. CountsInRange  BY DEF CountsInRange
  <2>3. FlagsAreBoolean  BY DEF FlagsAreBoolean
  <2>4. GoroutinesAreSomewhere  BY DEF GoroutinesAreSomewhere, Mains
  <2> QED  BY <2>1, <2>2, <2>3, <2>4, TypeParts
<1>2. EndsInOrder /\ NeverPanics  BY DEF EndsInOrder, NeverPanics
<1>3. LinesAhead
  <2>1. Len(lines) = 0 /\ Numbered = {}  BY EmptySeq DEF Numbered
  <2> QED  BY <2>1 DEF LinesAhead
<1> QED  BY <1>1, <1>2, <1>3 DEF SocketInv

\* Every step of the two goroutines and of the client keeps it.
LEMMA InductiveSocket == SocketInv /\ [Next]_vars => SocketInv'
<1> SUFFICES ASSUME SocketInv, [Next]_vars PROVE SocketInv'
  OBVIOUS
<1> USE SocketAssumption DEF vars, hubVars, outVars
<1>t. TypeOK /\ EndsInOrder /\ NeverPanics /\ LinesAhead  BY DEF SocketInv
<1>f. /\ Status \in Frame \ (1..MaxLines) /\ Rejection \in Frame \ (1..MaxLines)
      /\ 1..MaxLines \subseteq Frame
  BY DEF Status, Rejection, Frame
<1>l. /\ lines \in Seq(1..MaxLines) /\ Len(lines) \in Nat
      /\ outbound \in Seq(Frame) /\ Len(outbound) \in Nat
      /\ \A i \in 1..Len(outbound) : outbound[i] \in Frame
      /\ \A i \in 1..Len(lines) : lines[i] \in 1..MaxLines
  BY <1>t, LenProperties, ElementOfSeq DEF TypeOK
<1>c. ChannelsFit  BY <1>t, TypeParts
<1>p. ChannelsFit' => TypeOK'  BY <1>t, PartsStay, TypeParts
<1>1. CASE HubPublishes
  <2>1. /\ said + 1 \in 1..MaxLines /\ said' = said + 1 /\ said \in Old..MaxLines
        /\ outbound' = outbound
    BY <1>1, <1>t DEF HubPublishes, TypeOK
  <2>2. /\ lines' = lines \/ lines' = Append(lines, said + 1)
        /\ Len(lines) < Queue \/ lines' = lines
    BY <1>1 DEF HubPublishes
  <2>3. /\ lines' \in Seq(1..MaxLines) /\ Len(lines') \in Nat
        /\ Len(lines') <= Len(lines) + 1
        /\ \A k \in 1..Len(lines') : \/ k \in 1..Len(lines) /\ lines'[k] = lines[k]
                                     \/ k = Len(lines) + 1 /\ lines'[k] = said + 1
    BY <1>l, <2>1, <2>2, AddedOrLost
  <2>q. Len(lines') <= Queue
    <3>1. CASE lines' = lines  BY <1>c, <3>1 DEF ChannelsFit
    <3>2. CASE Len(lines) < Queue  BY ONLY <1>l, <2>3, <3>2, SocketAssumption
    <3> QED  BY <2>2, <3>1, <3>2
  <2>4. TypeOK'  BY ONLY <1>c, <1>p, <2>1, <2>3, <2>q DEF ChannelsFit
  <2>5. (EndsInOrder /\ NeverPanics)'
    BY <1>1, <1>t DEF HubPublishes, EndsInOrder, NeverPanics
  <2>6. LinesAhead'
    <3>1. Numbered' = Numbered /\ outbound' = outbound /\ sent' = sent /\ pushed' = pushed
          /\ main' = main
      BY <1>1 DEF HubPublishes, Numbered
    <3>2. /\ \A i \in Numbered : outbound[i] \in Nat
          /\ sent \in Nat /\ Old \in Nat /\ Old <= said
      BY <1>t, <1>l DEF Numbered, Frame, TypeOK
    <3>3. \A k \in 1..Len(lines) : lines[k] \in Nat  BY <1>l
    <3>4. \A k \in 1..Len(lines') : Old < lines'[k] /\ lines'[k] <= said' /\ sent < lines'[k]
      <4> SUFFICES ASSUME NEW k \in 1..Len(lines')
                   PROVE  Old < lines'[k] /\ lines'[k] <= said + 1 /\ sent < lines'[k]
        BY <2>1
      <4>1. sent <= said  BY ONLY <1>t DEF LinesAhead
      <4>2. CASE k \in 1..Len(lines) /\ lines'[k] = lines[k]
        <5>1. Old < lines[k] /\ lines[k] <= said /\ sent < lines[k] /\ lines[k] \in Nat
          BY ONLY <1>t, <3>3, <4>2 DEF LinesAhead
        <5> QED  BY ONLY <2>1, <4>2, <5>1, SocketAssumption
      <4>3. CASE lines'[k] = said + 1
        BY ONLY <2>1, <3>2, <4>1, <4>3, SocketAssumption
      <4> QED  BY <2>3, <4>2, <4>3
    <3>5. ASSUME NEW k \in 1..Len(lines'), NEW l \in 1..Len(lines'), k < l
          PROVE  lines'[k] < lines'[l]
      <4>1. k \in 1..Len(lines) /\ lines'[k] = lines[k]  BY ONLY <1>l, <2>3, <3>5
      <4>2. CASE l \in 1..Len(lines) /\ lines'[l] = lines[l]
        BY ONLY <1>t, <3>5, <4>1, <4>2 DEF LinesAhead
      <4>3. CASE lines'[l] = said + 1
        <5>1. lines[k] <= said /\ lines[k] \in Nat
          BY ONLY <1>t, <3>3, <4>1 DEF LinesAhead
        <5> QED  BY ONLY <2>1, <4>1, <4>3, <5>1, SocketAssumption
      <4> QED  BY <2>3, <4>2, <4>3
    <3>6. ASSUME NEW i \in Numbered
          PROVE  /\ outbound[i] <= said'
                 /\ \A k \in 1..Len(lines') : outbound[i] < lines'[k]
      BY <1>t, <2>1, <2>3, <3>2, <3>3, <3>6 DEF LinesAhead
    <3>7. sent <= said'  BY <1>t, <2>1, <3>2 DEF LinesAhead
    <3> QED  BY <1>t, <3>1, <3>4, <3>5, <3>6, <3>7 DEF LinesAhead
  <2> QED  BY <2>4, <2>5, <2>6 DEF SocketInv
<1>2. CASE HubPublishesStatus \/ HubClosesLines \/ HubClosesStatuses \/ PeerLeaves
  <2>1. TypeOK'
    BY <1>2, <1>c, <1>p DEF HubPublishesStatus, HubClosesLines, HubClosesStatuses,
       PeerLeaves, ChannelsFit
  <2>2. (EndsInOrder /\ NeverPanics)'
    BY <1>2, <1>t DEF HubPublishesStatus, HubClosesLines, HubClosesStatuses, PeerLeaves,
       EndsInOrder, NeverPanics
  <2>3. LinesAhead'
    BY <1>2, <1>t, StillAhead DEF HubPublishesStatus, HubClosesLines, HubClosesStatuses,
       PeerLeaves
  <2> QED  BY <2>1, <2>2, <2>3 DEF SocketInv
<1>3. CASE PushHistory
  <2>1. ~outShut /\ pushed + 1 \in 1..MaxLines /\ pushed \in Nat /\ pushed + 1 <= Old
        /\ main = "history" /\ pushed' = pushed + 1 /\ pushed + 1 \in Frame
    BY <1>3, <1>t, <1>f DEF PushHistory, EndsInOrder, TypeOK
  <2>2. /\ outbound' \in Seq(Frame) /\ Len(outbound') <= Outbound
        /\ outShut' = FALSE /\ panicked' = panicked
        /\ outbound' = outbound \/ outbound' = Append(outbound, pushed + 1)
    BY <1>3, <1>t, <2>1, TrySendAppends DEF PushHistory
  <2>3. TypeOK'  BY <1>3, <1>c, <1>p, <2>1, <2>2 DEF PushHistory, ChannelsFit
  <2>4. (EndsInOrder /\ NeverPanics)'
    BY <1>3, <1>t, <2>1, <2>2 DEF PushHistory, EndsInOrder, NeverPanics
  <2>5. LinesAhead'
    <3>1. \A i \in Numbered' :
             \/ i \in Numbered /\ outbound'[i] = outbound[i]
             \/ /\ outbound'[i] = pushed + 1
                /\ i = Len(outbound) + 1 /\ \A j \in Numbered : j < i
      BY <1>t, <2>1, <2>2, NumberedAppend
    <3>2. UNCHANGED <<lines, said, sent, main>>  BY <1>3 DEF PushHistory
    <3>3. /\ \A i \in Numbered : outbound[i] \in Nat /\ i \in Nat
          /\ sent \in Nat /\ said \in Nat /\ Old <= said
      BY <1>t, <1>l DEF Numbered, Frame, TypeOK
    <3>4. \A k \in 1..Len(lines) : lines[k] \in Nat  BY <1>l
    <3>5. \A i \in Numbered' :
            /\ sent < outbound'[i] /\ outbound'[i] <= said /\ outbound'[i] <= pushed'
            /\ \A k \in 1..Len(lines) : outbound'[i] < lines[k]
      BY <1>t, <2>1, <3>1, <3>3, <3>4 DEF LinesAhead
    <3>6. \A i, j \in Numbered' : i < j => outbound'[i] < outbound'[j]
      BY <1>t, <1>l, <2>1, <3>1, <3>3 DEF LinesAhead
    <3> QED  BY <1>t, <2>1, <3>2, <3>3, <3>5, <3>6 DEF LinesAhead
  <2> QED  BY <2>3, <2>4, <2>5 DEF SocketInv
<1>4. CASE PushStatus
  <2>1. ~outShut  BY <1>4, <1>t DEF PushStatus, EndsInOrder
  <2>2. /\ outbound' \in Seq(Frame) /\ Len(outbound') <= Outbound
        /\ outShut' = FALSE /\ panicked' = panicked
        /\ outbound' = outbound \/ outbound' = Append(outbound, Status)
    BY <1>4, <1>t, <1>f, <2>1, TrySendAppends DEF PushStatus, TypeOK
  <2>3. TypeOK'  BY <1>4, <1>c, <1>p, <2>2 DEF PushStatus, ChannelsFit
  <2>4. (EndsInOrder /\ NeverPanics)'
    BY <1>4, <1>t, <2>2 DEF PushStatus, EndsInOrder, NeverPanics
  <2>5. LinesAhead'
    BY <1>4, <1>t, <1>f, <2>2, AheadOfOther DEF PushStatus
  <2> QED  BY <2>3, <2>4, <2>5 DEF SocketInv
<1>5. CASE StartFanOut \/ ReadFails \/ Cancel \/ WaitForFanOut \/ CloseOutbound \/ Return
  <2>1. TypeOK'
    BY <1>5, <1>c, <1>p DEF StartFanOut, ReadFails, Cancel, WaitForFanOut, CloseOutbound, Return,
       ChannelsFit
  <2>2. (EndsInOrder /\ NeverPanics)'
    BY <1>5, <1>t DEF StartFanOut, ReadFails, Cancel, WaitForFanOut, CloseOutbound, Return,
       EndsInOrder, NeverPanics
  <2>3. LinesAhead'
    BY <1>5, <1>t, StillAhead DEF StartFanOut, ReadFails, Cancel, WaitForFanOut,
       CloseOutbound, Return
  <2> QED  BY <2>1, <2>2, <2>3 DEF SocketInv
<1>6. CASE Reject
  <2>1. ~outShut  BY <1>6, <1>t DEF Reject, EndsInOrder
  <2>2. /\ outbound' \in Seq(Frame) /\ Len(outbound') <= Outbound
        /\ outShut' = FALSE /\ panicked' = panicked
        /\ outbound' = outbound \/ outbound' = Append(outbound, Rejection)
    BY <1>6, <1>t, <1>f, <2>1, TrySendAppends DEF Reject
  <2>3. TypeOK'  BY <1>6, <1>c, <1>p, <2>2 DEF Reject, ChannelsFit
  <2>4. (EndsInOrder /\ NeverPanics)'
    BY <1>6, <1>t, <2>2 DEF Reject, EndsInOrder, NeverPanics
  <2>5. LinesAhead'
    BY <1>6, <1>t, <1>f, <2>2, AheadOfOther DEF Reject
  <2> QED  BY <2>3, <2>4, <2>5 DEF SocketInv
<1>7. CASE FanOutLine
  <2>1. /\ ~outShut /\ fan = "run" /\ lines # <<>> /\ main # "history"
    BY <1>7, <1>t DEF FanOutLine, EndsInOrder
  <2>2. /\ lines' \in Seq(1..MaxLines) /\ Len(lines') = Len(lines) - 1
        /\ Head(lines) = lines[1] /\ 1 \in 1..Len(lines)
        /\ \A k \in 1..Len(lines') : k + 1 \in 1..Len(lines) /\ lines'[k] = lines[k + 1]
    <3>1. lines' = Tail(lines)  BY <1>7 DEF FanOutLine
    <3> QED  BY ONLY <1>l, <2>1, <3>1, Taken
  <2>3. Head(lines) \in 1..MaxLines /\ Head(lines) \in Frame  BY <1>l, <1>f, <2>2
  <2>4. /\ outbound' \in Seq(Frame) /\ Len(outbound') <= Outbound
        /\ outShut' = FALSE /\ panicked' = panicked
        /\ outbound' = outbound \/ outbound' = Append(outbound, Head(lines))
    BY <1>7, <1>t, <2>1, <2>3, TrySendAppends DEF FanOutLine
  <2>5. TypeOK'  BY ONLY <1>c, <1>p, <1>l, <2>2, <2>4, SocketAssumption DEF ChannelsFit
  <2>6. (EndsInOrder /\ NeverPanics)'
    BY <1>7, <1>t, <2>1, <2>4 DEF FanOutLine, EndsInOrder, NeverPanics
  <2>7. LinesAhead'
    <3>1. \A i \in Numbered' :
             \/ i \in Numbered /\ outbound'[i] = outbound[i]
             \/ /\ outbound'[i] = Head(lines)
                /\ i = Len(outbound) + 1 /\ \A j \in Numbered : j < i
      BY <1>t, <2>3, <2>4, NumberedAppend
    <3>2. UNCHANGED <<said, sent, main, pushed>>  BY <1>7 DEF FanOutLine
    <3>3. \A i \in Numbered : outbound[i] \in Nat /\ i \in Nat
      BY <1>l DEF Numbered, Frame
    <3>4. \A k \in 1..Len(lines) : lines[k] \in Nat  BY <1>l
    <3>5. \A k \in 1..Len(lines') :
            /\ lines[1] < lines'[k]
            /\ Old < lines'[k] /\ lines'[k] <= said /\ sent < lines'[k]
      <4> SUFFICES ASSUME NEW k \in 1..Len(lines')
                   PROVE  /\ lines[1] < lines[k + 1]
                          /\ Old < lines[k + 1] /\ lines[k + 1] <= said
                          /\ sent < lines[k + 1]
        BY <2>2
      <4>1. k + 1 \in 1..Len(lines) /\ 1 < k + 1  BY ONLY <1>l, <2>2
      <4> QED  BY ONLY <1>t, <2>2, <4>1 DEF LinesAhead
    <3>6. ASSUME NEW k \in 1..Len(lines'), NEW l \in 1..Len(lines'), k < l
          PROVE  lines'[k] < lines'[l]
      <4>1. k + 1 \in 1..Len(lines) /\ l + 1 \in 1..Len(lines) /\ k + 1 < l + 1
        BY ONLY <1>l, <2>2, <3>6
      <4>2. lines[k + 1] < lines[l + 1]  BY ONLY <1>t, <4>1 DEF LinesAhead
      <4> QED  BY <2>2, <4>2
    <3>7. \A i \in Numbered' :
            /\ sent < outbound'[i] /\ outbound'[i] <= said
            /\ \A k \in 1..Len(lines') : outbound'[i] < lines'[k]
      <4> SUFFICES ASSUME NEW i \in Numbered'
                   PROVE  /\ sent < outbound'[i] /\ outbound'[i] <= said
                          /\ \A k \in 1..Len(lines') : outbound'[i] < lines'[k]
        OBVIOUS
      <4>1. CASE i \in Numbered /\ outbound'[i] = outbound[i]
        BY <1>t, <2>2, <3>5, <4>1 DEF LinesAhead
      <4>2. CASE outbound'[i] = Head(lines)
        BY <1>t, <2>2, <3>5, <4>2 DEF LinesAhead
      <4> QED  BY <3>1, <4>1, <4>2
    <3>8. ASSUME NEW i \in Numbered', NEW j \in Numbered', i < j
          PROVE  outbound'[i] < outbound'[j]
      <4>1. CASE j \in Numbered /\ outbound'[j] = outbound[j]
        <5>1. i \in Numbered /\ outbound'[i] = outbound[i]
          BY <1>l, <3>1, <3>8, <4>1 DEF Numbered
        <5> QED  BY <1>t, <3>8, <4>1, <5>1 DEF LinesAhead
      <4>2. CASE /\ outbound'[j] = Head(lines)
                 /\ j = Len(outbound) + 1 /\ \A k \in Numbered : k < j
        <5>1. i \in Numbered /\ outbound'[i] = outbound[i]
          BY <1>l, <3>1, <3>8, <4>2
        <5> QED  BY <1>t, <2>2, <4>2, <5>1 DEF LinesAhead
      <4> QED  BY <3>1, <4>1, <4>2
    <3> QED  BY <1>t, <2>1, <3>2, <3>5, <3>6, <3>7, <3>8 DEF LinesAhead
  <2> QED  BY <2>5, <2>6, <2>7 DEF SocketInv
<1>8. CASE FanOutStatus
  <2>1. ~outShut  BY <1>8, <1>t DEF FanOutStatus, EndsInOrder
  <2>2. /\ outbound' \in Seq(Frame) /\ Len(outbound') <= Outbound
        /\ outShut' = FALSE /\ panicked' = panicked
        /\ outbound' = outbound \/ outbound' = Append(outbound, Status)
    BY <1>8, <1>t, <1>f, <2>1, TrySendAppends DEF FanOutStatus
  <2>3. TypeOK'  BY <1>8, <1>c, <1>p, <2>2 DEF FanOutStatus, ChannelsFit
  <2>4. (EndsInOrder /\ NeverPanics)'
    BY <1>8, <1>t, <2>2 DEF FanOutStatus, EndsInOrder, NeverPanics
  <2>5. LinesAhead'
    BY <1>8, <1>t, <1>f, <2>2, AheadOfOther DEF FanOutStatus
  <2> QED  BY <2>3, <2>4, <2>5 DEF SocketInv
<1>9. CASE FanOutEnds \/ WriterEnds
  <2>1. TypeOK'  BY <1>9, <1>c, <1>p DEF FanOutEnds, WriterEnds, ChannelsFit
  <2>2. (EndsInOrder /\ NeverPanics)'
    BY <1>9, <1>t DEF FanOutEnds, WriterEnds, EndsInOrder, NeverPanics
  <2>3. LinesAhead'  BY <1>9, <1>t, StillAhead DEF FanOutEnds, WriterEnds
  <2> QED  BY <2>1, <2>2, <2>3 DEF SocketInv
<1>10. CASE WriteFrame
  <2>1. /\ outbound' \in Seq(Frame) /\ Len(outbound') <= Outbound
        /\ Head(outbound) = outbound[1] /\ outbound[1] \in Frame
        /\ \A i \in Numbered' : i + 1 \in Numbered /\ outbound'[i] = outbound[i + 1]
        /\ \A i \in Numbered' : i \in Nat /\ 1 <= i
    BY <1>10, <1>t, NumberedTail, LenProperties DEF WriteFrame, Numbered
  <2>2. sent' = IF outbound[1] \in 1..MaxLines THEN outbound[1] ELSE sent
    BY <1>10, <2>1 DEF WriteFrame
  <2>3. 1 \in 1..Len(outbound)  BY <1>10, <1>l, EmptySeq DEF WriteFrame
  <2>4. TypeOK'  BY <1>10, <1>c, <1>p, <2>1, <2>2 DEF WriteFrame, ChannelsFit
  <2>5. (EndsInOrder /\ NeverPanics)'
    BY <1>10, <1>t DEF WriteFrame, EndsInOrder, NeverPanics
  <2>6. LinesAhead'
    <3>1. UNCHANGED <<lines, said, main, pushed>>  BY <1>10 DEF WriteFrame
    <3>2. outbound[1] \in 1..MaxLines => 1 \in Numbered  BY <2>3 DEF Numbered
    <3>3. \A i \in Numbered' : outbound[i + 1] > sent'
      BY <1>t, <2>1, <2>2, <3>2 DEF LinesAhead
    <3>4. \A i, j \in Numbered' : i < j => outbound'[i] < outbound'[j]
      BY <1>t, <2>1 DEF LinesAhead
    <3>5. \A k \in 1..Len(lines) : sent' < lines[k]
      BY <1>t, <2>2, <3>2 DEF LinesAhead
    <3>6. sent' <= said /\ (main = "history" => sent' <= pushed)
      BY <1>t, <2>2, <3>2 DEF LinesAhead
    <3>7. \A i \in Numbered' : sent' < outbound'[i]
      BY <2>1, <2>2, <3>3, <1>l DEF Numbered, Frame
    <3> QED  BY <1>t, <2>1, <3>1, <3>4, <3>5, <3>6, <3>7 DEF LinesAhead
  <2> QED  BY <2>4, <2>5, <2>6 DEF SocketInv
<1>11. CASE WriteFails
  <2>1. UNCHANGED <<lines, said, sent, main, pushed, outShut, panicked, fan>>
    BY <1>11 DEF WriteFails
  <2>2. CASE outbound = <<>>
    <3>1. outbound' = outbound  BY <1>11, <2>2 DEF WriteFails
    <3> QED  BY <1>11, <1>t, <2>1, <3>1, StillAhead
             DEF WriteFails, SocketInv, TypeOK, EndsInOrder, NeverPanics
  <2>3. CASE outbound # <<>>
    <3>1. outbound' = Tail(outbound)  BY <1>11, <2>3 DEF WriteFails
    <3>2. /\ outbound' \in Seq(Frame) /\ Len(outbound') <= Outbound
          /\ \A i \in Numbered' : i + 1 \in Numbered /\ outbound'[i] = outbound[i + 1]
          /\ \A i \in Numbered' : i \in Nat
      BY <1>t, <2>3, <3>1, NumberedTail DEF Numbered
    <3>3. TypeOK'  BY <1>11, <1>c, <1>p, <2>1, <3>2 DEF WriteFails, ChannelsFit
    <3>4. (EndsInOrder /\ NeverPanics)'  BY <1>t, <2>1 DEF EndsInOrder, NeverPanics
    <3>5. LinesAhead'  BY <1>t, <2>1, <3>2 DEF LinesAhead
    <3> QED  BY <3>3, <3>4, <3>5 DEF SocketInv
  <2> QED  BY <2>2, <2>3
<1>12. CASE UNCHANGED vars
  <2>1. TypeOK'  BY <1>12, <1>c, <1>p DEF ChannelsFit
  <2>2. (EndsInOrder /\ NeverPanics)'  BY <1>12, <1>t DEF EndsInOrder, NeverPanics
  <2>3. LinesAhead'  BY <1>12, <1>t, StillAhead
  <2> QED  BY <2>1, <2>2, <2>3 DEF SocketInv
<1> QED
  BY <1>1, <1>2, <1>3, <1>4, <1>5, <1>6, <1>7, <1>8, <1>9, <1>10, <1>11, <1>12
  DEF Next, Main, FanOut, Writer, Environment

\* What LinesAhead says of the two channels is what InOrder says of the way to the peer.
LEMMA AheadIsInOrder == TypeOK /\ LinesAhead => InOrder
<1> SUFFICES ASSUME TypeOK, LinesAhead PROVE InOrder
  OBVIOUS
<1> DEFINE way == outbound \o lines
           at(j) == j - Len(outbound)
<1>1. /\ outbound \in Seq(Frame) /\ lines \in Seq(Frame)
      /\ Len(outbound) \in Nat /\ Len(lines) \in Nat
  BY SeqMonotonic, LenProperties, SocketAssumption DEF TypeOK, Frame
<1>2. /\ Len(way) = Len(outbound) + Len(lines)
      /\ \A j \in 1..Len(way) :
           way[j] = IF j <= Len(outbound) THEN outbound[j] ELSE lines[at(j)]
  BY <1>1, ConcatProperties
<1> HIDE DEF way
<1>3. \A j \in 1..Len(way) : \/ j \in 1..Len(outbound)
                             \/ at(j) \in 1..Len(lines) /\ j > Len(outbound)
  BY <1>1, <1>2
<1>4. \A j \in 1..Len(way) : way[j] \in 1..MaxLines =>
        \/ j \in Numbered /\ way[j] = outbound[j]
        \/ at(j) \in 1..Len(lines) /\ j > Len(outbound) /\ way[j] = lines[at(j)]
  BY <1>1, <1>2, <1>3 DEF Numbered
<1>5. ASSUME NEW j \in 1..Len(way), way[j] \in 1..MaxLines
      PROVE  way[j] > sent
  BY <1>4, <1>5 DEF LinesAhead
<1>6. ASSUME NEW i \in 1..Len(way), NEW j \in 1..Len(way), i < j,
             way[i] \in 1..MaxLines, way[j] \in 1..MaxLines
      PROVE  way[i] < way[j]
  <2>1. CASE i \in Numbered /\ way[i] = outbound[i]
    BY <1>4, <1>6, <2>1 DEF LinesAhead
  <2>2. CASE at(i) \in 1..Len(lines) /\ i > Len(outbound) /\ way[i] = lines[at(i)]
    <3>1. at(j) \in 1..Len(lines) /\ way[j] = lines[at(j)] /\ at(i) < at(j)
      BY <1>1, <1>4, <1>6, <2>2 DEF Numbered
    <3> QED  BY <2>2, <3>1 DEF LinesAhead
  <2> QED  BY <1>4, <1>6, <2>1, <2>2
<1> QED  BY <1>5, <1>6 DEF InOrder, way

-----------------------------------------------------------------------------
\* In every state of a socket, whatever the hub and the peer do.
THEOREM SocketInvariance == Spec => []SocketInv
<1>1. Init => SocketInv  BY InitialSocket
<1>2. SocketInv /\ [Next]_vars => SocketInv'  BY InductiveSocket
<1> QED  BY <1>1, <1>2, PTL DEF Spec

\* The variables of a socket keep their types: no channel holds more than fits.
THEOREM SocketTypes == Spec => []TypeOK
<1>1. SocketInv => TypeOK  BY DEF SocketInv
<1> QED  BY <1>1, SocketInvariance, PTL

\* runConsoleSocket closes outbound when nobody is left who sends on it, in whatever
\* order the hub, the peer and the three goroutines end.
THEOREM NobodySendsClosed == Spec => []NeverPanics
<1>1. SocketInv => NeverPanics  BY DEF SocketInv
<1> QED  BY <1>1, SocketInvariance, PTL

\* Scrollback and stream reach the peer in the order they were said, without repeats,
\* whatever the two channels lose.
THEOREM LinesKeepOrder == Spec => []InOrder
<1>1. SocketInv => InOrder  BY AheadIsInOrder DEF SocketInv
<1> QED  BY <1>1, SocketInvariance, PTL
=============================================================================
