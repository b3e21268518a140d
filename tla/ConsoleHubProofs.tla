-------------------------- MODULE ConsoleHubProofs --------------------------
(***************************************************************************)
(* Theorems about ConsoleHub, for buffers and queues of any size and any   *)
(* number of lines and viewers: RingBuffer is a tail of what was said, the *)
(* scrollback and the stream of a viewer join, and the hub implements      *)
(* ConsoleFeed.                                                            *)
(***************************************************************************)
EXTENDS ConsoleHub, SequenceTheorems, TLAPS

\* Where the elements of three sequences are when they follow each other.
LEMMA ThreeInARow ==
    ASSUME NEW S, NEW a \in Seq(S), NEW b \in Seq(S), NEW c \in Seq(S)
    PROVE  LET all == a \o b \o c IN
             /\ all \in Seq(S) /\ Len(all) = Len(a) + Len(b) + Len(c)
             /\ Len(a) \in Nat /\ Len(b) \in Nat /\ Len(c) \in Nat
             /\ \A k \in 1..Len(a) : all[k] = a[k]
             /\ \A k \in 1..Len(b) : all[Len(a) + k] = b[k]
             /\ \A k \in 1..Len(c) : all[Len(a) + Len(b) + k] = c[k]
<1>1. Len(a) \in Nat /\ Len(b) \in Nat /\ Len(c) \in Nat  BY LenProperties
<1>2. /\ a \o b \in Seq(S) /\ Len(a \o b) = Len(a) + Len(b)
      /\ \A k \in 1..Len(a) + Len(b) :
           (a \o b)[k] = IF k <= Len(a) THEN a[k] ELSE b[k - Len(a)]
  BY ConcatProperties
<1> DEFINE d == a \o b
<1>3. /\ d \in Seq(S) /\ Len(d) = Len(a) + Len(b)
      /\ \A k \in 1..Len(a) : d[k] = a[k]
      /\ \A k \in 1..Len(b) : d[Len(a) + k] = b[k]
  BY <1>1, <1>2
<1> HIDE DEF d
<1>d. d \in Seq(S)  BY <1>3
<1>4. /\ d \o c \in Seq(S) /\ Len(d \o c) = Len(d) + Len(c)
      /\ \A k \in 1..Len(d) + Len(c) :
           (d \o c)[k] = IF k <= Len(d) THEN d[k] ELSE c[k - Len(d)]
  BY <1>d, ConcatProperties, Zenon
<1> DEFINE all == d \o c
<1>5. /\ all \in Seq(S) /\ Len(all) = Len(a) + Len(b) + Len(c)
      /\ \A k \in 1..Len(d) : all[k] = d[k]
      /\ \A k \in 1..Len(c) : all[Len(d) + k] = c[k]
  BY <1>1, <1>3, <1>4
<1> HIDE DEF all
<1>6. /\ \A k \in 1..Len(a) : all[k] = a[k]
      /\ \A k \in 1..Len(b) : all[Len(a) + k] = b[k]
      /\ \A k \in 1..Len(c) : all[Len(a) + Len(b) + k] = c[k]
  BY <1>1, <1>3, <1>5
<1> QED  BY <1>1, <1>5, <1>6 DEF all, d

\* A send puts its element at the end of everything.
LEMMA SendIsLast ==
    ASSUME NEW S, NEW a \in Seq(S), NEW b \in Seq(S), NEW c \in Seq(S), NEW e \in S
    PROVE  a \o b \o Append(c, e) = Append(a \o b \o c, e)
<1>1. <<e>> \in Seq(S)  OBVIOUS
<1>2. (a \o b) \in Seq(S)  BY ConcatProperties
<1>3. (a \o b) \o c \in Seq(S)  BY <1>2, ConcatProperties
<1>4. Append(c, e) = c \o <<e>> /\ Append((a \o b) \o c, e) = ((a \o b) \o c) \o <<e>>
  BY <1>3, AppendIsConcat
<1>5. ((a \o b) \o c) \o <<e>> = (a \o b) \o (c \o <<e>>)
  BY <1>1, <1>2, ConcatAssociative
<1> QED  BY <1>4, <1>5

\* The ring: the slots before next were written in this round, those from next on in
\* the round before, if there was one.
RingHolds ==
    /\ count = IF said < Cap THEN said ELSE Cap
    /\ said < Cap => next = said
    /\ \A j \in 0..Cap-1 :
         /\ j < next => buf[j] = said - next + 1 + j
         /\ j >= next /\ said >= Cap => buf[j] = said - next + 1 + j - Cap

\* A sequence of lines without a hole, up to one of them.
IsTail(s, last) == \A i \in 1..Len(s) : s[i] = last - Len(s) + i

\* All a viewer is given.
Way(v) == history[v] \o heard[v] \o queue[v]

\* h.mu is held between the two halves of SubscribeWithHistory, and nobody is
\* registered with a closed bus.
LockHolds ==
    /\ lock \in Streams => said >= 1
    /\ \A v \in Readers : sub[v] = "snapped" <=> lock = v
    /\ \A v \in Watchers : sub[v] # "snapped"
    /\ closed => \A v \in Viewers : sub[v] # "open"

\* Before it is registered a viewer has no line but the scrollback.
NothingYet ==
    \A v \in Viewers :
        /\ sub[v] \in {"none", "snapped"} => heard[v] = <<>> /\ queue[v] = <<>> /\ missed[v] = 0
        /\ sub[v] = "none" \/ v \in Watchers => history[v] = <<>>
        /\ sub[v] = "snapped" =>
             /\ IsTail(history[v], said)
             /\ Len(history[v]) <= Wanted /\ Len(history[v]) <= said

MissesAreBounded == \A v \in Viewers : missed[v] <= Told

WayIsTail ==
    \A v \in Readers : sub[v] = "open" /\ missed[v] = 0 => IsTail(Way(v), Told)

HubInv ==
    /\ TypeOK /\ RingHolds /\ LockHolds /\ NothingYet /\ MissesAreBounded /\ WayIsTail
    /\ MissesAreCounted

-----------------------------------------------------------------------------
\* An index that went past the end once is back in the buffer.
LEMMA WrapsOnce ==
    ASSUME NEW x \in Int, 0 <= x, x < Cap + Cap
    PROVE  x % Cap = IF x < Cap THEN x ELSE x - Cap
<1>1. CASE x < Cap  BY <1>1, HubAssumption
<1>2. CASE Cap <= x  BY <1>2, HubAssumption
<1> QED  BY <1>1, <1>2, HubAssumption

\* The sequence of a run of numbers.
LEMMA RunIsSeq ==
    ASSUME NEW S, NEW m \in Nat, NEW from \in Int, \A i \in 1..m : from + i \in S
    PROVE  LET run == [i \in 1..m |-> from + i] IN run \in Seq(S) /\ Len(run) = m
BY IsASeq

\* RingBuffer.Last: the last m lines, m what was asked for, was said, or fits.
LEMMA LastIsTail ==
    ASSUME TypeOK, RingHolds, NEW n \in Nat
    PROVE  LET m == IF n > count THEN count ELSE n IN
             /\ m \in Nat /\ m <= said /\ m <= n
             /\ Last(n) = [i \in 1..m |-> said - m + i]
             /\ Last(n) \in Seq(Lines) /\ Len(Last(n)) = m
<1> DEFINE m == IF n > count THEN count ELSE n
           start == (next - m + Cap) % Cap
<1>1. /\ next \in 0..Cap-1 /\ count \in 0..Cap /\ said \in 0..MaxLines
      /\ Cap \in Nat \ {0} /\ MaxLines \in Nat
  BY HubAssumption DEF TypeOK
<1>2. m \in Nat /\ m <= count /\ m <= Cap /\ m <= said /\ m <= n
  BY <1>1 DEF RingHolds
<1>3. Last(n) = [i \in 1..m |-> buf[(start + i - 1) % Cap]]  BY DEF Last
<1> HIDE DEF m
<1>4. start = IF next < m THEN next - m + Cap ELSE next - m
  <2>1. next - m + Cap \in Int /\ 0 <= next - m + Cap /\ next - m + Cap < Cap + Cap
    BY <1>1, <1>2
  <2> QED  BY <1>1, <1>2, <2>1, WrapsOnce
<1> HIDE DEF start
<1>r. /\ said < Cap => next = said
      /\ \A j \in 0..Cap-1 : j < next => buf[j] = said - next + 1 + j
      /\ \A j \in 0..Cap-1 : j >= next /\ said >= Cap => buf[j] = said - next + 1 + j - Cap
  BY DEF RingHolds
<1>5. ASSUME NEW i \in 1..m PROVE buf[(start + i - 1) % Cap] = said - m + i
  <2> DEFINE x == start + i - 1
             j == x % Cap
  <2>1. x \in Int /\ 0 <= x /\ x < Cap + Cap
    BY ONLY <1>1, <1>2, <1>4, <1>5
  <2> HIDE DEF x
  <2>2. j = IF x < Cap THEN x ELSE x - Cap  BY ONLY <2>1, WrapsOnce
  <2> HIDE DEF j
  <2>3. j \in 0..Cap-1  BY ONLY <1>1, <2>1, <2>2
  <2>4. ASSUME j < next PROVE buf[j] = said - m + i
    <3>1. buf[j] = said - next + 1 + j  BY ONLY <1>r, <2>3, <2>4
    <3>2. j = next - m + i - 1
      BY ONLY <1>1, <1>2, <1>4, <1>5, <2>2, <2>4 DEF x
    <3> QED  BY ONLY <1>1, <1>2, <1>5, <3>1, <3>2
  <2>5. ASSUME j >= next PROVE buf[j] = said - m + i
    <3>1. j = next - m + Cap + i - 1 /\ next < m
      BY ONLY <1>1, <1>2, <1>4, <1>5, <2>2, <2>3, <2>5 DEF x
    <3>2. said >= Cap  BY ONLY <1>1, <1>2, <1>r, <3>1
    <3>3. buf[j] = said - next + 1 + j - Cap  BY ONLY <1>r, <2>3, <2>5, <3>2
    <3> QED  BY ONLY <1>1, <1>2, <1>5, <3>1, <3>3
  <2>6. buf[j] = said - m + i  BY ONLY <1>1, <2>3, <2>4, <2>5
  <2> QED  BY <2>6 DEF j, x
<1>6. Last(n) = [i \in 1..m |-> said - m + i]  BY <1>3, <1>5
<1>7. Last(n) \in Seq(Lines) /\ Len(Last(n)) = m
  <2>1. said - m \in Int /\ \A i \in 1..m : said - m + i \in Lines
    BY <1>1, <1>2 DEF Lines
  <2> QED  BY <1>2, <1>6, <2>1, RunIsSeq
<1> QED  BY <1>2, <1>6, <1>7 DEF m

\* RingBuffer.Add keeps the ring.
LEMMA AddKeepsRing ==
    ASSUME TypeOK, RingHolds, said' = said + 1, Add(said + 1), said < MaxLines
    PROVE  /\ RingHolds'
           /\ buf' \in [0..Cap-1 -> 0..MaxLines] /\ next' \in 0..Cap-1 /\ count' \in 0..Cap
<1>1. /\ next \in 0..Cap-1 /\ count \in 0..Cap /\ said \in 0..MaxLines
      /\ Cap \in Nat \ {0} /\ MaxLines \in Nat /\ buf \in [0..Cap-1 -> 0..MaxLines]
  BY HubAssumption DEF TypeOK
<1>s. said' = said + 1  OBVIOUS
<1>2. next' = IF next + 1 < Cap THEN next + 1 ELSE 0
  <2> DEFINE x == next + 1
  <2>1. x \in Int /\ 0 <= x /\ x < Cap + Cap  BY <1>1
  <2>2. next' = x % Cap  BY DEF Add
  <2> HIDE DEF x
  <2>3. x % Cap = IF x < Cap THEN x ELSE x - Cap  BY ONLY <2>1, WrapsOnce
  <2> QED  BY ONLY <1>1, <2>2, <2>3 DEF x
<1>r. /\ count = IF said < Cap THEN said ELSE Cap
      /\ said < Cap => next = said
      /\ \A j \in 0..Cap-1 : j < next => buf[j] = said - next + 1 + j
      /\ \A j \in 0..Cap-1 : j >= next /\ said >= Cap => buf[j] = said - next + 1 + j - Cap
  BY DEF RingHolds
<1>3. count' = IF said' < Cap THEN said' ELSE Cap
  <2>1. count' = IF count < Cap THEN count + 1 ELSE count  BY DEF Add
  <2> QED  BY ONLY <1>1, <1>r, <1>s, <2>1
<1>4. /\ buf' \in [0..Cap-1 -> 0..MaxLines]
      /\ \A j \in 0..Cap-1 : buf'[j] = IF j = next THEN said + 1 ELSE buf[j]
  BY <1>1 DEF Add
<1>5. said' < Cap => next' = said'  BY ONLY <1>1, <1>2, <1>r, <1>s
<1>6. ASSUME NEW j \in 0..Cap-1
      PROVE  /\ j < next' => buf'[j] = said' - next' + 1 + j
             /\ j >= next' /\ said' >= Cap => buf'[j] = said' - next' + 1 + j - Cap
  <2>1. CASE j = next
    <3>1. buf'[j] = said + 1  BY ONLY <1>4, <2>1
    <3> QED  BY ONLY <1>s, <1>1, <1>2, <2>1, <3>1
  <2>2. CASE j < next
    <3>1. buf'[j] = said - next + 1 + j  BY ONLY <1>1, <1>4, <1>r, <2>2
    <3> QED  BY ONLY <1>s, <1>1, <1>2, <2>2, <3>1
  <2>3. CASE j > next
    <3>1. next + 1 < Cap /\ next' = next + 1  BY ONLY <1>1, <1>2, <2>3
    <3>2. said + 1 >= Cap => said >= Cap  BY ONLY <1>1, <1>r, <3>1
    <3>3. said >= Cap => buf'[j] = said - next + 1 + j - Cap  BY ONLY <1>1, <1>4, <1>r, <2>3
    <3> QED  BY ONLY <1>s, <1>1, <2>3, <3>1, <3>2, <3>3
  <2> QED  BY ONLY <1>1, <2>1, <2>2, <2>3
<1>7. RingHolds'  BY ONLY <1>3, <1>5, <1>6 DEF RingHolds
<1> QED  BY <1>1, <1>2, <1>3, <1>4, <1>7

\* The parts of TypeOK.
RingTypes ==
    /\ buf \in [0..Cap-1 -> 0..MaxLines] /\ next \in 0..Cap-1 /\ count \in 0..Cap
    /\ said \in 0..MaxLines

SubTypes ==
    /\ lock \in Streams \cup Readers \cup {Free}
    /\ closed \in BOOLEAN
    /\ sub \in [Viewers -> SubStates]

ViewTypes ==
    /\ history \in [Viewers -> Seq(Lines)]
    /\ heard \in [Viewers -> Seq(Lines)]
    /\ queue \in [Viewers -> Seq(Lines)]
    /\ \A v \in Viewers : Len(queue[v]) <= Queue
    /\ missed \in [Viewers -> 0..MaxLines]

Views == NothingYet /\ MissesAreBounded /\ WayIsTail /\ MissesAreCounted

\* The invariant is its parts, in a state and in the next.
LEMMA HubParts ==
    /\ HubInv <=> RingTypes /\ SubTypes /\ ViewTypes /\ RingHolds /\ LockHolds /\ Views
    /\ HubInv' <=> (RingTypes /\ SubTypes /\ ViewTypes /\ RingHolds /\ LockHolds /\ Views)'
BY DEF HubInv, TypeOK, RingTypes, SubTypes, ViewTypes, Views

\* Who holds the lock says how far the fan-out is.
LEMMA ToldIs ==
    ASSUME HubInv
    PROVE  /\ lock \in Streams => Told = said - 1
           /\ lock \notin Streams => Told = said
           /\ Told \in Nat /\ Told <= said /\ said \in Nat /\ said <= MaxLines
           /\ \A v \in Readers : lock = v => lock \notin Streams
           /\ lock = Free => lock \notin Streams
BY HubAssumption DEF HubInv, TypeOK, Told, LockHolds, Viewers

\* What one viewer has, with its types.
LEMMA OneViewer ==
    ASSUME HubInv, NEW v \in Viewers
    PROVE  /\ sub[v] \in SubStates
           /\ history[v] \in Seq(Lines) /\ heard[v] \in Seq(Lines) /\ queue[v] \in Seq(Lines)
           /\ Len(history[v]) \in Nat /\ Len(heard[v]) \in Nat /\ Len(queue[v]) \in Nat
           /\ Len(queue[v]) <= Queue
           /\ missed[v] \in Nat /\ missed[v] <= MaxLines
           /\ Way(v) \in Seq(Lines)
<1>1. /\ history[v] \in Seq(Lines) /\ heard[v] \in Seq(Lines) /\ queue[v] \in Seq(Lines)
      /\ sub[v] \in SubStates /\ missed[v] \in 0..MaxLines /\ Len(queue[v]) <= Queue
  BY DEF HubInv, TypeOK
<1>2. Way(v) \in Seq(Lines)  BY <1>1, ThreeInARow DEF Way
<1>3. missed[v] \in Nat /\ missed[v] <= MaxLines  BY <1>1, HubAssumption
<1> QED  BY <1>1, <1>2, <1>3, LenProperties

\* One more line at the end of a tail is a tail.
LEMMA TailGrows ==
    ASSUME NEW S, NEW s \in Seq(S), NEW last \in Int, last + 1 \in S, IsTail(s, last)
    PROVE  IsTail(Append(s, last + 1), last + 1)
<1> DEFINE t == Append(s, last + 1)
<1>1. /\ Len(s) \in Nat /\ Len(t) = Len(s) + 1
      /\ \A k \in 1..Len(s) : t[k] = s[k]
      /\ t[Len(s) + 1] = last + 1
  BY AppendProperties, LenProperties
<1> HIDE DEF t
<1>2. \A k \in 1..Len(s) : s[k] = last - Len(s) + k  BY DEF IsTail
<1>3. ASSUME NEW k \in 1..Len(t) PROVE t[k] = last + 1 - Len(t) + k
  <2>1. CASE k = Len(s) + 1  BY ONLY <1>1, <2>1
  <2>2. CASE k \in 1..Len(s)  BY ONLY <1>1, <1>2, <2>2
  <2> QED  BY ONLY <1>1, <2>1, <2>2
<1> QED  BY ONLY <1>3 DEF IsTail, t

\* A step that adds no line and moves nothing but viewers that are done: what is said
\* of the views stays true.
LEMMA ViewsStay ==
    ASSUME HubInv, UNCHANGED <<ringVars, lock, viewVars>>,
           sub' \in [Viewers -> SubStates],
           \A v \in Viewers :
             \/ sub'[v] = sub[v]
             \/ sub'[v] \in {"shut", "gone"} /\ sub[v] \in {"open", "shut"}
    PROVE  RingTypes' /\ ViewTypes' /\ RingHolds' /\ Views'
<1>1. RingTypes' /\ ViewTypes' /\ RingHolds'
  BY HubParts DEF ringVars, viewVars, RingTypes, ViewTypes, RingHolds
<1>2. Told' = Told  BY DEF ringVars, Told
<1>3. NothingYet'  BY DEF HubInv, NothingYet, IsTail, ringVars, viewVars
<1>4. MissesAreBounded'  BY <1>2 DEF HubInv, MissesAreBounded, viewVars
<1>5. \A v \in Readers : sub'[v] = "open" => sub[v] = "open"  BY DEF Viewers
<1>6. WayIsTail'  BY <1>2, <1>5 DEF HubInv, WayIsTail, Way, IsTail, viewVars
<1>7. MissesAreCounted'  BY <1>2, <1>5 DEF HubInv, MissesAreCounted, viewVars
<1> QED  BY <1>1, <1>3, <1>4, <1>6, <1>7 DEF Views

\* The invariant holds when the hub is made.
LEMMA InitialHub == Init => HubInv
<1> SUFFICES ASSUME Init PROVE HubInv
  OBVIOUS
<1> USE HubAssumption
<1>1. RingTypes  BY DEF Init, RingTypes
<1>2. SubTypes  BY DEF Init, SubTypes, SubStates
<1>3. ViewTypes
  <2>1. <<>> \in Seq(Lines) /\ Len(<<>>) = 0  BY EmptySeq
  <2> QED  BY <2>1 DEF Init, ViewTypes
<1>4. RingHolds  BY DEF Init, RingHolds
<1>5. LockHolds  BY DEF Init, LockHolds, Viewers
<1>6. Views
  <2>1. Told = 0  BY DEF Init, Told, Viewers
  <2>2. NothingYet  BY DEF Init, NothingYet
  <2>3. MissesAreBounded  BY <2>1 DEF Init, MissesAreBounded
  <2>4. WayIsTail /\ MissesAreCounted
    BY DEF Init, WayIsTail, MissesAreCounted, Viewers
  <2> QED  BY <2>2, <2>3, <2>4 DEF Views
<1> QED  BY <1>1, <1>2, <1>3, <1>4, <1>5, <1>6, HubParts

\* Publish, first half: the ring takes the line while no viewer is between its halves.
LEMMA PublishAddKeeps ==
    ASSUME HubInv, NEW s \in Streams, PublishAdd(s)
    PROVE  HubInv'
<1>1. /\ lock = Free /\ lock' = s /\ said < MaxLines /\ said' = said + 1 /\ Add(said + 1)
      /\ UNCHANGED <<closed, sub, history, queue, heard, missed>>
  BY DEF PublishAdd, viewVars
<1>2. said \in Nat /\ Told = said /\ MaxLines \in Nat  BY <1>1, ToldIs, HubAssumption
<1>3. Told' = Told
  <2>1. Told' = said' - 1  BY <1>1 DEF Told
  <2> QED  BY ONLY <1>1, <1>2, <2>1
<1>4. RingHolds' /\ RingTypes'
  <2>1. TypeOK /\ RingHolds  BY DEF HubInv
  <2>2. /\ RingHolds'
        /\ buf' \in [0..Cap-1 -> 0..MaxLines] /\ next' \in 0..Cap-1 /\ count' \in 0..Cap
    BY ONLY <1>1, <2>1, AddKeepsRing
  <2>3. said' \in 0..MaxLines  BY ONLY <1>1, <1>2
  <2> QED  BY <2>2, <2>3 DEF RingTypes
<1>5. SubTypes' /\ ViewTypes'  BY <1>1, HubParts DEF SubTypes, ViewTypes
<1>6. \A v \in Viewers : sub[v] # "snapped"
  BY <1>1, HubAssumption DEF HubInv, LockHolds, Viewers
<1>7. LockHolds'
  BY <1>1, <1>2, <1>6, HubAssumption DEF HubInv, LockHolds, Viewers
<1>8. NothingYet'  BY <1>1, <1>6 DEF HubInv, NothingYet
<1>9. (MissesAreBounded /\ WayIsTail /\ MissesAreCounted)'
  BY <1>1, <1>3 DEF HubInv, MissesAreBounded, WayIsTail, Way, IsTail, MissesAreCounted
<1> QED  BY <1>4, <1>5, <1>7, <1>8, <1>9, HubParts DEF Views

\* Publish, second half: every open queue gets the line, or its viewer counts it.
LEMMA FanOutGives ==
    ASSUME HubInv, NEW s \in Streams, PublishFanOut(s)
    PROVE  /\ UNCHANGED <<buf, next, count, said, closed, sub, history, heard>>
           /\ lock = s /\ lock' = Free
           /\ queue' \in [Viewers -> Seq(Lines)] /\ missed' \in [Viewers -> Nat]
           /\ \A v \in Viewers :
                /\ sub[v] # "open" => queue'[v] = queue[v] /\ missed'[v] = missed[v]
                /\ sub[v] = "open" =>
                     \/ /\ Len(queue[v]) < Queue
                        /\ queue'[v] = Append(queue[v], said) /\ missed'[v] = missed[v]
                     \/ /\ Len(queue[v]) >= Queue
                        /\ queue'[v] = queue[v] /\ missed'[v] = missed[v] + 1
<1> DEFINE open == {v \in Viewers : ~closed /\ sub[v] = "open"}
           full == {v \in open : Len(queue[v]) >= Queue}
<1>1. /\ UNCHANGED <<buf, next, count, said, closed, sub, history, heard>>
      /\ lock = s /\ lock' = Free
      /\ queue' = [v \in Viewers |-> IF v \in open \ full THEN Append(queue[v], said)
                                     ELSE queue[v]]
      /\ missed' = [v \in Viewers |-> IF v \in full THEN missed[v] + 1 ELSE missed[v]]
  BY DEF PublishFanOut, FanOut, ringVars
<1>2. said \in Lines
  BY <1>1, ToldIs DEF HubInv, LockHolds, Lines
<1>3. \A v \in Viewers : /\ queue[v] \in Seq(Lines) /\ Append(queue[v], said) \in Seq(Lines)
                         /\ missed[v] \in Nat /\ Len(queue[v]) \in Nat
  BY <1>2, OneViewer, AppendProperties
<1>4. \A v \in Viewers : v \in open <=> sub[v] = "open"
  BY DEF HubInv, LockHolds
<1>5. \A v \in Viewers : v \in full <=> sub[v] = "open" /\ Len(queue[v]) >= Queue
  BY <1>4
<1> HIDE DEF open, full
<1>6. queue' \in [Viewers -> Seq(Lines)] /\ missed' \in [Viewers -> Nat]
  BY ONLY <1>1, <1>3
<1>7. ASSUME NEW v \in Viewers
      PROVE  /\ sub[v] # "open" => queue'[v] = queue[v] /\ missed'[v] = missed[v]
             /\ sub[v] = "open" =>
                  \/ /\ Len(queue[v]) < Queue
                     /\ queue'[v] = Append(queue[v], said) /\ missed'[v] = missed[v]
                  \/ /\ Len(queue[v]) >= Queue
                     /\ queue'[v] = queue[v] /\ missed'[v] = missed[v] + 1
  BY ONLY <1>1, <1>3, <1>4, <1>5, HubAssumption
<1> QED  BY ONLY <1>1, <1>6, <1>7

\* So what is told stays what every viewer of it has, or counts as missed.
LEMMA PublishFanOutKeeps ==
    ASSUME HubInv, NEW s \in Streams, PublishFanOut(s)
    PROVE  HubInv'
<1>1. /\ UNCHANGED <<buf, next, count, said, closed, sub, history, heard>>
      /\ lock = s /\ lock' = Free
      /\ queue' \in [Viewers -> Seq(Lines)] /\ missed' \in [Viewers -> Nat]
      /\ \A v \in Viewers :
           /\ sub[v] # "open" => queue'[v] = queue[v] /\ missed'[v] = missed[v]
           /\ sub[v] = "open" =>
                \/ /\ Len(queue[v]) < Queue
                   /\ queue'[v] = Append(queue[v], said) /\ missed'[v] = missed[v]
                \/ /\ Len(queue[v]) >= Queue
                   /\ queue'[v] = queue[v] /\ missed'[v] = missed[v] + 1
  BY FanOutGives
<1>2. /\ Told = said - 1 /\ said \in Nat /\ said \in Lines /\ said <= MaxLines /\ said >= 1
      /\ MaxLines \in Nat
  BY <1>1, ToldIs, HubAssumption DEF HubInv, LockHolds, Lines
<1>3. Told' = said  BY <1>1, HubAssumption DEF Told
<1>v. \A v \in Viewers :
        /\ history[v] \in Seq(Lines) /\ heard[v] \in Seq(Lines) /\ queue[v] \in Seq(Lines)
        /\ Len(history[v]) \in Nat /\ Len(heard[v]) \in Nat /\ Len(queue[v]) \in Nat
        /\ missed[v] \in Nat /\ Len(queue[v]) <= Queue
        /\ Len(Append(queue[v], said)) = Len(queue[v]) + 1
  BY <1>2, OneViewer, AppendProperties
<1>4. \A v \in Viewers : missed'[v] <= said
  <2> TAKE v \in Viewers
  <2>1. missed[v] <= said - 1  BY <1>2 DEF HubInv, MissesAreBounded
  <2> QED  BY ONLY <1>1, <1>2, <1>v, <2>1
<1>5. \A v \in Viewers : Len(queue'[v]) <= Queue
  BY ONLY <1>1, <1>v, HubAssumption
<1>6. RingTypes' /\ RingHolds' /\ SubTypes'
  BY <1>1, HubParts DEF RingTypes, RingHolds, SubTypes
<1>7. ViewTypes'
  <2>1. missed' \in [Viewers -> 0..MaxLines]
    <3>1. \A v \in Viewers : missed'[v] \in 0..MaxLines  BY ONLY <1>1, <1>2, <1>4
    <3> QED  BY ONLY <1>1, <3>1
  <2>2. history' \in [Viewers -> Seq(Lines)] /\ heard' \in [Viewers -> Seq(Lines)]
    BY <1>1, HubParts DEF ViewTypes
  <2> QED  BY ONLY <1>1, <1>5, <2>1, <2>2 DEF ViewTypes
<1>8. LockHolds'
  BY <1>1, HubAssumption DEF HubInv, LockHolds, Viewers
<1>9. NothingYet'  BY <1>1 DEF HubInv, NothingYet, IsTail
<1>10. MissesAreBounded'  BY <1>3, <1>4 DEF MissesAreBounded
<1>11. WayIsTail'
  <2> SUFFICES ASSUME NEW v \in Readers, sub[v] = "open", missed'[v] = 0
               PROVE  IsTail(history[v] \o heard[v] \o queue'[v], said)
    BY <1>1, <1>3 DEF WayIsTail, Way, IsTail
  <2>1. v \in Viewers  BY DEF Viewers
  <2>2. queue'[v] = Append(queue[v], said) /\ missed[v] = 0
    BY ONLY <1>1, <1>v, <2>1, sub[v] = "open", missed'[v] = 0
  <2>3. IsTail(Way(v), said - 1)  BY <1>2, <2>2 DEF HubInv, WayIsTail
  <2>4. Way(v) \in Seq(Lines)  BY <2>1, OneViewer
  <2>5. history[v] \o heard[v] \o queue'[v] = Append(Way(v), said)
    <3>1. history[v] \o heard[v] \o Append(queue[v], said) = Append(Way(v), said)
      <4> DEFINE a == history[v]  b == heard[v]  c == queue[v]
      <4>1. a \in Seq(Lines) /\ b \in Seq(Lines) /\ c \in Seq(Lines) /\ said \in Lines
        BY <1>2, <1>v, <2>1
      <4> HIDE DEF a, b, c
      <4>2. a \o b \o Append(c, said) = Append(a \o b \o c, said)
        BY ONLY <4>1, SendIsLast
      <4> QED  BY ONLY <4>2 DEF Way, a, b, c
    <3> QED  BY ONLY <2>2, <3>1
  <2>6. said - 1 \in Int /\ said - 1 + 1 = said  BY <1>2
  <2>7. IsTail(Append(Way(v), said), said)
    <3> DEFINE last == said - 1
    <3>1. last \in Int /\ last + 1 = said /\ last + 1 \in Lines /\ IsTail(Way(v), last)
      BY <1>2, <2>3, <2>6
    <3> HIDE DEF last
    <3>2. IsTail(Append(Way(v), last + 1), last + 1)  BY ONLY <2>4, <3>1, TailGrows
    <3> QED  BY ONLY <3>1, <3>2
  <2> QED  BY ONLY <2>5, <2>7
<1>12. MissesAreCounted'
  <2> SUFFICES ASSUME NEW v \in Readers, sub[v] = "open", history[v] # <<>>
               PROVE  history[v][Len(history[v])] + Len(heard[v]) + Len(queue'[v])
                        + missed'[v] = said
    BY <1>1, <1>3 DEF MissesAreCounted
  <2>1. v \in Viewers  BY DEF Viewers
  <2>2. history[v][Len(history[v])] + Len(heard[v]) + Len(queue[v]) + missed[v] = said - 1
    BY <1>2 DEF HubInv, MissesAreCounted
  <2>3. history[v][Len(history[v])] \in Nat
    <3>1. Len(history[v]) \in 1..Len(history[v])  BY <1>v, <2>1, EmptySeq
    <3>2. history[v] \in Seq(Lines)  BY <1>v, <2>1
    <3>3. history[v][Len(history[v])] \in Lines  BY ONLY <3>1, <3>2, ElementOfSeq
    <3> QED  BY <3>3 DEF Lines
  <2>4. Len(queue'[v]) + missed'[v] = Len(queue[v]) + missed[v] + 1
    <3>1. \/ Len(queue'[v]) = Len(queue[v]) + 1 /\ missed'[v] = missed[v]
          \/ Len(queue'[v]) = Len(queue[v]) /\ missed'[v] = missed[v] + 1
      BY ONLY <1>1, <1>v, <2>1, sub[v] = "open"
    <3>2. Len(queue[v]) \in Nat /\ missed[v] \in Nat  BY <1>v, <2>1
    <3> QED  BY ONLY <3>1, <3>2
  <2>5. Len(queue'[v]) \in Nat /\ missed'[v] \in Nat
    BY ONLY <1>1, <1>v, <2>1, LenProperties
  <2>6. Len(heard[v]) \in Nat /\ Len(queue[v]) \in Nat /\ missed[v] \in Nat  BY <1>v, <2>1
  <2> DEFINE last == history[v][Len(history[v])]
             before == Len(heard[v])
             left == Len(queue'[v])
             lost == missed'[v]
             wasLeft == Len(queue[v])
             wasLost == missed[v]
  <2>7. last + before + wasLeft + wasLost = said - 1  BY <2>2
  <2>8. /\ last \in Nat /\ before \in Nat /\ left \in Nat /\ lost \in Nat
        /\ wasLeft \in Nat /\ wasLost \in Nat /\ said \in Nat
        /\ left + lost = wasLeft + wasLost + 1
    BY <1>2, <2>3, <2>4, <2>5, <2>6
  <2> HIDE DEF last, before, left, lost, wasLeft, wasLost
  <2>9. last + before + left + lost = said  BY ONLY <2>7, <2>8
  <2> QED  BY ONLY <2>9 DEF last, before, left, lost
<1> QED  BY <1>6, <1>7, <1>8, <1>9, <1>10, <1>11, <1>12, HubParts DEF Views

\* SubscribeWithHistory, first half: the scrollback is a tail of what was said.
LEMMA SnapshotKeeps ==
    ASSUME HubInv, NEW r \in Readers, Snapshot(r)
    PROVE  HubInv'
<1>1. /\ sub[r] = "none" /\ lock = Free /\ lock' = r
      /\ sub' = [sub EXCEPT ![r] = "snapped"]
      /\ history' = [history EXCEPT ![r] = Last(Wanted)]
      /\ UNCHANGED <<buf, next, count, said, closed, queue, heard, missed>>
  BY DEF Snapshot, ringVars
<1>2. r \in Viewers /\ r \notin Watchers /\ r \notin Streams /\ r # Free
  BY HubAssumption DEF Viewers
<1>t. /\ RingTypes /\ SubTypes /\ ViewTypes /\ RingHolds /\ LockHolds /\ Views
  BY HubParts
<1>3. /\ Last(Wanted) \in Seq(Lines) /\ IsTail(Last(Wanted), said)
      /\ Len(Last(Wanted)) <= Wanted /\ Len(Last(Wanted)) <= said
  <2> DEFINE m == IF Wanted > count THEN count ELSE Wanted
  <2>1. TypeOK /\ RingHolds /\ Wanted \in Nat  BY HubAssumption DEF HubInv
  <2>2. /\ m \in Nat /\ m <= said /\ m <= Wanted
        /\ Last(Wanted) = [i \in 1..m |-> said - m + i]
        /\ Last(Wanted) \in Seq(Lines) /\ Len(Last(Wanted)) = m
    BY ONLY <2>1, LastIsTail
  <2> HIDE DEF m
  <2>3. \A i \in 1..m : Last(Wanted)[i] = said - m + i  BY ONLY <2>2
  <2> QED  BY ONLY <2>2, <2>3 DEF IsTail
<1>4. /\ sub' \in [Viewers -> SubStates] /\ sub'[r] = "snapped"
      /\ \A v \in Viewers : v # r => sub'[v] = sub[v]
  BY ONLY <1>1, <1>2, <1>t DEF SubTypes, SubStates
<1>5. /\ history' \in [Viewers -> Seq(Lines)] /\ history'[r] = Last(Wanted)
      /\ \A v \in Viewers : v # r => history'[v] = history[v]
  BY ONLY <1>1, <1>2, <1>3, <1>t DEF ViewTypes
<1>6. Told' = Told /\ Told = said
  BY <1>1, <1>2, HubAssumption DEF Told
<1>7. RingTypes' /\ RingHolds'  BY <1>1, <1>t DEF RingTypes, RingHolds
<1>8. SubTypes' /\ ViewTypes'
  <2>1. SubTypes'  BY <1>1, <1>4, <1>t DEF SubTypes
  <2>2. ViewTypes'  BY <1>1, <1>5, <1>t DEF ViewTypes
  <2> QED  BY <2>1, <2>2
<1>9. LockHolds'
  <2>1. \A v \in Readers : v \in Viewers  BY DEF Viewers
  <2>2. \A v \in Watchers : v \in Viewers /\ v # r  BY <1>2 DEF Viewers
  <2>3. \A v \in Readers : sub[v] # "snapped"
    BY <1>1, HubAssumption DEF HubInv, LockHolds, Viewers
  <2>4. /\ \A v \in Watchers : sub[v] # "snapped"
        /\ closed => \A v \in Viewers : sub[v] # "open"
    BY <1>t DEF LockHolds
  <2> QED  BY ONLY <1>1, <1>2, <1>4, <2>1, <2>2, <2>3, <2>4 DEF LockHolds
<1>10. NothingYet'
  <2> SUFFICES ASSUME NEW v \in Viewers
               PROVE  /\ sub'[v] \in {"none", "snapped"} =>
                           heard[v] = <<>> /\ queue[v] = <<>> /\ missed[v] = 0
                      /\ sub'[v] = "none" \/ v \in Watchers => history'[v] = <<>>
                      /\ sub'[v] = "snapped" =>
                           /\ IsTail(history'[v], said)
                           /\ Len(history'[v]) <= Wanted /\ Len(history'[v]) <= said
    BY <1>1 DEF NothingYet, IsTail
  <2>1. CASE v = r
    BY <1>1, <1>2, <1>3, <1>4, <1>5, <1>t, <2>1 DEF Views, NothingYet
  <2>2. CASE v # r
    BY <1>4, <1>5, <1>t, <2>2 DEF Views, NothingYet
  <2> QED  BY <2>1, <2>2
<1>11. MissesAreBounded'  BY <1>1, <1>6, <1>t DEF Views, MissesAreBounded
<1>12. \A v \in Readers : sub'[v] = "open" => sub[v] = "open" /\ history'[v] = history[v]
  BY <1>4, <1>5 DEF Viewers
<1>13. WayIsTail'
  <2> SUFFICES ASSUME NEW v \in Readers, sub'[v] = "open", missed[v] = 0
               PROVE  IsTail(history'[v] \o heard[v] \o queue[v], Told)
    BY <1>1, <1>6 DEF WayIsTail, Way, IsTail
  <2>1. history'[v] \o heard[v] \o queue[v] = Way(v)  BY <1>12 DEF Way
  <2>2. IsTail(Way(v), Told)  BY <1>12, <1>t DEF Views, WayIsTail
  <2> QED  BY ONLY <2>1, <2>2
<1>14. MissesAreCounted'
  BY <1>1, <1>6, <1>12, <1>t DEF Views, MissesAreCounted
<1> QED  BY <1>7, <1>8, <1>9, <1>10, <1>11, <1>13, <1>14, HubParts DEF Views

\* Second half: nothing was said in between, so the stream begins where the scrollback
\* ends.
LEMMA SubscribeWithHistoryKeeps ==
    ASSUME HubInv, NEW r \in Readers, SubscribeWithHistory(r)
    PROVE  HubInv'
<1>1. /\ sub[r] = "snapped" /\ lock' = Free
      /\ sub' = [sub EXCEPT ![r] = IF closed THEN "shut" ELSE "open"]
      /\ UNCHANGED <<buf, next, count, said, closed, history, queue, heard, missed>>
  BY DEF SubscribeWithHistory, Register, ringVars, viewVars
<1>2. r \in Viewers /\ r \notin Watchers /\ r \notin Streams /\ r # Free
  BY HubAssumption DEF Viewers
<1>t. /\ RingTypes /\ SubTypes /\ ViewTypes /\ RingHolds /\ LockHolds /\ Views
  BY HubParts
<1>3. lock = r  BY <1>1, <1>t DEF LockHolds
<1>4. /\ sub' \in [Viewers -> SubStates] /\ sub'[r] = IF closed THEN "shut" ELSE "open"
      /\ \A v \in Viewers : v # r => sub'[v] = sub[v]
  BY ONLY <1>1, <1>2, <1>t DEF SubTypes, SubStates
<1>5. Told' = Told /\ Told = said
  BY <1>1, <1>2, <1>3, HubAssumption DEF Told
<1>6. RingTypes' /\ RingHolds'  BY <1>1, <1>t DEF RingTypes, RingHolds
<1>7. SubTypes' /\ ViewTypes'
  <2>1. SubTypes'  BY <1>1, <1>4, <1>t DEF SubTypes
  <2>2. ViewTypes'  BY <1>1, <1>t DEF ViewTypes
  <2> QED  BY <2>1, <2>2
<1>8. LockHolds'
  <2>1. \A v \in Readers : v \in Viewers /\ v # Free  BY HubAssumption DEF Viewers
  <2>2. \A v \in Watchers : v \in Viewers /\ v # r  BY <1>2 DEF Viewers
  <2>3. Free \notin Streams  BY HubAssumption
  <2>4. /\ \A v \in Readers : sub[v] = "snapped" <=> lock = v
        /\ \A v \in Watchers : sub[v] # "snapped"
        /\ closed => \A v \in Viewers : sub[v] # "open"
    BY <1>t DEF LockHolds
  <2> QED  BY ONLY <1>1, <1>3, <1>4, <2>1, <2>2, <2>3, <2>4 DEF LockHolds
<1>9. NothingYet'
  <2> SUFFICES ASSUME NEW v \in Viewers
               PROVE  /\ sub'[v] \in {"none", "snapped"} =>
                           heard[v] = <<>> /\ queue[v] = <<>> /\ missed[v] = 0
                      /\ sub'[v] = "none" \/ v \in Watchers => history[v] = <<>>
                      /\ sub'[v] = "snapped" =>
                           /\ IsTail(history[v], said)
                           /\ Len(history[v]) <= Wanted /\ Len(history[v]) <= said
    BY <1>1 DEF NothingYet, IsTail
  <2> QED  BY <1>2, <1>4, <1>t DEF Views, NothingYet
<1>10. MissesAreBounded'  BY <1>1, <1>5, <1>t DEF Views, MissesAreBounded
<1>11. Way(r) = history[r] /\ heard[r] = <<>> /\ queue[r] = <<>> /\ missed[r] = 0
  <2>1. heard[r] = <<>> /\ queue[r] = <<>> /\ missed[r] = 0
    BY <1>1, <1>2, <1>t DEF Views, NothingYet
  <2>2. history[r] \in Seq(Lines)  BY <1>2, OneViewer
  <2>3. history[r] \o <<>> = history[r]  BY <2>2, ConcatEmptySeq
  <2> QED  BY <2>1, <2>3 DEF Way
<1>12. IsTail(history[r], said)  BY <1>1, <1>2, <1>t DEF Views, NothingYet
<1>13. WayIsTail'
  <2> SUFFICES ASSUME NEW v \in Readers, sub'[v] = "open", missed[v] = 0
               PROVE  IsTail(Way(v), said)
    BY <1>1, <1>5 DEF WayIsTail, Way, IsTail
  <2>1. CASE v = r  BY <1>11, <1>12, <2>1
  <2>2. CASE v # r
    <3>1. sub[v] = "open"  BY <1>4, <2>2 DEF Viewers
    <3> QED  BY <1>5, <1>t, <3>1 DEF Views, WayIsTail
  <2> QED  BY <2>1, <2>2
<1>14. MissesAreCounted'
  <2> SUFFICES ASSUME NEW v \in Readers, sub'[v] = "open", history[v] # <<>>
               PROVE  history[v][Len(history[v])] + Len(heard[v]) + Len(queue[v])
                        + missed[v] = said
    BY <1>1, <1>5 DEF MissesAreCounted
  <2>1. CASE v = r
    <3> DEFINE h == history[r]
    <3>1. h \in Seq(Lines) /\ h # <<>>  BY <1>2, <2>1, OneViewer
    <3>2. Len(h) \in Nat /\ Len(h) \in 1..Len(h)  BY <3>1, LenProperties, EmptySeq
    <3>3. said \in Nat  BY ToldIs
    <3>4. IsTail(h, said)  BY <1>12
    <3> HIDE DEF h
    <3>5. h[Len(h)] = said - Len(h) + Len(h)  BY ONLY <3>2, <3>4 DEF IsTail
    <3>6. h[Len(h)] = said  BY ONLY <3>2, <3>3, <3>5
    <3>7. Len(heard[r]) = 0 /\ Len(queue[r]) = 0 /\ missed[r] = 0  BY <1>11
    <3>8. h[Len(h)] + Len(heard[r]) + Len(queue[r]) + missed[r] = said
      BY ONLY <3>3, <3>6, <3>7
    <3> QED  BY <2>1, <3>8 DEF h
  <2>2. CASE v # r
    <3>1. sub[v] = "open"  BY <1>4, <2>2 DEF Viewers
    <3> QED  BY <1>5, <1>t, <3>1 DEF Views, MissesAreCounted
  <2> QED  BY <2>1, <2>2
<1> QED  BY <1>6, <1>7, <1>8, <1>9, <1>10, <1>13, <1>14, HubParts DEF Views

\* A receive moves a line from the queue to what was heard.
LEMMA ReceiveMoves ==
    ASSUME HubInv, NEW v \in Viewers, Receive(v)
    PROVE  /\ UNCHANGED <<buf, next, count, said, lock, closed, sub, history, missed>>
           /\ sub[v] \in {"open", "shut"} /\ queue[v] # <<>>
           /\ heard' \in [Viewers -> Seq(Lines)] /\ queue' \in [Viewers -> Seq(Lines)]
           /\ \A u \in Viewers : u # v => heard'[u] = heard[u] /\ queue'[u] = queue[u]
           /\ Len(heard'[v]) = Len(heard[v]) + 1 /\ Len(queue'[v]) = Len(queue[v]) - 1
           /\ history[v] \o heard'[v] \o queue'[v] = Way(v)
<1>1. /\ sub[v] \in {"open", "shut"} /\ queue[v] # <<>>
      /\ heard' = [heard EXCEPT ![v] = Append(heard[v], Head(queue[v]))]
      /\ queue' = [queue EXCEPT ![v] = Tail(queue[v])]
      /\ UNCHANGED <<buf, next, count, said, lock, closed, sub, history, missed>>
  BY DEF Receive, ringVars
<1> DEFINE h == history[v]  e == heard[v]  q == queue[v]
<1>2. h \in Seq(Lines) /\ e \in Seq(Lines) /\ q \in Seq(Lines) /\ q # <<>>
  BY <1>1, OneViewer
<1>3. heard \in [Viewers -> Seq(Lines)] /\ queue \in [Viewers -> Seq(Lines)]
  BY HubParts DEF ViewTypes
<1>d. Way(v) = h \o e \o q  BY DEF Way
<1> DEFINE e2 == Append(e, Head(q))  q2 == Tail(q)
<1>4. heard' = [heard EXCEPT ![v] = e2] /\ queue' = [queue EXCEPT ![v] = q2]
  BY ONLY <1>1
<1> HIDE DEF h, e, q
<1>6. Head(q) \in Lines /\ q2 \in Seq(Lines) /\ Len(q2) = Len(q) - 1
  BY ONLY <1>2, HeadTailProperties
<1>7. e2 \in Seq(Lines) /\ Len(e2) = Len(e) + 1  BY ONLY <1>2, <1>6, AppendProperties
<1>5. h \o e2 \o q2 = h \o e \o q
  <2> DEFINE before == h \o e \o q
             after == h \o Append(e, Head(q)) \o Tail(q)
  <2>1. before \in Seq(Lines) /\ after \in Seq(Lines)  BY ONLY <1>2
  <2>2. Len(after) = Len(before)  BY ONLY <1>2
  <2>3. \A k \in 1..Len(after) : after[k] = before[k]  BY ONLY <1>2
  <2> HIDE DEF before, after
  <2>4. after = before  BY ONLY <2>1, <2>2, <2>3, SeqEqual
  <2> QED  BY ONLY <2>4 DEF before, after, e2, q2
<1> HIDE DEF e2, q2
<1>8. /\ heard' \in [Viewers -> Seq(Lines)] /\ queue' \in [Viewers -> Seq(Lines)]
      /\ heard'[v] = e2 /\ queue'[v] = q2
      /\ \A u \in Viewers : u # v => heard'[u] = heard[u] /\ queue'[u] = queue[u]
  BY ONLY <1>3, <1>4, <1>6, <1>7
<1>9. history[v] \o heard'[v] \o queue'[v] = Way(v)
  BY ONLY <1>5, <1>8, <1>d DEF h
<1> QED  BY ONLY <1>1, <1>6, <1>7, <1>8, <1>9 DEF e, q

\* So nothing is lost or repeated on the way to the viewer.
LEMMA ReceiveKeeps ==
    ASSUME HubInv, NEW v \in Viewers, Receive(v)
    PROVE  HubInv'
<1>1. /\ UNCHANGED <<buf, next, count, said, lock, closed, sub, history, missed>>
      /\ sub[v] \in {"open", "shut"} /\ queue[v] # <<>>
      /\ heard' \in [Viewers -> Seq(Lines)] /\ queue' \in [Viewers -> Seq(Lines)]
      /\ \A u \in Viewers : u # v => heard'[u] = heard[u] /\ queue'[u] = queue[u]
      /\ Len(heard'[v]) = Len(heard[v]) + 1 /\ Len(queue'[v]) = Len(queue[v]) - 1
      /\ history[v] \o heard'[v] \o queue'[v] = Way(v)
  BY ReceiveMoves
<1>t. /\ RingTypes /\ SubTypes /\ ViewTypes /\ RingHolds /\ LockHolds /\ Views
  BY HubParts
<1>v. \A u \in Viewers : Len(heard[u]) \in Nat /\ Len(queue[u]) \in Nat /\ missed[u] \in Nat
                         /\ Len(queue[u]) <= Queue /\ history[u] \in Seq(Lines)
  BY OneViewer
<1>2. Told' = Told  BY <1>1 DEF Told
<1>3. RingTypes' /\ RingHolds' /\ SubTypes'
  BY <1>1, <1>t DEF RingTypes, RingHolds, SubTypes
<1>4. LockHolds'  BY <1>1, <1>t DEF LockHolds
<1>5. ViewTypes'
  <2>1. ASSUME NEW u \in Viewers PROVE Len(queue'[u]) <= Queue
    <3>1. CASE u = v
      <4>1. Len(queue'[v]) = Len(queue[v]) - 1 /\ Len(queue[v]) \in Nat /\ Len(queue[v]) <= Queue
        BY <1>1, <1>v
      <4> QED  BY ONLY <3>1, <4>1, HubAssumption
    <3>2. CASE u # v  BY <1>1, <1>v, <3>2
    <3> QED  BY <3>1, <3>2
  <2> QED  BY <1>1, <1>t, <2>1 DEF ViewTypes
<1>6. NothingYet'
  <2> SUFFICES ASSUME NEW u \in Viewers
               PROVE  /\ sub[u] \in {"none", "snapped"} =>
                           heard'[u] = <<>> /\ queue'[u] = <<>> /\ missed[u] = 0
                      /\ sub[u] = "none" \/ u \in Watchers => history[u] = <<>>
                      /\ sub[u] = "snapped" =>
                           /\ IsTail(history[u], said)
                           /\ Len(history[u]) <= Wanted /\ Len(history[u]) <= said
    BY <1>1 DEF NothingYet, IsTail
  <2> QED  BY <1>1, <1>t DEF Views, NothingYet
<1>7. MissesAreBounded'  BY <1>1, <1>2, <1>t DEF Views, MissesAreBounded
<1>8. \A u \in Viewers : history[u] \o heard'[u] \o queue'[u] = Way(u)
  BY <1>1 DEF Way
<1>9. WayIsTail'
  <2> SUFFICES ASSUME NEW u \in Readers, sub[u] = "open", missed[u] = 0
               PROVE  IsTail(history[u] \o heard'[u] \o queue'[u], Told)
    BY <1>1, <1>2 DEF WayIsTail, Way, IsTail
  <2>1. u \in Viewers  BY DEF Viewers
  <2>2. IsTail(Way(u), Told)  BY <1>t DEF Views, WayIsTail
  <2>3. history[u] \o heard'[u] \o queue'[u] = Way(u)  BY ONLY <1>8, <2>1
  <2> QED  BY ONLY <2>2, <2>3
<1>10. MissesAreCounted'
  <2> SUFFICES ASSUME NEW u \in Readers, sub[u] = "open", history[u] # <<>>
               PROVE  history[u][Len(history[u])] + Len(heard'[u]) + Len(queue'[u])
                        + missed[u] = Told
    BY <1>1, <1>2 DEF MissesAreCounted
  <2> DEFINE last == history[u][Len(history[u])]
             before == Len(heard[u])  after == Len(heard'[u])
             wasLeft == Len(queue[u])  left == Len(queue'[u])
             lost == missed[u]
  <2>1. u \in Viewers  BY DEF Viewers
  <2>2. last + before + wasLeft + lost = Told  BY <1>t DEF Views, MissesAreCounted
  <2>3. last \in Nat
    <3>1. history[u] \in Seq(Lines)  BY <1>v, <2>1
    <3>2. Len(history[u]) \in 1..Len(history[u])  BY ONLY <3>1, history[u] # <<>>, EmptySeq, LenProperties
    <3>3. last \in Lines  BY ONLY <3>1, <3>2, ElementOfSeq
    <3> QED  BY <3>3 DEF Lines
  <2>4. before \in Nat /\ wasLeft \in Nat /\ lost \in Nat  BY <1>v, <2>1
  <2>5. \/ after = before /\ left = wasLeft
        \/ after = before + 1 /\ left = wasLeft - 1
    BY ONLY <1>1, <2>1
  <2> HIDE DEF last, before, after, wasLeft, left, lost
  <2>6. last + after + left + lost = Told  BY ONLY <2>2, <2>3, <2>4, <2>5
  <2> QED  BY ONLY <2>6 DEF last, after, left, lost
<1> QED  BY <1>3, <1>4, <1>5, <1>6, <1>7, <1>9, <1>10, HubParts DEF Views


\* Subscribe: a watcher has no scrollback, and no line of before.
LEMMA SubscribeKeeps ==
    ASSUME HubInv, NEW w \in Watchers, Subscribe(w)
    PROVE  HubInv'
<1>1. /\ sub[w] = "none"
      /\ sub' = [sub EXCEPT ![w] = IF closed THEN "shut" ELSE "open"]
      /\ UNCHANGED <<buf, next, count, said, lock, closed, history, queue, heard, missed>>
  BY DEF Subscribe, Register, ringVars, viewVars
<1>2. w \in Viewers /\ w \notin Readers  BY HubAssumption DEF Viewers
<1>t. /\ RingTypes /\ SubTypes /\ ViewTypes /\ RingHolds /\ LockHolds /\ Views
  BY HubParts
<1>3. /\ sub' \in [Viewers -> SubStates] /\ sub'[w] = IF closed THEN "shut" ELSE "open"
      /\ \A v \in Viewers : v # w => sub'[v] = sub[v]
  BY ONLY <1>1, <1>2, <1>t DEF SubTypes, SubStates
<1>4. Told' = Told  BY <1>1 DEF Told
<1>5. /\ RingTypes' /\ RingHolds' /\ SubTypes' /\ ViewTypes'
  BY <1>1, <1>3, <1>t DEF RingTypes, RingHolds, SubTypes, ViewTypes
<1>6. LockHolds'
  <2>1. \A v \in Readers : v \in Viewers /\ v # w  BY <1>2 DEF Viewers
  <2>2. \A v \in Watchers : v \in Viewers  BY DEF Viewers
  <2>3. /\ \A v \in Readers : sub[v] = "snapped" <=> lock = v
        /\ \A v \in Watchers : sub[v] # "snapped"
        /\ closed => \A v \in Viewers : sub[v] # "open"
        /\ lock \in Streams => said >= 1
    BY <1>t DEF LockHolds
  <2> QED  BY ONLY <1>1, <1>3, <2>1, <2>2, <2>3 DEF LockHolds
<1>7. NothingYet'
  <2> SUFFICES ASSUME NEW v \in Viewers
               PROVE  /\ sub'[v] \in {"none", "snapped"} =>
                           heard[v] = <<>> /\ queue[v] = <<>> /\ missed[v] = 0
                      /\ sub'[v] = "none" \/ v \in Watchers => history[v] = <<>>
                      /\ sub'[v] = "snapped" =>
                           /\ IsTail(history[v], said)
                           /\ Len(history[v]) <= Wanted /\ Len(history[v]) <= said
    BY <1>1 DEF NothingYet, IsTail
  <2>1. CASE v = w  BY <1>1, <1>3, <1>t, <2>1 DEF Views, NothingYet
  <2>2. CASE v # w  BY <1>3, <1>t, <2>2 DEF Views, NothingYet
  <2> QED  BY <2>1, <2>2
<1>8. MissesAreBounded'  BY <1>1, <1>4, <1>t DEF Views, MissesAreBounded
<1>9. \A v \in Readers : sub'[v] = sub[v]  BY <1>2, <1>3 DEF Viewers
<1>10. WayIsTail'
  BY <1>1, <1>4, <1>9, <1>t DEF Views, WayIsTail, Way, IsTail
<1>11. MissesAreCounted'
  BY <1>1, <1>4, <1>9, <1>t DEF Views, MissesAreCounted
<1> QED  BY <1>5, <1>6, <1>7, <1>8, <1>10, <1>11, HubParts DEF Views

\* A viewer that leaves or sees the end, and the end itself.
LEMMA EndKeeps ==
    ASSUME HubInv, UNCHANGED <<ringVars, lock, viewVars>>,
           sub' \in [Viewers -> SubStates], closed' \in BOOLEAN,
           \A v \in Viewers :
             \/ sub'[v] = sub[v]
             \/ sub'[v] \in {"shut", "gone"} /\ sub[v] \in {"open", "shut"},
           \/ closed' = closed
           \/ \A v \in Viewers : sub'[v] # "open"
    PROVE  HubInv'
<1>1. RingTypes' /\ ViewTypes' /\ RingHolds' /\ Views'  BY ViewsStay
<1>2. SubTypes'  BY HubParts DEF SubTypes
<1>3. LockHolds'
  BY DEF HubInv, LockHolds, Viewers, ringVars
<1> QED  BY <1>1, <1>2, <1>3, HubParts

\* A viewer that finds its channel closed and empty.
LEMMA SeesEndKeeps ==
    ASSUME HubInv, NEW v \in Viewers, SeesEnd(v)
    PROVE  HubInv'
<1>1. /\ sub[v] = "shut" /\ sub' = [sub EXCEPT ![v] = "gone"]
      /\ UNCHANGED <<ringVars, lock, closed, viewVars>>
  BY DEF SeesEnd
<1>2. sub \in [Viewers -> SubStates] /\ closed \in BOOLEAN  BY HubParts DEF SubTypes
<1>3. /\ sub' \in [Viewers -> SubStates]
      /\ \A u \in Viewers : \/ sub'[u] = sub[u]
                            \/ sub'[u] \in {"shut", "gone"} /\ sub[u] \in {"open", "shut"}
  BY ONLY <1>1, <1>2 DEF SubStates
<1> QED  BY <1>1, <1>2, <1>3, EndKeeps

\* A viewer that leaves, or whose context ends.
LEMMA UnsubscribeKeeps ==
    ASSUME HubInv, NEW v \in Viewers, Unsubscribe(v)
    PROVE  HubInv'
<1>1. /\ sub[v] = "open" /\ sub' = [sub EXCEPT ![v] = "shut"]
      /\ UNCHANGED <<ringVars, lock, closed, viewVars>>
  BY DEF Unsubscribe
<1>2. sub \in [Viewers -> SubStates] /\ closed \in BOOLEAN  BY HubParts DEF SubTypes
<1>3. /\ sub' \in [Viewers -> SubStates]
      /\ \A u \in Viewers : \/ sub'[u] = sub[u]
                            \/ sub'[u] \in {"shut", "gone"} /\ sub[u] \in {"open", "shut"}
  BY ONLY <1>1, <1>2 DEF SubStates
<1> QED  BY <1>1, <1>2, <1>3, EndKeeps

\* The end closes every channel.
LEMMA CloseKeeps ==
    ASSUME HubInv, Close
    PROVE  HubInv'
<1>1. /\ closed' = TRUE
      /\ sub' = [v \in Viewers |-> IF sub[v] = "open" THEN "shut" ELSE sub[v]]
      /\ UNCHANGED <<ringVars, lock, viewVars>>
  BY DEF Close
<1>2. sub \in [Viewers -> SubStates]  BY HubParts DEF SubTypes
<1>3. /\ sub' \in [Viewers -> SubStates]
      /\ \A u \in Viewers : \/ sub'[u] = sub[u]
                            \/ sub'[u] \in {"shut", "gone"} /\ sub[u] \in {"open", "shut"}
      /\ \A u \in Viewers : sub'[u] # "open"
  BY ONLY <1>1, <1>2 DEF SubStates
<1> QED  BY <1>1, <1>3, EndKeeps

\* Every step keeps the invariant.
LEMMA InductiveHub == HubInv /\ [Next]_vars => HubInv'
<1> SUFFICES ASSUME HubInv, [Next]_vars PROVE HubInv'
  OBVIOUS
<1>1. ASSUME NEW s \in Streams, PublishAdd(s) PROVE HubInv'  BY <1>1, PublishAddKeeps
<1>2. ASSUME NEW s \in Streams, PublishFanOut(s) PROVE HubInv'  BY <1>2, PublishFanOutKeeps
<1>3. ASSUME NEW r \in Readers, Snapshot(r) PROVE HubInv'  BY <1>3, SnapshotKeeps
<1>4. ASSUME NEW r \in Readers, SubscribeWithHistory(r) PROVE HubInv'
  BY <1>4, SubscribeWithHistoryKeeps
<1>5. ASSUME NEW w \in Watchers, Subscribe(w) PROVE HubInv'  BY <1>5, SubscribeKeeps
<1>6. ASSUME NEW v \in Viewers, Receive(v) PROVE HubInv'  BY <1>6, ReceiveKeeps
<1>7. ASSUME NEW v \in Viewers, SeesEnd(v) PROVE HubInv'  BY <1>7, SeesEndKeeps
<1>8. ASSUME NEW v \in Viewers, Unsubscribe(v) PROVE HubInv'  BY <1>8, UnsubscribeKeeps
<1>9. CASE Close  BY <1>9, CloseKeeps
<1>10. CASE UNCHANGED vars
  <2>1. UNCHANGED <<ringVars, lock, closed, sub, viewVars>>  BY <1>10 DEF vars
  <2>2. sub' \in [Viewers -> SubStates] /\ closed' \in BOOLEAN
    BY <2>1, HubParts DEF SubTypes
  <2> QED  BY <2>1, <2>2, EndKeeps
<1> QED
  BY <1>1, <1>2, <1>3, <1>4, <1>5, <1>6, <1>7, <1>8, <1>9, <1>10 DEF Next, Hears

-----------------------------------------------------------------------------
\* The invariant of the hub holds in every state.
THEOREM HubInvariance == Spec => []HubInv
<1>1. Init => HubInv  BY InitialHub
<1>2. HubInv /\ [Next]_vars => HubInv'  BY InductiveHub
<1> QED  BY <1>1, <1>2, PTL DEF Spec

\* Every variable of the hub keeps its type; no queue holds more than subscriberQueue.
THEOREM HubTypes == Spec => []TypeOK
<1>1. HubInv => TypeOK  BY DEF HubInv
<1> QED  BY <1>1, HubInvariance, PTL

\* RingBuffer.Last(n) is the tail of what was said, for a buffer of any size, any n and
\* wherever the write index is.
THEOREM LastIsAlwaysATail == Spec => []RingIsTail
<1>1. ASSUME HubInv PROVE RingIsTail
  <2> SUFFICES ASSUME NEW n \in 0..Cap + 1
               PROVE  LET k == CHOOSE k \in {n, said, Cap} : \A j \in {n, said, Cap} : k <= j
                      IN  Last(n) = Consecutive(said - k + 1, said)
    BY DEF RingIsTail
  <2> DEFINE all == {n, said, Cap}
             k == CHOOSE i \in all : \A j \in all : i <= j
             m == IF n > count THEN count ELSE n
  <2>1. /\ n \in Nat /\ said \in Nat /\ Cap \in Nat /\ count \in Nat
        /\ count = IF said < Cap THEN said ELSE Cap
    BY <1>1, HubAssumption, HubParts DEF RingTypes, RingHolds
  <2>2. m \in all /\ \A j \in all : m <= j  BY ONLY <2>1
  <2>3. k \in all /\ \A j \in all : k <= j  BY ONLY <2>2
  <2>4. k = m  BY ONLY <2>1, <2>2, <2>3
  <2>5. TypeOK /\ RingHolds /\ n \in Nat  BY <1>1, <2>1 DEF HubInv
  <2>6. Last(n) = [i \in 1..m |-> said - m + i] /\ m \in Nat  BY ONLY <2>5, LastIsTail
  <2> HIDE DEF m, all, k
  <2>7. Last(n) = Consecutive(said - m + 1, said)
    <3>1. said - (said - m + 1) + 1 = m  BY ONLY <2>1, <2>6
    <3>2. \A i \in 1..m : said - m + 1 + i - 1 = said - m + i  BY ONLY <2>1, <2>6
    <3> QED  BY ONLY <2>6, <3>1, <3>2 DEF Consecutive
  <2> QED  BY ONLY <2>4, <2>7 DEF k, all
<1> QED  BY <1>1, HubInvariance, PTL

\* The scrollback and the stream of SubscribeWithHistory join without a hole or a
\* repeat, for any number of publishers and viewers.
THEOREM NoGap == Spec => []GapFree
<1>1. ASSUME HubInv PROVE GapFree
  <2> SUFFICES ASSUME NEW v \in Readers, sub[v] = "open", missed[v] = 0
               PROVE  Way(v) = Consecutive(Told - Len(Way(v)) + 1, Told)
    BY DEF GapFree, Way
  <2> DEFINE all == Way(v)
  <2>1. all \in Seq(Lines)  BY <1>1, OneViewer DEF Viewers
  <2>2. IsTail(all, Told) /\ Told \in Nat  BY <1>1, ToldIs DEF HubInv, WayIsTail
  <2> HIDE DEF all
  <2>3. Len(all) \in Nat /\ \A i \in 1..Len(all) : all[i] = Told - Len(all) + i
    BY ONLY <2>1, <2>2, LenProperties DEF IsTail
  <2> DEFINE m == Len(all)
  <2>4. all = [i \in 1..m |-> all[i]]  BY ONLY <2>1
  <2>5. m \in Nat /\ \A i \in 1..m : all[i] = Told - m + i  BY ONLY <2>3
  <2> HIDE DEF m
  <2>6. Told - (Told - m + 1) + 1 = m  BY ONLY <2>2, <2>5
  <2>7. \A i \in 1..m : Told - m + 1 + i - 1 = all[i]  BY ONLY <2>2, <2>5
  <2>8. all = Consecutive(Told - m + 1, Told)
    BY ONLY <2>4, <2>6, <2>7 DEF Consecutive
  <2> QED  BY ONLY <2>8 DEF m, all
<1> QED  BY <1>1, HubInvariance, PTL

\* A line that did not fit in a viewer's queue is in its dropped count, so that what it
\* heard, has queued and missed add up to what was told since it joined.
THEOREM MissesAdd == Spec => []MissesAreCounted
<1>1. HubInv => MissesAreCounted  BY DEF HubInv
<1> QED  BY <1>1, HubInvariance, PTL

-----------------------------------------------------------------------------
(* The hub implements ConsoleFeed *)

\* What the feed's variables stand for.
View == [v \in Viewers |-> IF phase[v] = "away" THEN <<>> ELSE Way(v)]
Unread == [v \in Viewers |-> Len(queue[v])]

\* The phases, for every state of a viewer.
LEMMA Phases ==
    /\ phase = [v \in Viewers |-> phase[v]]
    /\ \A v \in Viewers :
         /\ sub[v] \in {"none", "snapped"} <=> phase[v] = "away"
         /\ sub[v] = "open" <=> phase[v] = "watching"
         /\ sub[v] \notin {"none", "snapped", "open"} <=> phase[v] = "over"
BY DEF phase

\* The feed's actions, in these terms.
LEMMA FeedSays ==
    ASSUME Told' = Told + 1, phase' = phase,
           \A v \in Viewers :
             IF phase[v] = "watching" /\ Unread[v] < Queue
             THEN View'[v] = Append(View[v], Told') /\ Unread'[v] = Unread[v] + 1
             ELSE View'[v] = View[v] /\ Unread'[v] = Unread[v]
    PROVE  Feed!Say
<1> DEFINE gets == {v \in Viewers : phase[v] = "watching" /\ Unread[v] < Queue}
<1>1. View' = [v \in Viewers |-> IF v \in gets THEN Append(View[v], Told') ELSE View[v]]
  BY DEF View
<1>2. Unread' = [v \in Viewers |-> IF v \in gets THEN Unread[v] + 1 ELSE Unread[v]]
  BY DEF Unread
<1> QED  BY <1>1, <1>2 DEF Feed!Say, View, Unread, Way

\* A viewer joins with the last n lines.
LEMMA FeedJoins ==
    ASSUME NEW v \in Viewers, phase[v] = "away", NEW n \in 0..Wanted, n <= Told,
           View' = [View EXCEPT ![v] = [i \in 1..n |-> Told - n + i]],
           NEW p \in {"watching", "over"}, phase' = [phase EXCEPT ![v] = p],
           Told' = Told, Unread' = Unread
    PROVE  Feed!Join(v)
BY DEF Feed!Join, View, Unread, Way

\* A viewer reads.
LEMMA FeedReads ==
    ASSUME NEW v \in Viewers, Unread[v] > 0, Unread' = [Unread EXCEPT ![v] = @ - 1],
           Told' = Told, View' = View, phase' = phase
    PROVE  Feed!Read(v)
BY DEF Feed!Read, View, Unread, Way

\* Some viewers are sent away.
LEMMA FeedIsOver ==
    ASSUME NEW gone \in SUBSET Viewers, gone # {}, \A v \in gone : phase[v] = "watching",
           phase' = [v \in Viewers |-> IF v \in gone THEN "over" ELSE phase[v]],
           Told' = Told, View' = View, Unread' = Unread
    PROVE  Feed!Over
BY DEF Feed!Over, View, Unread, Way

\* Or nothing happens in the feed.
LEMMA FeedStays ==
    ASSUME Told' = Told, View' = View, Unread' = Unread, phase' = phase
    PROVE  UNCHANGED Feed!feedVars
BY DEF Feed!feedVars, View, Unread, Way

\* Nothing given, nothing read, nobody moved.
LEMMA NothingGiven ==
    ASSUME UNCHANGED <<history, heard, queue>>
    PROVE  (\A v \in Viewers : Way(v)' = Way(v)) /\ Unread' = Unread
BY DEF Way, Unread

\* Recording a line is nothing a viewer can tell: it was said when it was fanned out.
LEMMA PublishAddStays ==
    ASSUME HubInv, NEW s \in Streams, PublishAdd(s)
    PROVE  UNCHANGED Feed!feedVars
<1>1. /\ lock = Free /\ lock' = s /\ said' = said + 1
      /\ UNCHANGED <<sub, history, heard, queue>>
  BY DEF PublishAdd, viewVars
<1>2. Told = said /\ said \in Nat  BY <1>1, ToldIs
<1>3. Told' = said' - 1  BY <1>1 DEF Told
<1>4. Told' = Told  BY ONLY <1>1, <1>2, <1>3
<1>5. phase' = phase  BY <1>1 DEF phase
<1>6. View' = View  BY <1>1, <1>5, NothingGiven DEF View
<1> QED  BY <1>1, <1>4, <1>5, <1>6, NothingGiven, FeedStays

\* The fan-out is the feed's Say.
LEMMA PublishFanOutSays ==
    ASSUME HubInv, NEW s \in Streams, PublishFanOut(s)
    PROVE  Feed!Say
<1>1. /\ UNCHANGED <<said, sub, history, heard>>
      /\ lock = s /\ lock' = Free
      /\ \A v \in Viewers :
           /\ sub[v] # "open" => queue'[v] = queue[v]
           /\ sub[v] = "open" =>
                \/ Len(queue[v]) < Queue /\ queue'[v] = Append(queue[v], said)
                \/ Len(queue[v]) >= Queue /\ queue'[v] = queue[v]
  BY FanOutGives
<1>2. Told = said - 1 /\ said \in Nat  BY <1>1, ToldIs
<1>3. Told' = said  BY <1>1, HubAssumption DEF Told
<1>4. Told' = Told + 1  BY ONLY <1>2, <1>3
<1>5. phase' = phase  BY <1>1 DEF phase
<1>6. said \in Lines  BY <1>1, ToldIs DEF HubInv, LockHolds, Lines
<1>7. ASSUME NEW v \in Viewers
      PROVE  IF phase[v] = "watching" /\ Unread[v] < Queue
             THEN View'[v] = Append(View[v], Told') /\ Unread'[v] = Unread[v] + 1
             ELSE View'[v] = View[v] /\ Unread'[v] = Unread[v]
  <2>1. /\ Unread[v] = Len(queue[v]) /\ Unread'[v] = Len(queue'[v])
        /\ View[v] = IF phase[v] = "away" THEN <<>> ELSE Way(v)
        /\ View'[v] = IF phase[v] = "away" THEN <<>>
                      ELSE history[v] \o heard[v] \o queue'[v]
    BY <1>1, <1>5 DEF Unread, View, Way
  <2>2. /\ history[v] \in Seq(Lines) /\ heard[v] \in Seq(Lines) /\ queue[v] \in Seq(Lines)
        /\ Len(queue[v]) \in Nat
    BY OneViewer
  <2>3. CASE phase[v] = "watching" /\ Unread[v] < Queue
    <3>1. sub[v] = "open"  BY <2>3, Phases
    <3>2. queue'[v] = Append(queue[v], said)
      BY ONLY <1>1, <2>1, <2>2, <2>3, <3>1, HubAssumption
    <3> DEFINE a == history[v]  b == heard[v]  c == queue[v]
    <3>3. a \in Seq(Lines) /\ b \in Seq(Lines) /\ c \in Seq(Lines)  BY <2>2
    <3>4. Len(Append(c, said)) = Len(c) + 1  BY <1>6, <3>3, AppendProperties
    <3>5. Way(v) = a \o b \o c  BY DEF Way
    <3>6. Unread'[v] = Unread[v] + 1  BY ONLY <2>1, <3>2, <3>4 DEF c
    <3>7. View[v] = a \o b \o c /\ View'[v] = a \o b \o Append(c, said)
      BY ONLY <2>1, <2>3, <3>2, <3>5 DEF a, b, c
    <3> HIDE DEF a, b, c
    <3>8. a \o b \o Append(c, said) = Append(a \o b \o c, said)
      BY ONLY <1>6, <3>3, SendIsLast
    <3>9. View'[v] = Append(View[v], Told')  BY ONLY <1>3, <3>7, <3>8
    <3> QED  BY ONLY <2>3, <3>6, <3>9
  <2>4. CASE ~(phase[v] = "watching" /\ Unread[v] < Queue)
    <3>1. sub[v] # "open" \/ Len(queue[v]) >= Queue
      BY <2>1, <2>2, <2>4, Phases, HubAssumption
    <3>2. queue'[v] = queue[v]  BY ONLY <1>1, <2>2, <3>1, HubAssumption
    <3> QED  BY ONLY <2>1, <2>4, <3>2 DEF Way
  <2> QED  BY <2>3, <2>4
<1> QED  BY ONLY <1>4, <1>5, <1>7, FeedSays

\* What a viewer was given before it joined it has not seen: the snapshot is no step.
LEMMA SnapshotStays ==
    ASSUME HubInv, NEW r \in Readers, Snapshot(r)
    PROVE  UNCHANGED Feed!feedVars
<1>1. /\ sub[r] = "none" /\ lock = Free /\ lock' = r
      /\ sub' = [sub EXCEPT ![r] = "snapped"]
      /\ history' = [history EXCEPT ![r] = Last(Wanted)]
      /\ UNCHANGED <<said, queue, heard>>
  BY DEF Snapshot, ringVars
<1>2. r \in Viewers /\ r \notin Streams  BY HubAssumption DEF Viewers
<1>3. /\ sub \in [Viewers -> SubStates] /\ history \in [Viewers -> Seq(Lines)]
  BY HubParts DEF SubTypes, ViewTypes
<1>4. Told' = Told  BY <1>1, <1>2, HubAssumption DEF Told
<1>5. \A v \in Viewers : v # r => sub'[v] = sub[v] /\ history'[v] = history[v]
  BY ONLY <1>1, <1>3
<1>6. sub'[r] = "snapped"  BY ONLY <1>1, <1>2, <1>3
<1>7. phase' = phase  BY <1>1, <1>5, <1>6 DEF phase
<1>8. phase[r] = "away"  BY <1>1, <1>2, Phases
<1>9. View' = View  BY <1>1, <1>5, <1>7, <1>8 DEF View, Way
<1> QED  BY <1>1, <1>4, <1>7, <1>9, FeedStays DEF Unread

\* The registration with the hub is the feed's Join, with the scrollback.
LEMMA SubscribeWithHistoryJoins ==
    ASSUME HubInv, NEW r \in Readers, SubscribeWithHistory(r)
    PROVE  Feed!Join(r)
<1>1. /\ sub[r] = "snapped" /\ lock' = Free
      /\ sub' = [sub EXCEPT ![r] = IF closed THEN "shut" ELSE "open"]
      /\ UNCHANGED <<said, history, queue, heard>>
  BY DEF SubscribeWithHistory, Register, ringVars, viewVars
<1>2. r \in Viewers /\ r \notin Streams  BY HubAssumption DEF Viewers
<1>3. sub \in [Viewers -> SubStates] /\ closed \in BOOLEAN  BY HubParts DEF SubTypes
<1>4. Told' = Told /\ Told = said
  BY <1>1, <1>2, HubAssumption DEF HubInv, LockHolds, Told
<1>5. /\ heard[r] = <<>> /\ queue[r] = <<>> /\ IsTail(history[r], said)
      /\ Len(history[r]) <= Wanted /\ Len(history[r]) <= said
  BY <1>1, <1>2 DEF HubInv, NothingYet
<1>6. history[r] \in Seq(Lines) /\ Len(history[r]) \in Nat  BY <1>2, OneViewer
<1>7. Way(r) = history[r]
  <2>1. history[r] \o <<>> = history[r]  BY <1>6, ConcatEmptySeq
  <2> QED  BY <1>5, <2>1 DEF Way
<1> DEFINE n == Len(history[r])
           p == IF closed THEN "over" ELSE "watching"
<1>8. n \in 0..Wanted /\ n <= Told  BY <1>4, <1>5, <1>6, HubAssumption
<1>9. history[r] = [i \in 1..n |-> Told - n + i]
  <2>1. history[r] = [i \in 1..n |-> history[r][i]]  BY ONLY <1>6
  <2>2. \A i \in 1..n : history[r][i] = Told - n + i  BY ONLY <1>4, <1>5 DEF IsTail
  <2> HIDE DEF n
  <2> QED  BY ONLY <2>1, <2>2
<1>10. phase[r] = "away"  BY <1>1, <1>2, Phases
<1>11. /\ \A v \in Viewers : v # r => sub'[v] = sub[v]
       /\ sub'[r] = IF closed THEN "shut" ELSE "open"
  BY ONLY <1>1, <1>2, <1>3
<1>12. phase' = [phase EXCEPT ![r] = p]  BY <1>2, <1>11 DEF phase
<1>13. p \in {"watching", "over"} /\ p # "away"  OBVIOUS
<1> HIDE DEF p
<1>14. View' = [View EXCEPT ![r] = history[r]]
  <2>1. phase'[r] = p /\ \A v \in Viewers : v # r => phase'[v] = phase[v]
    BY <1>2, <1>12, Phases
  <2>2. \A v \in Viewers : Way(v)' = Way(v)  BY <1>1, NothingGiven
  <2> QED  BY <1>7, <1>13, <2>1, <2>2 DEF View
<1> HIDE DEF n
<1>15. View' = [View EXCEPT ![r] = [i \in 1..n |-> Told - n + i]]  BY ONLY <1>9, <1>14
<1>16. Unread' = Unread  BY <1>1 DEF Unread
<1> QED  BY ONLY <1>2, <1>4, <1>8, <1>10, <1>12, <1>13, <1>15, <1>16, FeedJoins

\* A watcher joins with no old line.
LEMMA SubscribeJoins ==
    ASSUME HubInv, NEW w \in Watchers, Subscribe(w)
    PROVE  Feed!Join(w)
<1>1. /\ sub[w] = "none"
      /\ sub' = [sub EXCEPT ![w] = IF closed THEN "shut" ELSE "open"]
      /\ UNCHANGED <<said, lock, history, queue, heard>>
  BY DEF Subscribe, Register, ringVars, viewVars
<1>2. w \in Viewers  BY DEF Viewers
<1>3. sub \in [Viewers -> SubStates] /\ closed \in BOOLEAN  BY HubParts DEF SubTypes
<1>4. Told' = Told /\ Told \in Nat  BY <1>1, ToldIs DEF Told
<1>5. history[w] = <<>> /\ heard[w] = <<>> /\ queue[w] = <<>>
  BY <1>1, <1>2 DEF HubInv, NothingYet
<1>7. Way(w) = <<>>  BY <1>5 DEF Way
<1> DEFINE p == IF closed THEN "over" ELSE "watching"
           n == 0
<1>8. n \in 0..Wanted /\ n <= Told  BY <1>4, HubAssumption
<1>9. <<>> = [i \in 1..n |-> Told - n + i]  OBVIOUS
<1>10. phase[w] = "away"  BY <1>1, <1>2, Phases
<1>11. /\ \A v \in Viewers : v # w => sub'[v] = sub[v]
       /\ sub'[w] = IF closed THEN "shut" ELSE "open"
  BY ONLY <1>1, <1>2, <1>3
<1>12. phase' = [phase EXCEPT ![w] = p]  BY <1>2, <1>11 DEF phase
<1>13. p \in {"watching", "over"} /\ p # "away"  OBVIOUS
<1> HIDE DEF p
<1>14. View' = [View EXCEPT ![w] = <<>>]
  <2>1. phase'[w] = p /\ \A v \in Viewers : v # w => phase'[v] = phase[v]
    BY <1>2, <1>12, Phases
  <2>2. \A v \in Viewers : Way(v)' = Way(v)  BY <1>1, NothingGiven
  <2> QED  BY <1>7, <1>13, <2>1, <2>2 DEF View
<1> HIDE DEF n
<1>15. View' = [View EXCEPT ![w] = [i \in 1..n |-> Told - n + i]]  BY ONLY <1>9, <1>14
<1>16. Unread' = Unread  BY <1>1 DEF Unread
<1> QED  BY ONLY <1>2, <1>4, <1>8, <1>10, <1>12, <1>13, <1>15, <1>16, FeedJoins

\* A receive is the feed's Read.
LEMMA ReceiveReads ==
    ASSUME HubInv, NEW v \in Viewers, Receive(v)
    PROVE  Feed!Read(v)
<1>1. /\ UNCHANGED <<said, lock, sub, history>>
      /\ sub[v] \in {"open", "shut"} /\ queue[v] # <<>>
      /\ \A u \in Viewers : u # v => heard'[u] = heard[u] /\ queue'[u] = queue[u]
      /\ Len(queue'[v]) = Len(queue[v]) - 1
      /\ history[v] \o heard'[v] \o queue'[v] = Way(v)
  BY ReceiveMoves
<1>2. Told' = Told /\ phase' = phase  BY <1>1 DEF Told, phase
<1>3. \A u \in Viewers : history[u] \o heard'[u] \o queue'[u] = Way(u)
  BY <1>1 DEF Way
<1>4. View' = View
  <2>1. View' = [u \in Viewers |-> IF phase[u] = "away" THEN <<>>
                                   ELSE history[u] \o heard'[u] \o queue'[u]]
    BY <1>1, <1>2 DEF View, Way
  <2> QED  BY ONLY <1>3, <2>1 DEF View
<1>5. Unread' = [Unread EXCEPT ![v] = @ - 1]
  BY <1>1 DEF Unread
<1>6. Unread[v] > 0
  <2>1. queue[v] \in Seq(Lines)  BY OneViewer
  <2>2. Len(queue[v]) \in Nat /\ Len(queue[v]) # 0  BY <1>1, <2>1, EmptySeq, LenProperties
  <2> QED  BY <2>2 DEF Unread
<1> QED  BY ONLY <1>2, <1>4, <1>5, <1>6, FeedReads

\* A viewer sent away, or all of them: the feed's Over; one that only notices: no step.
LEMMA EndIsOver ==
    ASSUME HubInv, UNCHANGED <<ringVars, lock, viewVars>>,
           sub' \in [Viewers -> SubStates],
           \A v \in Viewers :
             \/ sub'[v] = sub[v]
             \/ sub'[v] \in {"shut", "gone"} /\ sub[v] \in {"open", "shut"}
    PROVE  Feed!Over \/ UNCHANGED Feed!feedVars
<1> DEFINE gone == {v \in Viewers : sub[v] = "open" /\ sub'[v] # "open"}
<1>1. Told' = Told /\ Unread' = Unread /\ \A v \in Viewers : Way(v)' = Way(v)
  BY NothingGiven DEF ringVars, viewVars, Told
<1>2. phase' = [v \in Viewers |-> IF v \in gone THEN "over" ELSE phase[v]]
  BY DEF phase
<1>3. \A v \in gone : phase[v] = "watching"  BY Phases
<1>4. \A v \in Viewers : phase'[v] = "away" <=> phase[v] = "away"
  BY ONLY <1>2, <1>3
<1>5. View' = View  BY <1>1, <1>4 DEF View
<1>6. CASE gone # {}
  <2>1. gone \in SUBSET Viewers  OBVIOUS
  <2> HIDE DEF gone
  <2> QED  BY ONLY <1>1, <1>2, <1>3, <1>5, <1>6, <2>1, FeedIsOver
<1>7. CASE gone = {}
  <2>1. phase' = phase  BY <1>2, <1>7, Phases
  <2> QED  BY ONLY <1>1, <1>5, <2>1, FeedStays
<1> QED  BY <1>6, <1>7

\* The hub begins as the feed does.
LEMMA FeedBegins == Init => Feed!FeedInit
<1> SUFFICES ASSUME Init PROVE Feed!FeedInit
  OBVIOUS
<1>1. Told = 0  BY HubAssumption DEF Init, Told
<1>2. phase = [v \in Viewers |-> "away"]  BY DEF Init, phase
<1>3. View = [v \in Viewers |-> <<>>]  BY <1>2 DEF View
<1>4. Unread = [v \in Viewers |-> 0]
  <2>1. Len(<<>>) = 0  BY EmptySeq
  <2> QED  BY <2>1 DEF Init, Unread
<1> QED  BY <1>1, <1>2, <1>3, <1>4 DEF Feed!FeedInit, View, Unread, Way

\* Every step of the hub is a step of the feed, or none.
LEMMA FeedSteps == HubInv /\ [Next]_vars => [Feed!FeedNext]_Feed!feedVars
<1> SUFFICES ASSUME HubInv, [Next]_vars PROVE Feed!FeedNext \/ UNCHANGED Feed!feedVars
  OBVIOUS
<1> DEFINE Goal == Feed!FeedNext \/ UNCHANGED Feed!feedVars
<1>e. (Feed!Over \/ UNCHANGED Feed!feedVars) => Goal  BY DEF Feed!FeedNext
<1>1. ASSUME NEW s \in Streams, PublishAdd(s) PROVE Goal  BY <1>1, PublishAddStays
<1>2. ASSUME NEW s \in Streams, PublishFanOut(s) PROVE Goal
  BY <1>2, PublishFanOutSays DEF Feed!FeedNext
<1>3. ASSUME NEW r \in Readers, Snapshot(r) PROVE Goal  BY <1>3, SnapshotStays
<1>4. ASSUME NEW r \in Readers, SubscribeWithHistory(r) PROVE Goal
  BY <1>4, SubscribeWithHistoryJoins DEF Feed!FeedNext, Viewers
<1>5. ASSUME NEW w \in Watchers, Subscribe(w) PROVE Goal
  BY <1>5, SubscribeJoins DEF Feed!FeedNext, Viewers
<1>6. ASSUME NEW v \in Viewers, Receive(v) PROVE Goal
  BY <1>6, ReceiveReads DEF Feed!FeedNext
<1>s. sub \in [Viewers -> SubStates]  BY HubParts DEF SubTypes
<1>7. ASSUME NEW v \in Viewers, SeesEnd(v) \/ Unsubscribe(v) PROVE Goal
  <2>1. \/ sub[v] = "shut" /\ sub' = [sub EXCEPT ![v] = "gone"]
        \/ sub[v] = "open" /\ sub' = [sub EXCEPT ![v] = "shut"]
    BY <1>7 DEF SeesEnd, Unsubscribe
  <2>2. UNCHANGED <<ringVars, lock, viewVars>>  BY <1>7 DEF SeesEnd, Unsubscribe
  <2>3. /\ sub' \in [Viewers -> SubStates]
        /\ \A u \in Viewers : \/ sub'[u] = sub[u]
                              \/ sub'[u] \in {"shut", "gone"} /\ sub[u] \in {"open", "shut"}
    BY ONLY <2>1, <1>s DEF SubStates
  <2> QED  BY <1>e, <2>2, <2>3, EndIsOver
<1>8. CASE Close
  <2>1. /\ sub' = [v \in Viewers |-> IF sub[v] = "open" THEN "shut" ELSE sub[v]]
        /\ UNCHANGED <<ringVars, lock, viewVars>>
    BY <1>8 DEF Close
  <2>2. /\ sub' \in [Viewers -> SubStates]
        /\ \A u \in Viewers : \/ sub'[u] = sub[u]
                              \/ sub'[u] \in {"shut", "gone"} /\ sub[u] \in {"open", "shut"}
    BY ONLY <2>1, <1>s DEF SubStates
  <2> QED  BY <1>e, <2>1, <2>2, EndIsOver
<1>9. CASE UNCHANGED vars
  <2>1. UNCHANGED <<ringVars, lock, sub, viewVars>>  BY <1>9 DEF vars
  <2> QED  BY <1>e, <1>s, <2>1, EndIsOver
<1> QED  BY <1>1, <1>2, <1>3, <1>4, <1>5, <1>6, <1>7, <1>8, <1>9 DEF Next, Hears

\* The hub keeps the promise of ConsoleFeed: for any number of publishers and viewers,
\* every viewer gets one order of lines, none twice, and misses one only when its queue
\* is full; h.mu, the ring and the queues are invisible.
THEOREM HubImplementsFeed == Spec => ImplementsFeed
<1>1. Init => Feed!FeedInit  BY FeedBegins
<1>2. HubInv /\ [Next]_vars => [Feed!FeedNext]_Feed!feedVars  BY FeedSteps
<1> QED  BY <1>1, <1>2, HubInvariance, PTL DEF Spec, ImplementsFeed, Feed!FeedSpec
=============================================================================
