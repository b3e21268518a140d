---------------------------- MODULE PanelProofs ----------------------------
(***************************************************************************)
(* Proofs about Panel, for every number of calls, faults, tokens, servers, *)
(* directories, themes, queries and users, and every choice of links.      *)
(*                                                                         *)
(* First what adding, answering, settling, forgetting and renaming do to   *)
(* the calls in flight.  Then what a step does: a page acts on its own     *)
(* handlers alone (Inside), the session and the theme on those that        *)
(* outlive the pages (Aside), and a page is entered with nothing in flight *)
(* but these (Fit).  That is shown of every page once; what a property     *)
(* says of one page rests on that page's own actions (PanelPageProofs).    *)
(***************************************************************************)
EXTENDS Panel, SequenceTheorems, WellFoundedInduction, TLAPS

-----------------------------------------------------------------------------
(* The calls in flight.                                                    *)

\* Every handler that awaits something awaits a queue of calls, never an empty one.
Queued(q) == q \in Seq(Range(q)) /\ q # <<>>
Queues(cs) == \A h \in DOMAIN cs : Queued(cs[h])

\* What is in flight: every call with the handler that awaits it.
Sent(cs) == UNION {{<<h, cs[h][k]>> : k \in DOMAIN cs[h]} : h \in DOMAIN cs}

-----------------------------------------------------------------------------
(* One queue.                                                              *)

\* A queue over any set is a queue over what is in it.
LEMMA QueueOfItsOwn ==
    ASSUME NEW S, NEW q \in Seq(S)
    PROVE  q \in Seq(Range(q)) /\ DOMAIN q = 1..Len(q) /\ Len(q) \in Nat
<1>1. Len(q) \in Nat /\ DOMAIN q = 1..Len(q) /\ q \in [1..Len(q) -> S]  BY LenProperties
<1>2. q \in [1..Len(q) -> Range(q)]  BY <1>1 DEF Range
<1>3. q \in UNION {[1..n -> Range(q)] : n \in Nat}  BY <1>1, <1>2
<1> QED  BY <1>1, <1>3, SeqDef

\* One more call at the end.
LEMMA OneMore ==
    ASSUME NEW q, q \in Seq(Range(q)), NEW c
    PROVE  Queued(Append(q, c)) /\ Range(Append(q, c)) = Range(q) \cup {c}
<1> DEFINE S == Range(q) \cup {c}
           r == Append(q, c)
<1>1. q \in Seq(S)  BY SeqMonotonic
<1>2. /\ r \in Seq(S) /\ Len(r) = Len(q) + 1 /\ r[Len(q) + 1] = c
      /\ \A k \in 1..Len(q) : r[k] = q[k]
  BY <1>1, AppendProperties
<1>3. Len(q) \in Nat /\ DOMAIN q = 1..Len(q)  BY LenProperties
<1>4. r \in Seq(Range(r)) /\ DOMAIN r = 1..Len(q) + 1  BY <1>2, QueueOfItsOwn
<1>5. r # <<>>  BY <1>2, <1>3, EmptySeq
<1>6. Range(r) = Range(q) \cup {c}
  <2> HIDE DEF r
  <2>1. \A k \in DOMAIN r : r[k] \in Range(q) \cup {c}  BY <1>2, <1>3, <1>4 DEF Range
  <2>2. \A k \in DOMAIN q : k \in DOMAIN r /\ r[k] = q[k]  BY <1>2, <1>3, <1>4
  <2>3. Len(q) + 1 \in DOMAIN r  BY <1>3, <1>4
  <2> QED  BY <1>2, <2>1, <2>2, <2>3 DEF Range
<1> QED  BY <1>4, <1>5, <1>6 DEF Queued

\* The places behind the n-th, counted from there.
LEMMA PlacesBehind ==
    ASSUME NEW N \in Nat, NEW n \in 1..N, NEW k \in n + 1..N
    PROVE  k - n \in 1..N - (n + 1) + 1 /\ k - n \in 1..N - n /\ n + 1 + (k - n) - 1 = k
OBVIOUS

\* One call less, wherever it was.
LEMMA OneLess ==
    ASSUME NEW q, q \in Seq(Range(q)), NEW n \in DOMAIN q
    PROVE  LET r == RemoveAt(q, n) IN
             /\ r \in Seq(Range(r)) /\ Range(r) \subseteq Range(q)
             /\ Len(r) = Len(q) - 1 /\ Len(q) \in Nat
             /\ \A k \in DOMAIN q : k = n \/ q[k] \in Range(r)
<1>1. Len(q) \in Nat /\ DOMAIN q = 1..Len(q) /\ n \in 1..Len(q)  BY LenProperties
<1>2. \A k \in 1..Len(q) : q[k] \in Range(q)  BY <1>1 DEF Range
<1> DEFINE a == SubSeq(q, 1, n - 1)
           b == SubSeq(q, n + 1, Len(q))
           r == RemoveAt(q, n)
<1>3. a \in Seq(Range(q)) /\ Len(a) = n - 1 /\ \A k \in 1..n - 1 : a[k] = q[k]
  <2>1. \A k \in 1..n - 1 : q[k] \in Range(q)  BY <1>1, <1>2
  <2>2. 1 \in Int /\ n - 1 \in Int  BY <1>1
  <2>3. /\ a \in Seq(Range(q))
        /\ Len(a) = IF 1 <= n - 1 THEN n - 1 - 1 + 1 ELSE 0
        /\ \A k \in 1..n - 1 - 1 + 1 : a[k] = q[1 + k - 1]
    BY ONLY <2>1, <2>2, SubSeqProperties
  <2> HIDE DEF a
  <2>4. \A k \in 1..n - 1 : k \in 1..n - 1 - 1 + 1 /\ 1 + k - 1 = k  BY <1>1
  <2> QED  BY <1>1, <2>3, <2>4
<1>4. /\ b \in Seq(Range(q)) /\ Len(b) = Len(q) - n
      /\ \A k \in n + 1..Len(q) : k - n \in 1..Len(q) - n /\ b[k - n] = q[k]
  <2>1. \A k \in n + 1..Len(q) : q[k] \in Range(q)  BY <1>1, <1>2
  <2>2. n + 1 \in Int /\ Len(q) \in Int  BY <1>1
  <2>3. /\ b \in Seq(Range(q))
        /\ Len(b) = IF n + 1 <= Len(q) THEN Len(q) - (n + 1) + 1 ELSE 0
        /\ \A k \in 1..Len(q) - (n + 1) + 1 : b[k] = q[n + 1 + k - 1]
    BY ONLY <2>1, <2>2, SubSeqProperties
  <2> HIDE DEF b
  <2>4. ASSUME NEW k \in n + 1..Len(q)  PROVE k - n \in 1..Len(q) - n /\ b[k - n] = q[k]
    <3>1. /\ k - n \in 1..Len(q) - (n + 1) + 1 /\ k - n \in 1..Len(q) - n
          /\ n + 1 + (k - n) - 1 = k
      BY <1>1, PlacesBehind, Zenon
    <3>2. b[k - n] = q[n + 1 + (k - n) - 1]  BY <2>3, <3>1, Zenon
    <3> QED  BY <3>1, <3>2
  <2>5. Len(b) = Len(q) - n
    <3> DEFINE N == Len(q)
    <3>1. N \in Nat /\ n \in 1..N  BY <1>1
    <3>2. Len(b) = IF n + 1 <= N THEN N - (n + 1) + 1 ELSE 0  BY <2>3
    <3> HIDE DEF N
    <3>3. Len(b) = N - n  BY ONLY <3>1, <3>2
    <3> QED  BY <3>3 DEF N
  <2> QED  BY <2>3, <2>4, <2>5
<1>5. r = a \o b  BY DEF RemoveAt
<1>6. /\ r \in Seq(Range(q)) /\ Len(r) = Len(q) - 1
      /\ \A k \in 1..Len(r) : r[k] = IF k <= n - 1 THEN a[k] ELSE b[k - (n - 1)]
  <2> HIDE DEF a, b, r
  <2>1. /\ a \o b \in Seq(Range(q)) /\ Len(a \o b) = Len(a) + Len(b)
        /\ \A k \in 1..Len(a) + Len(b) :
             (a \o b)[k] = IF k <= Len(a) THEN a[k] ELSE b[k - Len(a)]
    BY <1>3, <1>4, ConcatProperties
  <2>2. Len(a) = n - 1 /\ Len(b) = Len(q) - n  BY <1>3, <1>4
  <2>3. Len(q) \in Nat /\ n \in Nat  BY <1>1
  <2>4. Len(a) + Len(b) = Len(q) - 1  BY ONLY <2>2, <2>3
  <2> QED  BY <1>5, <2>1, <2>2, <2>4
<1>7. r \in Seq(Range(r)) /\ DOMAIN r = 1..Len(r)  BY <1>6, QueueOfItsOwn
<1>8. Range(r) \subseteq Range(q)
  <2> HIDE DEF a, b, r
  <2>1. \A k \in 1..Len(r) : r[k] \in Range(q)  BY <1>6, ElementOfSeq
  <2> QED  BY <1>7, <2>1 DEF Range
<1>9. ASSUME NEW k \in DOMAIN q, k # n  PROVE q[k] \in Range(r)
  <2> HIDE DEF a, b, r
  <2>1. k \in 1..Len(q)  BY <1>1
  <2>2. CASE k < n
    <3>1. k \in 1..n - 1 /\ k \in 1..Len(r) /\ k <= n - 1  BY <1>1, <1>6, <2>1, <2>2
    <3>2. r[k] = q[k]  BY <1>3, <1>6, <3>1
    <3> QED  BY <1>7, <3>1, <3>2 DEF Range
  <2>3. CASE k > n
    <3> DEFINE m == k - 1
    <3>1. k \in n + 1..Len(q) /\ m \in 1..Len(r) /\ ~(m <= n - 1) /\ m - (n - 1) = k - n
      BY <1>1, <1>6, <2>1, <2>3
    <3> HIDE DEF m
    <3>2. r[m] = b[k - n]  BY <1>6, <3>1
    <3>3. r[m] = q[k]  BY <1>4, <3>1, <3>2
    <3> QED  BY <1>7, <3>1, <3>3 DEF Range
  <2> QED  BY <1>1, <1>9, <2>1, <2>2, <2>3
<1> QED  BY <1>1, <1>6, <1>7, <1>8, <1>9

\* A call is replaced by its answer.
LEMMA OneReplaced ==
    ASSUME NEW q, q \in Seq(Range(q)), NEW n \in DOMAIN q, NEW c
    PROVE  LET r == [q EXCEPT ![n] = c] IN
             /\ Queued(r) /\ Len(r) = Len(q) /\ Range(r) \subseteq Range(q) \cup {c}
             /\ c \in Range(r) /\ \A k \in DOMAIN q : k = n \/ q[k] \in Range(r)
<1> DEFINE S == Range(q) \cup {c}
           r == [q EXCEPT ![n] = c]
<1>1. q \in Seq(S)  BY SeqMonotonic
<1>2. Len(q) \in Nat /\ DOMAIN q = 1..Len(q) /\ n \in 1..Len(q)  BY LenProperties
<1>3. /\ r \in Seq(S) /\ Len(r) = Len(q)
      /\ \A k \in 1..Len(q) : r[k] = IF k = n THEN c ELSE q[k]
  BY <1>1, <1>2, ExceptSeq
<1>4. r \in Seq(Range(r)) /\ DOMAIN r = 1..Len(q)  BY <1>3, QueueOfItsOwn
<1>5. r # <<>>  BY <1>2, <1>3, EmptySeq
<1> HIDE DEF r
<1>6. Queued(r) /\ Len(r) = Len(q) /\ Range(r) \subseteq Range(q) \cup {c}
  BY <1>2, <1>3, <1>4, <1>5 DEF Queued, Range
<1>7. c \in Range(r) /\ \A k \in DOMAIN q : k = n \/ q[k] \in Range(r)
  BY <1>2, <1>3, <1>4 DEF Range
<1> QED  BY <1>6, <1>7 DEF r

\* Two queues, one behind the other.
LEMMA TwoQueues ==
    ASSUME NEW p, NEW q, p \in Seq(Range(p)), q \in Seq(Range(q))
    PROVE  /\ p \o q \in Seq(Range(p \o q)) /\ Range(p \o q) \subseteq Range(p) \cup Range(q)
           /\ Len(p \o q) = Len(p) + Len(q)
<1> DEFINE S == Range(p) \cup Range(q)
           r == p \o q
<1>1. p \in Seq(S) /\ q \in Seq(S)  BY SeqMonotonic
<1>2. r \in Seq(S) /\ Len(r) = Len(p) + Len(q)  BY <1>1, ConcatProperties
<1>3. r \in Seq(Range(r)) /\ DOMAIN r = 1..Len(r)  BY <1>2, QueueOfItsOwn
<1>4. Range(r) \subseteq S
  <2> HIDE DEF r, S
  <2>1. \A k \in 1..Len(r) : r[k] \in S  BY <1>2, ElementOfSeq
  <2> QED  BY <1>3, <2>1 DEF Range
<1> QED  BY <1>2, <1>3, <1>4

-----------------------------------------------------------------------------
(* All of them.                                                            *)

\* What is in flight, by the handler and by the place in its queue.
LEMMA SentIs ==
    ASSUME NEW cs, NEW x
    PROVE  x \in Sent(cs) <=> \E h \in DOMAIN cs : \E c \in Range(cs[h]) : x = <<h, c>>
BY DEF Sent, Range

\* A call in flight, by its index.
LEMMA AtIsSent ==
    ASSUME NEW i \in InFlight
    PROVE  /\ i[1] \in DOMAIN calls /\ i[2] \in DOMAIN calls[i[1]] /\ i = <<i[1], i[2]>>
           /\ At(i) \in Range(calls[i[1]]) /\ <<i[1], At(i)>> \in Sent(calls)
<1>1. PICK h \in DOMAIN calls : i \in {h} \X DOMAIN calls[h]  BY DEF InFlight
<1>2. i[1] = h /\ i[2] \in DOMAIN calls[h] /\ i = <<i[1], i[2]>>  BY <1>1
<1> QED  BY <1>1, <1>2 DEF At, Sent, Range

\* ds is cs, but for what h awaits, which is q.
PutIs(ds, cs, h, q) ==
    /\ Queues(ds)
    /\ DOMAIN ds = (DOMAIN cs \ {h}) \cup (IF q = <<>> THEN {} ELSE {h})
    /\ \A k \in DOMAIN cs \ {h} : ds[k] = cs[k]
    /\ q # <<>> => ds[h] = q
    /\ \A x : x \in Sent(ds) <=> \/ x \in Sent(cs) /\ x[1] # h
                              \/ \E c \in Range(q) : x = <<h, c>>

\* Put does just that.
LEMMA PutKeeps ==
    ASSUME NEW cs, NEW h, NEW q, Queues(cs), q \in Seq(Range(q))
    PROVE  PutIs(Put(cs, h, q), cs, h, q)
<1> DEFINE ds == Put(cs, h, q)
<1>1. /\ DOMAIN ds = (DOMAIN cs \ {h}) \cup (IF q = <<>> THEN {} ELSE {h})
      /\ \A k \in DOMAIN ds : ds[k] = IF k = h THEN q ELSE cs[k]
  BY DEF Put
<1>2. Range(<<>>) = {}
  BY EmptySeq DEF Range
<1> HIDE DEF ds
<1>3. \A k \in DOMAIN ds : Queued(ds[k])  BY <1>1 DEF Queues, Queued
<1>4. ASSUME NEW x
      PROVE  x \in Sent(ds) <=> x \in {y \in Sent(cs) : y[1] # h} \cup {<<h, c>> : c \in Range(q)}
  <2>1. x \in Sent(ds) <=> \E k \in DOMAIN ds : \E c \in Range(ds[k]) : x = <<k, c>>
    BY SentIs
  <2>2. x \in Sent(cs) <=> \E k \in DOMAIN cs : \E c \in Range(cs[k]) : x = <<k, c>>
    BY SentIs
  <2>3. ASSUME NEW k \in DOMAIN ds, NEW c \in Range(ds[k]), x = <<k, c>>
        PROVE  x \in {y \in Sent(cs) : y[1] # h} \cup {<<h, d>> : d \in Range(q)}
    <3>1. CASE k = h  BY <1>1, <2>3, <3>1
    <3>2. CASE k # h  BY <1>1, <2>2, <2>3, <3>2
    <3> QED  BY <3>1, <3>2
  <2>4. ASSUME x \in Sent(cs), x[1] # h  PROVE x \in Sent(ds)
    BY <1>1, <2>1, <2>2, <2>4
  <2>5. ASSUME NEW c \in Range(q), x = <<h, c>>  PROVE x \in Sent(ds)
    <3>1. q # <<>>  BY <1>2, <2>5
    <3> QED  BY <1>1, <2>1, <2>5, <3>1
  <2> QED  BY <2>1, <2>3, <2>4, <2>5
<1>5. PutIs(ds, cs, h, q)  BY <1>1, <1>3, <1>4 DEF Queues, PutIs
<1> QED  BY <1>5 DEF ds

\* What h awaits, none if it awaits nothing.
LEMMA QueueOf ==
    ASSUME NEW cs, NEW h, Queues(cs)
    PROVE  /\ Queue(cs, h) \in Seq(Range(Queue(cs, h))) /\ Len(Queue(cs, h)) \in Nat
           /\ Queue(cs, h) = <<>> <=> h \notin DOMAIN cs
           /\ {<<h, c>> : c \in Range(Queue(cs, h))} = {x \in Sent(cs) : x[1] = h}
<1>1. CASE h \in DOMAIN cs
  <2>1. Queue(cs, h) = cs[h] /\ Queued(cs[h])  BY <1>1 DEF Queue, Queues
  <2>2. Len(cs[h]) \in Nat  BY <2>1, LenProperties DEF Queued
  <2> QED  BY <1>1, <2>1, <2>2 DEF Queued, Sent, Range
<1>2. CASE h \notin DOMAIN cs
  <2>1. Queue(cs, h) = <<>>  BY <1>2 DEF Queue
  <2>2. Range(<<>>) = {} /\ <<>> \in Seq({}) /\ Len(<<>>) = 0  BY EmptySeq DEF Range
  <2>3. {x \in Sent(cs) : x[1] = h} = {}  BY <1>2 DEF Sent
  <2> QED  BY <1>2, <2>1, <2>2, <2>3
<1> QED  BY <1>1, <1>2

\* ds is cs with one more call of h.
AddIs(ds, cs, h, c) ==
    /\ Queues(ds) /\ DOMAIN ds = DOMAIN cs \cup {h}
    /\ Sent(ds) = Sent(cs) \cup {<<h, c>>}
    /\ Len(Queue(ds, h)) = Len(Queue(cs, h)) + 1
    /\ \A k \in DOMAIN cs \ {h} : ds[k] = cs[k]
    /\ \A k : k # h => Queue(ds, k) = Queue(cs, k)

\* Add: one more call in flight.
LEMMA AddKeeps ==
    ASSUME NEW cs, NEW h, NEW c, Queues(cs)
    PROVE  AddIs(Add(cs, h, c), cs, h, c)
<1> DEFINE q == Queue(cs, h)
           r == Append(q, c)
           ds == Add(cs, h, c)
<1>1. /\ q \in Seq(Range(q)) /\ Len(q) \in Nat
      /\ {<<h, d>> : d \in Range(q)} = {x \in Sent(cs) : x[1] = h}
  BY QueueOf
<1>2. Queued(r) /\ Range(r) = Range(q) \cup {c}  BY <1>1, OneMore
<1>3. Len(r) = Len(q) + 1  BY <1>1, AppendProperties
<1>4. ds = Put(cs, h, r)  BY DEF Add
<1> HIDE DEF q, r, ds
<1>5. /\ Queues(ds) /\ DOMAIN ds = (DOMAIN cs \ {h}) \cup {h} /\ ds[h] = r
      /\ \A k \in DOMAIN cs \ {h} : ds[k] = cs[k]
      /\ \A x : x \in Sent(ds) <=> \/ x \in Sent(cs) /\ x[1] # h
                                \/ \E d \in Range(r) : x = <<h, d>>
  <2>1. PutIs(Put(cs, h, r), cs, h, r)  BY <1>2, PutKeeps DEF Queued
  <2> QED  BY <1>2, <1>4, <2>1 DEF PutIs, Queued
<1>6. Queue(ds, h) = r /\ \A k : k # h => Queue(ds, k) = Queue(cs, k)
  BY <1>5 DEF Queue
<1>7. Sent(ds) = Sent(cs) \cup {<<h, c>>}
  BY <1>1, <1>2, <1>5
<1>8. AddIs(ds, cs, h, c)  BY <1>3, <1>5, <1>6, <1>7 DEF q, AddIs
<1> QED  BY <1>8 DEF ds

\* ds is cs with one call of h less.
WithoutIs(ds, cs, h) ==
    /\ Queues(ds) /\ DOMAIN ds \subseteq DOMAIN cs
    /\ Sent(ds) \subseteq Sent(cs)
    /\ Len(Queue(ds, h)) = Len(Queue(cs, h)) - 1
    /\ \A k \in DOMAIN cs \ {h} : k \in DOMAIN ds /\ ds[k] = cs[k]
    /\ \A k : k # h => Queue(ds, k) = Queue(cs, k)

\* Without: the promise of a call is settled, and its handler goes on.
LEMMA WithoutKeeps ==
    ASSUME Queues(calls), NEW i \in InFlight
    PROVE  WithoutIs(Without(i), calls, i[1])
<1> DEFINE h == i[1]
           q == calls[h]
           r == RemoveAt(q, i[2])
           ds == Without(i)
<1>1. h \in DOMAIN calls /\ i[2] \in DOMAIN q  BY AtIsSent
<1>2. q \in Seq(Range(q))  BY <1>1 DEF Queues, Queued
<1>3. /\ r \in Seq(Range(r)) /\ Range(r) \subseteq Range(q)
      /\ Len(r) = Len(q) - 1 /\ Len(q) \in Nat
  BY <1>1, <1>2, OneLess
<1>4. ds = Put(calls, h, r)  BY DEF Without
<1> HIDE DEF q, r, ds
<1>5. /\ Queues(ds) /\ DOMAIN ds = (DOMAIN calls \ {h}) \cup (IF r = <<>> THEN {} ELSE {h})
      /\ \A k \in DOMAIN calls \ {h} : ds[k] = calls[k]
      /\ r # <<>> => ds[h] = r
      /\ \A x : x \in Sent(ds) <=> \/ x \in Sent(calls) /\ x[1] # h
                                \/ \E c \in Range(r) : x = <<h, c>>
  <2>1. PutIs(Put(calls, h, r), calls, h, r)  BY <1>3, PutKeeps
  <2> QED  BY <1>4, <2>1 DEF PutIs
<1>6. Queue(ds, h) = r /\ \A k : k # h => Queue(ds, k) = Queue(calls, k)
  BY <1>5 DEF Queue
<1>7. Queue(calls, h) = q  BY <1>1 DEF Queue, q
<1>8. \A c \in Range(q) : <<h, c>> \in Sent(calls)  BY <1>1 DEF q, Sent, Range
<1>9. Sent(ds) \subseteq Sent(calls)  BY <1>3, <1>5, <1>8
<1>10. WithoutIs(ds, calls, i[1])  BY <1>1, <1>3, <1>5, <1>6, <1>7, <1>9 DEF WithoutIs
<1> QED  BY <1>10 DEF ds

\* The others stay in flight.
LEMMA OthersStay ==
    ASSUME Queues(calls), NEW i \in InFlight, NEW x \in Sent(calls), x # <<i[1], At(i)>>
    PROVE  x \in Sent(Without(i))
<1> DEFINE h == i[1]
           q == calls[h]
           r == RemoveAt(q, i[2])
           ds == Without(i)
<1>1. h \in DOMAIN calls /\ i[2] \in DOMAIN q  BY AtIsSent
<1>2. q \in Seq(Range(q))  BY <1>1 DEF Queues, Queued
<1>3. r \in Seq(Range(r)) /\ \A k \in DOMAIN q : k = i[2] \/ q[k] \in Range(r)
  BY <1>1, <1>2, OneLess
<1>4. ds = Put(calls, h, r)  BY DEF Without
<1> HIDE DEF r, ds
<1>5. \A y : y \in Sent(ds) <=> \/ y \in Sent(calls) /\ y[1] # h
                              \/ \E c \in Range(r) : y = <<h, c>>
  <2>1. PutIs(Put(calls, h, r), calls, h, r)  BY <1>3, PutKeeps
  <2> QED  BY <1>4, <2>1 DEF PutIs
<1>6. PICK g \in DOMAIN calls : x \in {<<g, calls[g][k]>> : k \in DOMAIN calls[g]}  BY DEF Sent
<1>7. PICK k \in DOMAIN calls[g] : x = <<g, calls[g][k]>>  BY <1>6
<1>8. CASE g = h
  <2>1. k # i[2]  BY <1>7, <1>8 DEF At
  <2>2. calls[g][k] \in Range(r)  BY <1>3, <1>8, <2>1
  <2> QED  BY <1>5, <1>7, <1>8, <2>2 DEF ds
<1>9. CASE g # h  BY <1>5, <1>7, <1>9 DEF ds
<1> QED  BY <1>8, <1>9

\* ds is cs, where one call of h has become c.
UpdateIs(ds, cs, h, c) ==
    /\ Queues(ds) /\ DOMAIN ds = DOMAIN cs
    /\ Sent(ds) \subseteq Sent(cs) \cup {<<h, c>>}
    /\ \A k : Len(Queue(ds, k)) = Len(Queue(cs, k))
    /\ \A k \in DOMAIN cs \ {h} : ds[k] = cs[k]

\* Update: a call is answered where it is.
LEMMA UpdateKeeps ==
    ASSUME Queues(calls), NEW i \in InFlight, NEW c, Update(i, c)
    PROVE  UpdateIs(calls', calls, i[1], c)
<1> DEFINE h == i[1]
           q == calls[h]
           r == [q EXCEPT ![i[2]] = c]
<1>1. h \in DOMAIN calls /\ i[2] \in DOMAIN q  BY AtIsSent
<1>2. Queued(q)  BY <1>1 DEF Queues
<1>3. Queued(r) /\ Len(r) = Len(q) /\ Range(r) \subseteq Range(q) \cup {c}
  BY <1>1, <1>2, OneReplaced DEF Queued
<1>4. /\ DOMAIN calls' = DOMAIN calls /\ calls'[h] = r
      /\ \A k \in DOMAIN calls \ {h} : calls'[k] = calls[k]
  BY <1>1 DEF Update
<1> HIDE DEF q, r
<1>5. Queues(calls')  BY <1>3, <1>4 DEF Queues
<1>6. ASSUME NEW k  PROVE Len(Queue(calls', k)) = Len(Queue(calls, k))
  BY <1>1, <1>3, <1>4 DEF Queue, q
<1>7. ASSUME NEW x \in Sent(calls')  PROVE x \in Sent(calls) \cup {<<h, c>>}
  <2>1. PICK k \in DOMAIN calls' : \E d \in Range(calls'[k]) : x = <<k, d>>  BY SentIs
  <2> PICK d \in Range(calls'[k]) : x = <<k, d>>  BY <2>1
  <2>2. CASE k # h  BY <1>4, <2>1, <2>2, SentIs
  <2>3. CASE k = h
    <3>1. d \in Range(q) \/ d = c  BY <1>3, <1>4, <2>1, <2>3
    <3>2. d \in Range(q) => x \in Sent(calls)  BY <1>1, <2>1, <2>3, SentIs DEF q
    <3> QED  BY <2>1, <2>3, <3>1, <3>2
  <2> QED  BY <2>2, <2>3
<1> QED  BY <1>4, <1>5, <1>6, <1>7 DEF UpdateIs

\* The answer is in flight, and the others stay.
LEMMA AnswerStays ==
    ASSUME Queues(calls), NEW i \in InFlight, NEW c, Update(i, c)
    PROVE  /\ <<i[1], c>> \in Sent(calls')
           /\ \A x \in Sent(calls) : x = <<i[1], At(i)>> \/ x \in Sent(calls')
<1> DEFINE h == i[1]
           q == calls[h]
           r == [q EXCEPT ![i[2]] = c]
<1>1. h \in DOMAIN calls /\ i[2] \in DOMAIN q  BY AtIsSent
<1>2. Queued(q)  BY <1>1 DEF Queues
<1>3. c \in Range(r) /\ \A k \in DOMAIN q : k = i[2] \/ q[k] \in Range(r)
  BY <1>1, <1>2, OneReplaced DEF Queued
<1>4. /\ DOMAIN calls' = DOMAIN calls /\ calls'[h] = r
      /\ \A k \in DOMAIN calls \ {h} : calls'[k] = calls[k]
  BY <1>1 DEF Update
<1> HIDE DEF r
<1>5. \A d \in Range(r) : <<h, d>> \in Sent(calls')  BY <1>1, <1>4 DEF Sent, Range
<1>6. ASSUME NEW x \in Sent(calls), x # <<i[1], At(i)>>  PROVE x \in Sent(calls')
  <2>1. PICK g \in DOMAIN calls : x \in {<<g, calls[g][k]>> : k \in DOMAIN calls[g]}
    BY DEF Sent
  <2>2. PICK k \in DOMAIN calls[g] : x = <<g, calls[g][k]>>  BY <2>1
  <2>3. CASE g = h
    <3>1. k # i[2]  BY <1>6, <2>2, <2>3 DEF At
    <3>2. calls[g][k] \in Range(r)  BY <1>3, <2>3, <3>1
    <3> QED  BY <1>5, <2>2, <2>3, <3>2
  <2>4. CASE g # h
    <3>1. g \in DOMAIN calls' /\ calls'[g] = calls[g]  BY <1>4, <2>4
    <3> QED  BY <2>2, <3>1 DEF Sent
  <2> QED  BY <2>3, <2>4
<1> QED  BY <1>3, <1>5, <1>6

\* ds is cs without what some handlers await.
ForgetIs(ds, cs, hs) ==
    /\ Queues(ds) /\ DOMAIN ds = DOMAIN cs \ hs
    /\ Sent(ds) = {x \in Sent(cs) : x[1] \notin hs}
    /\ \A k \in DOMAIN ds : ds[k] = cs[k]
    /\ \A k : k \notin hs => Queue(ds, k) = Queue(cs, k)

\* Forget: what some handlers awaited is not awaited any more.
LEMMA ForgetKeeps ==
    ASSUME NEW cs, NEW hs, Queues(cs)
    PROVE  ForgetIs(Forget(cs, hs), cs, hs)
<1> DEFINE ds == Forget(cs, hs)
<1>1. DOMAIN ds = DOMAIN cs \ hs /\ \A k \in DOMAIN ds : ds[k] = cs[k]  BY DEF Forget
<1> HIDE DEF ds
<1>2. Queues(ds)  BY <1>1 DEF Queues
<1>3. \A k : k \notin hs => Queue(ds, k) = Queue(cs, k)  BY <1>1 DEF Queue
<1>4. Sent(ds) = {x \in Sent(cs) : x[1] \notin hs}
  <2>1. ASSUME NEW x \in Sent(ds)  PROVE x \in Sent(cs) /\ x[1] \notin hs
    <3>1. PICK k \in DOMAIN ds : \E c \in Range(ds[k]) : x = <<k, c>>  BY SentIs
    <3> QED  BY <1>1, <3>1, SentIs
  <2>2. ASSUME NEW x \in Sent(cs), x[1] \notin hs  PROVE x \in Sent(ds)
    <3>1. PICK k \in DOMAIN cs : \E c \in Range(cs[k]) : x = <<k, c>>  BY SentIs
    <3> QED  BY <1>1, <2>2, <3>1, SentIs
  <2> QED  BY <2>1, <2>2
<1>5. ForgetIs(ds, cs, hs)  BY <1>1, <1>2, <1>3, <1>4 DEF ForgetIs
<1> QED  BY <1>5 DEF ds

\* ds is cs, where what h awaited is awaited by another.
RenameIs(ds, cs, h, as) ==
    /\ Queues(ds) /\ h \notin DOMAIN ds
    /\ DOMAIN ds \subseteq DOMAIN cs \cup {as}
    /\ as \in DOMAIN ds => as \in DOMAIN cs \/ h \in DOMAIN cs
    /\ \A k \in DOMAIN cs \ {h, as} : k \in DOMAIN ds /\ ds[k] = cs[k]
    /\ \A x \in Sent(ds) : x \in Sent(cs) \/ (x[1] = as /\ <<h, x[2]>> \in Sent(cs))
    /\ \A k : k \notin {h, as} => Queue(ds, k) = Queue(cs, k)

\* Rename: what one handler awaited, another awaits.
LEMMA RenameKeeps ==
    ASSUME NEW cs, NEW h, NEW as, h # as, Queues(cs)
    PROVE  RenameIs(Rename(cs, h, as), cs, h, as)
<1> DEFINE p == Queue(cs, as)
           q == Queue(cs, h)
           r == p \o q
           es == Put(cs, h, <<>>)
           ds == Rename(cs, h, as)
<1>1. /\ p \in Seq(Range(p)) /\ Len(p) \in Nat /\ (p = <<>> <=> as \notin DOMAIN cs)
      /\ {<<as, c>> : c \in Range(p)} = {x \in Sent(cs) : x[1] = as}
  BY QueueOf
<1>2. /\ q \in Seq(Range(q)) /\ Len(q) \in Nat /\ (q = <<>> <=> h \notin DOMAIN cs)
      /\ {<<h, c>> : c \in Range(q)} = {x \in Sent(cs) : x[1] = h}
  BY QueueOf
<1>3. r \in Seq(Range(r)) /\ Range(r) \subseteq Range(p) \cup Range(q)  BY <1>1, <1>2, TwoQueues
<1>4. p = <<>> /\ q = <<>> => r = <<>>  BY ConcatEmptySeq, EmptySeq
<1>5. ds = Put(es, as, r)  BY DEF Rename
<1>6. <<>> \in Seq(Range(<<>>)) /\ Range(<<>>) = {}  BY EmptySeq DEF Range
<1> HIDE DEF p, q, r, ds
<1>7. /\ Queues(es) /\ DOMAIN es = DOMAIN cs \ {h} /\ \A k \in DOMAIN cs \ {h} : es[k] = cs[k]
      /\ \A x : x \in Sent(es) <=> x \in Sent(cs) /\ x[1] # h
  <2>1. PutIs(es, cs, h, <<>>)  BY <1>6, PutKeeps
  <2> HIDE DEF es
  <2> QED  BY <1>6, <2>1 DEF PutIs
<1> HIDE DEF es
<1>8. /\ Queues(ds) /\ DOMAIN ds = (DOMAIN es \ {as}) \cup (IF r = <<>> THEN {} ELSE {as})
      /\ \A k \in DOMAIN es \ {as} : ds[k] = es[k]
      /\ \A x : x \in Sent(ds) <=> \/ x \in Sent(es) /\ x[1] # as
                                \/ \E c \in Range(r) : x = <<as, c>>
  <2>1. PutIs(Put(es, as, r), es, as, r)  BY <1>3, <1>7, PutKeeps
  <2> QED  BY <1>5, <2>1 DEF PutIs
<1>9. ASSUME NEW x \in Sent(ds)
      PROVE  x \in Sent(cs) \/ (x[1] = as /\ <<h, x[2]>> \in Sent(cs))
  <2>1. CASE x \in Sent(es)  BY <1>7, <2>1
  <2>2. ASSUME NEW c \in Range(r), x = <<as, c>>
        PROVE  x \in Sent(cs) \/ (x[1] = as /\ <<h, x[2]>> \in Sent(cs))
    <3>1. CASE c \in Range(p)  BY <1>1, <2>2, <3>1
    <3>2. CASE c \in Range(q)
      <4>1. <<h, c>> \in Sent(cs)  BY <1>2, <3>2
      <4> QED  BY <2>2, <4>1
    <3> QED  BY <1>3, <3>1, <3>2
  <2> QED  BY <1>8, <2>1, <2>2
<1>10. \A k : k \notin {h, as} => Queue(ds, k) = Queue(cs, k)
  BY <1>7, <1>8 DEF Queue
<1>11. as \in DOMAIN ds => as \in DOMAIN cs \/ h \in DOMAIN cs
  BY <1>1, <1>2, <1>4, <1>7, <1>8
<1>12. RenameIs(ds, cs, h, as)  BY <1>7, <1>8, <1>9, <1>10, <1>11 DEF RenameIs
<1> QED  BY <1>12 DEF ds

-----------------------------------------------------------------------------
(* What a step does beside its own handlers.                               *)

Tokens == {None} \cup 0..MaxTokens

\* Every call is a record of the five fields that Call gives it, of an operation
\* that api.ts has, sent with a token or none.
Shaped(c) ==
    /\ c = [op |-> c.op, arg |-> c.arg, tok |-> c.tok, st |-> c.st, val |-> c.val]
    /\ c.op \in Operations /\ c.tok \in Tokens /\ c.st \in {"sent", "ok", "err"}

Calls(cs) == Queues(cs) /\ \A x \in Sent(cs) : Shaped(x[2])

\* A call that was in flight before, and has not been answered since but for
\* an operation of ops.
AsBefore(x, y, ops) ==
    /\ x[1] = y[1] /\ x[2].op = y[2].op /\ x[2].arg = y[2].arg
    /\ x[2].st = "ok" /\ x[2].op \notin ops => y[2].st = "ok" /\ x[2].val = y[2].val

\* One call, whether it is answered or not.
SameCall(x, y) == x[1] = y[1] /\ x[2].op = y[2].op /\ x[2].arg = y[2].arg

\* The handlers other than hs await in ds what they awaited in cs, and of the
\* answers only those to operations of ops are new.
Beside(ds, cs, hs, ops) ==
    /\ Calls(ds)
    /\ \A k : k \notin hs => /\ k \in DOMAIN ds <=> k \in DOMAIN cs
                             /\ Len(Queue(ds, k)) = Len(Queue(cs, k))
    /\ \A x \in Sent(ds) : x[1] \in hs \/ \E y \in Sent(cs) : AsBefore(x, y, ops)
    /\ \A y \in Sent(cs) : y[1] \in hs \/ \E x \in Sent(ds) : SameCall(x, y)

\* A call as it is made.
LEMMA CallIsShaped ==
    ASSUME NEW op, NEW arg
    PROVE  /\ op \in Operations /\ token \in Tokens => Shaped(Call(op, arg))
           /\ Call(op, arg).op = op /\ Call(op, arg).arg = arg /\ Call(op, arg).tok = token
           /\ Call(op, arg).st = "sent" /\ Call(op, arg).val = None
BY DEF Call, Shaped

\* A call as it is answered: the token it was sent with is of no more use.
LEMMA AnswerIsShaped ==
    ASSUME NEW c, Shaped(c), NEW st, NEW val
    PROVE  LET d == Answered(c, st, val) IN
             /\ st \in {"ok", "err"} => Shaped(d)
             /\ d.op = c.op /\ d.arg = c.arg /\ d.st = st /\ d.val = val /\ d.tok = None
<1> DEFINE d == Answered(c, st, val)
           e == [op |-> c.op, arg |-> c.arg, tok |-> None, st |-> st, val |-> val]
<1>1. d = e
  <2>1. c = [op |-> c.op, arg |-> c.arg, tok |-> c.tok, st |-> c.st, val |-> c.val]
    BY DEF Shaped
  <2>2. DOMAIN c = {"op", "arg", "tok", "st", "val"}  BY <2>1
  <2>3. d = [f \in {"op", "arg", "tok", "st", "val"} |->
               IF f = "tok" THEN None ELSE IF f = "val" THEN val ELSE IF f = "st" THEN st ELSE c[f]]
    BY <2>2 DEF Answered
  <2> QED  BY <2>3
<1>2. e = [op |-> e.op, arg |-> e.arg, tok |-> e.tok, st |-> e.st, val |-> e.val]  OBVIOUS
<1>3. e.op \in Operations /\ e.tok \in Tokens  BY DEF Shaped, Tokens
<1> QED  BY <1>1, <1>2, <1>3 DEF Shaped

\* Nothing at all may happen.
LEMMA BesideItself ==
    ASSUME NEW cs, NEW hs, NEW ops, Calls(cs)
    PROVE  Beside(cs, cs, hs, ops)
<1>1. \A x \in Sent(cs) : AsBefore(x, x, ops) /\ SameCall(x, x)  BY DEF AsBefore, SameCall
<1> QED  BY <1>1 DEF Beside

\* One thing after another.
LEMMA BesideTwice ==
    ASSUME NEW cs, NEW ds, NEW es, NEW hs, NEW ops,
           Beside(ds, cs, hs, ops), Beside(es, ds, hs, ops)
    PROVE  Beside(es, cs, hs, ops)
<1>1. ASSUME NEW x \in Sent(es)
      PROVE  x[1] \in hs \/ \E y \in Sent(cs) : AsBefore(x, y, ops)
  <2>1. CASE x[1] \in hs  BY <2>1
  <2>2. CASE x[1] \notin hs
    <3>1. PICK y \in Sent(ds) : AsBefore(x, y, ops)  BY <2>2 DEF Beside
    <3>2. y[1] \notin hs  BY <2>2, <3>1 DEF AsBefore
    <3>3. PICK z \in Sent(cs) : AsBefore(y, z, ops)  BY <3>2 DEF Beside
    <3>4. AsBefore(x, z, ops)  BY <3>1, <3>3 DEF AsBefore
    <3> QED  BY <3>4
  <2> QED  BY <2>1, <2>2
<1>2. ASSUME NEW z \in Sent(cs), z[1] \notin hs
      PROVE  \E x \in Sent(es) : SameCall(x, z)
  <2>1. PICK y \in Sent(ds) : SameCall(y, z)  BY <1>2 DEF Beside
  <2>2. y[1] \notin hs  BY <1>2, <2>1 DEF SameCall
  <2>3. PICK x \in Sent(es) : SameCall(x, y)  BY <2>2 DEF Beside
  <2>4. SameCall(x, z)  BY <2>1, <2>3 DEF SameCall
  <2> QED  BY <2>4
<1> QED  BY <1>1, <1>2 DEF Beside

\* What is little beside some handlers is little beside more of them.
LEMMA BesideMore ==
    ASSUME NEW cs, NEW ds, NEW hs, NEW ops, NEW more, NEW others,
           hs \subseteq more, ops \subseteq others, Beside(ds, cs, hs, ops)
    PROVE  Beside(ds, cs, more, others)
<1>1. \A x, y : AsBefore(x, y, ops) => AsBefore(x, y, others)  BY DEF AsBefore
<1> QED  BY <1>1 DEF Beside

\* A handler asks.
LEMMA BesideAdd ==
    ASSUME NEW cs, NEW hs, NEW ops, NEW h \in hs, NEW c, Calls(cs), Shaped(c)
    PROVE  Beside(Add(cs, h, c), cs, hs, ops)
<1> DEFINE ds == Add(cs, h, c)
<1>1. AddIs(ds, cs, h, c)  BY AddKeeps DEF Calls
<1> HIDE DEF ds
<1>2. Calls(ds)
  <2>1. \A x \in Sent(ds) : x \in Sent(cs) \/ x = <<h, c>>  BY <1>1 DEF AddIs
  <2> QED  BY <1>1, <2>1 DEF AddIs, Calls
<1>3. \A x \in Sent(cs) : AsBefore(x, x, ops) /\ SameCall(x, x)  BY DEF AsBefore, SameCall
<1>4. Beside(ds, cs, hs, ops)
  BY <1>1, <1>2, <1>3 DEF AddIs, Beside
<1> QED  BY <1>4 DEF ds

\* A handler goes on.
LEMMA BesideWithout ==
    ASSUME NEW hs, NEW ops, NEW i \in InFlight, i[1] \in hs, Calls(calls)
    PROVE  Beside(Without(i), calls, hs, ops)
<1> DEFINE ds == Without(i)
<1>1. WithoutIs(ds, calls, i[1])  BY WithoutKeeps DEF Calls
<1> HIDE DEF ds
<1>2. Calls(ds)  BY <1>1 DEF WithoutIs, Calls
<1>3. \A x \in Sent(calls) : AsBefore(x, x, ops) /\ SameCall(x, x)
  BY DEF AsBefore, SameCall
<1>4. \A x \in Sent(calls) : x[1] \in hs \/ x \in Sent(ds)  BY OthersStay DEF Calls, ds
<1>5. Beside(ds, calls, hs, ops)
  BY <1>1, <1>2, <1>3, <1>4 DEF WithoutIs, Beside
<1> QED  BY <1>5 DEF ds

\* What a handler awaits is forgotten.
LEMMA BesideForget ==
    ASSUME NEW cs, NEW hs, NEW ops, NEW gone, gone \subseteq hs, Calls(cs)
    PROVE  Beside(Forget(cs, gone), cs, hs, ops)
<1> DEFINE ds == Forget(cs, gone)
<1>1. ForgetIs(ds, cs, gone)  BY ForgetKeeps DEF Calls
<1> HIDE DEF ds
<1>2. Calls(ds)  BY <1>1 DEF ForgetIs, Calls
<1>3. \A x \in Sent(cs) : AsBefore(x, x, ops) /\ SameCall(x, x)  BY DEF AsBefore, SameCall
<1>4. Beside(ds, cs, hs, ops)
  BY <1>1, <1>2, <1>3 DEF ForgetIs, Beside
<1> QED  BY <1>4 DEF ds

\* What a handler awaits is awaited by another.
LEMMA BesideRename ==
    ASSUME NEW cs, NEW hs, NEW ops, NEW h \in hs, NEW as \in hs, h # as, Calls(cs)
    PROVE  Beside(Rename(cs, h, as), cs, hs, ops)
<1> DEFINE ds == Rename(cs, h, as)
<1>1. RenameIs(ds, cs, h, as)  BY RenameKeeps DEF Calls
<1> HIDE DEF ds
<1>2. Calls(ds)
  <2>1. ASSUME NEW x \in Sent(ds)  PROVE Shaped(x[2])
    <3>1. x \in Sent(cs) \/ <<h, x[2]>> \in Sent(cs)  BY <1>1 DEF RenameIs
    <3> QED  BY <3>1 DEF Calls
  <2> QED  BY <1>1, <2>1 DEF RenameIs, Calls
<1>3. \A x \in Sent(cs) : AsBefore(x, x, ops) /\ SameCall(x, x)  BY DEF AsBefore, SameCall
<1>4. \A k : k \notin hs => k \notin {h, as}  OBVIOUS
<1>5. \A k : k \notin hs => /\ k \in DOMAIN ds <=> k \in DOMAIN cs
                            /\ Len(Queue(ds, k)) = Len(Queue(cs, k))
  BY <1>1, <1>4 DEF RenameIs
<1>6. \A x \in Sent(ds) : x[1] \in hs \/ x \in Sent(cs)
  BY <1>1 DEF RenameIs
<1>7. ASSUME NEW x \in Sent(cs), x[1] \notin hs  PROVE x \in Sent(ds)
  <2>1. PICK k \in DOMAIN cs : \E c \in Range(cs[k]) : x = <<k, c>>  BY SentIs
  <2>2. PICK c \in Range(cs[k]) : x = <<k, c>>  BY <2>1
  <2>3. k \notin {h, as}
    <3>1. x[1] = k  BY <2>2
    <3> QED  BY <1>4, <1>7, <3>1
  <2>4. k \in DOMAIN ds /\ ds[k] = cs[k]  BY <1>1, <2>3 DEF RenameIs
  <2>5. c \in Range(ds[k]) /\ x = <<k, c>>  BY <2>4, <2>2
  <2> QED  BY <2>4, <2>5, SentIs
<1>8. Beside(ds, cs, hs, ops)
  BY <1>2, <1>3, <1>5, <1>6, <1>7 DEF Beside
<1> QED  BY <1>8 DEF ds

\* The daemon answers.
LEMMA BesideAnswer ==
    ASSUME NEW hs, NEW ops, NEW i \in InFlight, NEW st \in {"ok", "err"}, NEW val, Calls(calls),
           Update(i, Answered(At(i), st, val)),
           st # "ok" \/ At(i).op \in ops \/ i[1] \in hs
    PROVE  Beside(calls', calls, hs, ops)
<1> DEFINE c == Answered(At(i), st, val)
<1>1. UpdateIs(calls', calls, i[1], c)  BY UpdateKeeps DEF Calls
<1>2. <<i[1], At(i)>> \in Sent(calls)  BY AtIsSent
<1>3. /\ Shaped(c) /\ c.op = At(i).op /\ c.arg = At(i).arg /\ c.st = st /\ c.val = val
  <2>1. Shaped(At(i))  BY <1>2 DEF Calls
  <2> QED  BY <2>1, AnswerIsShaped
<1> HIDE DEF c
<1>4. \A x \in Sent(calls') : x \in Sent(calls) \/ x = <<i[1], c>>  BY <1>1 DEF UpdateIs
<1>5. Calls(calls')  BY <1>1, <1>3, <1>4 DEF UpdateIs, Calls
<1>6. \A x \in Sent(calls) : AsBefore(x, x, ops)  BY DEF AsBefore
<1>7. i[1] \in hs \/ AsBefore(<<i[1], c>>, <<i[1], At(i)>>, ops)  BY <1>3 DEF AsBefore
<1>8. \A x \in Sent(calls') : x[1] \in hs \/ \E y \in Sent(calls) : AsBefore(x, y, ops)
  BY <1>2, <1>4, <1>6, <1>7
<1>9. /\ <<i[1], c>> \in Sent(calls')
      /\ \A x \in Sent(calls) : x = <<i[1], At(i)>> \/ x \in Sent(calls')
  BY AnswerStays DEF Calls, c
<1>10. ASSUME NEW y \in Sent(calls)  PROVE \E x \in Sent(calls') : SameCall(x, y)
  <2>1. CASE y = <<i[1], At(i)>>
    <3>1. SameCall(<<i[1], c>>, y)  BY <1>3, <2>1 DEF SameCall
    <3> QED  BY <1>9, <3>1
  <2>2. CASE y # <<i[1], At(i)>>
    <3>1. y \in Sent(calls') /\ SameCall(y, y)  BY <1>9, <2>2 DEF SameCall
    <3> QED  BY <3>1
  <2> QED  BY <2>1, <2>2
<1> QED  BY <1>1, <1>5, <1>8, <1>10 DEF UpdateIs, Beside

\* After something else, a handler asks.
LEMMA ThenAdd ==
    ASSUME NEW cs, NEW ds, NEW hs, NEW ops, NEW h, NEW c,
           Beside(ds, cs, hs, ops), h \in hs, Shaped(c)
    PROVE  Beside(Add(ds, h, c), cs, hs, ops)
<1>1. Beside(Add(ds, h, c), ds, hs, ops)  BY BesideAdd DEF Beside
<1> QED  BY <1>1, BesideTwice

\* After something else, what a handler awaits is forgotten.
LEMMA ThenForget ==
    ASSUME NEW cs, NEW ds, NEW hs, NEW ops, NEW gone,
           Beside(ds, cs, hs, ops), gone \subseteq hs
    PROVE  Beside(Forget(ds, gone), cs, hs, ops)
<1>1. Beside(Forget(ds, gone), ds, hs, ops)  BY BesideForget DEF Beside
<1> QED  BY <1>1, BesideTwice

\* After something else, what a handler awaits is awaited by another.
LEMMA ThenRename ==
    ASSUME NEW cs, NEW ds, NEW hs, NEW ops, NEW h, NEW as,
           Beside(ds, cs, hs, ops), h \in hs, as \in hs, h # as
    PROVE  Beside(Rename(ds, h, as), cs, hs, ops)
<1>1. Beside(Rename(ds, h, as), ds, hs, ops)  BY BesideRename DEF Beside
<1> QED  BY <1>1, BesideTwice

\* All of it together: what a handler of hs may do to the calls.
LEMMA BesideSteps ==
    ASSUME token \in Tokens, NEW hs, NEW ops, Calls(calls)
    PROVE  /\ Beside(calls, calls, hs, ops)
           /\ \A i \in InFlight : i[1] \in hs => Beside(Without(i), calls, hs, ops)
           /\ \A ds, h, op, arg :
                Beside(ds, calls, hs, ops) /\ h \in hs /\ op \in Operations
                  => Beside(Add(ds, h, Call(op, arg)), calls, hs, ops)
           /\ \A ds, gone :
                Beside(ds, calls, hs, ops) /\ gone \subseteq hs
                  => Beside(Forget(ds, gone), calls, hs, ops)
           /\ \A ds, h, as :
                Beside(ds, calls, hs, ops) /\ h \in hs /\ as \in hs /\ h # as
                  => Beside(Rename(ds, h, as), calls, hs, ops)
<1>1. Beside(calls, calls, hs, ops)  BY BesideItself
<1>2. \A i \in InFlight : i[1] \in hs => Beside(Without(i), calls, hs, ops)  BY BesideWithout
<1>3. ASSUME NEW ds, NEW h, NEW op \in Operations, NEW arg, Beside(ds, calls, hs, ops), h \in hs
      PROVE  Beside(Add(ds, h, Call(op, arg)), calls, hs, ops)
  BY <1>3, ThenAdd, CallIsShaped
<1>4. ASSUME NEW ds, NEW gone, Beside(ds, calls, hs, ops), gone \subseteq hs
      PROVE  Beside(Forget(ds, gone), calls, hs, ops)
  BY <1>4, ThenForget
<1>5. ASSUME NEW ds, NEW h, NEW as, Beside(ds, calls, hs, ops), h \in hs, as \in hs, h # as
      PROVE  Beside(Rename(ds, h, as), calls, hs, ops)
  BY <1>5, ThenRename
<1> QED  BY <1>1, <1>2, <1>3, <1>4, <1>5, Zenon

\* Every call is where it was, and what changed of it is no answer but to ops.
LEMMA BesideEach ==
    ASSUME NEW cs, NEW ds, NEW ops, Calls(cs), DOMAIN ds = DOMAIN cs,
           \A h \in DOMAIN cs : ds[h] = [k \in DOMAIN cs[h] |-> ds[h][k]],
           \A h \in DOMAIN cs : \A k \in DOMAIN cs[h] :
             Shaped(ds[h][k]) /\ AsBefore(<<h, ds[h][k]>>, <<h, cs[h][k]>>, ops)
    PROVE  Beside(ds, cs, {}, ops)
<1>1. ASSUME NEW h \in DOMAIN cs
      PROVE  Queued(ds[h]) /\ Len(ds[h]) = Len(cs[h]) /\ DOMAIN ds[h] = DOMAIN cs[h]
  <2>1. cs[h] \in Seq(Range(cs[h])) /\ cs[h] # <<>>  BY DEF Calls, Queues, Queued
  <2>2. Len(cs[h]) \in Nat /\ DOMAIN cs[h] = 1..Len(cs[h])  BY <2>1, LenProperties
  <2>3. DOMAIN ds[h] = 1..Len(cs[h])  BY <2>2
  <2>4. ds[h] \in [1..Len(cs[h]) -> Range(ds[h])]  BY <2>3 DEF Range
  <2>5. ds[h] \in UNION {[1..n -> Range(ds[h])] : n \in Nat}  BY <2>2, <2>4
  <2>6. ds[h] \in Seq(Range(ds[h]))  BY <2>5, SeqDef
  <2>7. Len(ds[h]) = Len(cs[h])  BY <2>2, <2>3, <2>6, LenProperties
  <2>8. Len(cs[h]) # 0  BY <2>1, EmptySeq
  <2> QED  BY <2>2, <2>3, <2>6, <2>7, <2>8, EmptySeq DEF Queued
<1>2. \A h : Len(Queue(ds, h)) = Len(Queue(cs, h))  BY <1>1 DEF Queue
<1>3. ASSUME NEW x \in Sent(ds)
      PROVE  Shaped(x[2]) /\ \E y \in Sent(cs) : AsBefore(x, y, ops)
  <2>1. PICK h \in DOMAIN ds : x \in {<<h, ds[h][k]>> : k \in DOMAIN ds[h]}  BY DEF Sent
  <2>2. PICK k \in DOMAIN ds[h] : x = <<h, ds[h][k]>>  BY <2>1
  <2>3. k \in DOMAIN cs[h]  BY <1>1
  <2>4. <<h, cs[h][k]>> \in Sent(cs)  BY <2>3 DEF Sent
  <2> QED  BY <2>2, <2>3, <2>4
<1>4. Calls(ds)  BY <1>1, <1>3 DEF Calls, Queues
<1>5. ASSUME NEW y \in Sent(cs)  PROVE \E x \in Sent(ds) : SameCall(x, y)
  <2>1. PICK h \in DOMAIN cs : y \in {<<h, cs[h][k]>> : k \in DOMAIN cs[h]}  BY DEF Sent
  <2>2. PICK k \in DOMAIN cs[h] : y = <<h, cs[h][k]>>  BY <2>1
  <2>3. h \in DOMAIN ds /\ k \in DOMAIN ds[h]  BY <1>1
  <2>4. <<h, ds[h][k]>> \in Sent(ds)  BY <2>3 DEF Sent
  <2>5. SameCall(<<h, ds[h][k]>>, y)  BY <2>2 DEF AsBefore, SameCall
  <2> QED  BY <2>4, <2>5
<1> QED  BY <1>2, <1>3, <1>4, <1>5 DEF Beside

-----------------------------------------------------------------------------
(* What a page does.                                                       *)

\* The operations that the panel asks for, by name.
LEMMA OperationNames ==
    /\ {"me", "login", "logout"} \subseteq Operations
    /\ {"listServers", "getServer", "getTask", "createServer", "deleteServer", "power"}
         \subseteq Operations
    /\ {"consoleHistory", "sendCommand", "consoleTicket"} \subseteq Operations
    /\ {"listFiles", "readFile", "downloadFile", "writeFile", "deleteFile", "makeDirectory",
        "movePath", "unarchive", "uploadFile"} \subseteq Operations
    /\ {"getSettings", "patchSettings", "patchServer", "listCores", "listCoreVersions"}
         \subseteq Operations
    /\ {"listBackups", "getBackupSchedule", "downloadBackup", "createBackup", "deleteBackup",
        "restoreBackup", "putBackupSchedule"} \subseteq Operations
    /\ {"listUsers", "createUser", "patchUser", "deleteUser", "updateMe"} \subseteq Operations
    /\ {"serverContent", "searchCatalog", "catalogProject", "listInstalled", "installAddon"}
         \subseteq Operations
    /\ {"serverConnect", "enableRelay", "disableRelay", "forwardPort", "unforwardPort"}
         \subseteq Operations
    /\ {"serverModpack", "installModpack", "toggleInstalled", "deleteInstalled"}
         \subseteq Operations
    /\ {"listCustomThemes", "createCustomTheme", "updateCustomTheme", "deleteCustomTheme"}
         \subseteq Operations
    /\ {"listBots", "saveBot", "deleteBot", "listIntegrations", "createLinkCode",
        "unlinkIntegration"} \subseteq Operations
<1>1. ASSUME NEW section \in Api
      PROVE  section.reads \cup section.writes \subseteq Operations
  <2>1. section.reads \cup section.writes \in {part.reads \cup part.writes : part \in Api}
    OBVIOUS
  <2>2. \A op : op \in section.reads \cup section.writes => op \in Operations
    BY <2>1, Zenon DEF Operations
  <2> QED  BY <2>2
<1>2. {AuthCalls, ServerCalls, ConsoleCalls, FileCalls, PropertyCalls, BackupCalls, AdminCalls,
       CatalogCalls, ConnectCalls, InstalledCalls, ThemeCalls, BotCalls, LinkCalls, CoreCalls}
         \subseteq Api
  BY DEF Api
<1>3. /\ AuthCalls.reads \cup AuthCalls.writes \subseteq Operations
      /\ ServerCalls.reads \cup ServerCalls.writes \subseteq Operations
      /\ ConsoleCalls.reads \cup ConsoleCalls.writes \subseteq Operations
      /\ FileCalls.reads \cup FileCalls.writes \subseteq Operations
      /\ PropertyCalls.reads \cup PropertyCalls.writes \subseteq Operations
      /\ BackupCalls.reads \cup BackupCalls.writes \subseteq Operations
      /\ AdminCalls.reads \cup AdminCalls.writes \subseteq Operations
  BY <1>1, <1>2
<1>4. /\ CatalogCalls.reads \cup CatalogCalls.writes \subseteq Operations
      /\ ConnectCalls.reads \cup ConnectCalls.writes \subseteq Operations
      /\ InstalledCalls.reads \cup InstalledCalls.writes \subseteq Operations
      /\ ThemeCalls.reads \cup ThemeCalls.writes \subseteq Operations
      /\ BotCalls.reads \cup BotCalls.writes \subseteq Operations
      /\ LinkCalls.reads \cup LinkCalls.writes \subseteq Operations
      /\ CoreCalls.reads \cup CoreCalls.writes \subseteq Operations
  BY <1>1, <1>2
<1> QED
  BY <1>3, <1>4 DEF AuthCalls, ServerCalls, ConsoleCalls, FileCalls, PropertyCalls,
    BackupCalls, AdminCalls, CatalogCalls, ConnectCalls, InstalledCalls, ThemeCalls, BotCalls,
    LinkCalls, CoreCalls

\* The operations that are not a page's own.
Shared == {"me", "login", "logout", "listCustomThemes", "createCustomTheme",
           "updateCustomTheme", "deleteCustomTheme"}

PageOps == {At(i).op : i \in InFlight} \ Shared

\* The handlers of the pages that end with their page.
Inner == {"reload", "change", "save", "effect", "versions", "orphan", "read", "upload",
          "search", "poll"}

\* Calls that only these have made, or gone on from, and answers that only a
\* page's half of the daemon has given.
Inside(ds) == Beside(ds, calls, Inner, PageOps)

Answers(i) == \E st \in {"ok", "err"} : \E val : Update(i, Answered(At(i), st, val))

\* What a page does with its calls, put together from what PanelApi has for it.
LEMMA InsideSteps ==
    ASSUME token \in Tokens, Calls(calls)
    PROVE  /\ Inside(calls)
           /\ \A i \in InFlight : i[1] \in Inner => Inside(Without(i))
           /\ \A ds, h, op, arg :
                Inside(ds) /\ h \in Inner /\ op \in Operations
                  => Inside(Add(ds, h, Call(op, arg)))
           /\ \A ds, gone : Inside(ds) /\ gone \subseteq Inner => Inside(Forget(ds, gone))
           /\ \A ds, h, as :
                Inside(ds) /\ h \in Inner /\ as \in Inner /\ h # as => Inside(Rename(ds, h, as))
BY BesideSteps, Zenon DEF Inside

\* The answers of a page's half of the daemon.
LEMMA AnswersAreInside ==
    ASSUME Calls(calls), NEW i \in InFlight, Answers(i), At(i).op \notin Shared
    PROVE  Inside(calls')
<1>1. At(i).op \in PageOps  BY DEF PageOps
<1> QED  BY <1>1, BesideAnswer DEF Answers, Inside

\* Bots uses PanelApi.
LEMMA BotsApi ==
    /\ \A op, arg : Bots!Call(op, arg) = Call(op, arg)
    /\ \A cs, h, c : Bots!Add(cs, h, c) = Add(cs, h, c)
    /\ \A i : Bots!Without(i) = Without(i)
    /\ \A i : Bots!At(i) = At(i)
    /\ \A i, val : Bots!Answer(i, val) => Answers(i)
    /\ \A i : Bots!Reject(i) => Answers(i)
<1>1. \A op, arg : Bots!Call(op, arg) = Call(op, arg)  BY DEF Bots!Call, Call
<1>2. \A cs, h, c : Bots!Add(cs, h, c) = Add(cs, h, c)
  BY DEF Bots!Add, Add, Bots!Put, Put, Bots!Queue, Queue
<1>3. \A i : Bots!Without(i) = Without(i)
  BY DEF Bots!Without, Without, Bots!Put, Put, Bots!RemoveAt, RemoveAt
<1>4. \A i : Bots!At(i) = At(i)  BY DEF Bots!At, At
<1>5. \A i, val : Bots!Answer(i, val) => Answers(i)
  BY Zenon DEF Bots!Answer, Bots!Update, Bots!Answered, Bots!At, Answers, Update, Answered, At
<1>6. \A i : Bots!Reject(i) => Answers(i)
  BY Zenon DEF Bots!Reject, Bots!Update, Bots!Answered, Bots!At, Answers, Update, Answered, At
<1> QED  BY ONLY <1>1, <1>2, <1>3, <1>4, <1>5, <1>6

\* Bots at the daemon, whose answers are the page's own.
LEMMA BotsServes ==
    ASSUME Calls(calls), NEW i \in InFlight, Bots!Serve(i)
    PROVE  Inside(calls')
<1>1. Answers(i) /\ At(i).op \notin Shared
  BY BotsApi DEF Bots!Serve, Bots!Asked, Shared
<1> QED  BY <1>1, AnswersAreInside

\* Bots when an answer comes.
LEMMA BotsGoesOn ==
    ASSUME token \in Tokens, Calls(calls), NEW i \in InFlight, Bots!Settle(i)
    PROVE  Inside(calls')
<1>1. CASE Bots!SettleReload(i)
  BY <1>1, BotsApi, InsideSteps DEF Bots!SettleReload, Bots!Replied, Bots!Got, Bots!Failed,
    Bots!Ended, Inner
<1>2. CASE Bots!SettleChange(i)
  BY <1>2, BotsApi, InsideSteps, OperationNames DEF Bots!SettleChange, Bots!Reload, Bots!Replied,
    Bots!Got, Bots!Failed, Bots!Ended, Inner
<1> QED  BY <1>1, <1>2 DEF Bots!Settle

\* Bots when the user or a timer acts.
LEMMA BotsActs ==
    ASSUME token \in Tokens, Calls(calls), Bots!Next
    PROVE  Inside(calls')
<1>1. CASE Bots!Follow
  BY <1>1, BotsApi, InsideSteps, OperationNames DEF Bots!Follow, Bots!Reload, Bots!Ask, Inner
<1>2. CASE \E provider \in Providers, op \in BotCalls.writes : Bots!Press(op, provider)
  BY <1>2, BotsApi, InsideSteps, OperationNames DEF Bots!Press, Bots!Ask, BotCalls, Inner
<1> QED  BY <1>1, <1>2 DEF Bots!Next, Bots!BotCalls, BotCalls

\* Bots when it is mounted.
LEMMA BotsOpens ==
    ASSUME token \in Tokens, NEW cs, Calls(cs)
    PROVE  Beside(Bots!FirstCalls(cs), cs, Inner, {})
BY BotsApi, CallIsShaped, BesideAdd, ThenAdd, OperationNames DEF Bots!FirstCalls, Bots!Reload,
    Inner

\* Connect uses PanelApi.
LEMMA ConnectApi ==
    /\ \A op, arg : Connect!Call(op, arg) = Call(op, arg)
    /\ \A cs, h, c : Connect!Add(cs, h, c) = Add(cs, h, c)
    /\ \A i : Connect!Without(i) = Without(i)
    /\ \A i : Connect!At(i) = At(i)
    /\ \A i, val : Connect!Answer(i, val) => Answers(i)
    /\ \A i : Connect!Reject(i) => Answers(i)
<1>1. \A op, arg : Connect!Call(op, arg) = Call(op, arg)  BY DEF Connect!Call, Call
<1>2. \A cs, h, c : Connect!Add(cs, h, c) = Add(cs, h, c)
  BY DEF Connect!Add, Add, Connect!Put, Put, Connect!Queue, Queue
<1>3. \A i : Connect!Without(i) = Without(i)
  BY DEF Connect!Without, Without, Connect!Put, Put, Connect!RemoveAt, RemoveAt
<1>4. \A i : Connect!At(i) = At(i)  BY DEF Connect!At, At
<1>5. \A i, val : Connect!Answer(i, val) => Answers(i)
  BY Zenon DEF Connect!Answer, Connect!Update, Connect!Answered, Connect!At, Answers, Update,
    Answered, At
<1>6. \A i : Connect!Reject(i) => Answers(i)
  BY Zenon DEF Connect!Reject, Connect!Update, Connect!Answered, Connect!At, Answers, Update,
    Answered, At
<1> QED  BY ONLY <1>1, <1>2, <1>3, <1>4, <1>5, <1>6

\* Connect at the daemon, whose answers are the page's own.
LEMMA ConnectServes ==
    ASSUME Calls(calls), NEW i \in InFlight, Connect!Serve(i)
    PROVE  Inside(calls')
<1>1. Answers(i) /\ At(i).op \notin Shared
  BY ConnectApi DEF Connect!Serve, Connect!Asked, Shared, Connect!ConnectCalls
<1> QED  BY <1>1, AnswersAreInside

\* Connect when an answer comes.
LEMMA ConnectGoesOn ==
    ASSUME token \in Tokens, Calls(calls), NEW i \in InFlight, Connect!Settle(i)
    PROVE  Inside(calls')
<1>1. CASE Connect!SettleReload(i)
  BY <1>1, ConnectApi, InsideSteps DEF Connect!SettleReload, Connect!Replied, Connect!Got,
    Connect!Failed, Connect!Ended, Inner
<1>2. CASE Connect!SettleChange(i)
  BY <1>2, ConnectApi, InsideSteps, OperationNames DEF Connect!SettleChange, Connect!Reload,
    Connect!Replied, Connect!Got, Connect!Failed, Connect!Ended, Inner
<1> QED  BY <1>1, <1>2 DEF Connect!Settle

\* Connect when the user or a timer acts.
LEMMA ConnectActs ==
    ASSUME token \in Tokens, Calls(calls), Connect!Next
    PROVE  Inside(calls')
<1>1. CASE Connect!Forward \/ Connect!Unforward \/ Connect!EnableRelay \/ Connect!DisableRelay
  BY <1>1, ConnectApi, InsideSteps, OperationNames DEF Connect!Forward, Connect!Unforward,
    Connect!EnableRelay, Connect!DisableRelay, Connect!Press, Connect!Ask, Inner
<1> QED  BY <1>1 DEF Connect!Next

\* Connect when it is mounted.
LEMMA ConnectOpens ==
    ASSUME token \in Tokens, NEW cs, Calls(cs)
    PROVE  Beside(Connect!FirstCalls(cs), cs, Inner, {})
BY ConnectApi, CallIsShaped, BesideAdd, ThenAdd, OperationNames DEF Connect!FirstCalls,
    Connect!Reload, Inner

\* Properties uses PanelApi.
LEMMA PropertiesApi ==
    /\ \A op, arg : Properties!Call(op, arg) = Call(op, arg)
    /\ \A cs, h, c : Properties!Add(cs, h, c) = Add(cs, h, c)
    /\ \A i : Properties!Without(i) = Without(i)
    /\ \A i : Properties!At(i) = At(i)
    /\ \A i, val : Properties!Answer(i, val) => Answers(i)
    /\ \A i : Properties!Reject(i) => Answers(i)
<1>1. \A op, arg : Properties!Call(op, arg) = Call(op, arg)  BY DEF Properties!Call, Call
<1>2. \A cs, h, c : Properties!Add(cs, h, c) = Add(cs, h, c)
  BY DEF Properties!Add, Add, Properties!Put, Put, Properties!Queue, Queue
<1>3. \A i : Properties!Without(i) = Without(i)
  BY DEF Properties!Without, Without, Properties!Put, Put, Properties!RemoveAt, RemoveAt
<1>4. \A i : Properties!At(i) = At(i)  BY DEF Properties!At, At
<1>5. \A i, val : Properties!Answer(i, val) => Answers(i)
  BY Zenon DEF Properties!Answer, Properties!Update, Properties!Answered, Properties!At,
    Answers, Update, Answered, At
<1>6. \A i : Properties!Reject(i) => Answers(i)
  BY Zenon DEF Properties!Reject, Properties!Update, Properties!Answered, Properties!At,
    Answers, Update, Answered, At
<1> QED  BY ONLY <1>1, <1>2, <1>3, <1>4, <1>5, <1>6

\* Properties at the daemon, whose answers are the page's own.
LEMMA PropertiesServes ==
    ASSUME Calls(calls), NEW i \in InFlight, Properties!Serve(i)
    PROVE  Inside(calls')
<1>1. Answers(i) /\ At(i).op \notin Shared
  BY PropertiesApi DEF Properties!Serve, Properties!Asked, Shared
<1> QED  BY <1>1, AnswersAreInside

\* Properties when an answer comes.
LEMMA PropertiesGoesOn ==
    ASSUME token \in Tokens, Calls(calls), NEW i \in InFlight, Properties!Settle(i)
    PROVE  Inside(calls')
<1>1. CASE Properties!SettleLoad(i)
  BY <1>1, PropertiesApi, InsideSteps DEF Properties!SettleLoad, Properties!Replied,
    Properties!Got, Properties!Failed, Properties!Ended, Inner
<1>2. CASE Properties!SettleSave(i)
  BY <1>2, PropertiesApi, InsideSteps DEF Properties!SettleSave, Properties!Replied,
    Properties!Got, Properties!Failed, Properties!Ended, Inner
<1> QED  BY <1>1, <1>2 DEF Properties!Settle

\* Properties when the user or a timer acts.
LEMMA PropertiesActs ==
    ASSUME token \in Tokens, Calls(calls), Properties!Next
    PROVE  Inside(calls')
<1>1. CASE Properties!Save
  BY <1>1, PropertiesApi, InsideSteps, OperationNames DEF Properties!Save, Properties!Ask, Inner
<1>2. CASE \E value \in Drafts : Properties!Type(value)
  BY <1>2, PropertiesApi, InsideSteps DEF Properties!Type, Properties!Ask, Inner
<1> QED  BY <1>1, <1>2 DEF Properties!Next

\* Properties when it is mounted.
LEMMA PropertiesOpens ==
    ASSUME token \in Tokens, NEW cs, Calls(cs)
    PROVE  Beside(Properties!FirstCalls(cs), cs, Inner, {})
BY PropertiesApi, CallIsShaped, BesideAdd, ThenAdd, OperationNames DEF Properties!FirstCalls, Inner

\* Options uses PanelApi.
LEMMA OptionsApi ==
    /\ \A op, arg : Options!Call(op, arg) = Call(op, arg)
    /\ \A cs, h, c : Options!Add(cs, h, c) = Add(cs, h, c)
    /\ \A i : Options!Without(i) = Without(i)
    /\ \A i : Options!At(i) = At(i)
    /\ \A i, val : Options!Answer(i, val) => Answers(i)
    /\ \A i : Options!Reject(i) => Answers(i)
<1>1. \A op, arg : Options!Call(op, arg) = Call(op, arg)  BY DEF Options!Call, Call
<1>2. \A cs, h, c : Options!Add(cs, h, c) = Add(cs, h, c)
  BY DEF Options!Add, Add, Options!Put, Put, Options!Queue, Queue
<1>3. \A i : Options!Without(i) = Without(i)
  BY DEF Options!Without, Without, Options!Put, Put, Options!RemoveAt, RemoveAt
<1>4. \A i : Options!At(i) = At(i)  BY DEF Options!At, At
<1>5. \A i, val : Options!Answer(i, val) => Answers(i)
  BY Zenon DEF Options!Answer, Options!Update, Options!Answered, Options!At, Answers, Update,
    Answered, At
<1>6. \A i : Options!Reject(i) => Answers(i)
  BY Zenon DEF Options!Reject, Options!Update, Options!Answered, Options!At, Answers, Update,
    Answered, At
<1> QED  BY ONLY <1>1, <1>2, <1>3, <1>4, <1>5, <1>6

\* Options at the daemon, whose answers are the page's own.
LEMMA OptionsServes ==
    ASSUME Calls(calls), NEW i \in InFlight, Options!Serve(i)
    PROVE  Inside(calls')
<1>1. Answers(i) /\ At(i).op \notin Shared
  BY OptionsApi DEF Options!Serve, Options!Asked, Shared
<1> QED  BY <1>1, AnswersAreInside

\* Options when an answer comes.
LEMMA OptionsGoesOn ==
    ASSUME token \in Tokens, Calls(calls), NEW i \in InFlight, Options!Settle(i)
    PROVE  Inside(calls')
<1>1. CASE Options!SettleProxies(i)
  BY <1>1, OptionsApi, InsideSteps, OperationNames DEF Options!SettleProxies, Options!Replied,
    Options!Got, Options!Failed, Options!Ended, Inner
<1>2. CASE Options!SettleSave(i)
  BY <1>2, OptionsApi, InsideSteps DEF Options!SettleSave, Options!Replied, Options!Got,
    Options!Failed, Options!Ended, Inner
<1> QED  BY <1>1, <1>2 DEF Options!Settle

\* Options when the user or a timer acts.
LEMMA OptionsActs ==
    ASSUME token \in Tokens, Calls(calls), Options!Next
    PROVE  Inside(calls')
<1>1. CASE Options!HostMoves
  BY <1>1, OptionsApi, InsideSteps DEF Options!HostMoves, Options!Ask, Inner
<1>2. CASE Options!ParentLearns
  BY <1>2, OptionsApi, InsideSteps DEF Options!ParentLearns, Options!Ask, Inner
<1>3. CASE Options!Reset
  BY <1>3, OptionsApi, InsideSteps DEF Options!Reset, Options!Ask, Inner
<1>4. CASE Options!Save
  BY <1>4, OptionsApi, InsideSteps, OperationNames DEF Options!Save, Options!Ask, Inner
<1>5. CASE \E options \in Drafts : Options!Edit(options)
  BY <1>5, OptionsApi, InsideSteps DEF Options!Edit, Options!Ask, Inner
<1> QED  BY <1>1, <1>2, <1>3, <1>4, <1>5 DEF Options!Next

\* Options when it is mounted.
LEMMA OptionsOpens ==
    ASSUME token \in Tokens, NEW cs, Calls(cs)
    PROVE  Beside(Options!FirstCalls(cs), cs, Inner, {})
BY OptionsApi, CallIsShaped, BesideAdd, ThenAdd, OperationNames DEF Options!FirstCalls, Inner

\* Links uses PanelApi.
LEMMA LinksApi ==
    /\ \A op, arg : Links!Call(op, arg) = Call(op, arg)
    /\ \A cs, h, c : Links!Add(cs, h, c) = Add(cs, h, c)
    /\ \A i : Links!Without(i) = Without(i)
    /\ \A i : Links!At(i) = At(i)
    /\ \A i, val : Links!Answer(i, val) => Answers(i)
    /\ \A i : Links!Reject(i) => Answers(i)
<1>1. \A op, arg : Links!Call(op, arg) = Call(op, arg)  BY DEF Links!Call, Call
<1>2. \A cs, h, c : Links!Add(cs, h, c) = Add(cs, h, c)
  BY DEF Links!Add, Add, Links!Put, Put, Links!Queue, Queue
<1>3. \A i : Links!Without(i) = Without(i)
  BY DEF Links!Without, Without, Links!Put, Put, Links!RemoveAt, RemoveAt
<1>4. \A i : Links!At(i) = At(i)  BY DEF Links!At, At
<1>5. \A i, val : Links!Answer(i, val) => Answers(i)
  BY Zenon DEF Links!Answer, Links!Update, Links!Answered, Links!At, Answers, Update,
    Answered, At
<1>6. \A i : Links!Reject(i) => Answers(i)
  BY Zenon DEF Links!Reject, Links!Update, Links!Answered, Links!At, Answers, Update,
    Answered, At
<1> QED  BY ONLY <1>1, <1>2, <1>3, <1>4, <1>5, <1>6

\* Links at the daemon, whose answers are the page's own.
LEMMA LinksServes ==
    ASSUME Calls(calls), NEW i \in InFlight, Links!Serve(i)
    PROVE  Inside(calls')
<1>1. Answers(i) /\ At(i).op \notin Shared
  BY LinksApi DEF Links!Serve, Links!Asked, Shared
<1> QED  BY <1>1, AnswersAreInside

\* Links when an answer comes.
LEMMA LinksGoesOn ==
    ASSUME token \in Tokens, Calls(calls), NEW i \in InFlight, Links!Settle(i)
    PROVE  Inside(calls')
<1>1. CASE Links!SettleReload(i)
  BY <1>1, LinksApi, InsideSteps DEF Links!SettleReload, Links!Replied, Links!Got,
    Links!Failed, Links!Ended, Inner
<1>2. CASE Links!SettleChange(i)
  BY <1>2, LinksApi, InsideSteps, OperationNames DEF Links!SettleChange, Links!Reload,
    Links!Replied, Links!Got, Links!Failed, Links!Ended, Inner
<1>3. CASE Links!SettlePassword(i)
  BY <1>3, LinksApi, InsideSteps DEF Links!SettlePassword, Links!Replied, Links!Got,
    Links!Failed, Links!Ended, Inner
<1> QED  BY <1>1, <1>2, <1>3 DEF Links!Settle

\* Links when the user or a timer acts.
LEMMA LinksActs ==
    ASSUME token \in Tokens, Calls(calls), Links!Next
    PROVE  Inside(calls')
<1>1. CASE \E provider \in Providers : Links!RequestCode(provider) \/ Links!Unlink(provider)
  BY <1>1, LinksApi, InsideSteps, OperationNames DEF Links!RequestCode, Links!Unlink, Links!Press,
    Links!Ask, Inner
<1>2. CASE Links!Expire
  BY <1>2, LinksApi, InsideSteps DEF Links!Expire, Links!Ask, Inner
<1>3. CASE Links!ChangePassword
  BY <1>3, LinksApi, InsideSteps, OperationNames DEF Links!ChangePassword, Links!Ask, Inner
<1> QED  BY <1>1, <1>2, <1>3 DEF Links!Next

\* Links when it is mounted.
LEMMA LinksOpens ==
    ASSUME token \in Tokens, NEW cs, Calls(cs)
    PROVE  Beside(Links!FirstCalls(cs), cs, Inner, {})
BY LinksApi, CallIsShaped, BesideAdd, ThenAdd, OperationNames DEF Links!FirstCalls, Links!Reload,
    Inner

\* Admin uses PanelApi.
LEMMA AdminApi ==
    /\ \A op, arg : Admin!Call(op, arg) = Call(op, arg)
    /\ \A cs, h, c : Admin!Add(cs, h, c) = Add(cs, h, c)
    /\ \A i : Admin!Without(i) = Without(i)
    /\ \A i : Admin!At(i) = At(i)
    /\ \A i, val : Admin!Answer(i, val) => Answers(i)
    /\ \A i : Admin!Reject(i) => Answers(i)
<1>1. \A op, arg : Admin!Call(op, arg) = Call(op, arg)  BY DEF Admin!Call, Call
<1>2. \A cs, h, c : Admin!Add(cs, h, c) = Add(cs, h, c)
  BY DEF Admin!Add, Add, Admin!Put, Put, Admin!Queue, Queue
<1>3. \A i : Admin!Without(i) = Without(i)
  BY DEF Admin!Without, Without, Admin!Put, Put, Admin!RemoveAt, RemoveAt
<1>4. \A i : Admin!At(i) = At(i)  BY DEF Admin!At, At
<1>5. \A i, val : Admin!Answer(i, val) => Answers(i)
  BY Zenon DEF Admin!Answer, Admin!Update, Admin!Answered, Admin!At, Answers, Update,
    Answered, At
<1>6. \A i : Admin!Reject(i) => Answers(i)
  BY Zenon DEF Admin!Reject, Admin!Update, Admin!Answered, Admin!At, Answers, Update,
    Answered, At
<1> QED  BY ONLY <1>1, <1>2, <1>3, <1>4, <1>5, <1>6

\* Admin at the daemon, whose answers are the page's own.
LEMMA AdminServes ==
    ASSUME Calls(calls), NEW i \in InFlight, Admin!Serve(i)
    PROVE  Inside(calls')
<1>1. Answers(i) /\ At(i).op \notin Shared
  BY AdminApi DEF Admin!Serve, Admin!Asked, Shared
<1> QED  BY <1>1, AnswersAreInside

\* Admin when an answer comes.
LEMMA AdminGoesOn ==
    ASSUME token \in Tokens, Calls(calls), NEW i \in InFlight, Admin!Settle(i)
    PROVE  Inside(calls')
<1>1. CASE Admin!SettleReload(i)
  BY <1>1, AdminApi, InsideSteps DEF Admin!SettleReload, Admin!Replied, Admin!Got,
    Admin!Failed, Admin!Ended, Inner
<1>2. CASE Admin!SettleChange(i)
  BY <1>2, AdminApi, InsideSteps, OperationNames DEF Admin!SettleChange, Admin!Reload,
    Admin!Replied, Admin!Got, Admin!Failed, Admin!Ended, Inner
<1> QED  BY <1>1, <1>2 DEF Admin!Settle

\* Admin when the user or a timer acts.
LEMMA AdminActs ==
    ASSUME token \in Tokens, Calls(calls), Admin!Next
    PROVE  Inside(calls')
<1>1. CASE Admin!Create
  BY <1>1, AdminApi, InsideSteps, OperationNames DEF Admin!Create, Admin!Ask, Inner
<1>2. CASE \E id \in Users : Admin!Patch(id) \/ Admin!DeleteUser(id)
  BY <1>2, AdminApi, InsideSteps, OperationNames DEF Admin!Patch, Admin!DeleteUser, Admin!Press,
    Admin!Ask, Inner
<1> QED  BY <1>1, <1>2 DEF Admin!Next

\* Admin when it is mounted.
LEMMA AdminOpens ==
    ASSUME token \in Tokens, NEW cs, Calls(cs)
    PROVE  Beside(Admin!FirstCalls(cs), cs, Inner, {})
BY AdminApi, CallIsShaped, BesideAdd, ThenAdd, OperationNames DEF Admin!FirstCalls, Admin!Reload,
    Inner

\* Backups uses PanelApi.
LEMMA BackupsApi ==
    /\ \A op, arg : Backups!Call(op, arg) = Call(op, arg)
    /\ \A cs, h, c : Backups!Add(cs, h, c) = Add(cs, h, c)
    /\ \A i : Backups!Without(i) = Without(i)
    /\ \A i : Backups!At(i) = At(i)
    /\ \A i, val : Backups!Answer(i, val) => Answers(i)
    /\ \A i : Backups!Reject(i) => Answers(i)
<1>1. \A op, arg : Backups!Call(op, arg) = Call(op, arg)  BY DEF Backups!Call, Call
<1>2. \A cs, h, c : Backups!Add(cs, h, c) = Add(cs, h, c)
  BY DEF Backups!Add, Add, Backups!Put, Put, Backups!Queue, Queue
<1>3. \A i : Backups!Without(i) = Without(i)
  BY DEF Backups!Without, Without, Backups!Put, Put, Backups!RemoveAt, RemoveAt
<1>4. \A i : Backups!At(i) = At(i)  BY DEF Backups!At, At
<1>5. \A i, val : Backups!Answer(i, val) => Answers(i)
  BY Zenon DEF Backups!Answer, Backups!Update, Backups!Answered, Backups!At, Answers, Update,
    Answered, At
<1>6. \A i : Backups!Reject(i) => Answers(i)
  BY Zenon DEF Backups!Reject, Backups!Update, Backups!Answered, Backups!At, Answers, Update,
    Answered, At
<1> QED  BY ONLY <1>1, <1>2, <1>3, <1>4, <1>5, <1>6

\* Backups at the daemon, whose answers are the page's own.
LEMMA BackupsServes ==
    ASSUME Calls(calls), NEW i \in InFlight, Backups!Serve(i)
    PROVE  Inside(calls')
<1>1. Answers(i) /\ At(i).op \notin Shared
  BY BackupsApi DEF Backups!Serve, Backups!ServeChange, Backups!ServeRead, Backups!Asked,
    Shared
<1> QED  BY <1>1, AnswersAreInside

\* Backups when an answer comes.
LEMMA BackupsGoesOn ==
    ASSUME token \in Tokens, Calls(calls), NEW i \in InFlight, Backups!Settle(i)
    PROVE  Inside(calls')
<1>1. CASE Backups!SettleReload(i)
  BY <1>1, BackupsApi, InsideSteps DEF Backups!SettleReload, Backups!Replied, Backups!Got,
    Backups!Failed, Backups!Ended, Inner
<1>2. CASE Backups!SettleChange(i)
  BY <1>2, BackupsApi, InsideSteps, OperationNames DEF Backups!SettleChange, Backups!Reload,
    Backups!Replied, Backups!Got, Backups!Failed, Backups!Ended, Inner
<1>3. CASE Backups!SettleDownload(i)
  BY <1>3, BackupsApi, InsideSteps DEF Backups!SettleDownload, Backups!Replied, Backups!Got,
    Backups!Failed, Backups!Ended, Inner
<1>4. CASE Backups!SettleSchedule(i)
  BY <1>4, BackupsApi, InsideSteps DEF Backups!SettleSchedule, Backups!Replied, Backups!Got,
    Backups!Failed, Backups!Ended, Inner
<1>5. CASE Backups!SettleSave(i)
  BY <1>5, BackupsApi, InsideSteps DEF Backups!SettleSave, Backups!Replied, Backups!Got,
    Backups!Failed, Backups!Ended, Inner
<1> QED  BY <1>1, <1>2, <1>3, <1>4, <1>5 DEF Backups!Settle

\* Backups when the user or a timer acts.
LEMMA BackupsActs ==
    ASSUME token \in Tokens, Calls(calls), Backups!Next
    PROVE  Inside(calls')
<1>1. CASE Backups!Tick
  BY <1>1, BackupsApi, InsideSteps, OperationNames DEF Backups!Tick, Backups!Reload, Backups!Ask,
    Inner
<1>2. CASE Backups!HostMoves
  BY <1>2, BackupsApi, InsideSteps DEF Backups!HostMoves, Backups!Ask, Inner
<1>3. CASE Backups!Create \/ Backups!Restore \/ Backups!Delete
  BY <1>3, BackupsApi, InsideSteps, OperationNames DEF Backups!Create, Backups!Restore,
    Backups!Delete, Backups!Press, Backups!Ask, Inner
<1>4. CASE Backups!Download
  BY <1>4, BackupsApi, InsideSteps, OperationNames DEF Backups!Download, Backups!Ask, Inner
<1>5. CASE Backups!SaveSchedule
  BY <1>5, BackupsApi, InsideSteps, OperationNames DEF Backups!SaveSchedule, Backups!Ask, Inner
<1>6. CASE \E draft \in {DefaultDraft} : Backups!Edit(draft)
  BY <1>6, BackupsApi, InsideSteps DEF Backups!Edit, Backups!Ask, Inner
<1> QED  BY <1>1, <1>2, <1>3, <1>4, <1>5, <1>6 DEF Backups!Next

\* Backups when it is mounted.
LEMMA BackupsOpens ==
    ASSUME token \in Tokens, NEW cs, Calls(cs)
    PROVE  Beside(Backups!FirstCalls(cs), cs, Inner, {})
BY BackupsApi, CallIsShaped, BesideAdd, ThenAdd, OperationNames DEF Backups!FirstCalls,
    Backups!Reload, Inner

\* Files uses PanelApi.
LEMMA FilesApi ==
    /\ \A op, arg : Files!Call(op, arg) = Call(op, arg)
    /\ \A cs, h, c : Files!Add(cs, h, c) = Add(cs, h, c)
    /\ \A i : Files!Without(i) = Without(i)
    /\ \A i : Files!At(i) = At(i)
    /\ \A i, val : Files!Answer(i, val) => Answers(i)
    /\ \A i : Files!Reject(i) => Answers(i)
<1>1. \A op, arg : Files!Call(op, arg) = Call(op, arg)  BY DEF Files!Call, Call
<1>2. \A cs, h, c : Files!Add(cs, h, c) = Add(cs, h, c)
  BY DEF Files!Add, Add, Files!Put, Put, Files!Queue, Queue
<1>3. \A i : Files!Without(i) = Without(i)
  BY DEF Files!Without, Without, Files!Put, Put, Files!RemoveAt, RemoveAt
<1>4. \A i : Files!At(i) = At(i)  BY DEF Files!At, At
<1>5. \A i, val : Files!Answer(i, val) => Answers(i)
  BY Zenon DEF Files!Answer, Files!Update, Files!Answered, Files!At, Answers, Update,
    Answered, At
<1>6. \A i : Files!Reject(i) => Answers(i)
  BY Zenon DEF Files!Reject, Files!Update, Files!Answered, Files!At, Answers, Update,
    Answered, At
<1> QED  BY ONLY <1>1, <1>2, <1>3, <1>4, <1>5, <1>6

\* Files at the daemon, whose answers are the page's own.
LEMMA FilesServes ==
    ASSUME Calls(calls), NEW i \in InFlight, Files!Serve(i)
    PROVE  Inside(calls')
<1>1. Answers(i) /\ At(i).op \notin Shared
  BY FilesApi DEF Files!Serve, Files!Asked, Shared, Files!FileCalls
<1> QED  BY <1>1, AnswersAreInside

\* Files when an answer comes.
LEMMA FilesGoesOn ==
    ASSUME token \in Tokens, Calls(calls), NEW i \in InFlight, Files!Settle(i)
    PROVE  Inside(calls')
<1>1. CASE Files!SettleLoad(i)
  BY <1>1, FilesApi, InsideSteps DEF Files!SettleLoad, Files!Replied, Files!Got,
    Files!Failed, Files!Ended, Inner
<1>2. CASE Files!SettleRead(i)
  BY <1>2, FilesApi, InsideSteps DEF Files!SettleRead, Files!Replied, Files!Got,
    Files!Failed, Files!Ended, Inner
<1>3. CASE Files!SettleSave(i)
  BY <1>3, FilesApi, InsideSteps, OperationNames DEF Files!SettleSave, Files!Load, Files!Replied,
    Files!Got, Files!Failed, Files!Ended, Inner
<1>4. CASE Files!SettleChange(i)
  BY <1>4, FilesApi, InsideSteps, OperationNames DEF Files!SettleChange, Files!Load, Files!Replied,
    Files!Got, Files!Failed, Files!Ended, Inner
<1>5. CASE Files!SettleUpload(i)
  BY <1>5, FilesApi, InsideSteps, OperationNames DEF Files!SettleUpload, Files!Load, Files!Replied,
    Files!Got, Files!Failed, Files!Ended, Inner
<1> QED  BY <1>1, <1>2, <1>3, <1>4, <1>5 DEF Files!Settle

\* Files when the user or a timer acts.
LEMMA FilesActs ==
    ASSUME token \in Tokens, Calls(calls), Files!Next
    PROVE  Inside(calls')
<1>1. CASE \E target \in Dirs : Files!Open(target)
  BY <1>1, FilesApi, InsideSteps, OperationNames DEF Files!Open, Files!Load, Files!Ask, Inner
<1>2. CASE Files!ReadFile \/ Files!Download
  BY <1>2, FilesApi, InsideSteps, OperationNames DEF Files!ReadFile, Files!Download, Files!Ask,
    Inner
<1>3. CASE Files!Cancel
  BY <1>3, FilesApi, InsideSteps DEF Files!Cancel, Files!Ask, Inner
<1>4. CASE Files!Save
  BY <1>4, FilesApi, InsideSteps, OperationNames DEF Files!Save, Files!Ask, Inner
<1>5. CASE Files!DeleteFile \/ Files!MoveFile \/ Files!MakeDirectory \/ Files!Unarchive
  BY <1>5, FilesApi, InsideSteps, OperationNames DEF Files!DeleteFile, Files!MoveFile,
    Files!MakeDirectory, Files!Unarchive, Files!Change, Files!Ask, Inner
<1>6. CASE Files!Upload
  BY <1>6, FilesApi, InsideSteps, OperationNames DEF Files!Upload, Files!Ask, Inner
<1> QED  BY <1>1, <1>2, <1>3, <1>4, <1>5, <1>6 DEF Files!Next

\* Files when it is mounted.
LEMMA FilesOpens ==
    ASSUME token \in Tokens, NEW cs, Calls(cs)
    PROVE  Beside(Files!FirstCalls(cs), cs, Inner, {})
BY FilesApi, CallIsShaped, BesideAdd, ThenAdd, OperationNames DEF Files!FirstCalls, Files!Load,
    Inner

\* Catalog uses PanelApi.
LEMMA CatalogApi ==
    /\ \A op, arg : Catalog!Call(op, arg) = Call(op, arg)
    /\ \A cs, h, c : Catalog!Add(cs, h, c) = Add(cs, h, c)
    /\ \A i : Catalog!Without(i) = Without(i)
    /\ \A i : Catalog!At(i) = At(i)
    /\ \A i, val : Catalog!Answer(i, val) => Answers(i)
    /\ \A i : Catalog!Reject(i) => Answers(i)
    /\ \A cs, gone : Catalog!Forget(cs, gone) = Forget(cs, gone)
<1>1. \A op, arg : Catalog!Call(op, arg) = Call(op, arg)  BY DEF Catalog!Call, Call
<1>2. \A cs, h, c : Catalog!Add(cs, h, c) = Add(cs, h, c)
  BY DEF Catalog!Add, Add, Catalog!Put, Put, Catalog!Queue, Queue
<1>3. \A i : Catalog!Without(i) = Without(i)
  BY DEF Catalog!Without, Without, Catalog!Put, Put, Catalog!RemoveAt, RemoveAt
<1>4. \A i : Catalog!At(i) = At(i)  BY DEF Catalog!At, At
<1>5. \A i, val : Catalog!Answer(i, val) => Answers(i)
  BY Zenon DEF Catalog!Answer, Catalog!Update, Catalog!Answered, Catalog!At, Answers, Update,
    Answered, At
<1>6. \A i : Catalog!Reject(i) => Answers(i)
  BY Zenon DEF Catalog!Reject, Catalog!Update, Catalog!Answered, Catalog!At, Answers, Update,
    Answered, At
<1>7. \A cs, gone : Catalog!Forget(cs, gone) = Forget(cs, gone)  BY DEF Catalog!Forget, Forget
<1> QED  BY ONLY <1>1, <1>2, <1>3, <1>4, <1>5, <1>6, <1>7

\* Catalog at the daemon, whose answers are the page's own.
LEMMA CatalogServes ==
    ASSUME Calls(calls), NEW i \in InFlight, Catalog!Serve(i)
    PROVE  Inside(calls')
<1>1. Answers(i) /\ At(i).op \notin Shared
  BY CatalogApi DEF Catalog!Serve, Catalog!Asked, Shared
<1> QED  BY <1>1, AnswersAreInside

\* Catalog when an answer comes.
LEMMA CatalogGoesOn ==
    ASSUME token \in Tokens, Calls(calls), NEW i \in InFlight, Catalog!Settle(i)
    PROVE  Inside(calls')
<1>1. CASE Catalog!SettleContent(i)
  BY <1>1, CatalogApi, InsideSteps DEF Catalog!SettleContent, Catalog!Superseded,
    Catalog!Replied, Catalog!Got, Catalog!Failed, Catalog!Ended, Inner
<1>2. CASE Catalog!SettleInstalled(i)
  BY <1>2, CatalogApi, InsideSteps DEF Catalog!SettleInstalled, Catalog!Replied,
    Catalog!Got, Catalog!Failed, Catalog!Ended, Inner
<1>3. CASE Catalog!SettleSearch(i)
  BY <1>3, CatalogApi, InsideSteps DEF Catalog!SettleSearch, Catalog!Replied, Catalog!Got,
    Catalog!Failed, Catalog!Ended, Inner
<1>4. CASE Catalog!SettleInstall(i)
  BY <1>4, CatalogApi, InsideSteps, OperationNames DEF Catalog!SettleInstall, Catalog!Replied,
    Catalog!Got, Catalog!Failed, Catalog!Ended, Inner
<1>5. CASE Catalog!SettleChange(i)
  BY <1>5, CatalogApi, InsideSteps, OperationNames DEF Catalog!SettleChange,
    Catalog!ReloadInstalled, Catalog!Replied, Catalog!Got, Catalog!Failed, Catalog!Ended, Inner
<1> QED  BY <1>1, <1>2, <1>3, <1>4, <1>5 DEF Catalog!Settle

\* Catalog when the user or a timer acts.
LEMMA CatalogActs ==
    ASSUME token \in Tokens, Calls(calls), Catalog!Next
    PROVE  Inside(calls')
<1>1. CASE \E query \in Queries \cup {Catalog!Short} : Catalog!TypeQuery(query)
  BY <1>1, CatalogApi, InsideSteps DEF Catalog!TypeQuery, Catalog!Type, Catalog!Superseded,
    Catalog!Ask, Inner
<1>2. CASE Catalog!Search
  BY <1>2, CatalogApi, InsideSteps, OperationNames DEF Catalog!Search, Catalog!Ask, Inner
<1>3. CASE Catalog!Install
  BY <1>3, CatalogApi, InsideSteps, OperationNames DEF Catalog!Install, Catalog!Ask, Inner
<1>4. CASE Catalog!Later
  BY <1>4, CatalogApi, InsideSteps, OperationNames DEF Catalog!Later, Catalog!ReloadInstalled,
    Catalog!Ask, Inner
<1>5. CASE Catalog!Toggle \/ Catalog!Delete
  BY <1>5, CatalogApi, InsideSteps, OperationNames DEF Catalog!Toggle, Catalog!Delete,
    Catalog!Change, Catalog!Ask, Inner
<1> QED  BY <1>1, <1>2, <1>3, <1>4, <1>5 DEF Catalog!Next

\* Catalog when it is mounted.
LEMMA CatalogOpens ==
    ASSUME token \in Tokens, NEW cs, Calls(cs)
    PROVE  Beside(Catalog!FirstCalls(cs), cs, Inner, {})
BY CatalogApi, CallIsShaped, BesideAdd, ThenAdd, OperationNames DEF Catalog!FirstCalls,
    Catalog!ReloadInstalled, Inner

\* Modpacks uses PanelApi.
LEMMA ModpacksApi ==
    /\ \A op, arg : Modpacks!Call(op, arg) = Call(op, arg)
    /\ \A cs, h, c : Modpacks!Add(cs, h, c) = Add(cs, h, c)
    /\ \A i : Modpacks!Without(i) = Without(i)
    /\ \A i : Modpacks!At(i) = At(i)
    /\ \A i, val : Modpacks!Answer(i, val) => Answers(i)
    /\ \A i : Modpacks!Reject(i) => Answers(i)
    /\ \A cs, gone : Modpacks!Forget(cs, gone) = Forget(cs, gone)
<1>1. \A op, arg : Modpacks!Call(op, arg) = Call(op, arg)  BY DEF Modpacks!Call, Call
<1>2. \A cs, h, c : Modpacks!Add(cs, h, c) = Add(cs, h, c)
  BY DEF Modpacks!Add, Add, Modpacks!Put, Put, Modpacks!Queue, Queue
<1>3. \A i : Modpacks!Without(i) = Without(i)
  BY DEF Modpacks!Without, Without, Modpacks!Put, Put, Modpacks!RemoveAt, RemoveAt
<1>4. \A i : Modpacks!At(i) = At(i)  BY DEF Modpacks!At, At
<1>5. \A i, val : Modpacks!Answer(i, val) => Answers(i)
  BY Zenon DEF Modpacks!Answer, Modpacks!Update, Modpacks!Answered, Modpacks!At, Answers,
    Update, Answered, At
<1>6. \A i : Modpacks!Reject(i) => Answers(i)
  BY Zenon DEF Modpacks!Reject, Modpacks!Update, Modpacks!Answered, Modpacks!At, Answers,
    Update, Answered, At
<1>7. \A cs, gone : Modpacks!Forget(cs, gone) = Forget(cs, gone)
  BY DEF Modpacks!Forget, Forget
<1> QED  BY ONLY <1>1, <1>2, <1>3, <1>4, <1>5, <1>6, <1>7

\* Modpacks at the daemon, whose answers are the page's own.
LEMMA ModpacksServes ==
    ASSUME Calls(calls), NEW i \in InFlight, Modpacks!Serve(i)
    PROVE  Inside(calls')
<1>1. Answers(i) /\ At(i).op \notin Shared
  BY ModpacksApi DEF Modpacks!Serve, Modpacks!Asked, Shared
<1> QED  BY <1>1, AnswersAreInside

\* Modpacks when an answer comes.
LEMMA ModpacksGoesOn ==
    ASSUME token \in Tokens, Calls(calls), NEW i \in InFlight, Modpacks!Settle(i)
    PROVE  Inside(calls')
<1>1. CASE Modpacks!SettleInstalled(i)
  BY <1>1, ModpacksApi, InsideSteps DEF Modpacks!SettleInstalled, Modpacks!Replied,
    Modpacks!Got, Modpacks!Failed, Modpacks!Ended, Inner
<1>2. CASE Modpacks!SettleSearch(i)
  BY <1>2, ModpacksApi, InsideSteps DEF Modpacks!SettleSearch, Modpacks!Replied,
    Modpacks!Got, Modpacks!Failed, Modpacks!Ended, Inner
<1>3. CASE Modpacks!SettleInstall(i)
  BY <1>3, ModpacksApi, InsideSteps, OperationNames DEF Modpacks!SettleInstall, Modpacks!Replied,
    Modpacks!Got, Modpacks!Failed, Modpacks!Ended, Inner
<1>4. CASE Modpacks!SettlePoll(i)
  BY <1>4, ModpacksApi, InsideSteps, OperationNames DEF Modpacks!SettlePoll,
    Modpacks!ReloadInstalled, Modpacks!Replied, Modpacks!Got, Modpacks!Failed, Modpacks!Ended,
    Inner
<1> QED  BY <1>1, <1>2, <1>3, <1>4 DEF Modpacks!Settle

\* Modpacks when the user or a timer acts.
LEMMA ModpacksActs ==
    ASSUME token \in Tokens, Calls(calls), Modpacks!Next
    PROVE  Inside(calls')
<1>1. CASE \E query \in Queries \cup {Modpacks!Short} : Modpacks!Type(query, TRUE)
  BY <1>1, ModpacksApi, InsideSteps DEF Modpacks!Type, Modpacks!Superseded, Modpacks!Ask,
    Inner
<1>2. CASE Modpacks!Search
  BY <1>2, ModpacksApi, InsideSteps, OperationNames DEF Modpacks!Search, Modpacks!Ask, Inner
<1>3. CASE Modpacks!Install
  BY <1>3, ModpacksApi, InsideSteps, OperationNames DEF Modpacks!Install, Modpacks!Ask, Inner
<1>4. CASE Modpacks!Poll
  BY <1>4, ModpacksApi, InsideSteps, OperationNames DEF Modpacks!Poll, Modpacks!Ask, Inner
<1>5. CASE Modpacks!HostMoves
  BY <1>5, ModpacksApi, InsideSteps DEF Modpacks!HostMoves, Modpacks!Ask, Inner
<1> QED  BY <1>1, <1>2, <1>3, <1>4, <1>5 DEF Modpacks!Next

\* Modpacks when it is mounted.
LEMMA ModpacksOpens ==
    ASSUME token \in Tokens, NEW cs, Calls(cs)
    PROVE  Beside(Modpacks!FirstCalls(cs), cs, Inner, {})
BY ModpacksApi, CallIsShaped, BesideAdd, ThenAdd, OperationNames DEF Modpacks!FirstCalls,
    Modpacks!ReloadInstalled, Inner

\* Servers uses PanelApi.
LEMMA ServersApi ==
    /\ \A op, arg : Servers!Call(op, arg) = Call(op, arg)
    /\ \A cs, h, c : Servers!Add(cs, h, c) = Add(cs, h, c)
    /\ \A i : Servers!Without(i) = Without(i)
    /\ \A i : Servers!At(i) = At(i)
    /\ \A i, val : Servers!Answer(i, val) => Answers(i)
    /\ \A i : Servers!Reject(i) => Answers(i)
    /\ \A cs, gone : Servers!Forget(cs, gone) = Forget(cs, gone)
    /\ \A cs, h, as : Servers!Rename(cs, h, as) = Rename(cs, h, as)
<1>1. \A op, arg : Servers!Call(op, arg) = Call(op, arg)  BY DEF Servers!Call, Call
<1>2. \A cs, h, c : Servers!Add(cs, h, c) = Add(cs, h, c)
  BY DEF Servers!Add, Add, Servers!Put, Put, Servers!Queue, Queue
<1>3. \A i : Servers!Without(i) = Without(i)
  BY DEF Servers!Without, Without, Servers!Put, Put, Servers!RemoveAt, RemoveAt
<1>4. \A i : Servers!At(i) = At(i)  BY DEF Servers!At, At
<1>5. \A i, val : Servers!Answer(i, val) => Answers(i)
  BY Zenon DEF Servers!Answer, Servers!Update, Servers!Answered, Servers!At, Answers, Update,
    Answered, At
<1>6. \A i : Servers!Reject(i) => Answers(i)
  BY Zenon DEF Servers!Reject, Servers!Update, Servers!Answered, Servers!At, Answers, Update,
    Answered, At
<1>7. \A cs, gone : Servers!Forget(cs, gone) = Forget(cs, gone)  BY DEF Servers!Forget, Forget
<1>8. \A cs, h, as : Servers!Rename(cs, h, as) = Rename(cs, h, as)
  BY DEF Servers!Rename, Rename, Servers!Put, Put, Servers!Queue, Queue
<1> QED  BY ONLY <1>1, <1>2, <1>3, <1>4, <1>5, <1>6, <1>7, <1>8

\* Servers at the daemon, whose answers are the page's own.
LEMMA ServersServes ==
    ASSUME Calls(calls), NEW i \in InFlight, Servers!Serve(i)
    PROVE  Inside(calls')
<1>1. Answers(i) /\ At(i).op \notin Shared
  BY ServersApi DEF Servers!Serve, Servers!ServeList, Servers!ServePower,
    Servers!ServeCores, Servers!ServeVersions, Servers!ServeCreate, Servers!Asked, Shared
<1> QED  BY <1>1, AnswersAreInside

\* Servers when an answer comes.
LEMMA ServersGoesOn ==
    ASSUME token \in Tokens, Calls(calls), NEW i \in InFlight, Servers!Settle(i)
    PROVE  Inside(calls')
<1>1. CASE Servers!SettleReload(i)
  BY <1>1, ServersApi, InsideSteps DEF Servers!SettleReload, Servers!Replied, Servers!Got,
    Servers!Failed, Servers!Ended, Inner
<1>2. CASE Servers!SettlePower(i)
  BY <1>2, ServersApi, InsideSteps, OperationNames DEF Servers!SettlePower, Servers!Reload,
    Servers!Replied, Servers!Got, Servers!Failed, Servers!Ended, Inner
<1>3. CASE Servers!SettleCores(i)
  <2>1. i[1] \in Inner  BY <1>3 DEF Servers!SettleCores, Servers!Replied, Servers!Failed, Inner
  <2>2. calls' = Without(i) \/ \E core : calls' = Servers!AskVersions(Without(i), core)
    BY <1>3, ServersApi DEF Servers!SettleCores
  <2>3. Inside(Without(i))  BY <2>1, InsideSteps
  <2>4. ASSUME NEW core  PROVE Inside(Servers!AskVersions(Without(i), core))
    BY <2>3, ServersApi, InsideSteps, OperationNames DEF Servers!AskVersions, Inner
  <2> QED  BY <2>2, <2>3, <2>4
<1>4. CASE Servers!SettleVersions(i)
  BY <1>4, ServersApi, InsideSteps DEF Servers!SettleVersions, Servers!Replied, Servers!Got,
    Servers!Failed, Servers!Ended, Inner
<1>5. CASE Servers!SettleSubmit(i)
  BY <1>5, ServersApi, InsideSteps, OperationNames DEF Servers!SettleSubmit, Servers!Reload,
    Servers!CloseForm, Servers!Replied, Servers!Got, Servers!Failed, Servers!Ended, Inner
<1> QED  BY <1>1, <1>2, <1>3, <1>4, <1>5 DEF Servers!Settle

\* Servers when the user or a timer acts.
LEMMA ServersActs ==
    ASSUME token \in Tokens, Calls(calls), Servers!Next
    PROVE  Inside(calls')
<1>1. CASE \E id \in Ids, action \in Powers : Servers!Power(id, action)
  BY <1>1, ServersApi, InsideSteps, OperationNames DEF Servers!Power, Servers!Ask, Inner
<1>2. CASE Servers!ToggleForm
  BY <1>2, ServersApi, InsideSteps, OperationNames DEF Servers!ToggleForm, Servers!AskVersions,
    Servers!CloseForm, Servers!Ask, Inner
<1>3. CASE \E core \in Cores : Servers!PickCore(core)
  BY <1>3, ServersApi, InsideSteps, OperationNames DEF Servers!PickCore, Servers!AskVersions,
    Servers!Ask, Inner
<1>4. CASE Servers!TypeVersion
  BY <1>4, ServersApi, InsideSteps DEF Servers!TypeVersion, Servers!Ask, Inner
<1>5. CASE Servers!Submit
  BY <1>5, ServersApi, InsideSteps, OperationNames DEF Servers!Submit, Servers!Ask, Inner
<1>6. CASE Servers!Tick
  BY <1>6, ServersApi, InsideSteps, OperationNames DEF Servers!Tick, Servers!Reload, Servers!Ask,
    Inner
<1>7. CASE Servers!HostMoves
  BY <1>7, ServersApi, InsideSteps DEF Servers!HostMoves, Servers!Ask, Inner
<1> QED  BY <1>1, <1>2, <1>3, <1>4, <1>5, <1>6, <1>7 DEF Servers!Next, Servers!User,
  Servers!Powers, Powers

\* Servers when it is mounted.
LEMMA ServersOpens ==
    ASSUME token \in Tokens, NEW cs, Calls(cs)
    PROVE  Beside(Servers!FirstCalls(cs), cs, Inner, {})
BY ServersApi, CallIsShaped, BesideAdd, ThenAdd, OperationNames DEF Servers!FirstCalls,
    Servers!Reload, Inner

-----------------------------------------------------------------------------
(* What is known of the calls that no page's end forgets.                  *)

\* The handlers that outlive a page; the login form's does not while a page is
\* drawn.
Outer == Lasting \cup {"handleSubmit"}

\* What a page alone writes, of what it knows.
PageWrites == {"movePath", "writeFile", "putBackupSchedule", "patchSettings", "patchServer"}

\* A call of saveTheme: the theme it saves, or the one it has saved.
Saving(c) ==
    /\ c.op # "updateMe" => c.arg = [id |-> c.arg.id, seen |-> c.arg.seen]
    /\ \/ c.op \in {"createCustomTheme", "updateCustomTheme"} /\ (c.st = "ok" => c.val \in Customs)
       \/ c.op = "listCustomThemes" /\ c.arg.id \in Customs
       \/ c.op = "updateMe" /\ c.arg \in Customs
    /\ c.op = "updateCustomTheme" => c.arg.id \in Customs

KnownCall(h, c) ==
    /\ h \in Outer \cup {"connect"} => c.op \notin PageWrites
    /\ h \in {"connect", "closed", "delete"} => c.op \notin Shared
    /\ h = "loadUser" => c.op = "me" /\ (c.st = "ok" => c.val \in Theme!ThemeChoices)
    /\ h = "provider" => c.op \in {"updateMe", "listCustomThemes"}
    /\ h = "saveTheme" => Saving(c)
    /\ h = "removeTheme" => c.op \in {"deleteCustomTheme", "updateMe"}
    /\ h \in {"provider", "saveTheme"} /\ c.op = "listCustomThemes" /\ c.st = "ok"
         => c.val \subseteq Customs
    /\ h \in {"handleSubmit", "elsewhere"}
         => c.op = "login" /\ (c.st = "ok" => c.val \in 1..MaxTokens)

Known(cs) == \A x \in Sent(cs) : KnownCall(x[1], x[2])

\* The names that are not the same.
LEMMA OuterAndInner ==
    /\ Inner \cap Outer = {} /\ "connect" \notin Inner \cup Outer
    /\ Theme!Handlers \subseteq Lasting /\ Lasting \subseteq Outer
BY DEF Inner, Outer, Lasting, Theme!Handlers

\* One more known call.
LEMMA KnownAdd ==
    ASSUME NEW cs, Calls(cs), Known(cs), NEW h, NEW c, KnownCall(h, c)
    PROVE  Known(Add(cs, h, c))
<1>1. AddIs(Add(cs, h, c), cs, h, c)  BY AddKeeps DEF Calls
<1>2. \A x \in Sent(Add(cs, h, c)) : x \in Sent(cs) \/ x = <<h, c>>  BY <1>1 DEF AddIs
<1> QED  BY <1>2 DEF Known

\* One less.
LEMMA KnownWithout ==
    ASSUME Calls(calls), Known(calls), NEW i \in InFlight
    PROVE  Known(Without(i))
<1>1. WithoutIs(Without(i), calls, i[1])  BY WithoutKeeps DEF Calls
<1> QED  BY <1>1 DEF WithoutIs, Known

\* Some are forgotten.
LEMMA KnownForget ==
    ASSUME NEW cs, Calls(cs), Known(cs), NEW hs
    PROVE  Known(Forget(cs, hs))
<1>1. ForgetIs(Forget(cs, hs), cs, hs)  BY ForgetKeeps DEF Calls
<1> QED  BY <1>1 DEF ForgetIs, Known

\* One that is answered.
LEMMA KnownUpdate ==
    ASSUME Calls(calls), Known(calls), NEW i \in InFlight, NEW c, Update(i, c),
           KnownCall(i[1], c)
    PROVE  Known(calls')
<1>1. UpdateIs(calls', calls, i[1], c)  BY UpdateKeeps DEF Calls
<1>2. \A x \in Sent(calls') : x \in Sent(calls) \/ x = <<i[1], c>>  BY <1>1 DEF UpdateIs
<1> QED  BY <1>2 DEF Known

\* One handler's that are known of another go on under its name.
LEMMA KnownRename ==
    ASSUME NEW cs, Calls(cs), Known(cs), NEW h, NEW as, h # as,
           \A c : KnownCall(h, c) => KnownCall(as, c)
    PROVE  Known(Rename(cs, h, as))
<1>1. RenameIs(Rename(cs, h, as), cs, h, as)  BY RenameKeeps, Zenon DEF Calls
<1>2. ASSUME NEW x \in Sent(Rename(cs, h, as))  PROVE KnownCall(x[1], x[2])
  <2>1. x \in Sent(cs) \/ (x[1] = as /\ <<h, x[2]>> \in Sent(cs))  BY <1>1, Zenon DEF RenameIs
  <2>2. <<h, x[2]>> \in Sent(cs) => KnownCall(h, x[2])  BY DEF Known
  <2> QED  BY <2>1, <2>2, Zenon DEF Known
<1> QED  BY <1>2, Zenon DEF Known

\* The two that do.
LEMMA Renamed ==
    /\ \A c : KnownCall("connect", c) => KnownCall("closed", c)
    /\ \A c : KnownCall("handleSubmit", c) => KnownCall("elsewhere", c)
BY DEF KnownCall, Outer, Lasting, Theme!Handlers

\* What a page does besides leaves them known.
LEMMA KnownBeside ==
    ASSUME NEW cs, NEW ds, Known(cs), NEW hs, NEW ops, Beside(ds, cs, hs, ops),
           ops \cap Shared = {}, hs \subseteq Inner
    PROVE  Known(ds)
<1>1. ASSUME NEW x \in Sent(ds)  PROVE KnownCall(x[1], x[2])
  <2>1. CASE x[1] \in Inner  BY <2>1 DEF KnownCall, Inner, Outer, Lasting, Theme!Handlers
  <2>2. CASE x[1] \notin Inner
    <3>1. PICK y \in Sent(cs) : AsBefore(x, y, ops)  BY <2>2 DEF Beside
    <3>2. KnownCall(y[1], y[2])  BY DEF Known
    <3>3. x[2].op \in Shared => x[2].op \notin ops  OBVIOUS
    <3>4. Saving(y[2]) => Saving(x[2])  BY <3>1, <3>3 DEF AsBefore, Saving, Shared
    <3> QED  BY <3>1, <3>2, <3>3, <3>4 DEF AsBefore, KnownCall, Shared
  <2> QED  BY <2>1, <2>2
<1> QED  BY <1>1 DEF Known

\* A page's own steps, in short.
LEMMA KnownInside ==
    ASSUME Known(calls), Inside(calls')
    PROVE  Known(calls')
BY KnownBeside DEF Inside, PageOps

-----------------------------------------------------------------------------
(* The console, whose connect and delete may outlive it.                   *)

\* Console uses PanelApi.
LEMMA ConsoleApi ==
    /\ \A op, arg : Console!Call(op, arg) = Call(op, arg)
    /\ \A cs, h, c : Console!Add(cs, h, c) = Add(cs, h, c)
    /\ \A i : Console!Without(i) = Without(i)
    /\ \A i : Console!At(i) = At(i)
    /\ \A i, val : Console!Answer(i, val) => Answers(i)
    /\ \A i : Console!Reject(i) => Answers(i)
    /\ \A cs, h, as : Console!Rename(cs, h, as) = Rename(cs, h, as)
<1>1. \A op, arg : Console!Call(op, arg) = Call(op, arg)  BY DEF Console!Call, Call
<1>2. \A cs, h, c : Console!Add(cs, h, c) = Add(cs, h, c)
  BY DEF Console!Add, Add, Console!Put, Put, Console!Queue, Queue
<1>3. \A i : Console!Without(i) = Without(i)
  BY DEF Console!Without, Without, Console!Put, Put, Console!RemoveAt, RemoveAt
<1>4. \A i : Console!At(i) = At(i)  BY DEF Console!At, At
<1>5. \A i, val : Console!Answer(i, val) => Answers(i)
  BY Zenon DEF Console!Answer, Console!Update, Console!Answered, Console!At, Answers, Update,
    Answered, At
<1>6. \A i : Console!Reject(i) => Answers(i)
  BY Zenon DEF Console!Reject, Console!Update, Console!Answered, Console!At, Answers, Update,
    Answered, At
<1>7. \A cs, h, as : Console!Rename(cs, h, as) = Rename(cs, h, as)
  BY DEF Console!Rename, Rename, Console!Put, Put, Console!Queue, Queue
<1> QED  BY ONLY <1>1, <1>2, <1>3, <1>4, <1>5, <1>6, <1>7

ConsoleInner == Inner \cup {"connect", "closed", "delete"}

Plugged(ds) == Beside(ds, calls, ConsoleInner, PageOps) /\ Known(ds)

\* What the console does with its calls.
LEMMA PluggedSteps ==
    ASSUME token \in Tokens, Calls(calls), Known(calls)
    PROVE  /\ Plugged(calls)
           /\ \A i \in InFlight : i[1] \in ConsoleInner => Plugged(Without(i))
           /\ \A ds, h, op, arg :
                Plugged(ds) /\ h \in ConsoleInner
                  /\ op \in Operations /\ KnownCall(h, Call(op, arg))
                  => Plugged(Add(ds, h, Call(op, arg)))
           /\ \A ds : Plugged(ds) => Plugged(Rename(ds, "connect", "closed"))
<1>1. Plugged(calls)  BY BesideSteps DEF Plugged
<1>2. \A i \in InFlight : i[1] \in ConsoleInner => Plugged(Without(i))
  BY BesideSteps, KnownWithout DEF Plugged
<1>3. ASSUME NEW ds, NEW h, NEW op \in Operations, NEW arg, Plugged(ds), h \in ConsoleInner,
             KnownCall(h, Call(op, arg))
      PROVE  Plugged(Add(ds, h, Call(op, arg)))
  <2>1. Calls(ds)  BY <1>3 DEF Plugged, Beside
  <2>2. Known(Add(ds, h, Call(op, arg)))  BY <1>3, <2>1, KnownAdd DEF Plugged
  <2>3. Beside(Add(ds, h, Call(op, arg)), calls, ConsoleInner, PageOps)
    BY <1>3, BesideSteps, Zenon DEF Plugged
  <2> QED  BY <2>2, <2>3 DEF Plugged
<1>4. ASSUME NEW ds, Plugged(ds)  PROVE Plugged(Rename(ds, "connect", "closed"))
  <2>1. Calls(ds)  BY <1>4 DEF Plugged, Beside
  <2>2. Known(Rename(ds, "connect", "closed"))  BY <1>4, <2>1, KnownRename, Renamed DEF Plugged
  <2>3. Beside(Rename(ds, "connect", "closed"), calls, ConsoleInner, PageOps)
    BY <1>4, ThenRename DEF Plugged, ConsoleInner
  <2> QED  BY <2>2, <2>3 DEF Plugged
<1> QED  BY <1>1, <1>2, <1>3, <1>4, Zenon

\* The calls of the console are known ones.
LEMMA ConsoleAsks ==
    /\ \A arg : KnownCall("reload", Call("getServer", arg))
    /\ \A arg : KnownCall("connect", Call("consoleTicket", arg))
    /\ \A op, arg : KnownCall("change", Call(op, arg))
    /\ \A arg : KnownCall("delete", Call("deleteServer", arg))
BY CallIsShaped DEF KnownCall, Outer, Lasting, Theme!Handlers, PageWrites, Shared

\* The console at the daemon, whose answers are its own.
LEMMA ConsoleServes ==
    ASSUME Calls(calls), NEW i \in InFlight, Console!Serve(i)
    PROVE  Inside(calls')
<1>1. Answers(i) /\ At(i).op \notin Shared
  BY ConsoleApi DEF Console!Serve, Console!ServeDelete, Console!ServeOther, Console!Asked,
    Shared
<1> QED  BY <1>1, AnswersAreInside

\* The console when another status is drawn.
LEMMA ConsoleDraws ==
    ASSUME token \in Tokens, Calls(calls), Known(calls), NEW status, NEW cs, Plugged(cs), NEW ss,
           Console!Draw(status, cs, ss)
    PROVE  Plugged(calls')
<1>1. \/ calls' = Add(cs, "connect", Call("consoleTicket", None))
      \/ calls' = Rename(cs, "connect", "closed")
      \/ calls' = cs
  BY ConsoleApi DEF Console!Draw, Console!Closed
<1> QED  BY <1>1, PluggedSteps, ConsoleAsks, OperationNames DEF ConsoleInner

\* The console when an answer comes.
LEMMA ConsoleGoesOn ==
    ASSUME token \in Tokens, Calls(calls), Known(calls), NEW i \in InFlight, Console!Settle(i)
    PROVE  Plugged(calls')
<1>1. i[1] \in ConsoleInner
  BY DEF Console!Settle, Console!SettleReload, Console!SettleConnect, Console!SettleOther,
    Console!Replied, Console!Failed, Console!Ended, ConsoleInner, Inner
<1>2. Plugged(Without(i))  BY <1>1, PluggedSteps
<1>3. \/ calls' = Without(i)
      \/ Console!Draw(Console!At(i).val, Without(i), sockets)
  BY ConsoleApi DEF Console!Settle, Console!SettleReload, Console!SettleConnect,
    Console!SettleOther
<1> QED  BY <1>2, <1>3, ConsoleDraws

\* The console when the user, a timer or a socket acts.
LEMMA ConsoleActs ==
    ASSUME token \in Tokens, Calls(calls), Known(calls), Console!Next
    PROVE  Plugged(calls')
<1>1. CASE Console!Tick \/ Console!Command \/ Console!Delete
  BY <1>1, ConsoleApi, PluggedSteps, ConsoleAsks, OperationNames
  DEF Console!Tick, Console!Command, Console!Delete, Console!Ask, ConsoleInner, Inner
<1>2. CASE Console!HostMoves  BY <1>2, PluggedSteps DEF Console!HostMoves
<1>3. CASE \E action \in Console!Powers : Console!Power(action)
  BY <1>3, ConsoleApi, PluggedSteps, ConsoleAsks, OperationNames
  DEF Console!Power, Console!Ask, ConsoleInner, Inner
<1>4. ASSUME NEW n \in DOMAIN sockets, Console!Opens(n) \/ Console!Hears(n) \/ Console!Ends(n)
      PROVE  Plugged(calls')
  <2>1. CASE Console!Opens(n) \/ Console!Ends(n)
    BY <2>1, PluggedSteps DEF Console!Opens, Console!Ends
  <2>2. CASE Console!Hears(n)  BY <2>2, PluggedSteps, ConsoleDraws DEF Console!Hears
  <2> QED  BY <1>4, <2>1, <2>2
<1> QED  BY <1>1, <1>2, <1>3, <1>4 DEF Console!Next

\* The console when it is mounted.
LEMMA ConsoleOpens ==
    ASSUME token \in Tokens, NEW cs, Calls(cs)
    PROVE  Beside(Console!FirstCalls(cs), cs, Inner, {})
BY ConsoleApi, CallIsShaped, BesideAdd, OperationNames DEF Console!FirstCalls, Inner

-----------------------------------------------------------------------------
(* The theme and the session, which outlive the pages.                     *)

Around == Lasting \cup (IF auth = "in" THEN {} ELSE {"handleSubmit"})

Aside(ds) == Beside(ds, calls, Around, Shared) /\ Known(ds)

\* What the session and the theme do with the calls.
LEMMA AsideSteps ==
    ASSUME token \in Tokens, Calls(calls), Known(calls)
    PROVE  /\ Aside(calls)
           /\ \A i \in InFlight : i[1] \in Around => Aside(Without(i))
           /\ \A ds, h, op, arg :
                Aside(ds) /\ h \in Around /\ op \in Operations /\ KnownCall(h, Call(op, arg))
                  => Aside(Add(ds, h, Call(op, arg)))
           /\ \A i \in InFlight, st \in {"ok", "err"} : \A val :
                /\ Update(i, Answered(At(i), st, val))
                /\ st # "ok" \/ At(i).op \in Shared \/ i[1] \in Around
                /\ KnownCall(i[1], Answered(At(i), st, val))
                => Aside(calls')
<1>1. Aside(calls)  BY BesideSteps DEF Aside
<1>2. \A i \in InFlight : i[1] \in Around => Aside(Without(i))
  BY BesideSteps, KnownWithout, Zenon DEF Aside
<1>3. ASSUME NEW ds, NEW h, NEW op \in Operations, NEW arg, Aside(ds), h \in Around,
             KnownCall(h, Call(op, arg))
      PROVE  Aside(Add(ds, h, Call(op, arg)))
  <2>1. Calls(ds)  BY <1>3 DEF Aside, Beside
  <2>2. Known(Add(ds, h, Call(op, arg)))  BY <1>3, <2>1, KnownAdd DEF Aside
  <2>3. Beside(Add(ds, h, Call(op, arg)), calls, Around, Shared)
    BY <1>3, BesideSteps, Zenon DEF Aside
  <2> QED  BY <2>2, <2>3 DEF Aside
<1>4. ASSUME NEW i \in InFlight, NEW st \in {"ok", "err"}, NEW val,
             Update(i, Answered(At(i), st, val)),
             st # "ok" \/ At(i).op \in Shared \/ i[1] \in Around,
             KnownCall(i[1], Answered(At(i), st, val))
      PROVE  Aside(calls')
  BY <1>4, BesideAnswer, KnownUpdate, Zenon DEF Aside
<1> QED  BY <1>1, <1>2, <1>3, <1>4, Zenon

\* A call that is in flight is shaped and known.
LEMMA InFlightIsKnown ==
    ASSUME Calls(calls), Known(calls), NEW i \in InFlight
    PROVE  Shaped(At(i)) /\ KnownCall(i[1], At(i))
<1>1. <<i[1], At(i)>> \in Sent(calls)  BY AtIsSent
<1> QED  BY <1>1 DEF Calls, Known

\* Theme uses PanelApi.
LEMMA ThemeApi ==
    /\ \A op, arg : Theme!Call(op, arg) = Call(op, arg)
    /\ \A cs, h, c : Theme!Add(cs, h, c) = Add(cs, h, c)
    /\ \A i : Theme!Without(i) = Without(i)
    /\ \A i : Theme!At(i) = At(i)
    /\ \A i, val : Theme!Answer(i, val) => Answers(i)
    /\ \A i : Theme!Reject(i) => Answers(i)
<1>1. \A op, arg : Theme!Call(op, arg) = Call(op, arg)  BY DEF Theme!Call, Call
<1>2. \A cs, h, c : Theme!Add(cs, h, c) = Add(cs, h, c)
  BY DEF Theme!Add, Add, Theme!Put, Put, Theme!Queue, Queue
<1>3. \A i : Theme!Without(i) = Without(i)
  BY DEF Theme!Without, Without, Theme!Put, Put, Theme!RemoveAt, RemoveAt
<1>4. \A i : Theme!At(i) = At(i)  BY DEF Theme!At, At
<1>5. \A i, val : Theme!Answer(i, val) => Answers(i)
  BY Zenon DEF Theme!Answer, Theme!Update, Theme!Answered, Theme!At, Answers, Update,
    Answered, At
<1>6. \A i : Theme!Reject(i) => Answers(i)
  BY Zenon DEF Theme!Reject, Theme!Update, Theme!Answered, Theme!At, Answers, Update,
    Answered, At
<1> QED  BY ONLY <1>1, <1>2, <1>3, <1>4, <1>5, <1>6

\* What an answer leaves known.
LEMMA KnownAnswer ==
    ASSUME NEW h, NEW c, Shaped(c), KnownCall(h, c), NEW st, NEW val,
           st = "ok" => /\ c.op = "me" => val \in Theme!ThemeChoices
                        /\ c.op = "listCustomThemes" => val \subseteq Customs
                        /\ c.op \in {"createCustomTheme", "updateCustomTheme"} => val \in Customs
                        /\ c.op = "login" => val \in 1..MaxTokens
    PROVE  KnownCall(h, Answered(c, st, val))
<1> DEFINE d == Answered(c, st, val)
<1>1. d.op = c.op /\ d.arg = c.arg /\ d.st = st /\ d.val = val  BY AnswerIsShaped
<1> HIDE DEF d
<1>2. Saving(c) => Saving(d)  BY <1>1 DEF Saving
<1>3. KnownCall(h, d)  BY <1>1, <1>2 DEF KnownCall
<1> QED  BY <1>3 DEF d

\* Theme at the daemon.
LEMMA ThemeServes ==
    ASSUME token \in Tokens, Calls(calls), Known(calls), NEW i \in InFlight, Theme!Serve(i)
    PROVE  Aside(calls')
<1>1. i[1] \in Theme!Handlers  BY DEF Theme!Serve
<1>2. i[1] \in Around  BY <1>1, OuterAndInner DEF Around
<1>3. Shaped(At(i)) /\ KnownCall(i[1], At(i))  BY InFlightIsKnown
<1>4. At(i).op = "updateCustomTheme" => At(i).arg.id \in Customs
  BY <1>1, <1>3 DEF KnownCall, Saving, Theme!Handlers
<1>5. PICK st, val :
        /\ st \in {"ok", "err"} /\ Update(i, Answered(At(i), st, val))
        /\ st = "ok" => /\ At(i).op = "me" => val \in Theme!ThemeChoices
                        /\ At(i).op = "listCustomThemes" => val \subseteq Customs
                        /\ At(i).op \in {"createCustomTheme", "updateCustomTheme"}
                             => val \in Customs
                        /\ At(i).op # "login"
  <2>1. \/ \E val :
             /\ Theme!Answer(i, val)
             /\ At(i).op \notin {"me", "login"}
             /\ At(i).op = "listCustomThemes" => val \subseteq Customs
             /\ At(i).op \in {"createCustomTheme", "updateCustomTheme"} => val \in Customs
        \/ Theme!Reject(i)
    BY <1>4, ThemeApi DEF Theme!Serve, Theme!Asked
  <2>2. \A val : Theme!Answer(i, val) => Update(i, Answered(At(i), "ok", val))
    BY Zenon DEF Theme!Answer, Theme!Update, Theme!Answered, Theme!At, Update, Answered, At
  <2>3. Theme!Reject(i) => Update(i, Answered(At(i), "err", None))
    BY Zenon DEF Theme!Reject, Theme!Update, Theme!Answered, Theme!At, Update, Answered, At
  <2> QED  BY <2>1, <2>2, <2>3
<1>6. KnownCall(i[1], Answered(At(i), st, val))  BY <1>3, <1>5, KnownAnswer
<1> QED  BY <1>2, <1>5, <1>6, AsideSteps

\* A choice that is applied paints no preview.
LEMMA ChoicePaints ==
    ASSUME Theme!LookType, NEW choice \in Theme!ThemeChoices
    PROVE  /\ \A seen : Theme!Apply(choice, seen) \in Theme!ThemeChoices
           /\ \A customs \in SUBSET Customs :
                 LET l == Theme!Loaded(customs, choice) IN
                   /\ l \in [choice : Theme!ThemeChoices, customs : SUBSET Customs,
                             painted : Theme!ThemeChoices]
           /\ \A seen : Theme!Chosen(choice, seen) \in
                   [choice : Theme!ThemeChoices, customs : SUBSET Customs,
                             painted : Theme!ThemeChoices]
           /\ Theme!Preview \notin Theme!ThemeChoices
<1>1. \A seen : Theme!Apply(choice, seen) \in Theme!ThemeChoices
  BY DEF Theme!Apply, Theme!ThemeChoices, Theme!Builtin
<1>2. Theme!Preview \notin Theme!ThemeChoices
  BY ThemeAssumption DEF Theme!ThemeChoices, Theme!Builtin, Theme!Preview, Theme!System
<1> HIDE DEF Theme!Apply
<1>3. ASSUME NEW customs \in SUBSET Customs
      PROVE  Theme!Loaded(customs, choice) \in
               [choice : Theme!ThemeChoices, customs : SUBSET Customs,
                painted : Theme!ThemeChoices]
  BY <1>1 DEF Theme!Loaded
<1>4. ASSUME NEW seen
      PROVE  Theme!Chosen(choice, seen) \in
               [choice : Theme!ThemeChoices, customs : SUBSET Customs,
                painted : Theme!ThemeChoices]
  BY <1>1 DEF Theme!Chosen, Theme!LookType
<1> QED  BY <1>1, <1>2, <1>3, <1>4

Look(l) ==
    l \in [choice : Theme!ThemeChoices, customs : SUBSET Customs,
           painted : Theme!ThemeChoices \cup {Theme!Preview}]

\* A step that paints no preview itself.
PaintsNone == Look(look') /\ (look'.painted = Theme!Preview => look.painted = Theme!Preview)

\* A choice that was never a preview paints none.
LEMMA ChoicePaintsNone ==
    ASSUME Theme!LookType, NEW choice \in Theme!ThemeChoices
    PROVE  /\ \A seen : look' = Theme!Chosen(choice, seen) => PaintsNone
           /\ \A customs \in SUBSET Customs : look' = Theme!Loaded(customs, choice) => PaintsNone
           /\ look' = Theme!Adopt(choice) => PaintsNone
           /\ look' = look => PaintsNone
<1> DEFINE Plain == [choice : Theme!ThemeChoices, customs : SUBSET Customs,
                     painted : Theme!ThemeChoices]
<1>1. look' \in Plain => PaintsNone
  BY ChoicePaints DEF PaintsNone, Look
<1>2. look' = look => PaintsNone  BY DEF PaintsNone, Look, Theme!LookType
<1>3. \A seen : Theme!Chosen(choice, seen) \in Plain  BY ChoicePaints
<1>4. \A customs \in SUBSET Customs : Theme!Loaded(customs, choice) \in Plain  BY ChoicePaints
<1> HIDE DEF Plain
<1>5. look' = Theme!Adopt(choice) => PaintsNone  BY <1>1, <1>2, <1>3 DEF Theme!Adopt
<1> QED  BY <1>1, <1>2, <1>3, <1>4, <1>5

\* Theme when an answer to saveTheme comes.
LEMMA ThemeSaves ==
    ASSUME token \in Tokens, Calls(calls), Known(calls), Theme!LookType,
           NEW i \in InFlight, Theme!SettleSave(i)
    PROVE  Aside(calls') /\ PaintsNone
<1> DEFINE c == At(i)
<1>1. i[1] = "saveTheme"
  BY DEF Theme!SettleSave, Theme!Replied, Theme!Failed, Theme!Ended
<1>2. Shaped(c) /\ KnownCall("saveTheme", c)  BY <1>1, InFlightIsKnown
<1>3. Saving(c)  BY <1>2 DEF KnownCall
<1>4. "saveTheme" \in Around  BY OuterAndInner DEF Around, Theme!Handlers
<1>5. Aside(Without(i))  BY <1>1, <1>4, AsideSteps
<1>6. \A h : Theme!Replied(i, h) => c.st = "ok"  BY ThemeApi DEF Theme!Replied
<1>7. \A op \in Operations : \A arg :
        KnownCall("saveTheme", Call(op, arg)) => Aside(Add(Without(i), "saveTheme", Call(op, arg)))
  BY <1>4, <1>5, AsideSteps
<1>8. CASE Theme!Replied(i, "saveTheme") /\ c.op \in Theme!ThemeCalls.writes /\ UNCHANGED look
            /\ calls' = Theme!LoadThemes(Theme!Without(i), "saveTheme",
                                         [c.arg EXCEPT !.id = c.val])
  <2>1. c.op \in {"createCustomTheme", "updateCustomTheme"}
    BY <1>3, <1>8 DEF Saving, Theme!ThemeCalls
  <2>2. c.val \in Customs  BY <1>3, <1>6, <1>8, <2>1 DEF Saving
  <2>3. c.arg = [id |-> c.arg.id, seen |-> c.arg.seen]  BY <1>3, <2>1 DEF Saving
  <2> DEFINE arg == [c.arg EXCEPT !.id = c.val]
  <2>4. arg = [id |-> c.val, seen |-> c.arg.seen]  BY <2>3
  <2> HIDE DEF arg
  <2>5. KnownCall("saveTheme", Call("listCustomThemes", arg))
    BY <2>2, <2>4, CallIsShaped DEF KnownCall, Saving, Outer, Lasting, Theme!Handlers, PageWrites
  <2>6. calls' = Add(Without(i), "saveTheme", Call("listCustomThemes", arg))
    BY <1>8, ThemeApi DEF Theme!LoadThemes, arg
  <2> QED
    BY <1>7, <1>8, <2>5, <2>6, OperationNames, ChoicePaintsNone
    DEF Theme!ThemeChoices, Theme!Builtin
<1>9. CASE UNCHANGED look /\ calls' = Theme!Without(i)
  BY <1>5, <1>9, ThemeApi, ChoicePaintsNone DEF Theme!ThemeChoices, Theme!Builtin
<1>10. CASE /\ c.op = "listCustomThemes"
            /\ calls' = Theme!Add(Theme!Without(i), "saveTheme",
                                  Theme!Call("updateMe", c.arg.id))
            /\ \/ Theme!Replied(i, "saveTheme") /\ look' = Theme!Loaded(c.val, c.arg.id)
               \/ Theme!Failed(i, "saveTheme") /\ look' = Theme!Chosen(c.arg.id, c.arg.seen)
  <2>1. c.arg.id \in Customs  BY <1>3, <1>10 DEF Saving
  <2>2. KnownCall("saveTheme", Call("updateMe", c.arg.id))
    BY <2>1, CallIsShaped DEF KnownCall, Saving, Outer, Lasting, Theme!Handlers, PageWrites
  <2>3. calls' = Add(Without(i), "saveTheme", Call("updateMe", c.arg.id))
    BY <1>10, ThemeApi
  <2>4. Theme!Replied(i, "saveTheme") => c.val \in SUBSET Customs
    BY <1>2, <1>6, <1>10 DEF KnownCall
  <2>5. c.arg.id \in Theme!ThemeChoices  BY <2>1 DEF Theme!ThemeChoices
  <2>6. PaintsNone  BY <1>10, <2>4, <2>5, ChoicePaintsNone
  <2> QED  BY <1>7, <2>2, <2>3, <2>6, OperationNames
<1> QED  BY <1>8, <1>9, <1>10, ThemeApi DEF Theme!SettleSave

\* Theme when an answer to removeTheme or to the provider comes.
LEMMA ThemeRemoves ==
    ASSUME token \in Tokens, Calls(calls), Known(calls), Theme!LookType,
           NEW i \in InFlight,
           Theme!SettleDelete(i) \/ Theme!SettleProvider(i)
    PROVE  Aside(calls') /\ PaintsNone
<1> DEFINE c == At(i)
<1>1. i[1] \in {"removeTheme", "provider"}
  BY DEF Theme!SettleDelete, Theme!SettleProvider, Theme!Replied, Theme!Got, Theme!Failed,
    Theme!Ended
<1>2. KnownCall(i[1], c)  BY InFlightIsKnown
<1>3. {"removeTheme", "provider"} \subseteq Around
  BY OuterAndInner DEF Around, Theme!Handlers
<1>4. Aside(Without(i))  BY <1>1, <1>3, AsideSteps
<1>5. /\ KnownCall("removeTheme", Call("updateMe", None))
      /\ KnownCall("provider", Call("listCustomThemes", None))
  BY CallIsShaped DEF KnownCall, Outer, Lasting, Theme!Handlers, PageWrites
<1>6. /\ Aside(Add(Without(i), "removeTheme", Call("updateMe", None)))
      /\ Aside(Add(Without(i), "provider", Call("listCustomThemes", None)))
  BY <1>3, <1>4, <1>5, AsideSteps, OperationNames
<1>7. \/ calls' = Without(i)
      \/ calls' = Add(Without(i), "removeTheme", Call("updateMe", None))
      \/ calls' = Add(Without(i), "provider", Call("listCustomThemes", None))
  BY ThemeApi DEF Theme!SettleDelete, Theme!SettleProvider, Theme!LoadThemes
<1>8. "dark" \in Theme!ThemeChoices /\ look.choice \in Theme!ThemeChoices
  BY DEF Theme!ThemeChoices, Theme!Builtin, Theme!LookType
<1>9. \/ look' = look
      \/ \E seen : look' = Theme!Chosen("dark", seen)
      \/ /\ i[1] = "provider" /\ c.st = "ok" /\ c.op = "listCustomThemes"
         /\ look' = Theme!Loaded(c.val, look.choice)
  BY ThemeApi DEF Theme!SettleDelete, Theme!SettleProvider, Theme!Got, Theme!Replied
<1>10. i[1] = "provider" /\ c.st = "ok" /\ c.op = "listCustomThemes" => c.val \in SUBSET Customs
  BY <1>2 DEF KnownCall
<1>11. PaintsNone  BY <1>8, <1>9, <1>10, ChoicePaintsNone
<1> QED  BY <1>4, <1>6, <1>7, <1>11

\* Theme when an answer comes: it draws where its page is, and nowhere else.
LEMMA ThemeGoesOn ==
    ASSUME token \in Tokens, Calls(calls), Known(calls), Theme!LookType,
           NEW i \in InFlight, Theme!Settle(i)
    PROVE  /\ Aside(calls') /\ PaintsNone
           /\ page # "theme" => view' = view
           /\ Theme!Types => Theme!Types'
<1>1. Aside(calls') /\ PaintsNone  BY ThemeSaves, ThemeRemoves DEF Theme!Settle
<1>2. ASSUME page # "theme"  PROVE view' = view
  BY <1>2 DEF Theme!Settle, Theme!SettleSave, Theme!SettleDelete, Theme!SettleProvider,
    Theme!Here
<1>3. i[1] = "saveTheme" /\ At(i).op = "updateMe" => At(i).arg \in Customs
  BY InFlightIsKnown DEF KnownCall, Saving
<1>4. \/ view' = view
      \/ view' = [view EXCEPT !.busy = FALSE]
      \/ view' = [view EXCEPT !.busy = FALSE, !.editing = At(i).arg] /\ At(i).arg \in Customs
      \/ view' = [view EXCEPT !.editing = IF @ = At(i).arg.id THEN None ELSE @]
      \/ view' = [view EXCEPT !.editing = None]
  <2>1. CASE Theme!SettleSave(i)
    BY <1>3, <2>1, ThemeApi DEF Theme!SettleSave, Theme!Here, Theme!Ended, Theme!Replied,
      Theme!Failed
  <2>2. CASE Theme!SettleDelete(i)  BY <2>2, ThemeApi DEF Theme!SettleDelete, Theme!Here
  <2>3. CASE Theme!SettleProvider(i)  BY <2>3 DEF Theme!SettleProvider
  <2> QED  BY <2>1, <2>2, <2>3 DEF Theme!Settle
<1>5. Theme!Types => Theme!Types'  BY <1>4 DEF Theme!Types
<1> QED  BY <1>1, <1>2, <1>5

\* A choice is applied and saved.
LEMMA ThemeChooses ==
    ASSUME token \in Tokens, Calls(calls), Known(calls), Theme!LookType,
           NEW choice \in Theme!ThemeChoices,
           Theme!SetChoice(choice)
    PROVE  Aside(calls') /\ PaintsNone /\ view' = view
<1>1. KnownCall("provider", Call("updateMe", None))
  BY CallIsShaped DEF KnownCall, Outer, Lasting, Theme!Handlers, PageWrites
<1>2. calls' = Add(calls, "provider", Call("updateMe", None))
  BY ThemeApi DEF Theme!SetChoice, Theme!Ask
<1>3. "provider" \in Around  BY OuterAndInner DEF Around, Theme!Handlers
<1>4. Aside(calls')  BY <1>1, <1>2, <1>3, AsideSteps, OperationNames
<1>5. look' = Theme!Chosen(choice, look.customs) /\ view' = view  BY DEF Theme!SetChoice
<1> QED  BY <1>4, <1>5, ChoicePaintsNone

\* The theme button.
LEMMA ThemeToggles ==
    ASSUME token \in Tokens, Calls(calls), Known(calls), Theme!LookType, Theme!Toggle
    PROVE  Aside(calls') /\ PaintsNone /\ view' = view
<1>1. PICK choice \in Theme!ThemeChoices : Theme!SetChoice(choice)
  BY DEF Theme!Toggle, Theme!ThemeChoices, Theme!Builtin
<1> QED  BY <1>1, ThemeChooses

\* The section of the themes when the user acts.
LEMMA ThemeActs ==
    ASSUME token \in Tokens, Calls(calls), Known(calls), Theme!LookType, Theme!Types, Theme!Next
    PROVE  Aside(calls') /\ Look(look') /\ Theme!Types'
<1>1. Look(look)  BY DEF Look, Theme!LookType
<1>2. CASE Theme!PickTheme
  <2>1. PICK choice \in Theme!ThemeChoices : Theme!SetChoice(choice)
    BY <1>2 DEF Theme!PickTheme, Theme!ThemeChoices, Theme!LookType
  <2> QED  BY <2>1, ThemeChooses DEF PaintsNone, Theme!Types
<1>3. CASE Theme!Edit
  BY <1>1, <1>3, AsideSteps DEF Theme!Edit, Theme!Previewed, Theme!Types, Look
<1>4. CASE Theme!Save
  <2> DEFINE op == IF view.editing = None THEN "createCustomTheme" ELSE "updateCustomTheme"
             arg == [id |-> view.editing, seen |-> look.customs]
  <2>1. KnownCall("saveTheme", Call(op, arg))
    BY CallIsShaped DEF KnownCall, Saving, Outer, Lasting, Theme!Handlers, PageWrites, Theme!Types
  <2>2. calls' = Add(calls, "saveTheme", Call(op, arg))
    BY <1>4, ThemeApi DEF Theme!Save, Theme!Ask
  <2>3. "saveTheme" \in Around  BY OuterAndInner DEF Around, Theme!Handlers
  <2>4. Aside(calls')  BY <2>1, <2>2, <2>3, AsideSteps, OperationNames
  <2> QED  BY <1>1, <1>4, <2>4 DEF Theme!Save, Theme!Types
<1>5. CASE Theme!Delete
  <2>1. PICK arg : calls' = Add(calls, "removeTheme", Call("deleteCustomTheme", arg))
    BY <1>5, ThemeApi DEF Theme!Delete, Theme!Ask
  <2>2. KnownCall("removeTheme", Call("deleteCustomTheme", arg))
    BY CallIsShaped DEF KnownCall, Outer, Lasting, Theme!Handlers, PageWrites
  <2>3. "removeTheme" \in Around  BY OuterAndInner DEF Around, Theme!Handlers
  <2>4. Aside(calls')  BY <2>1, <2>2, <2>3, AsideSteps, OperationNames
  <2> QED  BY <1>1, <1>5, <2>4 DEF Theme!Delete, Theme!Types
<1>6. CASE Theme!SystemChanges
  BY <1>1, <1>6, AsideSteps DEF Theme!SystemChanges, Theme!Types, Theme!ThemeChoices, Look
<1> QED  BY <1>2, <1>3, <1>4, <1>5, <1>6 DEF Theme!Next

-----------------------------------------------------------------------------
(* A step of the tab is one of four.                                       *)

\* What the session and the bound on faults allow.
Held == token \in Tokens /\ faults \in 0..MaxFaults

\* What holds of every page: nothing is in flight that the page it belonged to
\* is not there for, no socket is left, and no preview painted.
AppInv ==
    /\ auth \in {"checking", "anonymous", "in"}
    /\ page \in Pages \cup {"login"}
    /\ auth = "in" => page \in Pages
    /\ Held
    /\ Calls(calls) /\ Known(calls)
    /\ auth # "in" => DOMAIN calls \subseteq Outer
    /\ auth = "in" => "handleSubmit" \notin DOMAIN calls
    /\ sockets = <<>> \/ \E s : sockets = <<s>>
    /\ sockets # <<>> => auth = "in" /\ page = "console"
    /\ Theme!LookType
    /\ look.painted = Theme!Preview => auth = "in" /\ page \in Sections
    /\ auth = "in" /\ page = "theme" => Theme!Types

\* A page's own step.
PageStep ==
    \/ /\ On("servers") /\ UNCHANGED <<sockets, look>>
       /\ Servers!Next \/ \E i \in InFlight : Servers!Serve(i) \/ Servers!Settle(i)
    \/ /\ On("console") /\ UNCHANGED look
       /\ Console!Next \/ \E i \in InFlight : Console!Serve(i) \/ Console!Settle(i)
    \/ On("theme") /\ UNCHANGED sockets /\ Theme!Next
    \/ /\ On("files") /\ UNCHANGED <<sockets, look>>
       /\ Files!Next \/ \E i \in InFlight : Files!Serve(i) \/ Files!Settle(i)
    \/ /\ On("catalog") /\ UNCHANGED <<sockets, look>>
       /\ Catalog!Next \/ \E i \in InFlight : Catalog!Serve(i) \/ Catalog!Settle(i)
    \/ /\ On("modpacks") /\ UNCHANGED <<sockets, look>>
       /\ Modpacks!Next \/ \E i \in InFlight : Modpacks!Serve(i) \/ Modpacks!Settle(i)
    \/ /\ On("backups") /\ UNCHANGED <<sockets, look>>
       /\ Backups!Next \/ \E i \in InFlight : Backups!Serve(i) \/ Backups!Settle(i)
    \/ /\ On("connect") /\ UNCHANGED <<sockets, look>>
       /\ Connect!Next \/ \E i \in InFlight : Connect!Serve(i) \/ Connect!Settle(i)
    \/ /\ On("properties") /\ UNCHANGED <<sockets, look>>
       /\ Properties!Next \/ \E i \in InFlight : Properties!Serve(i) \/ Properties!Settle(i)
    \/ /\ On("options") /\ UNCHANGED <<sockets, look>>
       /\ Options!Next \/ \E i \in InFlight : Options!Serve(i) \/ Options!Settle(i)
    \/ /\ On("links") /\ UNCHANGED <<sockets, look>>
       /\ Links!Next \/ \E i \in InFlight : Links!Serve(i) \/ Links!Settle(i)
    \/ /\ On("bots") /\ UNCHANGED <<sockets, look>>
       /\ Bots!Next \/ \E i \in InFlight : Bots!Serve(i) \/ Bots!Settle(i)
    \/ /\ On("admin") /\ UNCHANGED <<sockets, look>>
       /\ Admin!Next \/ \E i \in InFlight : Admin!Serve(i) \/ Admin!Settle(i)

\* A step of the session or the theme that leaves the page alone.
AsideStep ==
    /\ Aside(calls') /\ PaintsNone
    /\ UNCHANGED <<page, auth, sockets>>
    /\ auth = "in" => /\ page # "theme" => UNCHANGED <<view, host>>
                      /\ page = "theme" => Theme!Types'

\* What may be in flight when a page is entered.
Fit(cs) == Calls(cs) /\ Known(cs) /\ DOMAIN cs \subseteq Lasting

EnterStep ==
    /\ \E p \in Pages : /\ \E cs : Fit(cs) /\ Enter(p, cs)
                        /\ look'.painted = Theme!Preview => p \in Sections
    /\ auth' = "in" /\ sockets' = <<>> /\ Look(look')

SignOutStep ==
    /\ auth' = "anonymous" /\ page' = "login"
    /\ Calls(calls') /\ Known(calls') /\ DOMAIN calls' \subseteq Outer
    /\ sockets' = <<>> /\ Look(look') /\ look'.painted # Theme!Preview

\* What a page leaves in flight.
LEMMA LeftIsFit ==
    ASSUME NEW cs, Calls(cs), Known(cs)
    PROVE  Fit(Left(cs))
<1> DEFINE ds == Rename(cs, "connect", "closed")
           es == Forget(ds, DOMAIN cs \ Lasting)
<1>1. RenameIs(ds, cs, "connect", "closed")  BY RenameKeeps DEF Calls
<1>2. Beside(ds, cs, {"connect", "closed"}, {})  BY BesideRename
<1>3. Calls(ds) /\ Known(ds)  BY <1>2, KnownRename, Renamed DEF Beside
<1> HIDE DEF ds
<1>4. ForgetIs(es, ds, DOMAIN cs \ Lasting)  BY <1>3, ForgetKeeps DEF Calls
<1>5. Beside(es, ds, DOMAIN cs \ Lasting, {})  BY <1>3, BesideForget
<1>6. Known(es)  BY <1>3, KnownForget
<1> HIDE DEF es
<1>7. DOMAIN es \subseteq Lasting
  BY <1>1, <1>4 DEF RenameIs, ForgetIs, Lasting
<1>8. Left(cs) = es
  BY ConsoleApi DEF Left, Console!Closed, ds, es
<1> QED  BY <1>5, <1>6, <1>7, <1>8 DEF Beside, Fit

\* One socket, and none.
LEMMA OneSocket ==
    ASSUME NEW s
    PROVE  /\ SubSeq(<<s>>, 1, 0) = <<>> /\ Len(<<s>>) = 1 /\ DOMAIN <<s>> = {1}
           /\ RemoveAt(<<s>>, 1) = <<>> /\ Append(<<>>, s) = <<s>>
           /\ \A t : [<<s>> EXCEPT ![1] = t] = <<t>>
           /\ \A f : f = [n \in DOMAIN <<s>> |-> f[n]] => f = <<f[1]>>
<1>1. SubSeq(<<s>>, 1, 0) = <<>>
  <2>1. SubSeq(<<s>>, 1, 0) \in Seq({s}) /\ Len(SubSeq(<<s>>, 1, 0)) = 0
    BY SubSeqProperties
  <2> QED  BY <2>1, EmptySeq
<1>2. RemoveAt(<<s>>, 1) = <<>>
  <2>1. SubSeq(<<s>>, 2, 1) \in Seq({s}) /\ Len(SubSeq(<<s>>, 2, 1)) = 0
    BY SubSeqProperties
  <2>2. SubSeq(<<s>>, 2, 1) = <<>>  BY <2>1, EmptySeq
  <2>3. RemoveAt(<<s>>, 1) = SubSeq(<<s>>, 1, 0) \o SubSeq(<<s>>, 2, 1)  BY DEF RemoveAt
  <2> QED  BY <1>1, <2>2, <2>3, ConcatEmptySeq, EmptySeq
<1>3. ASSUME NEW f, f = [n \in DOMAIN <<s>> |-> f[n]]  PROVE f = <<f[1]>>
  <2>1. DOMAIN <<s>> = {1}  OBVIOUS
  <2>2. f = [n \in {1} |-> f[n]]  BY <1>3, <2>1
  <2>3. <<f[1]>> = [n \in {1} |-> f[n]]  OBVIOUS
  <2> QED  BY <2>2, <2>3
<1>4. \A t : [<<s>> EXCEPT ![1] = t] = <<t>>  OBVIOUS
<1> QED  BY <1>1, <1>2, <1>3, <1>4

\* A page that is left hangs up, and paints the theme that was chosen.
LEMMA LeavesTheme ==
    ASSUME AppInv
    PROVE  HungUp = <<>> /\ Look(Unpainted) /\ Unpainted.painted # Theme!Preview
<1>1. HungUp = <<>>
  <2>1. CASE sockets = <<>>  BY <2>1 DEF HungUp, Console!CloseRef
  <2>2. ASSUME NEW s, sockets = <<s>>  PROVE HungUp = <<>>
    <3>1. Console!RemoveAt(<<s>>, 1) = <<>>  BY OneSocket DEF Console!RemoveAt, RemoveAt
    <3>2. Len(<<s>>) = 1  BY OneSocket
    <3>3. sockets # <<>> /\ page = "console"  BY <2>2 DEF AppInv
    <3> QED  BY <2>2, <3>1, <3>2, <3>3 DEF HungUp, Console!CloseRef
  <2> QED  BY <2>1, <2>2 DEF AppInv
<1>2. CASE page \in Sections
  <2>1. look.choice \in Theme!ThemeChoices  BY DEF AppInv, Theme!LookType
  <2>2. /\ Theme!Apply(look.choice, view.seen) \in Theme!ThemeChoices
        /\ Theme!Preview \notin Theme!ThemeChoices
    BY <2>1, ChoicePaints DEF AppInv
  <2> QED  BY <1>1, <1>2, <2>2 DEF AppInv, Unpainted, Theme!EndPreview, Theme!LookType, Look
<1>3. CASE page \notin Sections
  BY <1>1, <1>3 DEF AppInv, Unpainted, Theme!LookType, Look
<1> QED  BY <1>2, <1>3

\* The login form takes the place of a page.
LEMMA SignsOut ==
    ASSUME AppInv, NEW cs, Calls(cs), Known(cs), auth # "in" => DOMAIN cs \subseteq Outer,
           SignedOut(cs)
    PROVE  SignOutStep
<1>1. CASE auth = "in"
  BY <1>1, LeftIsFit, LeavesTheme, OuterAndInner DEF SignedOut, SignOutStep, Fit
<1>2. CASE auth # "in"
  BY <1>2, OuterAndInner DEF AppInv, SignedOut, SignOutStep, Look, Theme!LookType
<1> QED  BY <1>1, <1>2

\* A token that is changed in a call changes nothing else of it.
LEMMA TokenOnly ==
    ASSUME NEW c, Shaped(c), NEW tok \in Tokens
    PROVE  LET d == [c EXCEPT !.tok = tok] IN
             /\ Shaped(d) /\ d.op = c.op /\ d.arg = c.arg /\ d.tok = tok
             /\ d.st = c.st /\ d.val = c.val
<1> DEFINE d == [c EXCEPT !.tok = tok]
           e == [op |-> c.op, arg |-> c.arg, tok |-> tok, st |-> c.st, val |-> c.val]
<1>1. d = e
  <2>1. c = [op |-> c.op, arg |-> c.arg, tok |-> c.tok, st |-> c.st, val |-> c.val]
    BY DEF Shaped
  <2>2. DOMAIN c = {"op", "arg", "tok", "st", "val"}  BY <2>1
  <2>3. d = [f \in {"op", "arg", "tok", "st", "val"} |-> IF f = "tok" THEN tok ELSE c[f]]
    BY <2>2
  <2> QED  BY <2>3
<1>2. e = [op |-> e.op, arg |-> e.arg, tok |-> e.tok, st |-> e.st, val |-> e.val]  OBVIOUS
<1> QED  BY <1>1, <1>2 DEF Shaped

\* A logout at the daemon takes the token from every call that was sent with it.
LEMMA LogoutServed ==
    ASSUME Calls(calls), Known(calls), NEW i \in InFlight, At(i).op = "logout", NEW revoked,
           \A h \in DOMAIN calls : \A k \in DOMAIN calls[h] :
             revoked[h][k] \in {Revoked, calls[h][k].tok},
           calls' = [h \in DOMAIN calls |->
                       [k \in DOMAIN calls[h] |->
                          IF <<h, k>> = i THEN Answered(At(i), "ok", None)
                          ELSE [calls[h][k] EXCEPT !.tok = revoked[h][k]]]]
    PROVE  Aside(calls')
<1>1. ASSUME NEW h \in DOMAIN calls, NEW k \in DOMAIN calls[h]
      PROVE  /\ Shaped(calls'[h][k]) /\ KnownCall(h, calls'[h][k])
             /\ AsBefore(<<h, calls'[h][k]>>, <<h, calls[h][k]>>, Shared)
  <2> DEFINE c == calls[h][k]
             d == calls'[h][k]
  <2>1. Shaped(c) /\ KnownCall(h, c)
    <3>1. <<h, c>> \in Sent(calls)  BY DEF Sent
    <3> QED  BY <3>1 DEF Calls, Known
  <2>2. CASE <<h, k>> = i
    <3>1. At(i) = c /\ c.op = "logout"  BY <2>2 DEF At
    <3>2. d = Answered(c, "ok", None)  BY <2>2, <3>1
    <3> HIDE DEF c, d
    <3>3. Shaped(d) /\ d.op = c.op /\ d.arg = c.arg  BY <2>1, <3>2, AnswerIsShaped
    <3>4. KnownCall(h, d)  BY <2>1, <3>1, <3>2, KnownAnswer
    <3>5. AsBefore(<<h, d>>, <<h, c>>, Shared)  BY <3>1, <3>3 DEF AsBefore, Shared
    <3> QED  BY <3>3, <3>4, <3>5 DEF c, d
  <2>3. CASE <<h, k>> # i
    <3>1. d = [c EXCEPT !.tok = revoked[h][k]]  BY <2>3
    <3> HIDE DEF c, d
    <3>2. revoked[h][k] \in Tokens
      <4>1. revoked[h][k] \in {Revoked, c.tok}  BY DEF c
      <4> QED  BY <2>1, <4>1, PanelAssumption DEF Shaped, Tokens, Revoked
    <3>3. Shaped(d) /\ d.op = c.op /\ d.arg = c.arg /\ d.st = c.st /\ d.val = c.val
      BY <2>1, <3>1, <3>2, TokenOnly
    <3>4. KnownCall(h, d)  BY <2>1, <3>3 DEF KnownCall, Saving
    <3>5. AsBefore(<<h, d>>, <<h, c>>, Shared)  BY <3>3 DEF AsBefore
    <3> QED  BY <3>3, <3>4, <3>5 DEF c, d
  <2> QED  BY <2>2, <2>3
<1>2. /\ DOMAIN calls' = DOMAIN calls
      /\ \A h \in DOMAIN calls : calls'[h] = [k \in DOMAIN calls[h] |-> calls'[h][k]]
  OBVIOUS
<1>3. Beside(calls', calls, {}, Shared)  BY <1>1, <1>2, BesideEach
<1>4. Beside(calls', calls, Around, Shared)  BY <1>3, BesideMore
<1>5. Known(calls')
  <2>1. ASSUME NEW x \in Sent(calls')  PROVE KnownCall(x[1], x[2])
    <3>1. PICK h \in DOMAIN calls' : x \in {<<h, calls'[h][k]>> : k \in DOMAIN calls'[h]}
      BY DEF Sent
    <3>2. PICK k \in DOMAIN calls'[h] : x = <<h, calls'[h][k]>>  BY <3>1
    <3>3. h \in DOMAIN calls /\ k \in DOMAIN calls[h]  BY <1>2, <3>2
    <3> QED  BY <1>1, <3>2, <3>3
  <2> QED  BY <2>1 DEF Known
<1> QED  BY <1>4, <1>5 DEF Aside

\* A token that nobody has, if there is one, is a token.
LEMMA FreshIsToken ==
    ASSUME Fresh # {}
    PROVE  (CHOOSE t \in Fresh : \A u \in Fresh : t <= u) \in 1..MaxTokens
<1> DEFINE R == {ss \in Nat \X Nat : ss[1] < ss[2]}
<1>1. Fresh \subseteq 1..MaxTokens /\ Fresh \subseteq Nat  BY PanelAssumption DEF Fresh
<1>2. IsWellFoundedOn(R, Nat)  BY NatLessThanWellFounded DEF OpToRel
<1> HIDE DEF R
<1>3. PICK t \in Fresh : \A u \in Fresh : <<u, t>> \notin R  BY <1>1, <1>2, WFMin
<1>4. ASSUME NEW u \in Fresh  PROVE t <= u
  <2>1. u \in Nat /\ t \in Nat /\ ~(u < t)  BY <1>1, <1>3, Zenon DEF R
  <2> QED  BY <2>1
<1>5. (CHOOSE x \in Fresh : \A u \in Fresh : x <= u) \in Fresh  BY <1>4
<1> QED  BY <1>1, <1>5

\* The session at the daemon.
LEMMA AppServes ==
    ASSUME AppInv, NEW i \in InFlight, ServeApp(i)
    PROVE  Aside(calls')
<1>1. Shaped(At(i)) /\ KnownCall(i[1], At(i))  BY InFlightIsKnown DEF AppInv
<1>2. Calls(calls) /\ Known(calls) /\ token \in Tokens  BY DEF AppInv, Held
<1>3. ASSUME NEW profile \in Theme!ThemeChoices, At(i).op = "me", Answer(i, profile)
      PROVE  Aside(calls')
  <2>1. KnownCall(i[1], Answered(At(i), "ok", profile))  BY <1>1, <1>3, KnownAnswer
  <2> QED  BY <1>2, <1>3, <2>1, AsideSteps DEF Answer, Shared
<1>4. ASSUME NEW val \in 1..MaxTokens, At(i).op = "login", Answer(i, val)
      PROVE  Aside(calls')
  <2>1. KnownCall(i[1], Answered(At(i), "ok", val))  BY <1>1, <1>4, KnownAnswer
  <2> QED  BY <1>2, <1>4, <2>1, AsideSteps DEF Answer, Shared
<1>5. ASSUME Reject(i)
      PROVE  Aside(calls')
  <2>1. KnownCall(i[1], Answered(At(i), "err", None))  BY <1>1, KnownAnswer
  <2> QED  BY <1>2, <1>5, <2>1, AsideSteps DEF Reject
<1>6. CASE Asked(i, "logout") /\ \E without :
             /\ \A h \in DOMAIN calls : \A k \in DOMAIN calls[h] :
                  without[h][k] \in {Revoked, calls[h][k].tok}
             /\ calls' = [h \in DOMAIN calls |->
                         [k \in DOMAIN calls[h] |->
                            IF <<h, k>> = i THEN Answered(At(i), "ok", None)
                            ELSE [calls[h][k] EXCEPT !.tok = without[h][k]]]]
  BY <1>2, <1>6, LogoutServed DEF Asked
<1>7. look.choice \in Theme!ThemeChoices  BY DEF AppInv, Theme!LookType
<1>8. CASE /\ Asked(i, "me")
           /\ \E profile \in IF page \in Themed THEN Theme!ThemeChoices ELSE {look.choice} :
                Answer(i, profile)
  BY <1>3, <1>7, <1>8 DEF Asked
<1>9. ASSUME Asked(i, "logout"),
        calls' = [h \in DOMAIN calls |->
                                [k \in DOMAIN calls[h] |->
                                   IF <<h, k>> = i THEN Answered(At(i), "ok", None)
                                   ELSE [calls[h][k] EXCEPT
                                           !.tok = IF @ = At(i).tok THEN Revoked ELSE @]]]
      PROVE Aside(calls')
  <2> DEFINE without == [h \in DOMAIN calls |-> [k \in DOMAIN calls[h] |->
                IF calls[h][k].tok = At(i).tok THEN Revoked ELSE calls[h][k].tok]]
  <2>1. calls' = [h \in DOMAIN calls |->
                         [k \in DOMAIN calls[h] |->
                            IF <<h, k>> = i THEN Answered(At(i), "ok", None)
                            ELSE [calls[h][k] EXCEPT !.tok = without[h][k]]]]
    BY <1>9
  <2>2. \A h \in DOMAIN calls : \A k \in DOMAIN calls[h] :
          without[h][k] \in {Revoked, calls[h][k].tok}
    OBVIOUS
  <2> HIDE DEF without
  <2> QED  BY <1>6, <1>9, <2>1, <2>2
<1> QED  BY <1>4, <1>5, <1>8, <1>9, FreshIsToken DEF ServeApp

\* The user of a session is known, or is not.
LEMMA LoadUserSettled ==
    ASSUME AppInv, NEW i \in InFlight, SettleLoadUser(i)
    PROVE  AsideStep \/ EnterStep \/ SignOutStep
<1> DEFINE c == At(i)
<1>1. i[1] = "loadUser"  BY DEF SettleLoadUser, Replied, Failed
<1>2. Calls(calls) /\ Known(calls) /\ token \in Tokens  BY DEF AppInv, Held
<1>3. "loadUser" \in Around  BY DEF Around, Lasting
<1>4. Aside(Without(i))  BY <1>1, <1>2, <1>3, AsideSteps
<1>5. c.st = "ok" => c.val \in Theme!ThemeChoices
  BY <1>1, <1>2, InFlightIsKnown DEF KnownCall
<1>6. CASE Failed(i, "loadUser") /\ SignedOut(Without(i))
  <2>1. auth # "in" => DOMAIN Without(i) \subseteq Outer
    <3>1. WithoutIs(Without(i), calls, i[1])  BY <1>2, WithoutKeeps DEF Calls
    <3> QED  BY <3>1 DEF AppInv, WithoutIs
  <2> QED  BY <1>4, <1>6, <2>1, SignsOut DEF Aside, Beside
<1>7. CASE /\ auth = "in" /\ c.st = "ok" /\ look' = Theme!Adopt(c.val)
           /\ calls' = Without(i) /\ UNCHANGED <<page, auth, view, host, sockets>>
  <2>1. PaintsNone  BY <1>5, <1>7, ChoicePaintsNone DEF AppInv
  <2>2. page = "theme" => Theme!Types'  BY <1>7 DEF AppInv, Theme!Types
  <2> QED  BY <1>4, <1>7, <2>1, <2>2 DEF AsideStep
<1>8. ASSUME auth # "in", c.st = "ok", auth' = "in", UNCHANGED sockets,
             NEW adopted, adopted = Theme!Adopt(c.val),
             NEW rest, rest = Rename(Without(i), "handleSubmit", "elsewhere"),
             Enter(Route(page), IF page \in Themed
                                  THEN Theme!LoadThemes(rest, "provider", None)
                                  ELSE rest),
             look' = IF page \in Sections /\ adopted = look THEN Theme!Previewed(look) ELSE adopted
      PROVE  EnterStep
  <2>1. Fit(rest)
    <3> DEFINE cs == Without(i)
    <3>1. Calls(cs) /\ Known(cs)  BY <1>4 DEF Aside, Beside
    <3>2. DOMAIN cs \subseteq Outer
      <4>1. WithoutIs(cs, calls, i[1])  BY <1>2, WithoutKeeps DEF Calls
      <4> QED  BY <1>8, <4>1 DEF AppInv, WithoutIs
    <3> HIDE DEF cs
    <3>3. RenameIs(rest, cs, "handleSubmit", "elsewhere")
      BY <1>8, <3>1, RenameKeeps DEF Calls, cs
    <3>4. Beside(rest, cs, {"handleSubmit", "elsewhere"}, {})
      BY <1>8, <3>1, BesideRename DEF cs
    <3>5. Known(rest)  BY <1>8, <3>1, KnownRename, Renamed DEF cs
    <3>6. DOMAIN rest \subseteq Lasting
      BY <3>2, <3>3 DEF RenameIs, Outer, Lasting
    <3> QED  BY <3>4, <3>5, <3>6 DEF Fit, Beside
  <2>2. Fit(Theme!LoadThemes(rest, "provider", None))
    <3> DEFINE ask == Call("listCustomThemes", None)
               ds == Add(rest, "provider", ask)
    <3>1. KnownCall("provider", ask)
      BY CallIsShaped DEF KnownCall, Outer, Lasting, Theme!Handlers, PageWrites
    <3>2. Shaped(ask)  BY <1>2, CallIsShaped, OperationNames
    <3> HIDE DEF ask
    <3>3. Known(ds)  BY <2>1, <3>1, KnownAdd DEF Fit
    <3>4. AddIs(ds, rest, "provider", ask)  BY <2>1, AddKeeps DEF Fit, Calls
    <3>5. Beside(ds, rest, {"provider"}, {})  BY <2>1, <3>2, BesideAdd DEF Fit
    <3> HIDE DEF ds
    <3>6. DOMAIN ds \subseteq Lasting
      BY <2>1, <3>4 DEF AddIs, Fit, Lasting, Theme!Handlers
    <3>7. Theme!LoadThemes(rest, "provider", None) = ds
      BY ThemeApi DEF Theme!LoadThemes, ds, ask
    <3> QED  BY <3>3, <3>5, <3>6, <3>7 DEF Fit, Beside
  <2> DEFINE cs == IF page \in Themed THEN Theme!LoadThemes(rest, "provider", None) ELSE rest
  <2>3. Fit(cs)  BY <2>1, <2>2
  <2> HIDE DEF cs
  <2>4. Enter(Route(page), cs)  BY <1>8 DEF cs
  <2>5. Route(page) \in Pages /\ (page \in Sections => Route(page) \in Sections)
    BY DEF Route, Pages, Sections, AdminPages
  <2>6. Look(adopted) /\ adopted.painted # Theme!Preview
    <3>1. look.painted # Theme!Preview /\ Look(look)  BY <1>8 DEF AppInv, Theme!LookType, Look
    <3>2. \/ adopted = look
          \/ adopted = Theme!Chosen(c.val, look.customs)
      BY <1>8 DEF Theme!Adopt
    <3>3. Theme!Chosen(c.val, look.customs) \in
            [choice : Theme!ThemeChoices, customs : SUBSET Customs, painted : Theme!ThemeChoices]
          /\ Theme!Preview \notin Theme!ThemeChoices
      BY <1>5, <1>8, ChoicePaints DEF AppInv
    <3> QED  BY <3>1, <3>2, <3>3 DEF Look
  <2>7. Look(look') /\ (look'.painted = Theme!Preview => Route(page) \in Sections)
    <3>1. CASE page \in Sections /\ adopted = look
      BY <1>8, <2>5, <2>6, <3>1 DEF Theme!Previewed, Look
    <3>2. CASE ~(page \in Sections /\ adopted = look)  BY <1>8, <2>6, <3>2
    <3> QED  BY <3>1, <3>2
  <2>8. sockets' = <<>>  BY <1>8 DEF AppInv
  <2> QED  BY <1>8, <2>3, <2>4, <2>5, <2>7, <2>8 DEF EnterStep
<1> QED  BY <1>6, <1>7, <1>8 DEF SettleLoadUser, Replied

\* A step that leaves the page, its state and the theme alone.
LEMMA AsideOnly ==
    ASSUME AppInv, Aside(calls'), UNCHANGED <<page, auth, sockets, look>>,
           auth = "in" => UNCHANGED <<view, host>>
    PROVE  AsideStep
<1>1. PaintsNone  BY ChoicePaintsNone DEF AppInv, PaintsNone, Look, Theme!LookType
<1>2. auth = "in" /\ page = "theme" => Theme!Types'  BY DEF AppInv, Theme!Types
<1> QED  BY <1>1, <1>2 DEF AsideStep

\* The token that a sign-in brings.
LEMMA LoginToken ==
    ASSUME AppInv, NEW i \in InFlight, SettleLogin(i)
    PROVE  token' \in Tokens
<1>1. i[1] \in {"handleSubmit", "elsewhere"}  BY DEF SettleLogin, Replied, Failed
<1>2. KnownCall(i[1], At(i))  BY InFlightIsKnown DEF AppInv
<1>3. At(i).st = "ok" => At(i).val \in 1..MaxTokens  BY <1>1, <1>2 DEF KnownCall
<1>4. 1..MaxTokens \subseteq Tokens  BY PanelAssumption DEF Tokens
<1>5. token' = token \/ (At(i).st = "ok" /\ token' = At(i).val)
  BY DEF SettleLogin, Replied
<1> QED  BY <1>3, <1>4, <1>5 DEF AppInv, Held

\* A sign-in ends.
LEMMA LoginSettled ==
    ASSUME AppInv, NEW i \in InFlight, SettleLogin(i)
    PROVE  AsideStep
<1>1. Calls(calls) /\ Known(calls) /\ token \in Tokens  BY DEF AppInv, Held
<1>2. i[1] \in {"handleSubmit", "elsewhere"}  BY DEF SettleLogin, Replied, Failed
<1>3. auth = "in" => i[1] = "elsewhere"  BY <1>2, AtIsSent, Zenon DEF AppInv
<1>4. i[1] \in Around  BY <1>2, <1>3 DEF Around, Lasting
<1>5. Aside(Without(i))  BY <1>1, <1>4, AsideSteps
<1>6. CASE calls' = Add(Without(i), "loadUser", [Call("me", None) EXCEPT !.tok = token'])
  <2> DEFINE c == [Call("me", None) EXCEPT !.tok = token']
  <2>1. Shaped(c) /\ c.op = "me" /\ c.st = "sent"
    <3>1. /\ Shaped(Call("me", None)) /\ Call("me", None).op = "me"
          /\ Call("me", None).st = "sent"
      BY <1>1, CallIsShaped, OperationNames
    <3>2. token' \in Tokens  BY LoginToken
    <3> QED  BY <3>1, <3>2, TokenOnly
  <2> HIDE DEF c
  <2>2. KnownCall("loadUser", c)
    BY <2>1 DEF KnownCall, Outer, Lasting, Theme!Handlers, PageWrites
  <2>3. "loadUser" \in Around  BY DEF Around, Lasting
  <2>4. Calls(Without(i)) /\ Known(Without(i))  BY <1>5 DEF Aside, Beside
  <2>5. Known(Add(Without(i), "loadUser", c))  BY <2>2, <2>4, KnownAdd
  <2>6. Beside(Add(Without(i), "loadUser", c), calls, Around, Shared)
    BY <1>5, <2>1, <2>3, ThenAdd DEF Aside
  <2>7. Aside(calls')  BY <1>6, <2>5, <2>6 DEF Aside, c
  <2> QED  BY <1>3, <2>7, AsideOnly DEF SettleLogin
<1>7. CASE calls' = Without(i)  BY <1>3, <1>5, <1>7, AsideOnly DEF SettleLogin
<1> QED  BY <1>6, <1>7 DEF SettleLogin

\* A sign-out ends.
LEMMA LogoutSettled ==
    ASSUME AppInv, NEW i \in InFlight, SettleLogout(i)
    PROVE  AsideStep \/ SignOutStep
<1>1. Calls(calls) /\ Known(calls) /\ token \in Tokens  BY DEF AppInv, Held
<1>2. i[1] = "handleLogout"  BY DEF SettleLogout, Replied, Failed
<1>3. i[1] \in Around  BY <1>2 DEF Around, Lasting
<1>4. Aside(Without(i))  BY <1>1, <1>3, AsideSteps
<1>5. CASE SignedOut(Without(i))
  <2>1. auth # "in" => DOMAIN Without(i) \subseteq Outer
    <3>1. WithoutIs(Without(i), calls, i[1])  BY <1>1, WithoutKeeps DEF Calls
    <3> QED  BY <3>1 DEF AppInv, WithoutIs
  <2> QED  BY <1>4, <1>5, <2>1, SignsOut DEF Aside, Beside
<1>6. CASE calls' = Without(i) /\ UNCHANGED <<page, auth, view, host, look, sockets>>
  BY <1>4, <1>6, AsideOnly
<1> QED  BY <1>5, <1>6 DEF SettleLogout

\* A server is deleted, wherever the user is by then.
LEMMA DeleteSettled ==
    ASSUME AppInv, NEW i \in InFlight, SettleDelete(i), UNCHANGED auth
    PROVE  AsideStep \/ EnterStep
<1>1. Calls(calls) /\ Known(calls) /\ token \in Tokens  BY DEF AppInv, Held
<1>2. i[1] = "delete"  BY DEF SettleDelete, Replied
<1>3. i[1] \in Around  BY <1>2 DEF Around, Lasting
<1>4. Aside(Without(i))  BY <1>1, <1>3, AsideSteps
<1>5. CASE /\ auth = "in" /\ Enter("servers", Left(Without(i)))
           /\ sockets' = HungUp /\ look' = Unpainted
  <2>1. Fit(Left(Without(i)))  BY <1>4, LeftIsFit DEF Aside, Beside
  <2>2. "servers" \in Pages  BY DEF Pages
  <2> QED  BY <1>5, <2>1, <2>2, LeavesTheme DEF EnterStep
<1>6. CASE auth # "in" /\ calls' = Without(i) /\ UNCHANGED <<page, view, host, look, sockets>>
  BY <1>4, <1>6, AsideOnly
<1> QED  BY <1>5, <1>6 DEF SettleDelete

\* A link.
LEMMA NavigatesTo ==
    ASSUME AppInv, NEW p \in Pages, Navigate(p)
    PROVE  EnterStep
<1>1. Fit(Left(calls))  BY LeftIsFit DEF AppInv
<1>2. Route(p) \in Pages  BY DEF Route, Pages
<1>3. Enter(Route(p), Left(calls)) /\ sockets' = HungUp /\ auth' = "in"  BY DEF Navigate
<1>4. look' = IF Route(p) \in Sections THEN Theme!Previewed(Unpainted) ELSE Unpainted
  BY DEF Navigate
<1>5. /\ Look(Unpainted) /\ Unpainted.painted # Theme!Preview /\ HungUp = <<>>
  BY LeavesTheme
<1>6. Look(look') /\ (look'.painted = Theme!Preview => Route(p) \in Sections)
  BY <1>4, <1>5 DEF Theme!Previewed, Look
<1> QED  BY <1>1, <1>2, <1>3, <1>5, <1>6 DEF EnterStep

\* Which half of the daemon answers.
LEMMA ServesOneOf ==
    ASSUME NEW i \in InFlight, Serve(i)
    PROVE  \/ ServeApp(i) /\ UNCHANGED <<appVars, sockets>>
           \/ ServeLate(i) /\ UNCHANGED <<appVars, sockets, look>>
           \/ Theme!Serve(i) /\ UNCHANGED <<appVars, sockets, look>>
           \/ PageStep
<1> SUFFICES ASSUME ~(\/ ServeApp(i) /\ UNCHANGED <<appVars, sockets>>
                      \/ ServeLate(i) /\ UNCHANGED <<appVars, sockets, look>>
                      \/ Theme!Serve(i) /\ UNCHANGED <<appVars, sockets, look>>)
             PROVE  PageStep
  BY Zenon
<1> QED  BY SMTT(30) DEF Serve, PageStep

\* Whose handler goes on.
LEMMA SettlesOneOf ==
    ASSUME NEW i \in InFlight, Settle(i)
    PROVE  \/ SettleApp(i)
           \/ SettleLate(i) /\ UNCHANGED <<appVars, look>>
           \/ Theme!Settle(i) /\ UNCHANGED <<appVars, sockets>>
           \/ PageStep
<1> SUFFICES ASSUME ~(\/ SettleApp(i)
                      \/ SettleLate(i) /\ UNCHANGED <<appVars, look>>
                      \/ Theme!Settle(i) /\ UNCHANGED <<appVars, sockets>>)
             PROVE  PageStep
  BY Zenon
<1> QED  BY SMTT(30) DEF Settle, PageStep

\* Every step is a page's own, one aside of it, or leads to a page or to the
\* login form.
LEMMA StepIsOneOf ==
    ASSUME AppInv, Next
    PROVE  PageStep \/ AsideStep \/ EnterStep \/ SignOutStep
<1>1. Calls(calls) /\ Known(calls) /\ token \in Tokens /\ Theme!LookType
  BY DEF AppInv, Held
<1>2. ASSUME NEW i \in InFlight, Serve(i)
      PROVE  PageStep \/ AsideStep
  <2>1. CASE ServeApp(i) /\ UNCHANGED <<appVars, sockets>>
    BY <2>1, AppServes, AsideOnly, Zenon DEF ServeApp, appVars
  <2>2. CASE ServeLate(i) /\ UNCHANGED <<appVars, sockets, look>>
    <3>1. i[1] \in Around  BY <2>2 DEF ServeLate, Around, Lasting
    <3>2. Shaped(At(i)) /\ KnownCall(i[1], At(i))  BY <1>1, InFlightIsKnown
    <3>3. At(i).op \notin Shared  BY <2>2, <3>2 DEF ServeLate, KnownCall
    <3>4. KnownCall(i[1], Answered(At(i), "ok", None))
      BY <3>2, <3>3, KnownAnswer DEF Shared
    <3>5. Aside(calls')  BY <1>1, <2>2, <3>1, <3>4, AsideSteps DEF ServeLate, Answer
    <3> QED  BY <2>2, <3>5, AsideOnly DEF ServeLate, appVars
  <2>3. CASE Theme!Serve(i) /\ UNCHANGED <<appVars, sockets, look>>
    BY <1>1, <2>3, ThemeServes, AsideOnly DEF Theme!Serve, appVars
  <2> QED  BY <1>2, <2>1, <2>2, <2>3, ServesOneOf, Zenon
<1>3. ASSUME NEW i \in InFlight, Settle(i)
      PROVE  PageStep \/ AsideStep \/ EnterStep \/ SignOutStep
  <2>1. CASE SettleApp(i)
    <3>1. CASE SettleLoadUser(i)  BY <3>1, LoadUserSettled
    <3>2. CASE SettleLogin(i)  BY <3>2, LoginSettled
    <3>3. CASE SettleLogout(i)  BY <3>3, LogoutSettled
    <3>4. CASE SettleDelete(i)  BY <3>4, DeleteSettled DEF SettleDelete
    <3> QED  BY <2>1, <3>1, <3>2, <3>3, <3>4 DEF SettleApp
  <2>2. CASE SettleLate(i) /\ UNCHANGED <<appVars, look>>
    <3>1. i[1] \in Around
      BY <2>2 DEF SettleLate, Ended, Replied, Failed, Around, Lasting
    <3>2. Aside(calls')  BY <1>1, <2>2, <3>1, AsideSteps DEF SettleLate
    <3> QED  BY <2>2, <3>2, AsideOnly DEF SettleLate, appVars
  <2>3. CASE Theme!Settle(i) /\ UNCHANGED <<appVars, sockets>>
    BY <1>1, <2>3, ThemeGoesOn DEF AsideStep, AppInv, appVars, Theme!Settle
  <2> QED  BY <1>3, <2>1, <2>2, <2>3, SettlesOneOf, Zenon
<1>4. ASSUME NEW i \in InFlight, Refuse(i)
      PROVE  AsideStep
  <2>1. Shaped(At(i)) /\ KnownCall(i[1], At(i))  BY <1>1, InFlightIsKnown
  <2>2. KnownCall(i[1], Answered(At(i), "err", None))  BY <2>1, KnownAnswer
  <2>3. Aside(calls')  BY <1>1, <1>4, <2>2, AsideSteps DEF Refuse, Unauthorized, Reject
  <2> QED  BY <1>4, <2>3, AsideOnly DEF Refuse, Unauthorized, appVars
<1>5. CASE NoToken  BY <1>1, <1>5, SignsOut DEF NoToken, AppInv
<1>6. CASE Login
  <2>1. KnownCall("handleSubmit", Call("login", None))
    BY CallIsShaped DEF KnownCall, Outer, Lasting, Theme!Handlers, PageWrites
  <2>2. "handleSubmit" \in Around  BY <1>6 DEF Login, Around
  <2>3. Aside(calls')  BY <1>1, <1>6, <2>1, <2>2, AsideSteps, OperationNames DEF Login, Ask
  <2> QED  BY <1>6, <2>3, AsideOnly DEF Login, appVars
<1>7. CASE Logout
  <2>1. KnownCall("handleLogout", Call("logout", None))
    BY CallIsShaped DEF KnownCall, Outer, Lasting, Theme!Handlers, PageWrites
  <2>2. "handleLogout" \in Around  BY DEF Around, Lasting
  <2>3. Aside(calls')  BY <1>1, <1>7, <2>1, <2>2, AsideSteps, OperationNames DEF Logout, Ask
  <2> QED  BY <1>7, <2>3, AsideOnly DEF Logout, appVars
<1>8. CASE \E p \in Pages : Navigate(p)  BY <1>8, NavigatesTo
<1>9. CASE PageNext  BY <1>9, SMTT(30) DEF PageNext, PageStep
<1>10. CASE Toggle
  <2>1. Aside(calls') /\ PaintsNone /\ view' = view  BY <1>1, <1>10, ThemeToggles DEF Toggle
  <2>2. auth = "in" /\ page = "theme" => Theme!Types'  BY <2>1 DEF AppInv, Theme!Types
  <2> QED  BY <1>10, <2>1, <2>2 DEF Toggle, Theme!Toggle, Theme!SetChoice, AsideStep, appVars
<1> QED  BY <1>2, <1>3, <1>4, <1>5, <1>6, <1>7, <1>8, <1>9, <1>10 DEF Next

-----------------------------------------------------------------------------
(* The sockets of the console.                                             *)

\* One socket, or one ticket for it, and only of a server that is live.
Wired(status, ss, cs) ==
    /\ ss = <<>> \/ \E s : ss = <<s>>
    /\ ss # <<>> => "connect" \notin DOMAIN cs
    /\ Len(Queue(cs, "connect")) \in {0, 1}
    /\ ss # <<>> \/ "connect" \in DOMAIN cs => Console!Available(status)

\* The sockets of the console when something changes in each of them.
LEMMA SocketsStay ==
    ASSUME sockets = <<>> \/ \E s : sockets = <<s>>
    PROVE  /\ \A ss : ss = [n \in DOMAIN sockets |-> ss[n]]
                => (ss = <<>> <=> sockets = <<>>) /\ (ss = <<>> \/ \E t : ss = <<t>>)
           /\ \A n \in DOMAIN sockets : Console!RemoveAt(sockets, n) = <<>>
           /\ \A n, t : LET ss == [sockets EXCEPT ![n] = t] IN
                (ss = <<>> <=> sockets = <<>>) /\ (ss = <<>> \/ \E u : ss = <<u>>)
<1>1. ASSUME NEW ss, ss = [n \in DOMAIN sockets |-> ss[n]]
      PROVE  (ss = <<>> <=> sockets = <<>>) /\ (ss = <<>> \/ \E t : ss = <<t>>)
  <2>1. CASE sockets = <<>>
    <3>1. DOMAIN sockets = {}  BY <2>1
    <3>2. ss = [n \in {} |-> ss[n]]  BY <1>1, <3>1
    <3>3. ss = <<>>  BY <3>2
    <3> QED  BY <2>1, <3>3
  <2>2. ASSUME NEW s, sockets = <<s>>
        PROVE  (ss = <<>> <=> sockets = <<>>) /\ (ss = <<>> \/ \E t : ss = <<t>>)
    <3>1. ss = <<ss[1]>>  BY <1>1, <2>2, OneSocket
    <3>2. <<ss[1]>> # <<>> /\ sockets # <<>>  BY <2>2
    <3> QED  BY <3>1, <3>2
  <2> QED  BY <2>1, <2>2
<1>2. ASSUME NEW n \in DOMAIN sockets  PROVE Console!RemoveAt(sockets, n) = <<>>
  <2>1. Console!RemoveAt(sockets, n) = RemoveAt(sockets, n)  BY DEF Console!RemoveAt, RemoveAt
  <2>2. CASE sockets = <<>>  BY <2>2
  <2>3. ASSUME NEW s, sockets = <<s>>  PROVE RemoveAt(sockets, n) = <<>>
    <3>1. n = 1  BY <2>3, OneSocket
    <3> QED  BY <2>3, <3>1, OneSocket
  <2> QED  BY <2>1, <2>2, <2>3
<1>3. ASSUME NEW n, NEW t, NEW ss, ss = [sockets EXCEPT ![n] = t]
      PROVE  (ss = <<>> <=> sockets = <<>>) /\ (ss = <<>> \/ \E u : ss = <<u>>)
  <2>1. ss = [m \in DOMAIN sockets |-> ss[m]]  BY <1>3, Zenon
  <2> QED  BY <1>1, <2>1
<1> QED  BY <1>1, <1>2, <1>3

\* The ticket that is waited for, when other handlers go on.
LEMMA TicketStays ==
    ASSUME NEW cs, Calls(cs), NEW ds, NEW hs, NEW ops, Beside(ds, cs, hs, ops), "connect" \notin hs
    PROVE  /\ "connect" \in DOMAIN ds <=> "connect" \in DOMAIN cs
           /\ Len(Queue(ds, "connect")) = Len(Queue(cs, "connect"))
BY DEF Beside

\* One more call: its handler awaits one more, the others what they awaited.
LEMMA OneMoreAsked ==
    ASSUME NEW cs, NEW h, NEW c, Queues(cs)
    PROVE  /\ h \in DOMAIN Add(cs, h, c)
           /\ Queue(cs, h) = <<>> => Len(Queue(Add(cs, h, c), h)) = 1
           /\ \A k : k # h => /\ k \in DOMAIN Add(cs, h, c) <=> k \in DOMAIN cs
                              /\ Queue(Add(cs, h, c), k) = Queue(cs, k)
<1> DEFINE ds == Add(cs, h, c)
<1>1. AddIs(ds, cs, h, c)  BY AddKeeps
<1>2. Queue(cs, h) = <<>> => Len(Queue(cs, h)) = 0  BY EmptySeq
<1> HIDE DEF ds
<1>3. Len(Queue(ds, h)) = Len(Queue(cs, h)) + 1 /\ DOMAIN ds = DOMAIN cs \cup {h}
  BY <1>1 DEF AddIs
<1>4. \A k : k # h => Queue(ds, k) = Queue(cs, k)  BY <1>1 DEF AddIs
<1>5. /\ h \in DOMAIN ds
      /\ Queue(cs, h) = <<>> => Len(Queue(ds, h)) = 1
      /\ \A k : k # h => (k \in DOMAIN ds <=> k \in DOMAIN cs) /\ Queue(ds, k) = Queue(cs, k)
  BY <1>2, <1>3, <1>4
<1> QED  BY <1>5 DEF ds

\* The only call a handler awaits is settled.
LEMMA LastGoesOn ==
    ASSUME Queues(calls), NEW i \in InFlight, Len(Queue(calls, i[1])) \in {0, 1}
    PROVE  Queue(Without(i), i[1]) = <<>> /\ i[1] \notin DOMAIN Without(i)
<1> DEFINE h == i[1]
           ds == Without(i)
<1>1. WithoutIs(ds, calls, h)  BY WithoutKeeps
<1> HIDE DEF ds, h
<1>2. Queues(ds) /\ Len(Queue(ds, h)) = Len(Queue(calls, h)) - 1  BY <1>1 DEF WithoutIs
<1>3. Len(Queue(ds, h)) \in Nat /\ Queue(ds, h) \in Seq(Range(Queue(ds, h)))
  BY <1>2, QueueOf
<1>4. Len(Queue(calls, h)) \in {0, 1}  BY DEF h
<1>5. Len(Queue(ds, h)) = 0  BY ONLY <1>2, <1>3, <1>4
<1>6. Queue(ds, h) = <<>>  BY <1>3, <1>5, EmptySeq
<1>7. h \notin DOMAIN ds  BY <1>2, <1>6, QueueOf
<1> QED  BY <1>6, <1>7 DEF ds, h

\* The console when another status is drawn.
LEMMA DrawnWired ==
    ASSUME NEW status, NEW cs, NEW ss, Calls(cs), Console!Draw(status, cs, ss),
           Wired(view.status, ss, cs), sockets = <<>> \/ \E s : sockets = <<s>>
    PROVE  Wired(view'.status, sockets', calls')
<1> DEFINE was == Console!Available(view.status)
           is == Console!Available(status)
<1>1. view'.status = status  BY DEF Console!Draw
<1>2. CASE ~was /\ is
  <2>1. ss = <<>> /\ "connect" \notin DOMAIN cs  BY <1>2 DEF Wired
  <2>2. sockets' = ss  BY <1>2 DEF Console!Draw
  <2>3. calls' = Add(cs, "connect", Call("consoleTicket", None))
    BY <1>2, ConsoleApi DEF Console!Draw
  <2>4. Queue(cs, "connect") = <<>>  BY <2>1 DEF Queue
  <2>5. Len(Queue(calls', "connect")) = 1  BY <2>3, <2>4, OneMoreAsked, Zenon DEF Calls
  <2> QED  BY <1>1, <1>2, <2>1, <2>2, <2>5 DEF Wired
<1>3. CASE was /\ ~is
  <2>1. sockets' = <<>>
    <3>1. sockets' = Console!CloseRef  BY <1>3 DEF Console!Draw
    <3>2. CASE sockets = <<>>  BY <3>1, <3>2 DEF Console!CloseRef
    <3>3. ASSUME NEW s, sockets = <<s>>  PROVE sockets' = <<>>
      <4>1. Console!RemoveAt(<<s>>, 1) = <<>>  BY OneSocket DEF Console!RemoveAt, RemoveAt
      <4>2. Len(<<s>>) = 1  BY OneSocket
      <4> QED  BY <3>1, <3>3, <4>1, <4>2 DEF Console!CloseRef
    <3> QED  BY <3>2, <3>3
  <2>2. calls' = Rename(cs, "connect", "closed")
    BY <1>3, ConsoleApi DEF Console!Draw, Console!Closed
  <2>3. RenameIs(calls', cs, "connect", "closed")  BY <2>2, RenameKeeps DEF Calls
  <2>4. "connect" \notin DOMAIN calls'  BY <2>3 DEF RenameIs
  <2>5. Len(Queue(calls', "connect")) = 0  BY <2>4, EmptySeq DEF Queue
  <2> QED  BY <2>1, <2>4, <2>5 DEF Wired
<1>4. CASE was <=> is
  <2>1. sockets' = ss /\ calls' = cs  BY <1>4 DEF Console!Draw
  <2> QED  BY <1>1, <1>4, <2>1 DEF Wired
<1> QED  BY <1>2, <1>3, <1>4

\* The console: whatever order the ticket, the status and the user came in.
LEMMA ConsoleWired ==
    ASSUME AppInv, Wired(view.status, sockets, calls),
           Console!Next \/ \E i \in InFlight : Console!Serve(i) \/ Console!Settle(i)
    PROVE  Wired(view'.status, sockets', calls')
<1>1. Calls(calls) /\ Known(calls) /\ token \in Tokens  BY DEF AppInv, Held
<1>2. sockets = <<>> \/ \E s : sockets = <<s>>  BY DEF Wired
<1>3. ASSUME Inside(calls')
      PROVE  /\ "connect" \in DOMAIN calls' <=> "connect" \in DOMAIN calls
             /\ Len(Queue(calls', "connect")) = Len(Queue(calls, "connect"))
  BY <1>1, <1>3, TicketStays DEF Inside, Inner
<1>4. ASSUME NEW status, Console!Tell(status)
      PROVE  (sockets' = <<>> <=> sockets = <<>>) /\ (sockets' = <<>> \/ \E t : sockets' = <<t>>)
  <2>1. sockets' = [n \in DOMAIN sockets |-> sockets'[n]]  BY <1>4 DEF Console!Tell
  <2> QED  BY <1>2, <2>1, SocketsStay
<1>5. ASSUME NEW i \in InFlight, Console!Serve(i)
      PROVE  Wired(view'.status, sockets', calls')
  <2>1. /\ "connect" \in DOMAIN calls' <=> "connect" \in DOMAIN calls
        /\ Len(Queue(calls', "connect")) = Len(Queue(calls, "connect"))
    BY <1>1, <1>3, <1>5, ConsoleServes
  <2>2. view' = view  BY <1>5 DEF Console!Serve
  <2>3. (sockets' = <<>> <=> sockets = <<>>) /\ (sockets' = <<>> \/ \E t : sockets' = <<t>>)
    BY <1>2, <1>4, <1>5 DEF Console!Serve, Console!ServeDelete, Console!ServeOther
  <2> QED  BY <2>1, <2>2, <2>3 DEF Wired
<1>6. ASSUME NEW i \in InFlight, Console!Settle(i)
      PROVE  Wired(view'.status, sockets', calls')
  <2> DEFINE cs == Without(i)
  <2>1. WithoutIs(cs, calls, i[1]) /\ Calls(cs)
    BY <1>1, WithoutKeeps DEF Calls, WithoutIs
  <2> HIDE DEF cs
  <2>2. CASE i[1] = "connect"
    <3>1. "connect" \in DOMAIN calls  BY <2>2, AtIsSent, Zenon
    <3>2. sockets = <<>> /\ Console!Available(view.status)  BY <3>1 DEF Wired
    <3>3. Queue(cs, "connect") = <<>> /\ "connect" \notin DOMAIN cs
      BY <1>1, <2>2, LastGoesOn DEF Calls, Wired, cs
    <3>4. Len(Queue(cs, "connect")) \in {0, 1}  BY <3>3, EmptySeq
    <3>5. calls' = cs /\ view' = view
      BY <1>6, <2>2, ConsoleApi DEF Console!Settle, Console!SettleReload, Console!SettleConnect,
        Console!SettleOther, Console!Replied, Console!Failed, Console!Ended, cs
    <3>6. sockets' = <<>> \/ \E s : sockets' = Append(<<>>, s)
      BY <1>6, <2>2, <3>2 DEF Console!Settle, Console!SettleReload, Console!SettleConnect,
        Console!SettleOther, Console!Replied, Console!Failed, Console!Ended
    <3>7. sockets' = <<>> \/ \E s : sockets' = <<s>>  BY <3>6, OneSocket
    <3> QED  BY <3>2, <3>3, <3>4, <3>5, <3>7 DEF Wired
  <2>3. CASE i[1] # "connect"
    <3>1. /\ "connect" \in DOMAIN cs <=> "connect" \in DOMAIN calls
          /\ Queue(cs, "connect") = Queue(calls, "connect")
      BY <2>1, <2>3 DEF WithoutIs
    <3>2. Wired(view.status, sockets, cs)  BY <3>1 DEF Wired
    <3>3. \/ calls' = cs /\ UNCHANGED <<view, sockets>>
          \/ Console!Draw(Console!At(i).val, cs, sockets)
      BY <1>6, <2>3, ConsoleApi DEF Console!Settle, Console!SettleReload, Console!SettleConnect,
        Console!SettleOther, Console!Replied, Console!Failed, Console!Ended, cs
    <3> QED  BY <1>2, <2>1, <3>2, <3>3, DrawnWired DEF Wired
  <2> QED  BY <2>2, <2>3
<1>7. ASSUME NEW n \in DOMAIN sockets, Console!Opens(n) \/ Console!Ends(n)
      PROVE  Wired(view'.status, sockets', calls')
  <2>1. UNCHANGED <<view, calls>>  BY <1>7 DEF Console!Opens, Console!Ends
  <2>2. sockets' = <<>> \/ \E t : sockets' = [sockets EXCEPT ![n] = t]
    BY <1>2, <1>7, SocketsStay DEF Console!Opens, Console!Ends
  <2>3. sockets # <<>>  BY <1>7
  <2>4. sockets' = <<>> \/ \E t : sockets' = <<t>>  BY <1>2, <2>2, SocketsStay
  <2> QED  BY <2>1, <2>3, <2>4 DEF Wired
<1>8. ASSUME NEW n \in DOMAIN sockets, Console!Hears(n)
      PROVE  Wired(view'.status, sockets', calls')
  <2> DEFINE ss == [sockets EXCEPT ![n].news = None]
  <2>1. ss = [sockets EXCEPT ![n] = [sockets[n] EXCEPT !.news = None]]  OBVIOUS
  <2>2. (ss = <<>> <=> sockets = <<>>) /\ (ss = <<>> \/ \E t : ss = <<t>>)
    BY <1>2, <2>1, SocketsStay
  <2> HIDE DEF ss
  <2>3. Wired(view.status, ss, calls)  BY <2>2 DEF Wired
  <2>4. Console!Draw(sockets[n].news, calls, ss)  BY <1>8 DEF Console!Hears, ss
  <2> QED  BY <1>1, <1>2, <2>3, <2>4, DrawnWired
<1>9. CASE \/ Console!Tick \/ Console!Command \/ Console!Delete
           \/ \E action \in Console!Powers : Console!Power(action)
  <2>1. UNCHANGED <<view, sockets>>
    BY <1>9 DEF Console!Tick, Console!Command, Console!Delete, Console!Power
  <2>2. \/ \E arg : calls' = Add(calls, "reload", Call("getServer", arg))
        \/ \E op, arg : calls' = Add(calls, "change", Call(op, arg))
        \/ \E arg : calls' = Add(calls, "delete", Call("deleteServer", arg))
    BY <1>9, ConsoleApi DEF Console!Tick, Console!Command, Console!Delete, Console!Power,
      Console!Ask
  <2>3. ASSUME NEW h, NEW c, h # "connect"
        PROVE  /\ "connect" \in DOMAIN Add(calls, h, c) <=> "connect" \in DOMAIN calls
               /\ Queue(Add(calls, h, c), "connect") = Queue(calls, "connect")
    <3>1. "connect" # h /\ Queues(calls)  BY <1>1, <2>3 DEF Calls
    <3> QED  BY <3>1, OneMoreAsked
  <2>4. /\ "connect" \in DOMAIN calls' <=> "connect" \in DOMAIN calls
        /\ Queue(calls', "connect") = Queue(calls, "connect")
    BY <2>2, <2>3
  <2> QED  BY <2>1, <2>4 DEF Wired
<1>10. CASE Console!HostMoves
  BY <1>4, <1>10 DEF Console!HostMoves, Wired
<1> QED  BY <1>5, <1>6, <1>7, <1>8, <1>9, <1>10 DEF Console!Next

-----------------------------------------------------------------------------
(* What holds of the tab on every page.                                    *)

\* The pages, one by one.
LEMMA PageNames ==
    Pages = {"servers", "console", "theme", "files", "catalog", "modpacks", "backups", "connect",
             "properties", "options", "links", "bots", "admin"}
BY DEF Pages, Tabs, Sections, AdminPages

\* A page's own step is one of that page.
LEMMA PageIsInside ==
    ASSUME AppInv, PageStep
    PROVE  /\ UNCHANGED <<page, auth>> /\ auth = "in"
           /\ page \notin {"console", "theme"} => Inside(calls') /\ UNCHANGED <<sockets, look>>
<1>1. Calls(calls) /\ token \in Tokens  BY DEF AppInv, Held
<1>2. ASSUME On("servers"), UNCHANGED <<sockets, look>>,
             Servers!Next \/ \E i \in InFlight : Servers!Serve(i) \/ Servers!Settle(i)
      PROVE  /\ UNCHANGED <<page, auth>> /\ auth = "in"
             /\ Inside(calls') /\ UNCHANGED <<sockets, look>>
  BY <1>1, <1>2, ServersServes, ServersGoesOn, ServersActs, Zenon DEF On, appVars
<1>3. ASSUME On("files"), UNCHANGED <<sockets, look>>,
             Files!Next \/ \E i \in InFlight : Files!Serve(i) \/ Files!Settle(i)
      PROVE  /\ UNCHANGED <<page, auth>> /\ auth = "in"
             /\ Inside(calls') /\ UNCHANGED <<sockets, look>>
  BY <1>1, <1>3, FilesServes, FilesGoesOn, FilesActs, Zenon DEF On, appVars
<1>4. ASSUME On("catalog"), UNCHANGED <<sockets, look>>,
             Catalog!Next \/ \E i \in InFlight : Catalog!Serve(i) \/ Catalog!Settle(i)
      PROVE  /\ UNCHANGED <<page, auth>> /\ auth = "in"
             /\ Inside(calls') /\ UNCHANGED <<sockets, look>>
  BY <1>1, <1>4, CatalogServes, CatalogGoesOn, CatalogActs, Zenon DEF On, appVars
<1>5. ASSUME On("modpacks"), UNCHANGED <<sockets, look>>,
             Modpacks!Next \/ \E i \in InFlight : Modpacks!Serve(i) \/ Modpacks!Settle(i)
      PROVE  /\ UNCHANGED <<page, auth>> /\ auth = "in"
             /\ Inside(calls') /\ UNCHANGED <<sockets, look>>
  BY <1>1, <1>5, ModpacksServes, ModpacksGoesOn, ModpacksActs, Zenon DEF On, appVars
<1>6. ASSUME On("backups"), UNCHANGED <<sockets, look>>,
             Backups!Next \/ \E i \in InFlight : Backups!Serve(i) \/ Backups!Settle(i)
      PROVE  /\ UNCHANGED <<page, auth>> /\ auth = "in"
             /\ Inside(calls') /\ UNCHANGED <<sockets, look>>
  BY <1>1, <1>6, BackupsServes, BackupsGoesOn, BackupsActs, Zenon DEF On, appVars
<1>7. ASSUME On("connect"), UNCHANGED <<sockets, look>>,
             Connect!Next \/ \E i \in InFlight : Connect!Serve(i) \/ Connect!Settle(i)
      PROVE  /\ UNCHANGED <<page, auth>> /\ auth = "in"
             /\ Inside(calls') /\ UNCHANGED <<sockets, look>>
  BY <1>1, <1>7, ConnectServes, ConnectGoesOn, ConnectActs, Zenon DEF On, appVars
<1>8. ASSUME On("properties"), UNCHANGED <<sockets, look>>,
             Properties!Next \/ \E i \in InFlight : Properties!Serve(i) \/ Properties!Settle(i)
      PROVE  /\ UNCHANGED <<page, auth>> /\ auth = "in"
             /\ Inside(calls') /\ UNCHANGED <<sockets, look>>
  BY <1>1, <1>8, PropertiesServes, PropertiesGoesOn, PropertiesActs, Zenon DEF On, appVars
<1>9. ASSUME On("options"), UNCHANGED <<sockets, look>>,
             Options!Next \/ \E i \in InFlight : Options!Serve(i) \/ Options!Settle(i)
      PROVE  /\ UNCHANGED <<page, auth>> /\ auth = "in"
             /\ Inside(calls') /\ UNCHANGED <<sockets, look>>
  BY <1>1, <1>9, OptionsServes, OptionsGoesOn, OptionsActs, Zenon DEF On, appVars
<1>10. ASSUME On("links"), UNCHANGED <<sockets, look>>,
             Links!Next \/ \E i \in InFlight : Links!Serve(i) \/ Links!Settle(i)
      PROVE  /\ UNCHANGED <<page, auth>> /\ auth = "in"
             /\ Inside(calls') /\ UNCHANGED <<sockets, look>>
  BY <1>1, <1>10, LinksServes, LinksGoesOn, LinksActs, Zenon DEF On, appVars
<1>11. ASSUME On("bots"), UNCHANGED <<sockets, look>>,
             Bots!Next \/ \E i \in InFlight : Bots!Serve(i) \/ Bots!Settle(i)
      PROVE  /\ UNCHANGED <<page, auth>> /\ auth = "in"
             /\ Inside(calls') /\ UNCHANGED <<sockets, look>>
  BY <1>1, <1>11, BotsServes, BotsGoesOn, BotsActs, Zenon DEF On, appVars
<1>12. ASSUME On("admin"), UNCHANGED <<sockets, look>>,
             Admin!Next \/ \E i \in InFlight : Admin!Serve(i) \/ Admin!Settle(i)
      PROVE  /\ UNCHANGED <<page, auth>> /\ auth = "in"
             /\ Inside(calls') /\ UNCHANGED <<sockets, look>>
  BY <1>1, <1>12, AdminServes, AdminGoesOn, AdminActs, Zenon DEF On, appVars
<1>13. CASE On("console") \/ On("theme")
  BY <1>13 DEF On, appVars
<1> QED
  BY <1>2, <1>3, <1>4, <1>5, <1>6, <1>7, <1>8, <1>9, <1>10, <1>11, <1>12, <1>13,
    Zenon DEF PageStep

\* A page that is entered asks for what it draws.
LEMMA EntersWith ==
    ASSUME token \in Tokens, NEW p \in Pages, NEW cs, Fit(cs), Enter(p, cs)
    PROVE  page' = p /\ Beside(calls', cs, Inner, {})
<1>1. Calls(cs)  BY DEF Fit
<1>2. Beside(Servers!FirstCalls(cs), cs, Inner, {})  BY <1>1, ServersOpens
<1>3. Beside(Console!FirstCalls(cs), cs, Inner, {})  BY <1>1, ConsoleOpens
<1>4. Beside(Files!FirstCalls(cs), cs, Inner, {})  BY <1>1, FilesOpens
<1>5. Beside(Catalog!FirstCalls(cs), cs, Inner, {})  BY <1>1, CatalogOpens
<1>6. Beside(Modpacks!FirstCalls(cs), cs, Inner, {})  BY <1>1, ModpacksOpens
<1>7. Beside(Backups!FirstCalls(cs), cs, Inner, {})  BY <1>1, BackupsOpens
<1>8. Beside(Connect!FirstCalls(cs), cs, Inner, {})  BY <1>1, ConnectOpens
<1>9. Beside(Properties!FirstCalls(cs), cs, Inner, {})  BY <1>1, PropertiesOpens
<1>10. Beside(Options!FirstCalls(cs), cs, Inner, {})  BY <1>1, OptionsOpens
<1>11. Beside(Links!FirstCalls(cs), cs, Inner, {})  BY <1>1, LinksOpens
<1>12. Beside(Bots!FirstCalls(cs), cs, Inner, {})  BY <1>1, BotsOpens
<1>13. Beside(Admin!FirstCalls(cs), cs, Inner, {})  BY <1>1, AdminOpens
<1>14. Beside(Theme!FirstCalls(cs), cs, Inner, {})  BY <1>1, BesideItself DEF Theme!FirstCalls
<1> QED
  BY <1>2, <1>3, <1>4, <1>5, <1>6, <1>7, <1>8, <1>9, <1>10, <1>11, <1>12, <1>13, <1>14,
    Zenon DEF Enter

\* The sockets and the ticket of the console, while it is drawn.
WiredInv == auth = "in" /\ page = "console" => Wired(view.status, sockets, calls)

PanelInv == AppInv /\ WiredInv

\* A step that keeps the token, and loses an answer at most.
Spends == UNCHANGED token /\ (faults' = faults \/ (faults < MaxFaults /\ faults' = faults + 1))

\* A page keeps the token, and loses an answer at most.
LEMMA PageSpends ==
    ASSUME PageStep
    PROVE  Spends
<1>1. CASE Servers!Next \/ \E i \in InFlight : Servers!Serve(i) \/ Servers!Settle(i)
  <2>1. CASE Servers!Next
    BY <2>1 DEF Spends, Servers!apiVars, Servers!Next, Servers!User, Servers!Tick,
      Servers!HostMoves, Servers!Power, Servers!ToggleForm, Servers!PickCore, Servers!TypeVersion,
      Servers!Submit
  <2>2. ASSUME NEW i \in InFlight, Servers!Serve(i)  PROVE Spends
    BY <2>2 DEF Spends, Servers!apiVars, Servers!Serve
  <2>3. ASSUME NEW i \in InFlight, Servers!Settle(i)  PROVE Spends
    BY <2>3 DEF Spends, Servers!Settle, Servers!SettleReload, Servers!SettlePower,
      Servers!SettleCores, Servers!SettleVersions, Servers!SettleSubmit, Servers!Replied,
      Servers!Failed
  <2> QED  BY <1>1, <2>1, <2>2, <2>3
<1>2. CASE Console!Next \/ \E i \in InFlight : Console!Serve(i) \/ Console!Settle(i)
  <2>1. CASE Console!Next
    BY <2>1 DEF Spends, Console!apiVars, Console!Next, Console!Tick, Console!Command,
      Console!Delete, Console!HostMoves, Console!Power, Console!Opens, Console!Hears,
      Console!Ends, Console!Tell, Console!Draw
  <2>2. ASSUME NEW i \in InFlight, Console!Serve(i)  PROVE Spends
    BY <2>2 DEF Spends, Console!apiVars, Console!Serve
  <2>3. ASSUME NEW i \in InFlight, Console!Settle(i)  PROVE Spends
    BY <2>3 DEF Spends, Console!Settle, Console!SettleReload, Console!SettleConnect,
      Console!SettleOther, Console!Replied, Console!Draw, Console!Failed, Console!Ended
  <2> QED  BY <1>2, <2>1, <2>2, <2>3
<1>3. CASE Files!Next \/ \E i \in InFlight : Files!Serve(i) \/ Files!Settle(i)
  <2>1. CASE Files!Next
    BY <2>1 DEF Spends, Files!apiVars, Files!Next, Files!Open, Files!ReadFile, Files!Cancel,
      Files!Save, Files!Download, Files!DeleteFile, Files!MoveFile, Files!MakeDirectory,
      Files!Unarchive, Files!Upload, Files!Change
  <2>2. ASSUME NEW i \in InFlight, Files!Serve(i)  PROVE Spends
    BY <2>2 DEF Spends, Files!apiVars, Files!Serve
  <2>3. ASSUME NEW i \in InFlight, Files!Settle(i)  PROVE Spends
    BY <2>3 DEF Spends, Files!Settle, Files!SettleLoad, Files!SettleRead, Files!SettleSave,
      Files!SettleChange, Files!SettleUpload, Files!Replied, Files!Failed, Files!Got
  <2> QED  BY <1>3, <2>1, <2>2, <2>3
<1>4. CASE Catalog!Next \/ \E i \in InFlight : Catalog!Serve(i) \/ Catalog!Settle(i)
  <2>1. CASE Catalog!Next
    BY <2>1 DEF Spends, Catalog!apiVars, Catalog!Next, Catalog!TypeQuery, Catalog!Search,
      Catalog!Install, Catalog!Later, Catalog!Toggle, Catalog!Delete, Catalog!Type, Catalog!Change
  <2>2. ASSUME NEW i \in InFlight, Catalog!Serve(i)  PROVE Spends
    BY <2>2 DEF Spends, Catalog!apiVars, Catalog!Serve
  <2>3. ASSUME NEW i \in InFlight, Catalog!Settle(i)  PROVE Spends
    BY <2>3 DEF Spends, Catalog!Settle, Catalog!SettleContent, Catalog!SettleInstalled,
      Catalog!SettleSearch, Catalog!SettleInstall, Catalog!SettleChange, Catalog!Replied,
      Catalog!Failed, Catalog!Ended, Catalog!Got
  <2> QED  BY <1>4, <2>1, <2>2, <2>3
<1>5. CASE Modpacks!Next \/ \E i \in InFlight : Modpacks!Serve(i) \/ Modpacks!Settle(i)
  <2>1. CASE Modpacks!Next
    BY <2>1 DEF Spends, Modpacks!apiVars, Modpacks!Next, Modpacks!Type, Modpacks!Search,
      Modpacks!Install, Modpacks!Poll, Modpacks!HostMoves
  <2>2. ASSUME NEW i \in InFlight, Modpacks!Serve(i)  PROVE Spends
    BY <2>2 DEF Spends, Modpacks!apiVars, Modpacks!Serve
  <2>3. ASSUME NEW i \in InFlight, Modpacks!Settle(i)  PROVE Spends
    BY <2>3 DEF Spends, Modpacks!Settle, Modpacks!SettleInstalled, Modpacks!SettleSearch,
      Modpacks!SettleInstall, Modpacks!SettlePoll, Modpacks!Ended, Modpacks!Replied,
      Modpacks!Failed
  <2> QED  BY <1>5, <2>1, <2>2, <2>3
<1>6. CASE Backups!Next \/ \E i \in InFlight : Backups!Serve(i) \/ Backups!Settle(i)
  <2>1. CASE Backups!Next
    BY <2>1 DEF Spends, Backups!apiVars, Backups!Next, Backups!Tick, Backups!HostMoves,
      Backups!Create, Backups!Restore, Backups!Delete, Backups!Download, Backups!SaveSchedule,
      Backups!Edit, Backups!Press
  <2>2. ASSUME NEW i \in InFlight, Backups!Serve(i)  PROVE Spends
    BY <2>2 DEF Spends, Backups!apiVars, Backups!Serve
  <2>3. ASSUME NEW i \in InFlight, Backups!Settle(i)  PROVE Spends
    BY <2>3 DEF Spends, Backups!Settle, Backups!SettleReload, Backups!SettleChange,
      Backups!SettleDownload, Backups!SettleSchedule, Backups!SettleSave, Backups!Replied,
      Backups!Failed, Backups!Got, Backups!Ended
  <2> QED  BY <1>6, <2>1, <2>2, <2>3
<1>7. CASE Connect!Next \/ \E i \in InFlight : Connect!Serve(i) \/ Connect!Settle(i)
  <2>1. CASE Connect!Next
    BY <2>1 DEF Spends, Connect!apiVars, Connect!Next, Connect!Forward, Connect!Unforward,
      Connect!EnableRelay, Connect!DisableRelay, Connect!Press
  <2>2. ASSUME NEW i \in InFlight, Connect!Serve(i)  PROVE Spends
    BY <2>2 DEF Spends, Connect!apiVars, Connect!Serve
  <2>3. ASSUME NEW i \in InFlight, Connect!Settle(i)  PROVE Spends
    BY <2>3 DEF Spends, Connect!Settle, Connect!SettleReload, Connect!SettleChange,
      Connect!Replied, Connect!Failed
  <2> QED  BY <1>7, <2>1, <2>2, <2>3
<1>8. CASE Properties!Next \/ \E i \in InFlight : Properties!Serve(i) \/ Properties!Settle(i)
  <2>1. CASE Properties!Next
    BY <2>1 DEF Spends, Properties!apiVars, Properties!Next, Properties!Save, Properties!Type
  <2>2. ASSUME NEW i \in InFlight, Properties!Serve(i)  PROVE Spends
    BY <2>2 DEF Spends, Properties!apiVars, Properties!Serve
  <2>3. ASSUME NEW i \in InFlight, Properties!Settle(i)  PROVE Spends
    BY <2>3 DEF Spends, Properties!Settle, Properties!SettleLoad, Properties!SettleSave,
      Properties!Replied, Properties!Failed
  <2> QED  BY <1>8, <2>1, <2>2, <2>3
<1>9. CASE Options!Next \/ \E i \in InFlight : Options!Serve(i) \/ Options!Settle(i)
  <2>1. CASE Options!Next
    BY <2>1 DEF Spends, Options!apiVars, Options!Next, Options!HostMoves, Options!ParentLearns,
      Options!Reset, Options!Save, Options!Edit
  <2>2. ASSUME NEW i \in InFlight, Options!Serve(i)  PROVE Spends
    BY <2>2 DEF Spends, Options!apiVars, Options!Serve
  <2>3. ASSUME NEW i \in InFlight, Options!Settle(i)  PROVE Spends
    BY <2>3 DEF Spends, Options!Settle, Options!SettleProxies, Options!SettleSave, Options!Got,
      Options!Failed, Options!Replied
  <2> QED  BY <1>9, <2>1, <2>2, <2>3
<1>10. CASE Links!Next \/ \E i \in InFlight : Links!Serve(i) \/ Links!Settle(i)
  <2>1. CASE Links!Next
    BY <2>1 DEF Spends, Links!apiVars, Links!Next, Links!RequestCode, Links!Unlink, Links!Expire,
      Links!ChangePassword, Links!Press
  <2>2. ASSUME NEW i \in InFlight, Links!Serve(i)  PROVE Spends
    BY <2>2 DEF Spends, Links!apiVars, Links!Serve
  <2>3. ASSUME NEW i \in InFlight, Links!Settle(i)  PROVE Spends
    BY <2>3 DEF Spends, Links!Settle, Links!SettleReload, Links!SettleChange,
      Links!SettlePassword, Links!Replied, Links!Failed, Links!Got, Links!Ended
  <2> QED  BY <1>10, <2>1, <2>2, <2>3
<1>11. CASE Bots!Next \/ \E i \in InFlight : Bots!Serve(i) \/ Bots!Settle(i)
  <2>1. CASE Bots!Next
    BY <2>1 DEF Spends, Bots!apiVars, Bots!Next, Bots!Follow, Bots!Press
  <2>2. ASSUME NEW i \in InFlight, Bots!Serve(i)  PROVE Spends
    BY <2>2 DEF Spends, Bots!apiVars, Bots!Serve
  <2>3. ASSUME NEW i \in InFlight, Bots!Settle(i)  PROVE Spends
    BY <2>3 DEF Spends, Bots!Settle, Bots!SettleReload, Bots!SettleChange, Bots!Replied,
      Bots!Failed, Bots!Got
  <2> QED  BY <1>11, <2>1, <2>2, <2>3
<1>12. CASE Admin!Next \/ \E i \in InFlight : Admin!Serve(i) \/ Admin!Settle(i)
  <2>1. CASE Admin!Next
    BY <2>1 DEF Spends, Admin!apiVars, Admin!Next, Admin!Create, Admin!Patch, Admin!DeleteUser,
      Admin!Press
  <2>2. ASSUME NEW i \in InFlight, Admin!Serve(i)  PROVE Spends
    BY <2>2 DEF Spends, Admin!apiVars, Admin!Serve
  <2>3. ASSUME NEW i \in InFlight, Admin!Settle(i)  PROVE Spends
    BY <2>3 DEF Spends, Admin!Settle, Admin!SettleReload, Admin!SettleChange, Admin!Replied,
      Admin!Failed, Admin!Got
  <2> QED  BY <1>12, <2>1, <2>2, <2>3
<1>13. CASE Theme!Next
  BY <1>13 DEF Spends, Theme!apiVars, Theme!Next, Theme!PickTheme, Theme!Edit, Theme!Save,
    Theme!Delete, Theme!SystemChanges, Theme!SetChoice
<1> QED  BY SMTT(30), <1>1, <1>2, <1>3, <1>4, <1>5, <1>6, <1>7, <1>8, <1>9, <1>10, <1>11, <1>12,
  <1>13 DEF PageStep

\* The session and the theme keep the token, or drop it for none or for the one
\* that a sign-in brought, and lose an answer at most.
LEMMA HeldStays ==
    ASSUME AppInv, Next
    PROVE  Held'
<1>1. /\ MaxFaults \in Nat /\ faults \in 0..MaxFaults
      /\ token \in Tokens /\ {None, Revoked} \subseteq Tokens
  BY ApiAssumption, PanelAssumption DEF AppInv, Held, Tokens, Revoked
<1>2. Spends => Held'  BY <1>1 DEF Held, Spends
<1>3. /\ token' \in Tokens
      /\ faults' = faults \/ (faults < MaxFaults /\ faults' = faults + 1)
      => Held'
  BY <1>1 DEF Held
<1>4. ASSUME NEW i \in InFlight, Serve(i)  PROVE Held'
  <2>1. CASE ServeApp(i)
    BY <1>1, <1>3, <2>1, SMTT(30) DEF ServeApp
  <2>2. CASE ServeLate(i) \/ Theme!Serve(i)
    BY <1>2, <2>2 DEF ServeLate, apiVars, Theme!Serve, Theme!apiVars, Spends
  <2> QED  BY <1>2, <1>4, <2>1, <2>2, PageSpends, ServesOneOf
<1>5. ASSUME NEW i \in InFlight, Settle(i)  PROVE Held'
  <2>1. CASE SettleApp(i)
    <3>1. faults' = faults \/ (faults < MaxFaults /\ faults' = faults + 1)
      BY <2>1 DEF SettleApp, SettleLoadUser, SettleLogin, SettleLogout, SettleDelete, Replied,
        Failed
    <3>2. token' \in Tokens
      BY <1>1, <2>1, LoginToken DEF SettleApp, SettleLoadUser, SettleLogout, SettleDelete
    <3> QED  BY <1>3, <3>1, <3>2
  <2>2. CASE SettleLate(i)
    BY <1>2, <2>2 DEF SettleLate, Ended, Replied, Failed, Spends
  <2>3. CASE Theme!Settle(i)
    BY <1>2, <2>3 DEF Theme!Settle, Theme!SettleSave, Theme!SettleDelete, Theme!SettleProvider,
      Theme!Replied, Theme!Failed, Theme!Ended, Theme!Got, Spends
  <2> QED  BY <1>2, <1>5, <2>1, <2>2, <2>3, PageSpends, SettlesOneOf
<1>6. ASSUME NEW i \in InFlight, Refuse(i)  PROVE Held'
  BY <1>2, <1>6 DEF Refuse, Unauthorized, apiVars, Spends
<1>7. CASE NoToken \/ Login \/ Logout \/ \E p \in Pages : Navigate(p)
  BY <1>2, <1>7 DEF NoToken, Login, Logout, Navigate, apiVars, Spends
<1>8. CASE PageNext
  <2>1. PageStep  BY <1>8, SMTT(30) DEF PageNext, PageStep
  <2> QED  BY <1>2, <2>1, PageSpends
<1>9. CASE Toggle
  BY <1>2, <1>9 DEF Toggle, Theme!Toggle, Theme!SetChoice, Theme!apiVars, Spends
<1> QED  BY <1>4, <1>5, <1>6, <1>7, <1>8, <1>9 DEF Next

\* A page's own step keeps it.
LEMMA PageKeeps ==
    ASSUME PanelInv, PageStep, Held'
    PROVE  PanelInv'
<1>1. /\ AppInv /\ WiredInv /\ Calls(calls) /\ Known(calls) /\ page \in Pages
      /\ token \in Tokens /\ UNCHANGED <<page, auth>> /\ auth = "in"
  BY PageIsInside DEF PanelInv, AppInv, Held
<1>2. CASE page \notin {"console", "theme"}
  <2>1. Inside(calls') /\ UNCHANGED <<sockets, look>>  BY <1>1, <1>2, PageIsInside
  <2>2. Calls(calls') /\ Known(calls')  BY <1>1, <2>1, KnownInside DEF Inside, Beside
  <2>3. "handleSubmit" \notin Inner  BY OuterAndInner DEF Outer
  <2>4. "handleSubmit" \notin DOMAIN calls'  BY <1>1, <2>1, <2>3 DEF Inside, Beside, AppInv
  <2> QED  BY <1>1, <1>2, <2>1, <2>2, <2>4 DEF AppInv, WiredInv, PanelInv, Theme!LookType
<1>3. CASE page = "console"
  <2>1. /\ look' = look
        /\ Console!Next \/ \E i \in InFlight : Console!Serve(i) \/ Console!Settle(i)
    BY <1>3 DEF PageStep, On
  <2>2. Wired(view'.status, sockets', calls')
    BY <1>1, <1>3, <2>1, ConsoleWired DEF WiredInv
  <2>3. Plugged(calls')
    <3>1. ASSUME NEW i \in InFlight, Console!Serve(i)  PROVE Plugged(calls')
      <4>1. Inside(calls')  BY <1>1, <3>1, ConsoleServes
      <4>2. Beside(calls', calls, ConsoleInner, PageOps)
        BY <4>1, BesideMore DEF Inside, ConsoleInner
      <4> QED  BY <1>1, <4>1, <4>2, KnownInside DEF Plugged
    <3> QED  BY <1>1, <2>1, <3>1, ConsoleGoesOn, ConsoleActs
  <2>4. "handleSubmit" \notin ConsoleInner  BY OuterAndInner DEF Outer, ConsoleInner
  <2>5. "handleSubmit" \notin DOMAIN calls'  BY <1>1, <2>3, <2>4 DEF Plugged, Beside, AppInv
  <2>6. Calls(calls') /\ Known(calls')  BY <2>3 DEF Plugged, Beside
  <2>7. sockets' = <<>> \/ \E s : sockets' = <<s>>  BY <2>2 DEF Wired
  <2> QED
    BY <1>1, <1>3, <2>1, <2>2, <2>5, <2>6, <2>7 DEF AppInv, WiredInv, PanelInv, Theme!LookType
<1>4. CASE page = "theme"
  <2>1. Theme!Next /\ sockets' = sockets  BY <1>4 DEF PageStep, On
  <2>2. Theme!LookType /\ Theme!Types  BY <1>1, <1>4 DEF AppInv
  <2>3. Aside(calls') /\ Look(look') /\ Theme!Types'  BY <1>1, <2>1, <2>2, ThemeActs
  <2>4. Calls(calls') /\ Known(calls')  BY <2>3 DEF Aside, Beside
  <2>5. "handleSubmit" \notin Around  BY <1>1 DEF Around, Lasting, Theme!Handlers
  <2>6. "handleSubmit" \notin DOMAIN calls'  BY <1>1, <2>3, <2>5 DEF Aside, Beside, AppInv
  <2>7. "theme" \in Sections  BY DEF Sections
  <2> QED
    BY <1>1, <1>4, <2>1, <2>3, <2>4, <2>6, <2>7
    DEF AppInv, WiredInv, PanelInv, Theme!LookType, Look
<1> QED  BY <1>2, <1>3, <1>4

\* A step aside of the page keeps it.
LEMMA AsideKeeps ==
    ASSUME PanelInv, AsideStep, Held'
    PROVE  PanelInv'
<1>1. AppInv /\ WiredInv /\ Calls(calls')  /\ Known(calls')
  BY DEF PanelInv, AsideStep, Aside, Beside
<1>2. /\ UNCHANGED <<page, auth, sockets>> /\ Aside(calls') /\ PaintsNone
  BY DEF AsideStep
<1>3. auth # "in" => DOMAIN calls' \subseteq Outer
  BY <1>1, <1>2 DEF AppInv, Aside, Beside, Around, Outer
<1>4. auth = "in" => "handleSubmit" \notin DOMAIN calls'
  BY <1>1, <1>2 DEF AppInv, Aside, Beside, Around, Lasting, Theme!Handlers
<1>5. WiredInv'
  <2>1. ASSUME auth = "in", page = "console"  PROVE Wired(view.status, sockets, calls')
    <3>1. "connect" \notin Around  BY OuterAndInner, <2>1 DEF Around
    <3>2. Wired(view.status, sockets, calls)  BY <1>1, <2>1 DEF WiredInv
    <3>3. /\ "connect" \in DOMAIN calls' <=> "connect" \in DOMAIN calls
          /\ Len(Queue(calls', "connect")) = Len(Queue(calls, "connect"))
      BY <1>2, <3>1 DEF Aside, Beside
    <3> QED  BY <3>2, <3>3 DEF Wired
  <2>2. auth = "in" /\ page = "console" => view' = view  BY DEF AsideStep
  <2> QED  BY <1>2, <2>1, <2>2 DEF WiredInv
<1>6. auth = "in" /\ page = "theme" => Theme!Types'  BY DEF AsideStep
<1> QED
  BY <1>1, <1>2, <1>3, <1>4, <1>5, <1>6 DEF AppInv, PanelInv, PaintsNone, Look, Theme!LookType

\* A page that is entered finds it so.
LEMMA EnterKeeps ==
    ASSUME PanelInv, EnterStep, Held'
    PROVE  PanelInv'
<1>1. AppInv /\ token \in Tokens /\ Theme!LookType  BY DEF PanelInv, AppInv, Held
<1>2. PICK p \in Pages : /\ \E cs : Fit(cs) /\ Enter(p, cs)
                         /\ look'.painted = Theme!Preview => p \in Sections
  BY Zenon DEF EnterStep
<1>3. PICK cs : Fit(cs) /\ Enter(p, cs)  BY <1>2, Zenon
<1>4. auth' = "in" /\ sockets' = <<>> /\ Look(look')  BY DEF EnterStep
<1>5. page' = p /\ Beside(calls', cs, Inner, {})  BY <1>1, <1>3, EntersWith
<1>6. Calls(calls') /\ Known(calls')
  BY <1>3, <1>5, KnownBeside, Zenon DEF Fit, Beside
<1>7. /\ "handleSubmit" \notin Inner \cup Lasting /\ "connect" \notin Inner \cup Lasting
  BY DEF Inner, Lasting, Theme!Handlers
<1>8. "handleSubmit" \notin DOMAIN calls' /\ "connect" \notin DOMAIN calls'
  BY <1>3, <1>5, <1>7 DEF Fit, Beside
<1>9. WiredInv'
  <2>1. Queue(calls', "connect") = <<>>  BY <1>8 DEF Queue
  <2>2. Len(Queue(calls', "connect")) \in {0, 1}  BY <2>1, EmptySeq
  <2> QED  BY <1>4, <1>8, <2>2 DEF WiredInv, Wired
<1>10. page' = "theme" => Theme!Types'
  <2>1. page' = "theme" => view' = Theme!Opening  BY <1>3, <1>5 DEF Enter
  <2>2. look.customs \in SUBSET Customs  BY <1>1 DEF Theme!LookType
  <2>3. Theme!Opening \in [editing : Customs \cup {None}, busy : BOOLEAN, seen : SUBSET Customs]
    BY <2>2 DEF Theme!Opening
  <2> QED  BY <2>1, <2>3, Zenon DEF Theme!Types
<1> QED
  BY <1>2, <1>4, <1>5, <1>6, <1>8, <1>9, <1>10 DEF AppInv, PanelInv, Look, Theme!LookType

\* The login form finds it so.
LEMMA SignOutKeeps ==
    ASSUME PanelInv, SignOutStep, Held'
    PROVE  PanelInv'
BY DEF PanelInv, AppInv, WiredInv, SignOutStep, Look, Theme!LookType

\* A tab starts with it.
LEMMA InitIsPanelInv ==
    ASSUME Init
    PROVE  PanelInv
<1>1. auth = "checking" /\ sockets = <<>> /\ page \in Pages  BY StartAssumption DEF Init
<1>2. Theme!LookType /\ look.painted # Theme!Preview
  <2>1. PICK start \in Starts : Theme!LookInit(start.choice)  BY DEF Init
  <2>2. start.choice \in Theme!ThemeChoices /\ Theme!Preview \notin Customs  BY ThemeAssumption
  <2>3. Theme!Preview \notin Theme!ThemeChoices
    BY <2>2 DEF Theme!ThemeChoices, Theme!Builtin, Theme!Preview, Theme!System
  <2>4. Theme!Apply(start.choice, {}) \in Theme!ThemeChoices
    BY <2>2 DEF Theme!Apply, Theme!ThemeChoices, Theme!Builtin
  <2> QED  BY <2>1, <2>2, <2>3, <2>4 DEF Theme!LookInit, Theme!LookType
<1>3. Held  BY ApiAssumption, PanelAssumption DEF Init, Held, Tokens, Revoked
<1>4. Calls(calls) /\ Known(calls) /\ DOMAIN calls \subseteq Outer
  <2> DEFINE c == Call("me", None)
             q == <<c>>
  <2>1. Shaped(c) /\ KnownCall("loadUser", c)
    BY <1>3, CallIsShaped, OperationNames
    DEF Held, KnownCall, Outer, Lasting, Theme!Handlers, PageWrites
  <2>2. Queued(q) /\ Range(q) = {c}
    <3>1. <<>> \in Seq({}) /\ Range(<<>>) = {}  BY EmptySeq DEF Range
    <3>2. q = Append(<<>>, c)  BY OneSocket, Zenon
    <3>3. Queued(Append(<<>>, c)) /\ Range(Append(<<>>, c)) = Range(<<>>) \cup {c}
      <4> DEFINE none == <<>>
      <4>1. none \in Seq(Range(none))  BY <3>1
      <4> HIDE DEF c, none
      <4>2. Queued(Append(none, c)) /\ Range(Append(none, c)) = Range(none) \cup {c}
        BY <4>1, OneMore
      <4> QED  BY <4>2 DEF none
    <3> HIDE DEF c, q
    <3> QED  BY <3>1, <3>2, <3>3
  <2>3. CASE calls = <<>>
    <3>1. DOMAIN calls = {}  BY <2>3
    <3> QED  BY <3>1 DEF Calls, Known, Queues, Sent
  <2>4. CASE calls = [h \in {"loadUser"} |-> q]
    <3>1. DOMAIN calls = {"loadUser"} /\ calls["loadUser"] = q  BY <2>4
    <3> HIDE DEF c, q
    <3>2. \A x \in Sent(calls) : x = <<"loadUser", c>>  BY <2>2, <3>1, SentIs
    <3>3. Queues(calls)  BY <2>2, <3>1 DEF Queues
    <3>4. "loadUser" \in Outer  BY DEF Outer, Lasting
    <3> QED  BY <2>1, <3>1, <3>2, <3>3, <3>4 DEF Calls, Known
  <2>5. calls = <<>> \/ calls = [h \in {"loadUser"} |-> q]  BY DEF Init
  <2> QED  BY <2>3, <2>4, <2>5
<1> QED  BY <1>1, <1>2, <1>3, <1>4 DEF PanelInv, AppInv, WiredInv

\* What holds of the tab on every page: the calls in flight are those of
\* handlers that are there for them, whatever page was left for whichever other
\* one, whenever; there is one socket or ticket at most, while the console is
\* drawn of a server that is live.
THEOREM PanelInvariance == Spec => []PanelInv
<1>1. Init => PanelInv  BY InitIsPanelInv
<1>2. PanelInv /\ [Next]_vars => PanelInv'
  <2>1. ASSUME PanelInv, Next  PROVE PanelInv'
    <3>1. PageStep \/ AsideStep \/ EnterStep \/ SignOutStep  BY <2>1, StepIsOneOf DEF PanelInv
    <3>2. Held'  BY <2>1, HeldStays DEF PanelInv
    <3> QED  BY <2>1, <3>1, <3>2, PageKeeps, AsideKeeps, EnterKeeps, SignOutKeeps
  <2>2. ASSUME PanelInv, UNCHANGED vars  PROVE PanelInv'
    BY <2>2 DEF vars, appVars, apiVars, PanelInv, AppInv, Held, WiredInv, Theme!LookType,
      Theme!Types
  <2> QED  BY <2>1, <2>2
<1> QED  BY <1>1, <1>2, PTL DEF Spec

\* App.tsx, ServerDetail.tsx, Settings.tsx: a page leaves nothing behind, in
\* whatever order the ticket, the status and the user came.
THEOREM NothingIsLeft == Spec => []LeavesNothing
<1>1. PanelInv => LeavesNothing
  <2> SUFFICES ASSUME PanelInv  PROVE LeavesNothing
    OBVIOUS
  <2>1. AppInv /\ WiredInv  BY DEF PanelInv
  <2>2. Len(sockets) <= 1
    <3>1. CASE sockets = <<>>  BY <3>1, EmptySeq
    <3>2. ASSUME NEW s, sockets = <<s>>  PROVE Len(sockets) <= 1
      <4>1. Len(sockets) = 1  BY <3>2, OneSocket
      <4> QED  BY <4>1
    <3> QED  BY <2>1, <3>1, <3>2 DEF AppInv
  <2> QED  BY <2>1, <2>2 DEF AppInv, WiredInv, Wired, LeavesNothing
<1> QED  BY <1>1, PanelInvariance, PTL

-----------------------------------------------------------------------------
(* The session.                                                            *)

\* A token that is kept while the login form is drawn is asked about.
SessionInv == auth = "anonymous" /\ token # None => "loadUser" \in DOMAIN calls

\* A handler awaits something still, whatever others do.
LEMMA StillAwaits ==
    ASSUME Calls(calls), NEW k \in DOMAIN calls
    PROVE  /\ \A i, c : Update(i, c) => k \in DOMAIN calls'
           /\ \A h, c : k \in DOMAIN Add(calls, h, c)
           /\ \A i \in InFlight : i[1] # k => /\ k \in DOMAIN Without(i)
                                           /\ \A h, c : k \in DOMAIN Add(Without(i), h, c)
<1>1. ASSUME NEW cs, Queues(cs), k \in DOMAIN cs, NEW h, NEW c
      PROVE  k \in DOMAIN Add(cs, h, c)
  <2>1. AddIs(Add(cs, h, c), cs, h, c)  BY <1>1, AddKeeps
  <2> QED  BY <1>1, <2>1 DEF AddIs
<1>2. ASSUME NEW i \in InFlight, i[1] # k
      PROVE  Queues(Without(i)) /\ k \in DOMAIN Without(i)
  <2>1. WithoutIs(Without(i), calls, i[1])  BY WithoutKeeps DEF Calls
  <2> QED  BY <1>2, <2>1 DEF WithoutIs
<1>3. \A i, c : Update(i, c) => k \in DOMAIN calls'  BY DEF Update
<1> QED  BY <1>1, <1>2, <1>3 DEF Calls

\* The daemon answers the session or the theme: who asked awaits it still.
LEMMA ServedSession ==
    ASSUME AppInv, SessionInv, NEW i \in InFlight,
           ServeApp(i) \/ ServeLate(i) \/ Theme!Serve(i) \/ Unauthorized(i),
           auth = "anonymous", token' # None
    PROVE  "loadUser" \in DOMAIN calls'
<1>1. token # None
  BY DEF ServeApp, ServeLate, Theme!Serve, Unauthorized, Asked, Accepted, apiVars,
    Theme!apiVars
<1>2. "loadUser" \in DOMAIN calls  BY <1>1 DEF SessionInv
<1>3. \A c : Update(i, c) => "loadUser" \in DOMAIN calls'
  BY <1>2, StillAwaits DEF AppInv
<1>4. CASE ServeApp(i)
  <2>1. CASE DOMAIN calls' = DOMAIN calls  BY <1>2, <2>1
  <2>2. CASE \E val : Answer(i, val)  BY <1>3, <2>2 DEF Answer
  <2>3. CASE Reject(i)  BY <1>3, <2>3 DEF Reject
  <2> QED  BY <1>4, <2>1, <2>2, <2>3 DEF ServeApp
<1>5. CASE ServeLate(i)  BY <1>3, <1>5 DEF ServeLate, Answer
<1>6. CASE Theme!Serve(i)
  <2>1. Answers(i)  BY <1>6, ThemeApi DEF Theme!Serve
  <2> QED  BY <1>3, <2>1 DEF Answers
<1>7. CASE Unauthorized(i)  BY <1>3, <1>7 DEF Unauthorized, Reject
<1> QED  BY <1>4, <1>5, <1>6, <1>7

\* A handler of the session or the theme goes on.
LEMMA SettledSession ==
    ASSUME AppInv, SessionInv, NEW i \in InFlight,
           SettleApp(i) \/ (SettleLate(i) /\ UNCHANGED appVars)
             \/ (Theme!Settle(i) /\ UNCHANGED appVars),
           auth' = "anonymous", token' # None
    PROVE  "loadUser" \in DOMAIN calls'
<1>1. Calls(calls)  BY DEF AppInv
<1>2. CASE SettleLoadUser(i)
  BY <1>2 DEF SettleLoadUser
<1>3. CASE SettleLogin(i)
  <2>1. i[1] # "loadUser"  BY <1>3 DEF SettleLogin, Replied, Failed
  <2>2. CASE calls' = Add(Without(i), "loadUser", [Call("me", None) EXCEPT !.tok = token'])
    <3>1. Queues(Without(i))
      <4>1. WithoutIs(Without(i), calls, i[1])  BY <1>1, WithoutKeeps DEF Calls
      <4> QED  BY <4>1 DEF WithoutIs
    <3> QED  BY <2>2, <3>1, OneMoreAsked
  <2>3. CASE calls' = Without(i) /\ UNCHANGED token
    <3>1. "loadUser" \in DOMAIN calls  BY <1>3, <2>3 DEF SettleLogin, SessionInv
    <3> QED  BY <1>1, <2>1, <2>3, <3>1, StillAwaits
  <2> QED  BY <1>3, <2>2, <2>3 DEF SettleLogin
<1>4. CASE SettleLogout(i)  BY <1>4 DEF SettleLogout
<1>5. CASE SettleDelete(i) /\ UNCHANGED auth
  <2>1. i[1] = "delete" /\ calls' = Without(i) /\ UNCHANGED token
    BY <1>5 DEF SettleDelete, Replied
  <2>2. "loadUser" \in DOMAIN calls  BY <1>5, <2>1 DEF SessionInv
  <2> QED  BY <1>1, <2>1, <2>2, StillAwaits
<1>6. CASE SettleLate(i) /\ UNCHANGED appVars
  <2>1. i[1] # "loadUser" /\ calls' = Without(i) /\ UNCHANGED <<token, auth>>
    BY <1>6 DEF SettleLate, Ended, Replied, Failed, appVars
  <2>2. "loadUser" \in DOMAIN calls  BY <2>1 DEF SessionInv
  <2> QED  BY <1>1, <2>1, <2>2, StillAwaits
<1>7. CASE Theme!Settle(i) /\ UNCHANGED appVars
  <2>1. i[1] # "loadUser" /\ UNCHANGED <<token, auth>>
    BY <1>7 DEF Theme!Settle, Theme!SettleSave, Theme!SettleDelete, Theme!SettleProvider,
      Theme!Replied, Theme!Failed, Theme!Ended, Theme!Got, appVars
  <2>2. calls' = Without(i) \/ \E h, c : calls' = Add(Without(i), h, c)
    BY <1>7, ThemeApi DEF Theme!Settle, Theme!SettleSave, Theme!SettleDelete,
      Theme!SettleProvider, Theme!LoadThemes
  <2>3. "loadUser" \in DOMAIN calls  BY <2>1 DEF SessionInv
  <2> QED  BY <1>1, <2>1, <2>2, <2>3, StillAwaits
<1> QED  BY <1>2, <1>3, <1>4, <1>5, <1>6, <1>7 DEF SettleApp, SettleDelete

\* App.tsx, Login.tsx, Layout.tsx: a tab that shows the login form, with no
\* handler of the session under way, keeps no token.
THEOREM SessionAlwaysAgrees == Spec => []SessionAgrees
<1>1. Init => SessionInv  BY DEF Init, SessionInv
<1>2. PanelInv /\ SessionInv /\ [Next]_vars => SessionInv'
  <2> SUFFICES ASSUME PanelInv, SessionInv, [Next]_vars, auth' = "anonymous", token' # None
               PROVE  "loadUser" \in DOMAIN calls'
    BY DEF SessionInv
  <2>1. AppInv /\ Calls(calls)  BY DEF PanelInv, AppInv
  <2>2. auth = "anonymous" /\ token # None => "loadUser" \in DOMAIN calls  BY DEF SessionInv
  <2>3. ~PageStep /\ ~PageNext /\ ~Toggle /\ ~Logout /\ ~\E p \in Pages : Navigate(p)
    <3>1. ~PageStep  BY <2>1, PageIsInside
    <3>2. PageNext => PageStep  BY SMTT(30) DEF PageNext, PageStep
    <3>3. ~Toggle /\ ~Logout /\ ~\E p \in Pages : Navigate(p)
      BY DEF Toggle, Logout, Navigate, appVars
    <3> QED  BY <3>1, <3>2, <3>3
  <2>4. ASSUME NEW i \in InFlight, Serve(i)  PROVE "loadUser" \in DOMAIN calls'
    <3>1. \/ (ServeApp(i) \/ ServeLate(i) \/ Theme!Serve(i)) /\ UNCHANGED appVars
          \/ PageStep
      BY <2>4, ServesOneOf, Zenon
    <3> QED  BY <2>1, <2>3, <3>1, ServedSession DEF appVars
  <2>5. ASSUME NEW i \in InFlight, Settle(i)  PROVE "loadUser" \in DOMAIN calls'
    <3>1. \/ SettleApp(i) \/ (SettleLate(i) /\ UNCHANGED appVars)
          \/ (Theme!Settle(i) /\ UNCHANGED appVars)
          \/ PageStep
      BY <2>5, SettlesOneOf, Zenon
    <3> QED  BY <2>1, <2>3, <3>1, SettledSession
  <2>6. ASSUME NEW i \in InFlight, Refuse(i)  PROVE "loadUser" \in DOMAIN calls'
    BY <2>1, <2>6, ServedSession DEF Refuse, appVars
  <2>7. CASE NoToken  BY <2>7 DEF NoToken, apiVars
  <2>8. CASE Login
    <3>1. /\ UNCHANGED <<auth, token>>
          /\ \E c : calls' = Add(calls, "handleSubmit", c)
      BY <2>8 DEF Login, Ask, appVars, apiVars
    <3> QED  BY <2>1, <2>2, <3>1, StillAwaits
  <2>9. CASE UNCHANGED vars  BY <2>2, <2>9 DEF vars, appVars
  <2> QED  BY <2>3, <2>4, <2>5, <2>6, <2>7, <2>8, <2>9 DEF Next
<1>3. SessionInv => SessionAgrees  BY DEF SessionInv, SessionAgrees, Session
<1> QED  BY <1>1, <1>2, <1>3, PanelInvariance, PTL DEF Spec

=============================================================================
