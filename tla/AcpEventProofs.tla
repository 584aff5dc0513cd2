---------------------------- MODULE AcpEventProofs ----------------------------
(***************************************************************************)
(* What happens to an event: it is in one place at a time, it is not lost, *)
(* it does not come back, and a withheld one is not forgotten.  For every  *)
(* number of agents, channels and events, every queue cap and batch size,  *)
(* with every fault, control, membership change and timeout.               *)
(*                                                                         *)
(* The first part says what the helpers on a deque do to its elements, the *)
(* second what every operation of the event queue does to the elements of  *)
(* its channel, the third that every step of the harness only moves        *)
(* events between places or gives them up on the record.                   *)
(***************************************************************************)
EXTENDS AcpSafetyProofs, FiniteSetTheorems

-----------------------------------------------------------------------------
(***************************************************************************)
(* Deques without repetition.                                              *)
(***************************************************************************)
\* A part of a deque.
LEMMA SubSeqOnce ==
    ASSUME NEW s \in Seq(Events), NEW m \in Nat \ {0}, NEW n \in Int, n <= Len(s)
    PROVE  /\ Range(SubSeq(s, m, n)) = {s[i] : i \in m..n}
           /\ IsInjective(s) => IsInjective(SubSeq(s, m, n))
<1> DEFINE u == SubSeq(s, m, n)
<1>1. Len(s) \in Nat /\ DOMAIN s = 1..Len(s) /\ \A i \in m..n : s[i] \in Events
    BY LenProperties, ElementOfSeq
<1>2. /\ u \in Seq(Events)
      /\ Len(u) = IF m <= n THEN n - m + 1 ELSE 0
      /\ \A i \in 1..(n - m + 1) : u[i] = s[m + i - 1]
    BY <1>1, SubSeqProperties
<1> HIDE DEF u
<1>3. DOMAIN u = 1..(n - m + 1)
    BY <1>2, LenProperties
<1>4. Range(u) = {s[i] : i \in m..n}
    <2>1. ASSUME NEW i \in m..n PROVE s[i] \in Range(u)
        <3>1. i - m + 1 \in 1..(n - m + 1) /\ s[m + (i - m + 1) - 1] = s[i]
            OBVIOUS
        <3> QED
            BY <1>2, <1>3, <3>1 DEF Range
    <2>2. ASSUME NEW j \in 1..(n - m + 1) PROVE u[j] \in {s[i] : i \in m..n}
        <3>1. m + j - 1 \in m..n
            OBVIOUS
        <3> QED
            BY <1>2, <3>1
    <2> QED
        BY <1>3, <2>1, <2>2 DEF Range
<1>5. IsInjective(s) => IsInjective(u)
    <2> SUFFICES ASSUME IsInjective(s), NEW i \in 1..(n - m + 1), NEW j \in 1..(n - m + 1),
                        u[i] = u[j]
                 PROVE  i = j
        BY <1>3 DEF IsInjective
    <2>1. m + i - 1 \in 1..Len(s) /\ m + j - 1 \in 1..Len(s)
        BY <1>1
    <2>2. s[m + i - 1] = s[m + j - 1]
        BY <1>2
    <2>3. m + i - 1 = m + j - 1
        BY <1>1, <2>1, <2>2 DEF IsInjective
    <2> QED
        BY <2>3
<1> QED
    BY <1>4, <1>5 DEF u

\* One deque behind another.
LEMMA ConcatOnce ==
    ASSUME NEW s \in Seq(Events), NEW t \in Seq(Events)
    PROVE  /\ s \o t \in Seq(Events)
           /\ Range(s \o t) = Range(s) \cup Range(t)
           /\ IsInjective(s) /\ IsInjective(t) /\ Range(s) \cap Range(t) = {}
                => IsInjective(s \o t)
<1>1. s \o t \in Seq(Events) /\ Range(s \o t) = Range(s) \cup Range(t)
    BY ConcatProperties, RangeConcatenation
<1>2. /\ Len(s) \in Nat /\ Len(t) \in Nat /\ DOMAIN s = 1..Len(s) /\ DOMAIN t = 1..Len(t)
      /\ DOMAIN (s \o t) = 1..(Len(s) + Len(t))
      /\ \A i \in 1..(Len(s) + Len(t)) :
            (s \o t)[i] = IF i <= Len(s) THEN s[i] ELSE t[i - Len(s)]
    BY <1>1, LenProperties, ConcatProperties
<1>3. ASSUME IsInjective(s), IsInjective(t), Range(s) \cap Range(t) = {},
             NEW i \in 1..(Len(s) + Len(t)), NEW j \in 1..(Len(s) + Len(t)),
             (s \o t)[i] = (s \o t)[j]
      PROVE  i = j
    <2>1. CASE i <= Len(s) /\ j <= Len(s)
        BY <1>2, <1>3, <2>1 DEF IsInjective
    <2>2. CASE i > Len(s) /\ j > Len(s)
        <3>1. i - Len(s) \in 1..Len(t) /\ j - Len(s) \in 1..Len(t)
            BY <1>2, <2>2
        <3>2. t[i - Len(s)] = t[j - Len(s)]
            BY <1>2, <1>3, <2>2
        <3> QED
            BY <1>2, <1>3, <3>1, <3>2 DEF IsInjective
    <2>3. ASSUME NEW k \in 1..(Len(s) + Len(t)), NEW l \in 1..(Len(s) + Len(t)),
                 k <= Len(s), l > Len(s)
          PROVE  (s \o t)[k] # (s \o t)[l]
        <3>1. s[k] \in Range(s)
            BY <1>2, <2>3 DEF Range
        <3>2. t[l - Len(s)] \in Range(t)
            <4>1. l - Len(s) \in DOMAIN t
                BY <1>2, <2>3
            <4> QED
                BY <4>1 DEF Range
        <3> QED
            BY <1>2, <1>3, <2>3, <3>1, <3>2
    <2> QED
        BY <1>2, <1>3, <2>1, <2>2, <2>3
<1> QED
    BY <1>1, <1>2, <1>3 DEF IsInjective

\* pop_back until the cap is met: every element is kept or thrown away.
LEMMA TrimBackOnce ==
    ASSUME NEW s \in Seq(Events)
    PROVE  /\ Range(s) = Range(TrimBack(s)) \cup Trimmed(s)
           /\ IsInjective(s) => /\ IsInjective(TrimBack(s))
                                /\ Range(TrimBack(s)) \cap Trimmed(s) = {}
<1> DEFINE k == SeqMin(Len(s), MaxPending)
<1>1. Len(s) \in Nat /\ DOMAIN s = 1..Len(s) /\ MaxPending \in Nat \ {0}
    BY LenProperties, QueueAssumption
<1>2. k \in Nat /\ k <= Len(s) /\ \A i \in 1..Len(s) : i \in 1..k \/ i \in (MaxPending + 1)..Len(s)
    BY <1>1 DEF SeqMin
<1>3. \A i \in 1..k : i <= MaxPending
    BY <1>1 DEF SeqMin
<1> HIDE DEF k
<1>4. Range(SubSeq(s, 1, k)) = {s[i] : i \in 1..k} /\ (IsInjective(s) => IsInjective(SubSeq(s, 1, k)))
    BY <1>2, SubSeqOnce
<1>5. Trimmed(s) = {s[i] : i \in (MaxPending + 1)..Len(s)}
    BY <1>1, SubSeqOnce DEF Trimmed
<1>6. TrimBack(s) = SubSeq(s, 1, k)
    BY DEF TrimBack, k
<1>7. Range(s) = Range(TrimBack(s)) \cup Trimmed(s)
    <2>1. \A i \in 1..k : i \in 1..Len(s)
        BY <1>1, <1>2
    <2>2. \A i \in (MaxPending + 1)..Len(s) : i \in 1..Len(s)
        BY <1>1
    <2>3. Range(s) = {s[i] : i \in 1..Len(s)}
        BY <1>1 DEF Range
    <2> QED
        BY <1>2, <1>4, <1>5, <1>6, <2>1, <2>2, <2>3
<1>8. ASSUME IsInjective(s) PROVE Range(TrimBack(s)) \cap Trimmed(s) = {}
    <2>1. \A i \in 1..k, j \in (MaxPending + 1)..Len(s) : s[i] # s[j]
        BY <1>1, <1>2, <1>3, <1>8 DEF IsInjective
    <2> QED
        BY <1>4, <1>5, <1>6, <2>1
<1> QED
    BY <1>4, <1>6, <1>7, <1>8

\* Removing an event removes nothing else.
LEMMA WithoutOnce ==
    ASSUME NEW s \in Seq(Events), NEW e, IsInjective(s)
    PROVE  /\ IsInjective(Without(s, e))
           /\ Range(Without(s, e)) = Range(s) \ {e}
<1>1. Len(s) \in Nat /\ DOMAIN s = 1..Len(s)
    BY LenProperties
<1>2. CASE e \in Range(s)
    <2> DEFINE i == CHOOSE j \in DOMAIN s : s[j] = e
    <2>1. i \in 1..Len(s) /\ s[i] = e
        BY <1>1, <1>2 DEF Range
    <2>2. Without(s, e) = SubSeq(s, 1, i - 1) \o SubSeq(s, i + 1, Len(s))
        BY <1>2 DEF Without
    <2> HIDE DEF i
    <2> DEFINE l == SubSeq(s, 1, i - 1)
               r == SubSeq(s, i + 1, Len(s))
    <2>3. /\ l \in Seq(Events) /\ IsInjective(l) /\ Range(l) = {s[j] : j \in 1..(i - 1)}
        BY <1>1, <2>1, SubSeqType, SubSeqOnce
    <2>4. /\ r \in Seq(Events) /\ IsInjective(r) /\ Range(r) = {s[j] : j \in (i + 1)..Len(s)}
        BY <1>1, <2>1, SubSeqType, SubSeqOnce
    <2>5. Without(s, e) = l \o r
        BY <2>2
    <2> HIDE DEF l, r
    <2>6. \A j \in 1..(i - 1), k \in (i + 1)..Len(s) : s[j] # s[k]
        BY <1>1, <2>1 DEF IsInjective
    <2>7. Range(l) \cap Range(r) = {}
        BY <2>3, <2>4, <2>6
    <2>8. Range(s) \ {e} = Range(l) \cup Range(r)
        <3>1. \A j \in 1..Len(s) : s[j] = e <=> j = i
            BY <1>1, <2>1 DEF IsInjective
        <3>2. \A j \in 1..Len(s) : j = i \/ j \in 1..(i - 1) \/ j \in (i + 1)..Len(s)
            BY <1>1, <2>1
        <3>3. \A j \in 1..(i - 1) : j \in 1..Len(s) /\ j # i
            BY <1>1, <2>1
        <3>4. \A j \in (i + 1)..Len(s) : j \in 1..Len(s) /\ j # i
            BY <1>1, <2>1
        <3> QED
            BY <1>1, <2>3, <2>4, <3>1, <3>2, <3>3, <3>4 DEF Range
    <2> QED
        BY ZenonT(60), <2>3, <2>4, <2>5, <2>7, <2>8, ConcatOnce
<1>3. CASE e \notin Range(s)
    BY <1>3 DEF Without
<1> QED
    BY <1>2, <1>3

\* Sorting moves every element and repeats none: an order is an injection of
\* the positions into themselves, so it reaches each of them.
LEMMA SortOnce ==
    ASSUME NEW s \in Seq(Events), NEW t \in StableSorts(s), IsInjective(s)
    PROVE  IsInjective(t) /\ Range(t) = Range(s)
<1> DEFINE n == Len(s)
<1>1. n \in Nat /\ DOMAIN s = 1..n
    BY LenProperties
<1>2. PICK p \in StableOrders(s) : t = [i \in 1..n |-> s[p[i]]]
    BY DEF StableSorts
<1>3. /\ p \in [1..n -> 1..n]
      /\ \A i \in 1..n : \A j \in 1..n : i < j => SortsBefore(s, p[i], p[j])
    BY DEF StableOrders
<1> HIDE DEF n
<1>4. \A i, j \in 1..n : i < j => p[i] # p[j]
    <2> SUFFICES ASSUME NEW i \in 1..n, NEW j \in 1..n, i < j, p[i] = p[j] PROVE FALSE
        OBVIOUS
    <2>1. SortsBefore(s, p[i], p[i]) /\ p[i] \in 1..n
        BY <1>3
    <2>2. s[p[i]] \in Events
        BY <2>1, ElementOfSeq DEF n
    <2>3. CreatedAt[s[p[i]]] \in Nat
        BY <2>2, QueueAssumption
    <2> QED
        BY <2>1, <2>3 DEF SortsBefore
<1>5. \A i, j \in 1..n : p[i] = p[j] => i = j
    BY <1>1, <1>4
<1>6. p \in Injection(1..n, 1..n)
    BY <1>3, <1>5 DEF Injection, IsInjective
<1>7. p \in Surjection(1..n, 1..n)
    <2>1. IsFiniteSet(1..n)
        BY <1>1, FS_Interval
    <2> QED
        BY <1>6, <2>1, FS_Injection
<1>8. IsInjective(t)
    BY <1>1, <1>2, <1>3, <1>5 DEF IsInjective
<1>9. Range(t) = Range(s)
    <2>1. \A j \in 1..n : \E i \in 1..n : p[i] = j
        BY <1>7 DEF Surjection
    <2> QED
        BY <1>1, <1>2, <1>3, <2>1 DEF Range
<1> QED
    BY <1>8, <1>9
-----------------------------------------------------------------------------
(***************************************************************************)
(* The operations of the event queue, by what they do to the events of     *)
(* their channel.                                                          *)
(***************************************************************************)
\* The events channel c of queue Q holds.
ChannelHeld(Q, c) == Range(Q.queues[c]) \cup Range(Q.cancelled[c]) \cup Range(Q.withheld[c])

\* None of them is there twice.
ChannelOnce(Q, c) ==
    /\ IsInjective(Q.queues[c]) /\ IsInjective(Q.cancelled[c]) /\ IsInjective(Q.withheld[c])
    /\ Range(Q.queues[c]) \cap Range(Q.cancelled[c]) = {}
    /\ Range(Q.queues[c]) \cap Range(Q.withheld[c]) = {}
    /\ Range(Q.cancelled[c]) \cap Range(Q.withheld[c]) = {}

BatchOnce(b) ==
    /\ IsInjective(b.events) /\ IsInjective(b.cancelled)
    /\ Range(b.events) \cap Range(b.cancelled) = {}

\* Channel c has the same lists in Q and R.
SameLists(Q, R, c) ==
    /\ R.queues[c] = Q.queues[c]
    /\ R.cancelled[c] = Q.cancelled[c]
    /\ R.withheld[c] = Q.withheld[c]

\* Then it holds the same events.
LEMMA SameListsHeld ==
    ASSUME NEW Q, NEW R, NEW c, SameLists(Q, R, c)
    PROVE  /\ ChannelHeld(R, c) = ChannelHeld(Q, c)
           /\ ChannelOnce(Q, c) => ChannelOnce(R, c)
           /\ Range(R.withheld[c]) = Range(Q.withheld[c])
BY DEF SameLists, ChannelHeld, ChannelOnce

\* The lists of a channel are deques of events.
LEMMA ListTypes ==
    ASSUME NEW Q \in QueueState, NEW c \in Channels
    PROVE  /\ Q.queues[c] \in Seq(Events) /\ Q.cancelled[c] \in Seq(Events)
           /\ Q.withheld[c] \in Seq(Events)
           /\ ChannelHeld(Q, c) \subseteq Events
<1>1. /\ Q.queues[c] \in Seq(Events) /\ Q.cancelled[c] \in Seq(Events)
      /\ Q.withheld[c] \in Seq(Events)
    BY DEF QueueState
<1> QED
    BY <1>1, RangeType DEF ChannelHeld

\* The empty deque.
LEMMA EmptyOnce == << >> \in Seq(Events) /\ Range(<< >>) = {} /\ IsInjective(<< >>)
<1>1. << >> \in Seq(Events) /\ DOMAIN << >> = {}
    BY EmptySeq, LenProperties
<1> QED
    BY <1>1 DEF Range, IsInjective

\* A deque of one event.
LEMMA OneOnce ==
    ASSUME NEW e \in Events
    PROVE  <<e>> \in Seq(Events) /\ Range(<<e>>) = {e} /\ IsInjective(<<e>>)
<1>1. <<e>> \in Seq(Events) /\ DOMAIN <<e>> = {1} /\ <<e>>[1] = e
    OBVIOUS
<1> QED
    BY <1>1 DEF Range, IsInjective

\* mark_complete, extend_in_flight_deadline, compact_expired_state and the
\* passage of time touch no list.
LEMMA ClockLists ==
    ASSUME NEW Q \in QueueState, NEW c \in Channels, NEW d \in Channels
    PROVE  /\ SameLists(Q, MarkComplete(Q, c), d)
           /\ SameLists(Q, ExtendInFlightDeadline(Q, c), d)
           /\ SameLists(Q, CompactExpiredState(Q), d)
           /\ SameLists(Q, ThrottleElapsed(Q, c), d)
           /\ SameLists(Q, DeadlinePassed(Q, c), d)
<1>1. SameLists(Q, MarkComplete(Q, c), d)
    BY DEF MarkComplete, SameLists, QueueState
<1>2. SameLists(Q, CompactExpiredState(Q), d)
    BY DEF CompactExpiredState, SameLists, QueueState
<1>3. /\ SameLists(Q, ExtendInFlightDeadline(Q, c), d)
      /\ SameLists(Q, ThrottleElapsed(Q, c), d)
      /\ SameLists(Q, DeadlinePassed(Q, c), d)
    BY DEF ExtendInFlightDeadline, ThrottleElapsed, DeadlinePassed, SameLists, QueueState
<1> QED
    BY <1>1, <1>2, <1>3

\* The release of overdue channels moves their withheld events to their
\* queues; what does not fit is dropped on the record.
LEMMA ExpireLists ==
    ASSUME NEW Q \in QueueState, NEW c \in Channels
    PROVE  LET R == ExpireInFlight(Q) IN
           /\ ChannelHeld(R, c) \subseteq ChannelHeld(Q, c)
           /\ ChannelHeld(Q, c) \subseteq ChannelHeld(R, c) \cup ExpireDrops(Q)
           /\ ChannelOnce(Q, c) => ChannelOnce(R, c)
           /\ Range(R.withheld[c]) \subseteq Range(Q.withheld[c])
           /\ c \in Q.overdue => Range(R.withheld[c]) = {}
           /\ c \notin Q.overdue => SameLists(Q, R, c)
<1> DEFINE R == ExpireInFlight(Q)
           u == Q.withheld[c] \o Q.queues[c]
<1>1. CASE c \notin Q.overdue
    <2>1. SameLists(Q, R, c)
        BY <1>1 DEF ExpireInFlight, SameLists, QueueState
    <2> HIDE DEF R
    <2> QED
        BY <1>1, <2>1, SameListsHeld DEF R
<1>2. CASE c \in Q.overdue
    <2>1. /\ R.queues[c] = TrimBack(u) /\ R.cancelled[c] = Q.cancelled[c]
          /\ R.withheld[c] = << >>
        BY <1>2 DEF ExpireInFlight, QueueState
    <2>2. /\ u \in Seq(Events) /\ Range(u) = Range(Q.withheld[c]) \cup Range(Q.queues[c])
          /\ ChannelOnce(Q, c) => IsInjective(u)
        BY ListTypes, ConcatOnce DEF ChannelOnce
    <2>3. Trimmed(u) \subseteq ExpireDrops(Q)
        BY <1>2 DEF ExpireDrops
    <2> HIDE DEF R, u
    <2>4. /\ Range(u) = Range(TrimBack(u)) \cup Trimmed(u)
          /\ IsInjective(u) => IsInjective(TrimBack(u))
        BY <2>2, TrimBackOnce
    <2>5. ChannelHeld(R, c) = Range(TrimBack(u)) \cup Range(Q.cancelled[c])
        BY <2>1, EmptyOnce DEF ChannelHeld
    <2>6. ChannelHeld(Q, c) = Range(u) \cup Range(Q.cancelled[c])
        BY <2>2 DEF ChannelHeld
    <2>7. ASSUME ChannelOnce(Q, c) PROVE ChannelOnce(R, c)
        <3>1. IsInjective(TrimBack(u)) /\ IsInjective(Q.cancelled[c])
            BY <2>2, <2>4, <2>7 DEF ChannelOnce
        <3>2. Range(TrimBack(u)) \cap Range(Q.cancelled[c]) = {}
            BY <2>2, <2>4, <2>7 DEF ChannelOnce
        <3> QED
            BY <2>1, <3>1, <3>2, EmptyOnce DEF ChannelOnce
    <2>8. /\ Range(R.withheld[c]) = {} /\ ChannelHeld(R, c) \subseteq ChannelHeld(Q, c)
          /\ ChannelHeld(Q, c) \subseteq ChannelHeld(R, c) \cup ExpireDrops(Q)
        BY <2>1, <2>3, <2>4, <2>5, <2>6, EmptyOnce
    <2> QED
        BY <1>2, <2>7, <2>8 DEF R
<1> QED
    BY <1>1, <1>2

\* Nothing overdue, nothing released.
LEMMA ExpireNothing ==
    ASSUME NEW Q \in QueueState, Q.overdue = {}
    PROVE  ExpireInFlight(Q) = Q /\ ExpireDrops(Q) = {}
BY DEF ExpireInFlight, ExpireDrops

\* flush_next splits its channel's events into the batch and the rest.
LEMMA FlushLists ==
    ASSUME NEW Q \in QueueState, NEW c \in Channels, ChannelOnce(Q, c),
           NEW sorted \in StableSorts(Drained(Q, c))
    PROVE  LET R == AfterFlush(Q, c)
               b == FlushedBatch(Q, c, sorted) IN
           /\ BatchOnce(b) /\ ChannelOnce(R, c)
           /\ ChannelHeld(Q, c) = ChannelHeld(R, c) \cup BatchEvents(b)
           /\ ChannelHeld(R, c) \cap BatchEvents(b) = {}
           /\ \A d \in Channels \ {c} : SameLists(Q, R, d)
           /\ R.withheld = Q.withheld
<1> DEFINE R == AfterFlush(Q, c)
           b == FlushedBatch(Q, c, sorted)
           s == Q.queues[c]
           k == SeqMin(MaxBatch, Len(s))
           rest == SubSeq(s, k + 1, Len(s))
<1>1. s \in Seq(Events) /\ IsInjective(s) /\ Len(s) \in Nat /\ DOMAIN s = 1..Len(s)
    BY ListTypes, LenProperties DEF ChannelOnce
<1>2. k \in Nat /\ k <= Len(s)
    BY <1>1, QueueAssumption DEF SeqMin
<1>3. Drained(Q, c) = SubSeq(s, 1, k)
    BY DEF Drained
<1>4. Len(Drained(Q, c)) = k
    <2>1. \A i \in 1..k : s[i] \in Events
        BY <1>1, <1>2, ElementOfSeq
    <2> HIDE DEF k, s
    <2>2. Len(SubSeq(s, 1, k)) = IF 1 <= k THEN k - 1 + 1 ELSE 0
        BY <1>2, <2>1, SubSeqProperties
    <2> QED
        BY <1>2, <1>3, <2>2
<1>5. /\ R.queues = [Q.queues EXCEPT ![c] = rest]
      /\ R.cancelled = [Q.cancelled EXCEPT ![c] = << >>]
      /\ R.withheld = Q.withheld
    BY <1>4 DEF AfterFlush, QueueState
<1>6. b.events = sorted /\ b.cancelled = Q.cancelled[c]
    BY DEF FlushedBatch
<1> HIDE DEF R, b, k, s, rest
<1>7. /\ Drained(Q, c) \in Seq(Events) /\ IsInjective(Drained(Q, c))
      /\ Range(Drained(Q, c)) = {s[i] : i \in 1..k}
    BY <1>1, <1>2, <1>3, SubSeqOnce, SubSeqType
<1>8. rest \in Seq(Events) /\ IsInjective(rest) /\ Range(rest) = {s[i] : i \in (k + 1)..Len(s)}
    BY <1>1, <1>2, SubSeqOnce, SubSeqType DEF rest
<1>9. Range(s) = Range(Drained(Q, c)) \cup Range(rest)
    <2>1. \A i \in 1..Len(s) : i \in 1..k \/ i \in (k + 1)..Len(s)
        BY <1>1, <1>2
    <2>2. \A i \in 1..k : i \in 1..Len(s)
        BY <1>1, <1>2
    <2>3. \A i \in (k + 1)..Len(s) : i \in 1..Len(s)
        BY <1>1, <1>2
    <2> QED
        BY <1>1, <1>7, <1>8, <2>1, <2>2, <2>3 DEF Range
<1>10. Range(Drained(Q, c)) \cap Range(rest) = {}
    <2>1. \A i \in 1..k, j \in (k + 1)..Len(s) : s[i] # s[j]
        BY <1>1, <1>2 DEF IsInjective
    <2> QED
        BY <1>7, <1>8, <2>1
<1>11. IsInjective(sorted) /\ Range(sorted) = Range(Drained(Q, c))
    BY <1>7, SortOnce
<1>12. /\ R.queues[c] = rest /\ R.cancelled[c] = << >> /\ R.withheld[c] = Q.withheld[c]
       /\ \A d \in Channels \ {c} : SameLists(Q, R, d)
    <2>1. Q.queues \in [Channels -> Seq(Events)] /\ Q.cancelled \in [Channels -> Seq(Events)]
        BY DEF QueueState
    <2> QED
        BY <1>5, <2>1 DEF SameLists
<1>13. BatchEvents(b) = Range(sorted) \cup Range(Q.cancelled[c])
    BY <1>6 DEF BatchEvents
<1>14. ChannelHeld(R, c) = Range(rest) \cup Range(Q.withheld[c])
    BY <1>12, EmptyOnce DEF ChannelHeld
<1>15. ChannelHeld(Q, c) = Range(s) \cup Range(Q.cancelled[c]) \cup Range(Q.withheld[c])
    BY DEF ChannelHeld, s
<1>16. /\ Range(s) \cap Range(Q.cancelled[c]) = {} /\ Range(s) \cap Range(Q.withheld[c]) = {}
       /\ Range(Q.cancelled[c]) \cap Range(Q.withheld[c]) = {}
       /\ IsInjective(Q.cancelled[c]) /\ IsInjective(Q.withheld[c])
    BY DEF ChannelOnce, s
<1>17. BatchOnce(b)
    BY <1>6, <1>9, <1>11, <1>16 DEF BatchOnce
<1>18. ChannelOnce(R, c)
    BY <1>8, <1>9, <1>12, <1>16, EmptyOnce DEF ChannelOnce
<1>19. /\ ChannelHeld(Q, c) = ChannelHeld(R, c) \cup BatchEvents(b)
       /\ ChannelHeld(R, c) \cap BatchEvents(b) = {}
    BY <1>9, <1>10, <1>11, <1>13, <1>14, <1>15, <1>16
<1> QED
    BY <1>5, <1>12, <1>17, <1>18, <1>19 DEF R, b

\* The fallback on a cancelled batch takes that batch and nothing else.
LEMMA CancelledFlushLists ==
    ASSUME NEW Q \in QueueState, NEW c \in Channels, ChannelOnce(Q, c)
    PROVE  LET R == AfterCancelledFlush(Q, c)
               b == CancelledBatch(Q, c) IN
           /\ BatchOnce(b) /\ ChannelOnce(R, c)
           /\ ChannelHeld(Q, c) = ChannelHeld(R, c) \cup BatchEvents(b)
           /\ ChannelHeld(R, c) \cap BatchEvents(b) = {}
           /\ \A d \in Channels \ {c} : SameLists(Q, R, d)
           /\ R.withheld = Q.withheld
<1> DEFINE R == AfterCancelledFlush(Q, c)
           b == CancelledBatch(Q, c)
<1>1. /\ R.queues = Q.queues
      /\ R.cancelled = [Q.cancelled EXCEPT ![c] = << >>]
      /\ R.withheld = Q.withheld
    BY DEF AfterCancelledFlush, QueueState
<1>2. b.events = Q.cancelled[c] /\ b.cancelled = << >>
    BY DEF CancelledBatch
<1> HIDE DEF R, b
<1>3. R.cancelled[c] = << >> /\ \A d \in Channels \ {c} : SameLists(Q, R, d)
    <2>1. Q.cancelled \in [Channels -> Seq(Events)]
        BY DEF QueueState
    <2> QED
        BY <1>1, <2>1 DEF SameLists
<1>4. BatchOnce(b) /\ BatchEvents(b) = Range(Q.cancelled[c])
    BY <1>2, EmptyOnce DEF BatchOnce, BatchEvents, ChannelOnce
<1>5. ChannelOnce(R, c)
    BY <1>1, <1>3, EmptyOnce DEF ChannelOnce
<1>6. /\ ChannelHeld(Q, c) = ChannelHeld(R, c) \cup BatchEvents(b)
      /\ ChannelHeld(R, c) \cap BatchEvents(b) = {}
    BY <1>1, <1>3, <1>4, EmptyOnce DEF ChannelHeld, ChannelOnce
<1> QED
    BY <1>1, <1>3, <1>4, <1>5, <1>6 DEF R, b
\* A batch's events in front of its channel's queue, as requeue and
\* requeue_preserve_timestamps put them; the merged events are not put back.
LEMMA PutBackLists ==
    ASSUME NEW Q \in QueueState, NEW R, NEW c \in Channels, NEW b \in FlushBatch,
           R.queues = [Q.queues EXCEPT ![c] = TrimBack(b.events \o Q.queues[c])],
           R.cancelled = Q.cancelled, R.withheld = Q.withheld,
           ChannelOnce(Q, c), BatchOnce(b), ChannelHeld(Q, c) \cap BatchEvents(b) = {}
    PROVE  LET drops == Trimmed(b.events \o Q.queues[c]) IN
           /\ ChannelOnce(R, c)
           /\ ChannelHeld(R, c) \cup drops = ChannelHeld(Q, c) \cup Range(b.events)
           /\ ChannelHeld(R, c) \cap drops = {}
           /\ \A d \in Channels \ {c} : SameLists(Q, R, d)
<1> DEFINE u == b.events \o Q.queues[c]
<1>1. b.events \in Seq(Events) /\ Q.queues[c] \in Seq(Events)
    BY ListTypes DEF FlushBatch
<1>2. Range(b.events) \subseteq BatchEvents(b) /\ IsInjective(b.events)
    BY DEF BatchEvents, BatchOnce
<1>3. Range(Q.queues[c]) \subseteq ChannelHeld(Q, c) /\ IsInjective(Q.queues[c])
    BY DEF ChannelHeld, ChannelOnce
<1>4. /\ u \in Seq(Events) /\ Range(u) = Range(b.events) \cup Range(Q.queues[c])
      /\ IsInjective(u)
    BY <1>1, <1>2, <1>3, ConcatOnce
<1>5. /\ R.queues[c] = TrimBack(u) /\ R.cancelled[c] = Q.cancelled[c]
      /\ R.withheld[c] = Q.withheld[c] /\ \A d \in Channels \ {c} : SameLists(Q, R, d)
    <2>1. Q.queues \in [Channels -> Seq(Events)]
        BY DEF QueueState
    <2> QED
        BY <2>1 DEF SameLists
<1> HIDE DEF u
<1>6. /\ Range(u) = Range(TrimBack(u)) \cup Trimmed(u)
      /\ IsInjective(TrimBack(u)) /\ Range(TrimBack(u)) \cap Trimmed(u) = {}
    BY <1>4, TrimBackOnce
<1>7. Range(u) \cap Range(Q.cancelled[c]) = {} /\ Range(u) \cap Range(Q.withheld[c]) = {}
    BY <1>2, <1>4 DEF ChannelOnce, ChannelHeld
<1>8. ChannelOnce(R, c)
    BY <1>5, <1>6, <1>7 DEF ChannelOnce
<1>9. /\ ChannelHeld(R, c) \cup Trimmed(u) = ChannelHeld(Q, c) \cup Range(b.events)
      /\ ChannelHeld(R, c) \cap Trimmed(u) = {}
    BY <1>4, <1>5, <1>6, <1>7 DEF ChannelHeld
<1> QED
    BY <1>5, <1>8, <1>9 DEF u

\* requeue: the batch goes back, or is dead-lettered whole.
LEMMA RequeueLists ==
    ASSUME NEW Q \in QueueState, NEW c \in Channels, NEW b \in FlushBatch,
           ChannelOnce(Q, c), BatchOnce(b), ChannelHeld(Q, c) \cap BatchEvents(b) = {}
    PROVE  LET R == Requeue(Q, c, b)
               drops == RequeueDrops(Q, c, b) IN
           /\ ChannelOnce(R, c)
           /\ ChannelHeld(R, c) \cup drops \subseteq ChannelHeld(Q, c) \cup BatchEvents(b)
           /\ ChannelHeld(Q, c) \cup Range(b.events) \subseteq ChannelHeld(R, c) \cup drops
           /\ ChannelHeld(R, c) \cap drops = {}
           /\ \A d \in Channels \ {c} : SameLists(Q, R, d)
           /\ R.withheld = Q.withheld
<1> DEFINE R == Requeue(Q, c, b)
           drops == RequeueDrops(Q, c, b)
<1>1. Range(b.events) \subseteq BatchEvents(b)
    BY DEF BatchEvents
<1>2. CASE DeadLetters(Q, c)
    <2>1. \A d \in Channels : SameLists(Q, R, d)
        BY <1>2 DEF Requeue, SameLists, QueueState
    <2>2. R.withheld = Q.withheld
        BY <1>2 DEF Requeue, QueueState
    <2>3. drops = BatchEvents(b)
        BY <1>2 DEF RequeueDrops
    <2> HIDE DEF R, drops
    <2>4. ChannelHeld(R, c) = ChannelHeld(Q, c) /\ ChannelOnce(R, c)
        BY <2>1, SameListsHeld
    <2> QED
        BY <1>1, <2>1, <2>2, <2>3, <2>4 DEF R, drops
<1>3. CASE ~DeadLetters(Q, c)
    <2>1. /\ R.queues = [Q.queues EXCEPT ![c] = TrimBack(b.events \o Q.queues[c])]
          /\ R.cancelled = Q.cancelled /\ R.withheld = Q.withheld
        BY <1>3 DEF Requeue, QueueState
    <2>2. drops = Trimmed(b.events \o Q.queues[c])
        BY <1>3 DEF RequeueDrops
    <2> HIDE DEF R, drops
    <2>3. /\ ChannelOnce(R, c)
          /\ ChannelHeld(R, c) \cup drops = ChannelHeld(Q, c) \cup Range(b.events)
          /\ ChannelHeld(R, c) \cap drops = {}
          /\ \A d \in Channels \ {c} : SameLists(Q, R, d)
        BY <2>1, <2>2, PutBackLists
    <2> QED
        BY <1>1, <2>1, <2>3 DEF R, drops
<1> QED
    BY <1>2, <1>3

\* requeue_preserve_timestamps
LEMMA RequeuePreserveTimestampsLists ==
    ASSUME NEW Q \in QueueState, NEW c \in Channels, NEW b \in FlushBatch,
           ChannelOnce(Q, c), BatchOnce(b), ChannelHeld(Q, c) \cap BatchEvents(b) = {}
    PROVE  LET R == RequeuePreserveTimestamps(Q, c, b)
               drops == Trimmed(b.events \o Q.queues[c]) IN
           /\ ChannelOnce(R, c)
           /\ ChannelHeld(R, c) \cup drops = ChannelHeld(Q, c) \cup Range(b.events)
           /\ ChannelHeld(R, c) \cap drops = {}
           /\ \A d \in Channels \ {c} : SameLists(Q, R, d)
           /\ R.withheld = Q.withheld
<1> DEFINE R == RequeuePreserveTimestamps(Q, c, b)
<1>1. /\ R.queues = [Q.queues EXCEPT ![c] = TrimBack(b.events \o Q.queues[c])]
      /\ R.cancelled = Q.cancelled /\ R.withheld = Q.withheld
    BY DEF RequeuePreserveTimestamps, QueueState
<1> HIDE DEF R
<1> QED
    BY <1>1, PutBackLists DEF R

\* requeue_as_cancelled keeps the whole batch, the merged events included.
LEMMA RequeueAsCancelledLists ==
    ASSUME NEW Q \in QueueState, NEW c \in Channels, NEW b \in FlushBatch,
           ChannelOnce(Q, c), BatchOnce(b), ChannelHeld(Q, c) \cap BatchEvents(b) = {}
    PROVE  LET R == RequeueAsCancelled(Q, c, b) IN
           /\ ChannelOnce(R, c)
           /\ ChannelHeld(R, c) = ChannelHeld(Q, c) \cup BatchEvents(b)
           /\ \A d \in Channels \ {c} : SameLists(Q, R, d)
           /\ R.withheld = Q.withheld
<1> DEFINE R == RequeueAsCancelled(Q, c, b)
           l == Q.cancelled[c] \o b.cancelled
           u == l \o b.events
<1>1. /\ R.queues = Q.queues /\ R.cancelled = [Q.cancelled EXCEPT ![c] = u]
      /\ R.withheld = Q.withheld
    BY DEF RequeueAsCancelled, QueueState
<1>2. b.events \in Seq(Events) /\ b.cancelled \in Seq(Events) /\ Q.cancelled[c] \in Seq(Events)
    BY ListTypes DEF FlushBatch
<1>3. /\ IsInjective(b.events) /\ IsInjective(b.cancelled) /\ IsInjective(Q.cancelled[c])
      /\ Range(b.events) \cap Range(b.cancelled) = {}
      /\ Range(Q.cancelled[c]) \cap (Range(b.events) \cup Range(b.cancelled)) = {}
    BY DEF BatchOnce, ChannelOnce, BatchEvents, ChannelHeld
<1>4. l \in Seq(Events) /\ IsInjective(l) /\ Range(l) = Range(Q.cancelled[c]) \cup Range(b.cancelled)
    BY <1>2, <1>3, ConcatOnce
<1> HIDE DEF l
<1>5. u \in Seq(Events) /\ IsInjective(u) /\ Range(u) = Range(l) \cup Range(b.events)
    BY <1>2, <1>3, <1>4, ConcatOnce
<1> HIDE DEF R, u
<1>6. R.cancelled[c] = u /\ \A d \in Channels \ {c} : SameLists(Q, R, d)
    <2>1. Q.cancelled \in [Channels -> Seq(Events)]
        BY DEF QueueState
    <2> QED
        BY <1>1, <2>1 DEF SameLists
<1>7. Range(u) = Range(Q.cancelled[c]) \cup BatchEvents(b)
    BY <1>4, <1>5 DEF BatchEvents
<1>8. ChannelHeld(R, c) = ChannelHeld(Q, c) \cup BatchEvents(b)
    BY <1>1, <1>6, <1>7 DEF ChannelHeld
<1>9. ChannelOnce(R, c)
    BY <1>1, <1>5, <1>6, <1>7 DEF ChannelOnce, ChannelHeld
<1> QED
    BY <1>1, <1>6, <1>8, <1>9 DEF R

\* push of a new event.
LEMMA PushLists ==
    ASSUME NEW Q \in QueueState, NEW c \in Channels, NEW e \in Events,
           ChannelOnce(Q, c), e \notin ChannelHeld(Q, c)
    PROVE  LET R == Push(Q, c, e)
               drops == PushDrops(Q, c, e) IN
           /\ ChannelOnce(R, c)
           /\ ChannelHeld(R, c) \cup drops = ChannelHeld(Q, c) \cup {e}
           /\ ChannelHeld(R, c) \cap drops = {}
           /\ \A d \in Channels \ {c} : SameLists(Q, R, d)
           /\ R.withheld = Q.withheld
           /\ Accepts(Q, c) => e \in Range(R.queues[c])
<1> DEFINE R == Push(Q, c, e)
           drops == PushDrops(Q, c, e)
           s == Q.queues[c]
           room == IF Len(s) >= MaxPending THEN Tail(s) ELSE s
<1>1. CASE ~Accepts(Q, c)
    <2>1. R = Q /\ drops = {e}
        BY <1>1 DEF Push, PushDrops
    <2> HIDE DEF R, drops
    <2>2. \A d \in Channels : SameLists(Q, R, d)
        BY <2>1 DEF SameLists
    <2> QED
        BY <1>1, <2>1, <2>2 DEF R, drops
<1>2. CASE Accepts(Q, c)
    <2>1. s \in Seq(Events) /\ IsInjective(s) /\ Len(s) \in Nat /\ DOMAIN s = 1..Len(s)
        BY ListTypes, LenProperties DEF ChannelOnce
    <2>2. /\ R.queues = [Q.queues EXCEPT ![c] = Append(room, e)]
          /\ R.cancelled = Q.cancelled /\ R.withheld = Q.withheld
        BY <1>2 DEF Push, QueueState
    <2>3. /\ room \in Seq(Events) /\ IsInjective(room) /\ Range(room) \cup drops = Range(s)
          /\ Range(room) \cap drops = {}
        <3>1. CASE Len(s) >= MaxPending
            <4>1. s # << >>
                BY <2>1, <3>1, QueueAssumption, EmptySeq
            <4>2. Len(s) >= 1
                BY <2>1, <3>1, QueueAssumption
            <4>3. room = SubSeq(s, 2, Len(s)) /\ drops = {s[1]}
                BY <1>2, <2>1, <3>1, <4>1, TailIsSubSeq, HeadTailProperties DEF PushDrops
            <4> HIDE DEF room, drops, s
            <4>4. /\ room \in Seq(Events) /\ IsInjective(room)
                  /\ Range(room) = {s[i] : i \in 2..Len(s)}
                BY <2>1, <4>3, SubSeqType, SubSeqOnce
            <4>5. \A i \in 2..Len(s) : i \in 1..Len(s) /\ s[i] # s[1]
                BY <2>1, <4>2 DEF IsInjective
            <4>6. \A i \in 1..Len(s) : i = 1 \/ i \in 2..Len(s)
                BY <2>1
            <4>7. 1 \in 1..Len(s)
                BY <2>1, <4>2
            <4>8. Range(s) = {s[i] : i \in 1..Len(s)}
                BY <2>1 DEF Range
            <4> QED
                BY <4>3, <4>4, <4>5, <4>6, <4>7, <4>8
        <3>2. CASE ~(Len(s) >= MaxPending)
            <4>1. room = s /\ drops = {}
                BY <1>2, <3>2 DEF PushDrops
            <4> QED
                BY <2>1, <4>1
        <3> QED
            BY <3>1, <3>2
    <2>4. Range(s) \subseteq ChannelHeld(Q, c)
        BY DEF ChannelHeld
    <2> HIDE DEF R, drops, room
    <2> DEFINE u == Append(room, e)
    <2>5. /\ u \in Seq(Events) /\ Range(u) = Range(room) \cup {e} /\ IsInjective(u)
        <3>1. u = room \o <<e>>
            BY <2>3, AppendIsConcat
        <3>2. <<e>> \in Seq(Events) /\ Range(<<e>>) = {e} /\ IsInjective(<<e>>)
            BY OneOnce
        <3>3. Range(room) \cap Range(<<e>>) = {}
            BY <2>3, <2>4, <3>2
        <3> HIDE DEF u
        <3> QED
            BY <2>3, <3>1, <3>2, <3>3, ConcatOnce
    <2>6. R.queues[c] = u /\ \A d \in Channels \ {c} : SameLists(Q, R, d)
        <3>1. Q.queues \in [Channels -> Seq(Events)]
            BY DEF QueueState
        <3> QED
            BY <2>2, <3>1 DEF SameLists
    <2> HIDE DEF u
    <2>7. ChannelOnce(R, c)
        BY ZenonT(60), <2>2, <2>3, <2>5, <2>6 DEF ChannelOnce, ChannelHeld, s
    <2>8. /\ ChannelHeld(R, c) \cup drops = ChannelHeld(Q, c) \cup {e}
          /\ ChannelHeld(R, c) \cap drops = {}
        <3>1. drops \subseteq Range(s) /\ e \notin drops
            BY <2>3, <2>4
        <3>2. drops \cap Range(Q.cancelled[c]) = {} /\ drops \cap Range(Q.withheld[c]) = {}
            BY <3>1 DEF ChannelOnce, s
        <3> QED
            BY <2>2, <2>3, <2>5, <2>6, <3>1, <3>2 DEF ChannelHeld, s
    <2> QED
        BY <2>2, <2>5, <2>6, <2>7, <2>8 DEF R, drops
<1> QED
    BY <1>1, <1>2

\* drain_channel gives up every event of the channel, the withheld ones too.
LEMMA DrainLists ==
    ASSUME NEW Q \in QueueState, NEW c \in Channels
    PROVE  LET R == DrainChannel(Q, c) IN
           /\ ChannelOnce(R, c) /\ ChannelHeld(R, c) = {}
           /\ DrainDrops(Q, c) = ChannelHeld(Q, c)
           /\ \A d \in Channels \ {c} : SameLists(Q, R, d)
<1> DEFINE R == DrainChannel(Q, c)
<1>1. /\ R.queues[c] = << >> /\ R.cancelled[c] = << >> /\ R.withheld[c] = << >>
      /\ \A d \in Channels \ {c} : SameLists(Q, R, d)
    BY DEF DrainChannel, QueueState, SameLists
<1> HIDE DEF R
<1>2. ChannelOnce(R, c) /\ ChannelHeld(R, c) = {}
    BY <1>1, EmptyOnce DEF ChannelOnce, ChannelHeld
<1> QED
    BY <1>1, <1>2 DEF R, DrainDrops, ChannelHeld

\* mark_native_steer_pending moves the event to the side table.
LEMMA WithholdLists ==
    ASSUME NEW Q \in QueueState, NEW c \in Channels, NEW e \in Events, ChannelOnce(Q, c),
           e \in Range(Q.queues[c])
    PROVE  LET R == MarkNativeSteerPending(Q, c, e) IN
           /\ ChannelOnce(R, c) /\ ChannelHeld(R, c) = ChannelHeld(Q, c)
           /\ \A d \in Channels \ {c} : SameLists(Q, R, d)
           /\ Range(R.withheld[c]) = Range(Q.withheld[c]) \cup {e}
<1> DEFINE R == MarkNativeSteerPending(Q, c, e)
           s == Without(Q.queues[c], e)
           w == Append(Q.withheld[c], e)
<1>1. /\ R.queues = [Q.queues EXCEPT ![c] = s] /\ R.cancelled = Q.cancelled
      /\ R.withheld = [Q.withheld EXCEPT ![c] = w]
    BY DEF MarkNativeSteerPending, QueueState
<1>2. Q.queues[c] \in Seq(Events) /\ Q.withheld[c] \in Seq(Events)
    BY ListTypes
<1>3. IsInjective(s) /\ Range(s) = Range(Q.queues[c]) \ {e}
    BY <1>2, WithoutOnce DEF ChannelOnce
<1>4. IsInjective(w) /\ Range(w) = Range(Q.withheld[c]) \cup {e}
    <2>1. w = Q.withheld[c] \o <<e>>
        BY <1>2, AppendIsConcat
    <2>2. IsInjective(Q.withheld[c]) /\ Range(Q.withheld[c]) \cap {e} = {}
        BY DEF ChannelOnce
    <2> QED
        BY ZenonT(60), <1>2, <2>1, <2>2, OneOnce, ConcatOnce
<1> HIDE DEF R, s, w
<1>5. /\ R.queues[c] = s /\ R.withheld[c] = w /\ R.cancelled[c] = Q.cancelled[c]
      /\ \A d \in Channels \ {c} : SameLists(Q, R, d)
    <2>1. Q.queues \in [Channels -> Seq(Events)] /\ Q.withheld \in [Channels -> Seq(Events)]
        BY DEF QueueState
    <2> QED
        BY <1>1, <2>1 DEF SameLists
<1>6. ChannelOnce(R, c) /\ ChannelHeld(R, c) = ChannelHeld(Q, c)
    BY <1>3, <1>4, <1>5 DEF ChannelOnce, ChannelHeld
<1> QED
    BY <1>4, <1>5, <1>6 DEF R

\* release_native_steer moves it back, to the front of the queue.
LEMMA ReleaseLists ==
    ASSUME NEW Q \in QueueState, NEW c \in Channels, NEW e \in Events, ChannelOnce(Q, c)
    PROVE  LET R == ReleaseNativeSteer(Q, c, e)
               drops == ReleaseDrops(Q, c, e) IN
           /\ ChannelOnce(R, c)
           /\ ChannelHeld(R, c) \cup drops = ChannelHeld(Q, c)
           /\ ChannelHeld(R, c) \cap drops = {}
           /\ \A d \in Channels \ {c} : SameLists(Q, R, d)
           /\ Range(R.withheld[c]) = Range(Q.withheld[c]) \ {e}
<1> DEFINE R == ReleaseNativeSteer(Q, c, e)
           drops == ReleaseDrops(Q, c, e)
           u == <<e>> \o Q.queues[c]
           w == Without(Q.withheld[c], e)
<1>1. CASE e \notin Range(Q.withheld[c])
    <2>1. R = Q /\ drops = {}
        BY <1>1 DEF ReleaseNativeSteer, ReleaseDrops
    <2> HIDE DEF R, drops
    <2> QED
        BY <1>1, <2>1 DEF R, drops, SameLists
<1>2. CASE e \in Range(Q.withheld[c])
    <2>1. /\ R.queues = [Q.queues EXCEPT ![c] = TrimBack(u)] /\ R.cancelled = Q.cancelled
          /\ R.withheld = [Q.withheld EXCEPT ![c] = w]
        BY <1>2 DEF ReleaseNativeSteer, QueueState
    <2>2. drops = Trimmed(u)
        BY <1>2 DEF ReleaseDrops
    <2>3. Q.queues[c] \in Seq(Events) /\ Q.withheld[c] \in Seq(Events)
        BY ListTypes
    <2>4. IsInjective(w) /\ Range(w) = Range(Q.withheld[c]) \ {e}
        BY <2>3, WithoutOnce DEF ChannelOnce
    <2>5. u \in Seq(Events) /\ IsInjective(u) /\ Range(u) = {e} \cup Range(Q.queues[c])
        <3>1. IsInjective(Q.queues[c]) /\ {e} \cap Range(Q.queues[c]) = {}
            BY <1>2 DEF ChannelOnce
        <3> QED
            BY ZenonT(60), <2>3, <3>1, OneOnce, ConcatOnce
    <2> HIDE DEF R, drops, u, w
    <2>6. /\ Range(u) = Range(TrimBack(u)) \cup Trimmed(u)
          /\ IsInjective(TrimBack(u)) /\ Range(TrimBack(u)) \cap Trimmed(u) = {}
        BY <2>5, TrimBackOnce
    <2>7. /\ R.queues[c] = TrimBack(u) /\ R.withheld[c] = w /\ R.cancelled[c] = Q.cancelled[c]
          /\ \A d \in Channels \ {c} : SameLists(Q, R, d)
        <3>1. Q.queues \in [Channels -> Seq(Events)] /\ Q.withheld \in [Channels -> Seq(Events)]
            BY DEF QueueState
        <3> QED
            BY <2>1, <3>1 DEF SameLists
    <2>8. /\ Range(u) \cap Range(Q.cancelled[c]) = {} /\ Range(u) \cap Range(w) = {}
          /\ Range(Q.cancelled[c]) \cap Range(w) = {}
        BY <1>2, <2>4, <2>5 DEF ChannelOnce
    <2>9. ChannelOnce(R, c)
        BY <2>4, <2>6, <2>7, <2>8 DEF ChannelOnce
    <2>10. /\ ChannelHeld(R, c) \cup drops = ChannelHeld(Q, c)
           /\ ChannelHeld(R, c) \cap drops = {}
        BY <1>2, <2>2, <2>4, <2>5, <2>6, <2>7, <2>8 DEF ChannelHeld
    <2> QED
        BY <2>4, <2>7, <2>9, <2>10 DEF R, drops
<1> QED
    BY <1>1, <1>2

\* remove_event removes the event from the queue and the side table only.
LEMMA RemoveLists ==
    ASSUME NEW Q \in QueueState, NEW c \in Channels, NEW e \in Events, ChannelOnce(Q, c)
    PROVE  LET R == RemoveEvent(Q, c, e) IN
           /\ ChannelOnce(R, c)
           /\ ChannelHeld(R, c) \subseteq ChannelHeld(Q, c)
           /\ ChannelHeld(Q, c) \subseteq ChannelHeld(R, c) \cup {e}
           /\ e \in Range(Q.withheld[c]) => e \notin ChannelHeld(R, c)
           /\ \A d \in Channels \ {c} : SameLists(Q, R, d)
           /\ Range(R.withheld[c]) = Range(Q.withheld[c]) \ {e}
<1> DEFINE R == RemoveEvent(Q, c, e)
           s == Without(Q.queues[c], e)
           w == Without(Q.withheld[c], e)
<1>1. /\ R.queues = [Q.queues EXCEPT ![c] = s] /\ R.cancelled = Q.cancelled
      /\ R.withheld = [Q.withheld EXCEPT ![c] = w]
    BY DEF RemoveEvent, QueueState
<1>2. Q.queues[c] \in Seq(Events) /\ Q.withheld[c] \in Seq(Events)
    BY ListTypes
<1>3. IsInjective(s) /\ Range(s) = Range(Q.queues[c]) \ {e}
    BY <1>2, WithoutOnce DEF ChannelOnce
<1>4. IsInjective(w) /\ Range(w) = Range(Q.withheld[c]) \ {e}
    BY <1>2, WithoutOnce DEF ChannelOnce
<1> HIDE DEF R, s, w
<1>5. /\ R.queues[c] = s /\ R.withheld[c] = w /\ R.cancelled[c] = Q.cancelled[c]
      /\ \A d \in Channels \ {c} : SameLists(Q, R, d)
    <2>1. Q.queues \in [Channels -> Seq(Events)] /\ Q.withheld \in [Channels -> Seq(Events)]
        BY DEF QueueState
    <2> QED
        BY <1>1, <2>1 DEF SameLists
<1>6. ChannelOnce(R, c)
    BY <1>3, <1>4, <1>5 DEF ChannelOnce
<1>7. /\ ChannelHeld(R, c) \subseteq ChannelHeld(Q, c)
      /\ ChannelHeld(Q, c) \subseteq ChannelHeld(R, c) \cup {e}
      /\ e \in Range(Q.withheld[c]) => e \notin ChannelHeld(R, c)
    BY <1>3, <1>4, <1>5 DEF ChannelOnce, ChannelHeld
<1> QED
    BY <1>4, <1>5, <1>6, <1>7 DEF R
-----------------------------------------------------------------------------
(***************************************************************************)
(* The invariant.                                                          *)
(***************************************************************************)
\* The events received so far.
Known == 1..arrived

\* The events of slot a's task.
TaskHeld(a) == BatchEvents(task[a].batch)

\* The steers slot a's task has not answered.
Steers(a) == {task[a].wire, task[a].buf} \ {NoEvent}

\* The outcome of a steer with event e into channel c is outstanding.
Pending(c, e) ==
    \/ \E a \in Agents : task[a].ch = c /\ e \in Steers(a)
    \/ \E m \in acks : m.ch = c /\ m.ev = e

\* No list has an event twice, and no two places have an event in common.
HoldInv ==
    /\ \A c \in Channels : ChannelOnce(q, c)
    /\ \A a \in Agents : BatchOnce(task[a].batch)
    /\ \A c, d \in Channels : c # d => ChannelHeld(q, c) \cap ChannelHeld(q, d) = {}
    /\ \A a, b \in Agents : a # b => TaskHeld(a) \cap TaskHeld(b) = {}
    /\ \A c \in Channels, a \in Agents : ChannelHeld(q, c) \cap TaskHeld(a) = {}

\* Only events that were received are held or finished.
KnownInv ==
    /\ \A c \in Channels : ChannelHeld(q, c) \subseteq Known
    /\ \A a \in Agents : TaskHeld(a) \subseteq Known
    /\ settled \subseteq Known

\* Slots without a turn have no events, and merged events are on the record.
BatchInv ==
    /\ \A a \in Agents : task[a].phase = "none" \/ task[a].ch = NoChannel => TaskHeld(a) = {}
    /\ \A a \in Agents : Range(task[a].batch.cancelled) \subseteq merged

\* The steers of a task end with its read loop.
SteersEnd == \A a \in Agents : task[a].phase # "run" => Steers(a) = {}

\* A steer is pending in one place only, and its event was received.
SteerOnce ==
    /\ \A a \in Agents : task[a].wire # NoEvent => task[a].wire # task[a].buf
    /\ \A a, b \in Agents : a # b => Steers(a) \cap Steers(b) = {}
    /\ \A a \in Agents : \A m \in acks : m.ev \notin Steers(a)
    /\ \A m, n \in acks : m.ev = n.ev => m = n
    /\ \A a \in Agents : Steers(a) \subseteq Known
    /\ \A m \in acks : m.ev \in Known

\* While no turn outlives its deadline, a pending steer's event is withheld or
\* finished, so that its outcome cannot find it elsewhere.
PunctualInv ==
    spent.hangs = 0 =>
        /\ q.overdue = {}
        /\ \A c \in Channels : \A e \in Events :
              Pending(c, e) => e \in Range(q.withheld[c]) \cup settled

EventInv ==
    /\ SlotInv /\ HoldInv /\ KnownInv /\ BatchInv /\ TriggersConserved
    /\ SteersEnd /\ SteerOnce /\ WithheldHasAck /\ PunctualInv /\ NoResurrection

\* Held, by owner.
LEMMA HeldByOwner ==
    ASSUME BatchInv
    PROVE  \A e : e \in Held <=> \/ \E c \in Channels : e \in ChannelHeld(q, c)
                                 \/ \E a \in Agents : e \in TaskHeld(a)
<1>1. \A a \in Agents : a \in Busy \/ TaskHeld(a) = {}
    BY DEF BatchInv, Busy
<1>2. Busy \subseteq Agents
    BY DEF Busy
<1>3. QueueHeld(q) = UNION {ChannelHeld(q, c) : c \in Channels}
    BY DEF QueueHeld, ChannelHeld
<1>4. Held = QueueHeld(q) \cup UNION {TaskHeld(a) : a \in Busy}
    BY DEF Held, TaskHeld
<1> QED
    BY <1>1, <1>2, <1>3, <1>4

LEMMA HeldByOwnerNext ==
    ASSUME BatchInv'
    PROVE  \A e : e \in Held' <=> \/ \E c \in Channels : e \in ChannelHeld(q', c)
                                  \/ \E a \in Agents : e \in TaskHeld(a)'
<1>1. \A a \in Agents : a \in Busy' \/ TaskHeld(a)' = {}
    BY DEF BatchInv, Busy
<1>2. Busy' \subseteq Agents
    BY DEF Busy
<1>3. QueueHeld(q)' = UNION {ChannelHeld(q', c) : c \in Channels}
    BY DEF QueueHeld, ChannelHeld
<1>4. Held' = QueueHeld(q)' \cup UNION {TaskHeld(a)' : a \in Busy'}
    BY DEF Held, TaskHeld
<1> QED
    BY <1>1, <1>2, <1>3, <1>4

-----------------------------------------------------------------------------
(***************************************************************************)
(* How events move.  A step moves events within one channel, or between    *)
(* one channel and one task; or it only gives events up.                   *)
(***************************************************************************)
\* What every step does: it keeps the lists free of repetition, and it
\* finishes only events that were received.
Tidy ==
    /\ \A c \in Channels : ChannelOnce(q', c)
    /\ \A a \in Agents : BatchOnce(task'[a].batch)
    /\ BatchInv'
    /\ Known \subseteq Known'
    /\ settled \subseteq settled' /\ settled' \subseteq Known'
    /\ spent'.hangs = 0 => spent.hangs = 0

\* No list of events gains one; while no turn is overdue none is given up.
GivesUp ==
    /\ Tidy
    /\ \A c \in Channels : ChannelHeld(q', c) \subseteq ChannelHeld(q, c)
    /\ \A a \in Agents : TaskHeld(a)' \subseteq TaskHeld(a)
    /\ spent.hangs = 0 => settled' = settled

\* Only channel c gains events: new ones.
MovesWithin(c) ==
    /\ Tidy
    /\ \A d \in Channels \ {c} : ChannelHeld(q', d) \subseteq ChannelHeld(q, d)
    /\ \A a \in Agents : TaskHeld(a)' \subseteq TaskHeld(a)
    /\ ChannelHeld(q', c) \subseteq ChannelHeld(q, c) \cup (Known' \ Known)
    /\ spent.hangs = 0 =>
          /\ settled' \ settled \subseteq ChannelHeld(q, c) \cup (Known' \ Known)
          /\ (settled' \ settled) \cap ChannelHeld(q', c) = {}

\* Channel c and the task of slot a exchange events.
MovesBetween(c, a) ==
    /\ Tidy
    /\ \A d \in Channels \ {c} : ChannelHeld(q', d) \subseteq ChannelHeld(q, d)
    /\ \A b \in Agents \ {a} : TaskHeld(b)' \subseteq TaskHeld(b)
    /\ ChannelHeld(q', c) \cup TaskHeld(a)' \subseteq ChannelHeld(q, c) \cup TaskHeld(a)
    /\ ChannelHeld(q', c) \cap TaskHeld(a)' = {}
    /\ spent.hangs = 0 =>
          /\ settled' \ settled \subseteq ChannelHeld(q, c) \cup TaskHeld(a)
          /\ (settled' \ settled) \cap (ChannelHeld(q', c) \cup TaskHeld(a)') = {}

\* What all three keep.
Settled == HoldInv' /\ KnownInv' /\ NoResurrection'

LEMMA GivesUpKeeps ==
    ASSUME EventInv, GivesUp
    PROVE  Settled
<1>1. HoldInv'
    BY DEF EventInv, HoldInv, GivesUp, Tidy
<1>2. KnownInv'
    BY DEF EventInv, KnownInv, GivesUp, Tidy
<1>3. \A e : e \in Held' => e \in Held
    BY HeldByOwner, HeldByOwnerNext DEF EventInv, GivesUp, Tidy
<1>4. NoResurrection'
    BY <1>3 DEF EventInv, NoResurrection, GivesUp, Tidy
<1> QED
    BY <1>1, <1>2, <1>4 DEF Settled

LEMMA MovesWithinKeeps ==
    ASSUME EventInv, NEW c \in Channels, MovesWithin(c)
    PROVE  Settled
<1>1. \A a \in Agents : BatchOnce(task'[a].batch) /\ TaskHeld(a)' \subseteq TaskHeld(a)
    BY DEF MovesWithin, Tidy
<1>2. \A d \in Channels : ChannelOnce(q', d)
    BY DEF MovesWithin, Tidy
<1>3. \A d \in Channels \ {c} : ChannelHeld(q', d) \subseteq ChannelHeld(q, d)
    BY DEF MovesWithin
<1>4. /\ ChannelHeld(q', c) \subseteq ChannelHeld(q, c) \cup (Known' \ Known)
      /\ Known \subseteq Known' /\ settled' \subseteq Known' /\ settled \subseteq settled'
    BY DEF MovesWithin, Tidy
<1>5. /\ \A d \in Channels : ChannelHeld(q, d) \subseteq Known
      /\ \A a \in Agents : TaskHeld(a) \subseteq Known
      /\ settled \subseteq Known
    BY DEF EventInv, KnownInv
<1>6. HoldInv'
    <2>1. ASSUME NEW d \in Channels, NEW x \in Channels, d # x
          PROVE  ChannelHeld(q', d) \cap ChannelHeld(q', x) = {}
        <3>1. ChannelHeld(q, d) \cap ChannelHeld(q, x) = {}
            BY <2>1 DEF EventInv, HoldInv
        <3> QED
            BY <1>3, <1>4, <1>5, <2>1, <3>1
    <2>2. ASSUME NEW a \in Agents, NEW b \in Agents, a # b
          PROVE  TaskHeld(a)' \cap TaskHeld(b)' = {}
        BY <1>1, <2>2 DEF EventInv, HoldInv
    <2>3. ASSUME NEW d \in Channels, NEW a \in Agents
          PROVE  ChannelHeld(q', d) \cap TaskHeld(a)' = {}
        <3>1. ChannelHeld(q, d) \cap TaskHeld(a) = {}
            BY DEF EventInv, HoldInv
        <3> QED
            BY <1>1, <1>3, <1>4, <1>5, <3>1
    <2> QED
        BY <1>1, <1>2, <2>1, <2>2, <2>3 DEF HoldInv
<1>7. KnownInv'
    BY <1>1, <1>3, <1>4, <1>5 DEF KnownInv
<1>8. NoResurrection'
    <2> SUFFICES ASSUME spent'.hangs = 0, NEW e \in settled', e \in Held' PROVE FALSE
        BY DEF NoResurrection
    <2>1. spent.hangs = 0
        BY DEF MovesWithin, Tidy
    <2>2. \/ \E d \in Channels : e \in ChannelHeld(q', d)
          \/ \E a \in Agents : e \in TaskHeld(a)'
        BY HeldByOwnerNext DEF MovesWithin, Tidy
    <2>3. CASE e \in settled
        <3>1. e \notin Held
            BY <2>1, <2>3 DEF EventInv, NoResurrection
        <3>2. e \in Known /\ e \notin Known' \ Known
            BY <1>5, <2>3
        <3>3. \/ \E d \in Channels : e \in ChannelHeld(q, d)
              \/ \E a \in Agents : e \in TaskHeld(a)
            BY <1>1, <1>3, <1>4, <2>2, <3>2
        <3> QED
            BY <3>1, <3>3, HeldByOwner DEF EventInv
    <2>4. CASE e \notin settled
        <3>1. e \in ChannelHeld(q, c) \cup (Known' \ Known) /\ e \notin ChannelHeld(q', c)
            BY <2>1, <2>4 DEF MovesWithin
        <3>2. ASSUME NEW d \in Channels, e \in ChannelHeld(q', d) PROVE FALSE
            <4>1. d # c /\ e \in ChannelHeld(q, d)
                BY <1>3, <3>1, <3>2
            <4> QED
                BY <1>5, <3>1, <4>1 DEF EventInv, HoldInv
        <3>3. ASSUME NEW a \in Agents, e \in TaskHeld(a)' PROVE FALSE
            BY <1>1, <1>5, <3>1, <3>3 DEF EventInv, HoldInv
        <3> QED
            BY <2>2, <3>2, <3>3
    <2> QED
        BY <2>3, <2>4
<1> QED
    BY <1>6, <1>7, <1>8 DEF Settled

LEMMA MovesBetweenKeeps ==
    ASSUME EventInv, NEW c \in Channels, NEW a \in Agents, MovesBetween(c, a)
    PROVE  Settled
<1>1. \A b \in Agents : BatchOnce(task'[b].batch)
    BY DEF MovesBetween, Tidy
<1>2. \A d \in Channels : ChannelOnce(q', d)
    BY DEF MovesBetween, Tidy
<1>3. /\ \A d \in Channels \ {c} : ChannelHeld(q', d) \subseteq ChannelHeld(q, d)
      /\ \A b \in Agents \ {a} : TaskHeld(b)' \subseteq TaskHeld(b)
    BY DEF MovesBetween
<1>4. /\ ChannelHeld(q', c) \cup TaskHeld(a)' \subseteq ChannelHeld(q, c) \cup TaskHeld(a)
      /\ ChannelHeld(q', c) \cap TaskHeld(a)' = {}
      /\ Known \subseteq Known' /\ settled' \subseteq Known' /\ settled \subseteq settled'
    BY DEF MovesBetween, Tidy
<1>5. /\ \A d \in Channels : ChannelHeld(q, d) \subseteq Known
      /\ \A b \in Agents : TaskHeld(b) \subseteq Known
      /\ settled \subseteq Known
    BY DEF EventInv, KnownInv
<1>6. HoldInv'
    <2>1. ASSUME NEW d \in Channels, NEW x \in Channels, d # x
          PROVE  ChannelHeld(q', d) \cap ChannelHeld(q', x) = {}
        <3>1. /\ ChannelHeld(q, d) \cap ChannelHeld(q, x) = {}
              /\ ChannelHeld(q, d) \cap TaskHeld(a) = {} /\ ChannelHeld(q, x) \cap TaskHeld(a) = {}
            BY <2>1 DEF EventInv, HoldInv
        <3> QED
            BY <1>3, <1>4, <2>1, <3>1
    <2>2. ASSUME NEW b \in Agents, NEW x \in Agents, b # x
          PROVE  TaskHeld(b)' \cap TaskHeld(x)' = {}
        <3>1. /\ TaskHeld(b) \cap TaskHeld(x) = {}
              /\ ChannelHeld(q, c) \cap TaskHeld(b) = {} /\ ChannelHeld(q, c) \cap TaskHeld(x) = {}
            BY <2>2 DEF EventInv, HoldInv
        <3> QED
            BY <1>3, <1>4, <2>2, <3>1
    <2>3. ASSUME NEW d \in Channels, NEW b \in Agents
          PROVE  ChannelHeld(q', d) \cap TaskHeld(b)' = {}
        <3>1. /\ ChannelHeld(q, d) \cap TaskHeld(b) = {} /\ ChannelHeld(q, c) \cap TaskHeld(b) = {}
              /\ ChannelHeld(q, d) \cap TaskHeld(a) = {}
              /\ d # c => ChannelHeld(q, d) \cap ChannelHeld(q, c) = {}
              /\ b # a => TaskHeld(b) \cap TaskHeld(a) = {}
            BY DEF EventInv, HoldInv
        <3>2. CASE d = c /\ b = a
            BY <1>4, <3>2
        <3>3. CASE d = c /\ b # a
            BY <1>3, <1>4, <3>1, <3>3
        <3>4. CASE d # c /\ b = a
            BY <1>3, <1>4, <3>1, <3>4
        <3>5. CASE d # c /\ b # a
            BY <1>3, <3>1, <3>5
        <3> QED
            BY <3>2, <3>3, <3>4, <3>5
    <2> QED
        BY <1>1, <1>2, <2>1, <2>2, <2>3 DEF HoldInv
<1>7. KnownInv'
    <2>1. \A d \in Channels : ChannelHeld(q', d) \subseteq Known'
        BY <1>3, <1>4, <1>5
    <2>2. \A b \in Agents : TaskHeld(b)' \subseteq Known'
        BY <1>3, <1>4, <1>5
    <2> QED
        BY <1>4, <2>1, <2>2 DEF KnownInv
<1>8. NoResurrection'
    <2> SUFFICES ASSUME spent'.hangs = 0, NEW e \in settled', e \in Held' PROVE FALSE
        BY DEF NoResurrection
    <2>1. spent.hangs = 0
        BY DEF MovesBetween, Tidy
    <2>2. \/ \E d \in Channels : e \in ChannelHeld(q', d)
          \/ \E b \in Agents : e \in TaskHeld(b)'
        BY HeldByOwnerNext DEF MovesBetween, Tidy
    <2>3. CASE e \in settled
        <3>1. e \notin Held
            BY <2>1, <2>3 DEF EventInv, NoResurrection
        <3>2. \/ \E d \in Channels : e \in ChannelHeld(q, d)
              \/ \E b \in Agents : e \in TaskHeld(b)
            BY <1>3, <1>4, <2>2
        <3> QED
            BY <3>1, <3>2, HeldByOwner DEF EventInv
    <2>4. CASE e \notin settled
        <3>1. /\ e \in ChannelHeld(q, c) \cup TaskHeld(a)
              /\ e \notin ChannelHeld(q', c) /\ e \notin TaskHeld(a)'
            BY <2>1, <2>4 DEF MovesBetween
        <3>2. ASSUME NEW d \in Channels, e \in ChannelHeld(q', d) PROVE FALSE
            <4>1. d # c /\ e \in ChannelHeld(q, d)
                BY <1>3, <3>1, <3>2
            <4> QED
                BY <3>1, <4>1 DEF EventInv, HoldInv
        <3>3. ASSUME NEW b \in Agents, e \in TaskHeld(b)' PROVE FALSE
            <4>1. b # a /\ e \in TaskHeld(b)
                BY <1>3, <3>1, <3>3
            <4> QED
                BY <3>1, <4>1 DEF EventInv, HoldInv
        <3> QED
            BY <2>2, <3>2, <3>3
    <2> QED
        BY <2>3, <2>4
<1> QED
    BY <1>6, <1>7, <1>8 DEF Settled

\* Nothing is lost when every event's old place accounts for it.
LEMMA Accounted ==
    ASSUME EventInv, BatchInv', settled \subseteq settled', merged \subseteq merged',
           \A c \in Channels : ChannelHeld(q, c) \subseteq Held' \cup settled' \cup merged',
           \A a \in Agents : TaskHeld(a) \subseteq Held' \cup settled' \cup merged',
           Known' \ Known \subseteq Held' \cup settled' \cup merged'
    PROVE  TriggersConserved'
<1>1. ASSUME NEW e \in Known PROVE e \in Held' \cup settled' \cup merged'
    <2>1. e \in Held \cup settled \cup merged
        BY DEF EventInv, TriggersConserved, Known
    <2> QED
        BY <2>1, HeldByOwner DEF EventInv
<1> QED
    BY <1>1 DEF TriggersConserved, Known
\* A step that changes no list, no batch and no record.
Quiet ==
    /\ \A c \in Channels : SameLists(q, q', c)
    /\ \A a \in Agents : /\ task'[a].batch.events = task[a].batch.events
                         /\ task'[a].batch.cancelled = task[a].batch.cancelled
                         /\ task'[a].ch = task[a].ch
                         /\ task'[a].phase = "none" <=> task[a].phase = "none"
    /\ UNCHANGED <<settled, merged, arrived>>
    /\ spent'.hangs = 0 => spent.hangs = 0

LEMMA QuietKeeps ==
    ASSUME EventInv, Quiet
    PROVE  BatchInv' /\ Settled /\ TriggersConserved'
<1>1. Known' = Known
    BY DEF Quiet, Known
<1>2. \A c \in Channels : ChannelHeld(q', c) = ChannelHeld(q, c) /\ ChannelOnce(q', c)
    BY SameListsHeld DEF Quiet, EventInv, HoldInv
<1>3. \A a \in Agents : TaskHeld(a)' = TaskHeld(a) /\ BatchOnce(task'[a].batch)
    BY DEF Quiet, EventInv, HoldInv, TaskHeld, BatchEvents, BatchOnce
<1>4. BatchInv'
    BY <1>3 DEF Quiet, EventInv, BatchInv
<1>5. GivesUp
    BY <1>1, <1>2, <1>3, <1>4 DEF GivesUp, Tidy, Quiet, EventInv, KnownInv
<1>6. /\ \A c \in Channels : ChannelHeld(q, c) \subseteq Held'
      /\ \A a \in Agents : TaskHeld(a) \subseteq Held'
    BY <1>2, <1>3, <1>4, HeldByOwnerNext
<1>7. TriggersConserved'
    BY <1>1, <1>4, <1>6, Accounted DEF Quiet
<1> QED
    BY <1>4, <1>5, <1>7, GivesUpKeeps

-----------------------------------------------------------------------------
(***************************************************************************)
(* Steers and their outcomes.                                              *)
(***************************************************************************)
AckInv == SteersEnd /\ SteerOnce /\ WithheldHasAck /\ PunctualInv

\* An outcome is outstanding exactly where WithheldHasAck looks for it.
LEMMA WithheldPending ==
    ASSUME TypeInv, SteersEnd
    PROVE  WithheldHasAck <=> \A c \in Channels : \A e \in Range(q.withheld[c]) : Pending(c, e)
<1>1. \A a \in Agents : Steers(a) # {} => a \in Busy
    BY DEF SteersEnd, Busy
<1>2. \A c \in Channels : NoEvent \notin Range(q.withheld[c])
    <2>1. \A c \in Channels : Range(q.withheld[c]) \subseteq Events
        BY ListTypes, RangeType DEF TypeInv, TypeOK
    <2> QED
        BY <2>1, HarnessAssumption DEF NoEvent
<1>3. ASSUME NEW c \in Channels, NEW e \in Range(q.withheld[c])
      PROVE  (\E a \in TasksOf(c) : e \in {task[a].wire, task[a].buf})
                <=> \E a \in Agents : task[a].ch = c /\ e \in Steers(a)
    <2>1. e # NoEvent
        BY <1>2
    <2>2. \A a \in Agents : e \in {task[a].wire, task[a].buf} <=> e \in Steers(a)
        BY <2>1 DEF Steers
    <2>3. \A a \in Agents : e \in Steers(a) => a \in Busy
        BY <1>1
    <2>4. TasksOf(c) = {a \in Busy : task[a].ch = c} /\ Busy \subseteq Agents
        BY DEF TasksOf, Busy
    <2> QED
        BY <2>2, <2>3, <2>4
<1> DEFINE asked(c, e) == \E a \in TasksOf(c) : e \in {task[a].wire, task[a].buf}
           answered(c, e) == \E m \in acks : m.ch = c /\ m.ev = e
           steered(c, e) == \E a \in Agents : task[a].ch = c /\ e \in Steers(a)
<1>4. WithheldHasAck <=> \A c \in Channels : \A e \in Range(q.withheld[c]) :
                              asked(c, e) \/ answered(c, e)
    BY DEF WithheldHasAck
<1>5. \A c \in Channels : \A e : Pending(c, e) <=> steered(c, e) \/ answered(c, e)
    BY DEF Pending
<1>6. \A c \in Channels : \A e \in Range(q.withheld[c]) : asked(c, e) <=> steered(c, e)
    BY <1>3
<1> HIDE DEF asked, answered, steered
<1> QED
    BY <1>4, <1>5, <1>6

LEMMA WithheldPendingNext ==
    ASSUME TypeInv', SteersEnd'
    PROVE  WithheldHasAck' <=>
               \A c \in Channels : \A e \in Range(q'.withheld[c]) : Pending(c, e)'
<1>1. \A a \in Agents : Steers(a)' # {} => a \in Busy'
    BY DEF SteersEnd, Busy
<1>2. \A c \in Channels : NoEvent \notin Range(q'.withheld[c])
    <2>1. q' \in QueueState
        BY DEF TypeInv, TypeOK
    <2>2. \A c \in Channels : Range(q'.withheld[c]) \subseteq Events
        BY <2>1, ListTypes, RangeType
    <2> QED
        BY <2>2, HarnessAssumption DEF NoEvent
<1>3. ASSUME NEW c \in Channels, NEW e \in Range(q'.withheld[c])
      PROVE  (\E a \in TasksOf(c)' : e \in {task'[a].wire, task'[a].buf})
                <=> \E a \in Agents : task'[a].ch = c /\ e \in Steers(a)'
    <2>1. e # NoEvent
        BY <1>2
    <2>2. \A a \in Agents : e \in {task'[a].wire, task'[a].buf} <=> e \in Steers(a)'
        BY <2>1 DEF Steers
    <2>3. \A a \in Agents : e \in Steers(a)' => a \in Busy'
        BY <1>1
    <2>4. TasksOf(c)' = {a \in Busy' : task'[a].ch = c} /\ Busy' \subseteq Agents
        BY DEF TasksOf, Busy
    <2> QED
        BY <2>2, <2>3, <2>4
<1> DEFINE asked(c, e) == \E a \in TasksOf(c)' : e \in {task'[a].wire, task'[a].buf}
           answered(c, e) == \E m \in acks' : m.ch = c /\ m.ev = e
           steered(c, e) == \E a \in Agents : task'[a].ch = c /\ e \in Steers(a)'
<1>4. WithheldHasAck' <=> \A c \in Channels : \A e \in Range(q'.withheld[c]) :
                              asked(c, e) \/ answered(c, e)
    BY DEF WithheldHasAck
<1>5. \A c \in Channels : \A e : Pending(c, e)' <=> steered(c, e) \/ answered(c, e)
    BY DEF Pending
<1>6. \A c \in Channels : \A e \in Range(q'.withheld[c]) : asked(c, e) <=> steered(c, e)
    BY <1>3
<1> HIDE DEF asked, answered, steered
<1> QED
    BY <1>4, <1>5, <1>6

\* Withheld events stay withheld, or are given up on the record; nothing is
\* withheld without an outcome to come.
LEMMA OutcomesKept ==
    ASSUME EventInv, TypeInv', SteersEnd', SteerOnce',
           \A c \in Channels : \A e : Pending(c, e)' <=> Pending(c, e),
           \A c \in Channels : Range(q'.withheld[c]) \subseteq Range(q.withheld[c]),
           spent'.hangs = 0 => /\ spent.hangs = 0
                               /\ q'.overdue = {}
                               /\ settled \subseteq settled'
                               /\ \A c \in Channels :
                                     Range(q.withheld[c]) \subseteq Range(q'.withheld[c]) \cup settled'
    PROVE  AckInv'
<1>1. \A c \in Channels : \A e \in Range(q.withheld[c]) : Pending(c, e)
    BY WithheldPending DEF EventInv, SlotInv
<1>2. WithheldHasAck'
    BY <1>1, WithheldPendingNext
<1>3. PunctualInv'
    BY DEF EventInv, PunctualInv
<1> QED
    BY <1>2, <1>3 DEF AckInv

\* Steps that leave the steers where they are.
LEMMA SteersKept ==
    ASSUME EventInv, TypeInv', acks' = acks, Known \subseteq Known',
           \A a \in Agents : /\ task'[a].wire = task[a].wire
                             /\ task'[a].buf = task[a].buf
                             /\ Steers(a) # {} => /\ task'[a].ch = task[a].ch
                                                  /\ task'[a].phase = task[a].phase,
           \A c \in Channels : Range(q'.withheld[c]) \subseteq Range(q.withheld[c]),
           spent'.hangs = 0 => /\ spent.hangs = 0
                               /\ q'.overdue = {}
                               /\ settled \subseteq settled'
                               /\ \A c \in Channels :
                                     Range(q.withheld[c]) \subseteq Range(q'.withheld[c]) \cup settled'
    PROVE  AckInv'
<1>1. \A a \in Agents : Steers(a)' = Steers(a)
    BY DEF Steers
<1>2. SteersEnd'
    BY <1>1 DEF EventInv, SteersEnd
<1>3. SteerOnce'
    BY <1>1 DEF EventInv, SteerOnce
<1>4. \A c \in Channels : \A e : Pending(c, e)' <=> Pending(c, e)
    BY <1>1 DEF Pending
<1> QED
    BY <1>2, <1>3, <1>4, OutcomesKept

\* Steps of slot a's task that answer some of its steers: the outcomes are on
\* their way to the loop.
LEMMA SteersAnswered ==
    ASSUME EventInv, TypeInv', NEW a \in Agents, q' = q, UNCHANGED <<settled, arrived>>,
           \A b \in Agents \ {a} : task'[b] = task[b],
           task'[a].ch = task[a].ch,
           task'[a].phase # "run" => Steers(a)' = {},
           task'[a].wire # NoEvent => task'[a].wire # task'[a].buf,
           Steers(a)' \subseteq Steers(a),
           acks \subseteq acks',
           \A m \in acks' \ acks : m.ch = task[a].ch /\ m.ev \in Steers(a) \ Steers(a)',
           \A m, n \in acks' \ acks : m.ev = n.ev => m = n,
           \A e \in Steers(a) \ Steers(a)' : \E m \in acks' : m.ch = task[a].ch /\ m.ev = e,
           spent'.hangs = spent.hangs
    PROVE  AckInv'
<1>1. \A b \in Agents \ {a} : Steers(b)' = Steers(b)
    BY DEF Steers
<1>2. SteersEnd'
    BY <1>1 DEF EventInv, SteersEnd
<1>3. SteerOnce'
    <2>1. Known' = Known
        BY DEF Known
    <2>2. \A b \in Agents : task'[b].wire # NoEvent => task'[b].wire # task'[b].buf
        BY DEF EventInv, SteerOnce
    <2>3. \A b \in Agents : Steers(b)' \subseteq Steers(b)
        BY <1>1
    <2>4. \A b, d \in Agents : b # d => Steers(b)' \cap Steers(d)' = {}
        BY <2>3 DEF EventInv, SteerOnce
    <2>5. ASSUME NEW b \in Agents, NEW m \in acks' PROVE m.ev \notin Steers(b)'
        <3>1. CASE m \in acks
            BY <2>3, <3>1 DEF EventInv, SteerOnce
        <3>2. CASE m \notin acks
            <4>1. m.ev \in Steers(a) /\ m.ev \notin Steers(a)'
                BY <3>2
            <4>2. b # a => Steers(b) \cap Steers(a) = {}
                BY DEF EventInv, SteerOnce
            <4> QED
                BY <2>3, <4>1, <4>2
        <3> QED
            BY <3>1, <3>2
    <2>6. ASSUME NEW m \in acks', NEW n \in acks', m.ev = n.ev PROVE m = n
        <3>1. CASE m \in acks /\ n \in acks
            BY <2>6, <3>1 DEF EventInv, SteerOnce
        <3>2. CASE m \notin acks /\ n \notin acks
            BY <2>6, <3>2
        <3>3. ASSUME NEW x \in acks, NEW y \in acks' \ acks, x.ev = y.ev PROVE FALSE
            BY <3>3 DEF EventInv, SteerOnce
        <3> QED
            BY <2>6, <3>1, <3>2, <3>3
    <2>7. \A b \in Agents : Steers(b)' \subseteq Known'
        BY <2>1, <2>3 DEF EventInv, SteerOnce
    <2>8. \A m \in acks' : m.ev \in Known'
        BY <2>1 DEF EventInv, SteerOnce
    <2> QED
        BY <2>2, <2>4, <2>5, <2>6, <2>7, <2>8 DEF SteerOnce
<1>4. ASSUME NEW c \in Channels, NEW e PROVE Pending(c, e)' <=> Pending(c, e)
    <2>1. ASSUME Pending(c, e)' PROVE Pending(c, e)
        <3>1. CASE \E b \in Agents : task'[b].ch = c /\ e \in Steers(b)'
            BY <1>1, <3>1 DEF Pending
        <3>2. CASE \E m \in acks' : m.ch = c /\ m.ev = e
            BY <3>2 DEF Pending
        <3> QED
            BY <2>1, <3>1, <3>2 DEF Pending
    <2>2. ASSUME Pending(c, e) PROVE Pending(c, e)'
        <3>1. ASSUME NEW b \in Agents, task[b].ch = c, e \in Steers(b) PROVE Pending(c, e)'
            BY <1>1, <3>1 DEF Pending
        <3>2. CASE \E m \in acks : m.ch = c /\ m.ev = e
            BY <3>2 DEF Pending
        <3> QED
            BY <2>2, <3>1, <3>2 DEF Pending
    <2> QED
        BY <2>1, <2>2
<1>5. spent.hangs = 0 => q.overdue = {}
    BY DEF EventInv, PunctualInv
<1> QED
    BY <1>2, <1>3, <1>4, <1>5, OutcomesKept
-----------------------------------------------------------------------------
(***************************************************************************)
(* Action by action.                                                       *)
(***************************************************************************)
EventsKept == BatchInv' /\ Settled /\ TriggersConserved' /\ AckInv'

\* Tasks that keep their batch, channel, phase and steers.
TasksAlike ==
    \A a \in Agents : /\ task'[a].batch = task[a].batch
                      /\ task'[a].ch = task[a].ch
                      /\ task'[a].phase = task[a].phase
                      /\ task'[a].wire = task[a].wire
                      /\ task'[a].buf = task[a].buf

\* Steps that touch neither lists nor batches nor steers.
LEMMA StillKeeps ==
    ASSUME EventInv, TypeInv', TasksAlike, UNCHANGED <<acks, settled, merged, arrived>>,
           \A c \in Channels : SameLists(q, q', c),
           spent'.hangs = 0 => spent.hangs = 0 /\ q'.overdue \subseteq q.overdue
    PROVE  EventsKept
<1>1. Quiet
    BY DEF Quiet, TasksAlike
<1>2. Known' = Known
    BY DEF Known
<1>3. \A c \in Channels : Range(q'.withheld[c]) = Range(q.withheld[c])
    BY SameListsHeld
<1>4. spent.hangs = 0 => q.overdue = {}
    BY DEF EventInv, PunctualInv
<1>5. AckInv'
    BY <1>2, <1>3, <1>4, SteersKept DEF TasksAlike
<1> QED
    BY <1>1, <1>5, QuietKeeps DEF EventsKept

\* Steps that release the overdue channels of Q, which has the lists of q.
LEMMA ExpireKeeps ==
    ASSUME EventInv, TypeInv', NEW Q \in QueueState, q' = ExpireInFlight(Q),
           \A c \in Channels : SameLists(q, Q, c),
           Q.overdue = q.overdue, settled' = settled \cup ExpireDrops(Q),
           UNCHANGED <<acks, merged, arrived, spent>>,
           BatchInv',
           \A a \in Agents : /\ TaskHeld(a)' = TaskHeld(a)
                             /\ BatchOnce(task'[a].batch)
                             /\ task'[a].wire = task[a].wire
                             /\ task'[a].buf = task[a].buf
                             /\ Steers(a) # {} => /\ task'[a].ch = task[a].ch
                                                  /\ task'[a].phase = task[a].phase
    PROVE  EventsKept
<1>1. Known' = Known
    BY DEF Known
<1>2. ASSUME NEW c \in Channels
      PROVE  /\ ChannelHeld(q', c) \subseteq ChannelHeld(q, c)
             /\ ChannelHeld(q, c) \subseteq ChannelHeld(q', c) \cup ExpireDrops(Q)
             /\ ChannelOnce(q', c)
             /\ Range(q'.withheld[c]) \subseteq Range(q.withheld[c])
    <2>1. /\ ChannelHeld(Q, c) = ChannelHeld(q, c)
          /\ ChannelOnce(Q, c)
          /\ Range(Q.withheld[c]) = Range(q.withheld[c])
        BY SameListsHeld DEF EventInv, HoldInv
    <2> QED
        BY <2>1, ExpireLists
<1>3. ExpireDrops(Q) \subseteq Known
    <2>1. ASSUME NEW c \in Q.overdue
          PROVE  Trimmed(Q.withheld[c] \o Q.queues[c]) \subseteq Known
        <3>1. c \in Channels
            BY DEF QueueState
        <3>2. Q.withheld[c] \in Seq(Events) /\ Q.queues[c] \in Seq(Events)
            BY <3>1, ListTypes
        <3>3. /\ Q.withheld[c] \o Q.queues[c] \in Seq(Events)
              /\ Range(Q.withheld[c] \o Q.queues[c]) \subseteq ChannelHeld(Q, c)
            BY <3>2, ConcatOnce DEF ChannelHeld
        <3>4. Trimmed(Q.withheld[c] \o Q.queues[c]) \subseteq ChannelHeld(Q, c)
            BY <3>3, TrimBackOnce
        <3>5. ChannelHeld(Q, c) \subseteq Known
            BY <3>1, SameListsHeld DEF EventInv, KnownInv
        <3> QED
            BY <3>4, <3>5
    <2> QED
        BY <2>1 DEF ExpireDrops
<1>4. spent.hangs = 0 => q' = Q /\ ExpireDrops(Q) = {} /\ q.overdue = {}
    BY ExpireNothing DEF EventInv, PunctualInv
<1>5. GivesUp
    BY <1>1, <1>2, <1>3, <1>4 DEF GivesUp, Tidy, EventInv, KnownInv
<1>6. /\ \A c \in Channels : ChannelHeld(q, c) \subseteq Held' \cup settled'
      /\ \A a \in Agents : TaskHeld(a) \subseteq Held'
    BY <1>2, HeldByOwnerNext
<1>7. TriggersConserved'
    BY <1>1, <1>6, Accounted
<1>8. spent.hangs = 0 => \A c \in Channels : Range(q'.withheld[c]) = Range(q.withheld[c])
    BY <1>4, SameListsHeld
<1>9. AckInv'
    <2>1. spent'.hangs = 0 => /\ spent.hangs = 0
                              /\ q'.overdue = {}
                              /\ settled \subseteq settled'
                              /\ \A c \in Channels :
                                    Range(q.withheld[c]) \subseteq Range(q'.withheld[c]) \cup settled'
        BY <1>4, <1>8
    <2>2. \A c \in Channels : Range(q'.withheld[c]) \subseteq Range(q.withheld[c])
        BY <1>2
    <2> QED
        BY <1>1, <2>1, <2>2, SteersKept
<1> QED
    BY <1>5, <1>7, <1>9, GivesUpKeeps DEF EventsKept

\* The top of the loop, the end of a dispatch, timers, sleep and wake.
LEMMA LoopEvents ==
    ASSUME EventInv, TypeInv',
           \/ TopLazy \/ TopSkip \/ Maintenance \/ CollectRespawns \/ DispatchDone \/ ReapDone
           \/ TimerTick \/ HeartbeatTick \/ IdlePoolSleep
           \/ WakeSucceeded \/ WakeFailed \/ WakeRetryDue
    PROVE  EventsKept
<1>1. q \in QueueState /\ task \in [Agents -> Task] /\ idle \subseteq Agents
    BY DEF EventInv, SlotInv, TypeInv, TypeOK
<1>2. \A c \in Channels : SameLists(q, q, c)
    BY DEF SameLists
<1>3. \A a \in Agents : BatchOnce(task[a].batch)
    BY DEF EventInv, HoldInv
<1>4. CASE TopSkip \/ CollectRespawns \/ ReapDone \/ TimerTick \/ IdlePoolSleep
               \/ WakeSucceeded \/ WakeFailed \/ WakeRetryDue
    <2>1. UNCHANGED <<q, task, acks, settled, merged, arrived>>
        BY <1>4 DEF TopSkip, CollectRespawns, ReapDone, TimerTick, IdlePoolSleep,
                    WakeSucceeded, WakeFailed, WakeRetryDue, poolVars, envVars, history
    <2>2. spent'.hangs = spent.hangs
        <3>1. CASE WakeFailed
            BY <3>1 DEF WakeFailed, EventInv, SlotInv, TypeInv, TypeOK
        <3>2. CASE ~WakeFailed
            BY <1>4, <3>2 DEF TopSkip, CollectRespawns, ReapDone, TimerTick, IdlePoolSleep,
                              WakeSucceeded, WakeRetryDue, envVars
        <3> QED
            BY <3>1, <3>2
    <2>3. TasksAlike /\ \A c \in Channels : SameLists(q, q', c)
        BY <2>1 DEF TasksAlike, SameLists
    <2> QED
        BY <2>1, <2>2, <2>3, StillKeeps
<1>5. CASE TopLazy \/ DispatchDone
    <2>1. /\ q' = ExpireInFlight(q) /\ settled' = settled \cup ExpireDrops(q)
          /\ UNCHANGED <<task, acks, merged, arrived, spent>>
        BY <1>5 DEF TopLazy, DispatchDone, poolVars, envVars
    <2>2. BatchInv' /\ \A a \in Agents : TaskHeld(a)' = TaskHeld(a)
        BY <2>1 DEF EventInv, BatchInv, TaskHeld
    <2> QED
        BY <1>1, <1>2, <1>3, <2>1, <2>2, ExpireKeeps
<1>6. CASE Maintenance
    <2> DEFINE Q == CompactExpiredState(q)
    <2>1. /\ q' = ExpireInFlight(Q) /\ settled' = settled \cup ExpireDrops(Q)
          /\ UNCHANGED <<task, acks, merged, arrived, spent>>
        BY <1>6 DEF Maintenance, envVars
    <2>2. Q \in QueueState /\ Q.overdue = q.overdue
        BY <1>1, CompactExpiredStateType
    <2>3. \A c \in Channels : SameLists(q, Q, c)
        BY <1>1, ClockLists
    <2>4. BatchInv' /\ \A a \in Agents : TaskHeld(a)' = TaskHeld(a)
        BY <2>1 DEF EventInv, BatchInv, TaskHeld
    <2> HIDE DEF Q
    <2> QED
        BY <1>3, <2>1, <2>2, <2>3, <2>4, ExpireKeeps
<1>7. CASE HeartbeatTick
    <2>1. /\ q' = ExpireInFlight(q) /\ settled' = settled \cup ExpireDrops(q)
          /\ UNCHANGED <<acks, merged, arrived, spent>>
        BY <1>7 DEF HeartbeatTick
    <2>2. CASE UNCHANGED task
        <3>1. BatchInv' /\ \A a \in Agents : TaskHeld(a)' = TaskHeld(a)
            BY <2>1, <2>2 DEF EventInv, BatchInv, TaskHeld
        <3> QED
            BY <1>1, <1>2, <1>3, <2>1, <2>2, <3>1, ExpireKeeps
    <2>3. ASSUME NEW a \in idle, task' = [task EXCEPT ![a] = [NoTask EXCEPT !.phase = "run"]]
          PROVE  EventsKept
        <3> DEFINE t == [NoTask EXCEPT !.phase = "run"]
        <3>1. /\ t.batch = EmptyBatch /\ t.ch = NoChannel
              /\ t.wire = NoEvent /\ t.buf = NoEvent
            BY DEF NoTask
        <3>2. a \in Agents /\ task'[a] = t /\ \A b \in Agents \ {a} : task'[b] = task[b]
            BY <1>1, <2>3
        <3> HIDE DEF t
        <3>3. task[a].phase = "none"
            BY <3>2 DEF EventInv, SlotInv, SlotExclusive, Busy
        <3>4. TaskHeld(a) = {} /\ Steers(a) = {}
            BY <3>2, <3>3 DEF EventInv, BatchInv, SteersEnd
        <3>5. task[a].wire = NoEvent /\ task[a].buf = NoEvent
            BY <3>4 DEF Steers
        <3>6. EmptyBatch.events = << >> /\ EmptyBatch.cancelled = << >>
            BY DEF EmptyBatch
        <3>7. /\ TaskHeld(a)' = {} /\ BatchOnce(task'[a].batch)
              /\ Range(task'[a].batch.cancelled) = {}
            BY <3>1, <3>2, <3>6, EmptyOnce DEF TaskHeld, BatchEvents, BatchOnce
        <3>8. \A b \in Agents : /\ TaskHeld(b)' = TaskHeld(b)
                                /\ BatchOnce(task'[b].batch)
                                /\ task'[b].wire = task[b].wire
                                /\ task'[b].buf = task[b].buf
                                /\ Steers(b) # {} => /\ task'[b].ch = task[b].ch
                                                     /\ task'[b].phase = task[b].phase
            <4> SUFFICES ASSUME NEW b \in Agents
                         PROVE  /\ TaskHeld(b)' = TaskHeld(b)
                                /\ BatchOnce(task'[b].batch)
                                /\ task'[b].wire = task[b].wire
                                /\ task'[b].buf = task[b].buf
                                /\ Steers(b) # {} => /\ task'[b].ch = task[b].ch
                                                     /\ task'[b].phase = task[b].phase
                OBVIOUS
            <4>1. CASE b = a
                BY <3>1, <3>2, <3>4, <3>5, <3>7, <4>1
            <4>2. CASE b # a
                BY <1>3, <3>2, <4>2 DEF TaskHeld
            <4> QED
                BY <4>1, <4>2
        <3>9. BatchInv'
            BY <2>1, <3>2, <3>7, <3>8 DEF EventInv, BatchInv
        <3> QED
            BY <1>1, <1>2, <2>1, <3>8, <3>9, ExpireKeeps
    <2> QED
        BY <1>7, <2>2, <2>3 DEF HeartbeatTick
<1> QED
    BY <1>4, <1>5, <1>6, <1>7
\* A batch is dispatched: it moves to an agent, or back to its channel.
LEMMA DispatchBatchEvents ==
    ASSUME EventInv, TypeInv', NEW c \in Channels, NEW b \in FlushBatch,
           NEW flushed \in QueueState, DispatchBatch(c, b, flushed),
           BatchOnce(b), ChannelOnce(flushed, c),
           ChannelHeld(ExpireInFlight(q), c) = ChannelHeld(flushed, c) \cup BatchEvents(b),
           ChannelHeld(flushed, c) \cap BatchEvents(b) = {},
           \A d \in Channels \ {c} : SameLists(ExpireInFlight(q), flushed, d),
           flushed.withheld = ExpireInFlight(q).withheld,
           flushed.overdue = {}
    PROVE  EventsKept
<1> DEFINE live == ExpireInFlight(q)
<1>1. q \in QueueState /\ task \in [Agents -> Task] /\ live \in QueueState
    BY ExpireInFlightType DEF EventInv, SlotInv, TypeInv, TypeOK
<1>2. \A d \in Channels : /\ ChannelHeld(live, d) \subseteq ChannelHeld(q, d)
                          /\ ChannelHeld(q, d) \subseteq ChannelHeld(live, d) \cup ExpireDrops(q)
                          /\ ChannelOnce(live, d)
                          /\ Range(live.withheld[d]) \subseteq Range(q.withheld[d])
    BY <1>1, ExpireLists DEF EventInv, HoldInv
<1>3. /\ merged' = merged \cup Range(b.cancelled)
      /\ UNCHANGED <<acks, arrived, spent>>
    BY DEF DispatchBatch, envVars
<1>4. Known' = Known
    BY <1>3 DEF Known
<1>5. spent.hangs = 0 => live = q /\ ExpireDrops(q) = {} /\ q.overdue = {}
    BY <1>1, ExpireNothing DEF EventInv, PunctualInv
<1>6. ExpireDrops(q) \subseteq Known
    <2>1. ASSUME NEW d \in q.overdue
          PROVE  Trimmed(q.withheld[d] \o q.queues[d]) \subseteq Known
        <3>1. d \in Channels
            BY <1>1 DEF QueueState
        <3>2. q.withheld[d] \in Seq(Events) /\ q.queues[d] \in Seq(Events)
            BY <1>1, <3>1, ListTypes
        <3>3. /\ q.withheld[d] \o q.queues[d] \in Seq(Events)
              /\ Range(q.withheld[d] \o q.queues[d]) \subseteq ChannelHeld(q, d)
            BY <3>2, ConcatOnce DEF ChannelHeld
        <3> QED
            BY <3>1, <3>3, TrimBackOnce DEF EventInv, KnownInv
    <2> QED
        BY <2>1 DEF ExpireDrops
<1>7. BatchEvents(b) \subseteq ChannelHeld(q, c) /\ ChannelHeld(q, c) \subseteq Known
    BY <1>2 DEF EventInv, KnownInv
<1>8. Range(b.cancelled) \subseteq BatchEvents(b) /\ Range(b.events) \subseteq BatchEvents(b)
      /\ BatchEvents(b) = Range(b.events) \cup Range(b.cancelled)
    BY DEF BatchEvents
<1> HIDE DEF live
<1>9. \A d \in Channels \ {c} : /\ ChannelHeld(flushed, d) = ChannelHeld(live, d)
                                /\ ChannelOnce(flushed, d)
    BY <1>2, SameListsHeld DEF live
<1>10. /\ ChannelHeld(live, c) = ChannelHeld(flushed, c) \cup BatchEvents(b)
       /\ flushed.withheld = live.withheld
    BY DEF live
<1>11. CASE \E a \in Claimable(c) : StartTurn(c, b, flushed, a)
    <2> DEFINE t == [NoTask EXCEPT !.phase = "run", !.ch = c, !.batch = b]
    <2>1. PICK a \in idle : StartTurn(c, b, flushed, a)
        BY <1>11 DEF Claimable
    <2>2. /\ t.phase = "run" /\ t.ch = c /\ t.batch = b /\ t.wire = NoEvent /\ t.buf = NoEvent
        BY DEF NoTask
    <2>3. /\ a \in Agents /\ task[a].phase = "none"
        BY <2>1 DEF EventInv, SlotInv, SlotExclusive, Busy, TypeInv, TypeOK
    <2>4. /\ task' = [task EXCEPT ![a] = t] /\ q' = flushed
          /\ settled' = settled \cup ExpireDrops(q)
        BY <2>1 DEF StartTurn
    <2> HIDE DEF t
    <2>5. task'[a] = t /\ \A d \in Agents \ {a} : task'[d] = task[d]
        BY <1>1, <2>3, <2>4
    <2>6. TaskHeld(a) = {} /\ task[a].wire = NoEvent /\ task[a].buf = NoEvent /\ Steers(a) = {}
        BY <2>3 DEF EventInv, BatchInv, SteersEnd, Steers
    <2>7. TaskHeld(a)' = BatchEvents(b) /\ \A d \in Agents \ {a} : TaskHeld(d)' = TaskHeld(d)
        BY <2>2, <2>5 DEF TaskHeld
    <2>8. c # NoChannel
        BY HarnessAssumption
    <2>9. BatchInv'
        <3>1. \A d \in Agents : task'[d].phase = "none" \/ task'[d].ch = NoChannel => TaskHeld(d)' = {}
            BY <2>2, <2>5, <2>7, <2>8 DEF EventInv, BatchInv
        <3>2. \A d \in Agents : Range(task'[d].batch.cancelled) \subseteq merged'
            BY <1>3, <2>2, <2>5 DEF EventInv, BatchInv
        <3> QED
            BY <3>1, <3>2 DEF BatchInv
    <2>10. Tidy
        <3>1. \A d \in Agents : BatchOnce(task'[d].batch)
            BY <2>2, <2>5 DEF EventInv, HoldInv
        <3>2. \A d \in Channels : ChannelOnce(q', d)
            BY <1>9, <2>4
        <3>3. settled' \subseteq Known'
            BY <1>4, <1>6, <2>4 DEF EventInv, KnownInv
        <3> QED
            BY <1>3, <1>4, <2>4, <2>9, <3>1, <3>2, <3>3 DEF Tidy
    <2>11. MovesBetween(c, a)
        <3>1. \A d \in Channels \ {c} : ChannelHeld(q', d) \subseteq ChannelHeld(q, d)
            BY <1>2, <1>9, <2>4
        <3>2. /\ ChannelHeld(q', c) \cup TaskHeld(a)' \subseteq ChannelHeld(q, c) \cup TaskHeld(a)
              /\ ChannelHeld(q', c) \cap TaskHeld(a)' = {}
            BY <1>2, <1>10, <2>4, <2>7
        <3>3. spent.hangs = 0 => settled' = settled
            BY <1>5, <2>4
        <3> QED
            BY <2>7, <2>10, <3>1, <3>2, <3>3 DEF MovesBetween
    <2>12. TriggersConserved'
        <3>1. \A d \in Channels : ChannelHeld(q, d) \subseteq Held' \cup settled'
            <4>1. \A d \in Channels \ {c} : ChannelHeld(live, d) \subseteq Held'
                BY <1>9, <2>4, <2>9, HeldByOwnerNext
            <4>2. ChannelHeld(live, c) \subseteq Held'
                BY <1>10, <2>3, <2>4, <2>7, <2>9, HeldByOwnerNext
            <4> QED
                BY <1>2, <2>4, <4>1, <4>2
        <3>2. \A d \in Agents : TaskHeld(d) \subseteq Held'
            BY <2>6, <2>7, <2>9, HeldByOwnerNext
        <3>3. settled \subseteq settled' /\ merged \subseteq merged' /\ Known' \ Known = {}
            BY <1>3, <1>4, <2>4
        <3> QED
            BY <2>9, <3>1, <3>2, <3>3, Accounted
    <2>13. AckInv'
        <3>1. \A d \in Agents : /\ task'[d].wire = task[d].wire
                                /\ task'[d].buf = task[d].buf
                                /\ Steers(d) # {} => /\ task'[d].ch = task[d].ch
                                                     /\ task'[d].phase = task[d].phase
            BY <2>2, <2>5, <2>6
        <3>2. \A d \in Channels : Range(q'.withheld[d]) \subseteq Range(q.withheld[d])
            BY <1>2, <1>10, <2>4
        <3>3. spent'.hangs = 0 => /\ spent.hangs = 0
                                  /\ q'.overdue = {}
                                  /\ settled \subseteq settled'
                                  /\ \A d \in Channels :
                                        Range(q.withheld[d]) \subseteq Range(q'.withheld[d]) \cup settled'
            BY <1>3, <1>5, <1>10, <2>4
        <3> QED
            BY <1>3, <1>4, <3>1, <3>2, <3>3, SteersKept
    <2> QED
        BY <2>3, <2>9, <2>11, <2>12, <2>13, MovesBetweenKeeps DEF EventsKept
<1>12. CASE PoolExhausted(c, b, flushed)
    <2> DEFINE Q == RequeuePreserveTimestamps(flushed, c, b)
               drops == Trimmed(b.events \o flushed.queues[c])
    <2>1. /\ ChannelOnce(Q, c)
          /\ ChannelHeld(Q, c) \cup drops = ChannelHeld(flushed, c) \cup Range(b.events)
          /\ ChannelHeld(Q, c) \cap drops = {}
          /\ \A d \in Channels \ {c} : SameLists(flushed, Q, d)
          /\ Q.withheld = flushed.withheld
        BY RequeuePreserveTimestampsLists
    <2>2. Q \in QueueState /\ Q.overdue = {}
        BY RequeuePreserveTimestampsType
    <2>3. /\ q' = MarkComplete(Q, c) /\ UNCHANGED task
          /\ settled' = settled \cup ExpireDrops(q) \cup drops
        BY <1>12 DEF PoolExhausted
    <2> HIDE DEF Q, drops
    <2>4. \A d \in Channels : SameLists(Q, q', d)
        BY <2>2, <2>3, ClockLists
    <2>5. q'.overdue = {}
        BY <2>2, <2>3, MarkCompleteType
    <2>6. /\ ChannelOnce(q', c)
          /\ ChannelHeld(q', c) \cup drops = ChannelHeld(flushed, c) \cup Range(b.events)
          /\ ChannelHeld(q', c) \cap drops = {}
        BY <2>1, <2>4, SameListsHeld
    <2>7. \A d \in Channels \ {c} : ChannelHeld(q', d) = ChannelHeld(live, d) /\ ChannelOnce(q', d)
        <3> SUFFICES ASSUME NEW d \in Channels \ {c}
                     PROVE  ChannelHeld(q', d) = ChannelHeld(live, d) /\ ChannelOnce(q', d)
            OBVIOUS
        <3>1. ChannelHeld(Q, d) = ChannelHeld(flushed, d) /\ ChannelOnce(Q, d)
            BY <1>9, <2>1, SameListsHeld
        <3> QED
            BY <1>9, <2>4, <3>1, SameListsHeld
    <2>8. \A d \in Channels : Range(q'.withheld[d]) = Range(live.withheld[d])
        BY <1>10, <2>1, <2>4 DEF SameLists
    <2>9. BatchInv' /\ \A a \in Agents : TaskHeld(a)' = TaskHeld(a) /\ BatchOnce(task'[a].batch)
        BY <1>3, <2>3 DEF EventInv, BatchInv, TaskHeld, HoldInv
    <2>10. drops \subseteq ChannelHeld(q, c) /\ ChannelHeld(q', c) \subseteq ChannelHeld(q, c)
        BY <1>2, <1>8, <1>10, <2>6
    <2>11. MovesWithin(c)
        <3>1. Tidy
            <4>1. \A d \in Channels : ChannelOnce(q', d)
                BY <2>6, <2>7
            <4>2. settled' \subseteq Known'
                BY <1>4, <1>6, <1>7, <2>3, <2>10 DEF EventInv, KnownInv
            <4> QED
                BY <1>3, <1>4, <2>3, <2>9, <4>1, <4>2 DEF Tidy
        <3>2. \A d \in Channels \ {c} : ChannelHeld(q', d) \subseteq ChannelHeld(q, d)
            BY <1>2, <2>7
        <3>3. spent.hangs = 0 => settled' \ settled \subseteq drops
            BY <1>5, <2>3
        <3> QED
            BY <2>6, <2>9, <2>10, <3>1, <3>2, <3>3 DEF MovesWithin
    <2>12. TriggersConserved'
        <3>1. \A d \in Channels : ChannelHeld(q, d) \subseteq Held' \cup settled' \cup merged'
            <4>1. \A d \in Channels \ {c} : ChannelHeld(live, d) \subseteq Held'
                BY <2>7, <2>9, HeldByOwnerNext
            <4>2. ChannelHeld(live, c) \subseteq Held' \cup settled' \cup merged'
                <5>1. ChannelHeld(q', c) \subseteq Held'
                    BY <2>9, HeldByOwnerNext
                <5> QED
                    BY <1>3, <1>8, <1>10, <2>3, <2>6, <5>1
            <4> QED
                BY <1>2, <2>3, <4>1, <4>2
        <3>2. \A a \in Agents : TaskHeld(a) \subseteq Held'
            BY <2>9, HeldByOwnerNext
        <3>3. settled \subseteq settled' /\ merged \subseteq merged' /\ Known' \ Known = {}
            BY <1>3, <1>4, <2>3
        <3> QED
            BY <2>9, <3>1, <3>2, <3>3, Accounted
    <2>13. AckInv'
        <3>1. \A d \in Channels : Range(q'.withheld[d]) \subseteq Range(q.withheld[d])
            BY <1>2, <2>8
        <3>2. spent'.hangs = 0 => /\ spent.hangs = 0
                                  /\ q'.overdue = {}
                                  /\ settled \subseteq settled'
                                  /\ \A d \in Channels :
                                        Range(q.withheld[d]) \subseteq Range(q'.withheld[d]) \cup settled'
            BY <1>3, <1>5, <2>3, <2>5, <2>8
        <3> QED
            BY <1>3, <1>4, <2>3, <3>1, <3>2, SteersKept
    <2> QED
        BY <2>9, <2>11, <2>12, <2>13, MovesWithinKeeps DEF EventsKept
<1> QED
    BY <1>11, <1>12 DEF DispatchBatch

\* dispatch_pending
LEMMA DispatchEvents ==
    ASSUME EventInv, TypeInv', DispatchQueued \/ DispatchCancelled
    PROVE  EventsKept
<1> DEFINE live == ExpireInFlight(q)
<1>1. q \in QueueState /\ live \in QueueState /\ live.overdue = {}
    BY ExpireInFlightType DEF EventInv, SlotInv, TypeInv, TypeOK
<1>2. \A c \in Channels : ChannelOnce(live, c)
    BY <1>1, ExpireLists DEF EventInv, HoldInv
<1>3. CASE DispatchQueued
    <2>1. PICK c \in Flushable(live) : \E sorted \in StableSorts(Drained(live, c)) :
                 DispatchBatch(c, FlushedBatch(live, c, sorted), AfterFlush(live, c))
        BY <1>3 DEF DispatchQueued, OldestFlushable
    <2>2. PICK sorted \in StableSorts(Drained(live, c)) :
                 DispatchBatch(c, FlushedBatch(live, c, sorted), AfterFlush(live, c))
        BY <2>1
    <2>3. c \in Channels
        BY DEF Flushable
    <2> HIDE DEF live
    <2> DEFINE b == FlushedBatch(live, c, sorted)
               R == AfterFlush(live, c)
    <2>4. b \in FlushBatch /\ R \in QueueState /\ R.overdue = {}
        BY <1>1, <2>3, FlushType
    <2>5. /\ BatchOnce(b) /\ ChannelOnce(R, c)
          /\ ChannelHeld(live, c) = ChannelHeld(R, c) \cup BatchEvents(b)
          /\ ChannelHeld(R, c) \cap BatchEvents(b) = {}
          /\ \A d \in Channels \ {c} : SameLists(live, R, d)
          /\ R.withheld = live.withheld
        BY <1>1, <1>2, <2>3, FlushLists
    <2>6. DispatchBatch(c, b, R)
        BY <2>2
    <2> HIDE DEF b, R
    <2> QED
        BY <2>3, <2>4, <2>5, <2>6, DispatchBatchEvents DEF live
<1>4. CASE DispatchCancelled
    <2>1. PICK c \in CancelledReady(live) :
                 DispatchBatch(c, CancelledBatch(live, c), AfterCancelledFlush(live, c))
        BY <1>4 DEF DispatchCancelled
    <2>2. c \in Channels
        BY DEF CancelledReady
    <2> HIDE DEF live
    <2> DEFINE b == CancelledBatch(live, c)
               R == AfterCancelledFlush(live, c)
    <2>3. b \in FlushBatch /\ R \in QueueState /\ R.overdue = {}
        BY <1>1, <2>2, CancelledFlushType
    <2>4. /\ BatchOnce(b) /\ ChannelOnce(R, c)
          /\ ChannelHeld(live, c) = ChannelHeld(R, c) \cup BatchEvents(b)
          /\ ChannelHeld(R, c) \cap BatchEvents(b) = {}
          /\ \A d \in Channels \ {c} : SameLists(live, R, d)
          /\ R.withheld = live.withheld
        BY <1>1, <1>2, <2>2, CancelledFlushLists
    <2>5. DispatchBatch(c, b, R)
        BY <2>1
    <2> HIDE DEF b, R
    <2> QED
        BY <2>2, <2>3, <2>4, <2>5, DispatchBatchEvents DEF live
<1> QED
    BY <1>3, <1>4
\* A slot's task is over: the slot holds nothing, and no other slot changes.
LEMMA SlotEmptied ==
    ASSUME EventInv, NEW a \in Agents, task[a].phase \in {"done", "panicked"},
           task' = [task EXCEPT ![a] = NoTask], merged' = merged
    PROVE  /\ BatchInv'
           /\ TaskHeld(a)' = {}
           /\ \A b \in Agents \ {a} : TaskHeld(b)' = TaskHeld(b)
           /\ \A b \in Agents : /\ BatchOnce(task'[b].batch)
                                /\ task'[b].wire = task[b].wire
                                /\ task'[b].buf = task[b].buf
                                /\ Steers(b) # {} => /\ task'[b].ch = task[b].ch
                                                     /\ task'[b].phase = task[b].phase
<1>1. task \in [Agents -> Task]
    BY DEF EventInv, SlotInv, TypeInv, TypeOK
<1>2. task'[a] = NoTask /\ \A b \in Agents \ {a} : task'[b] = task[b]
    BY <1>1
<1>3. /\ NoTask.batch = EmptyBatch /\ NoTask.phase = "none"
      /\ NoTask.wire = NoEvent /\ NoTask.buf = NoEvent
    BY DEF NoTask
<1>4. EmptyBatch.events = << >> /\ EmptyBatch.cancelled = << >>
    BY DEF EmptyBatch
<1>5. /\ TaskHeld(a)' = {} /\ BatchOnce(task'[a].batch)
      /\ Range(task'[a].batch.cancelled) = {}
    BY <1>2, <1>3, <1>4, EmptyOnce DEF TaskHeld, BatchEvents, BatchOnce
<1>6. Steers(a) = {} /\ task[a].wire = NoEvent /\ task[a].buf = NoEvent
    BY DEF EventInv, SteersEnd, Steers
<1>7. \A b \in Agents \ {a} : TaskHeld(b)' = TaskHeld(b) /\ BatchOnce(task'[b].batch)
    BY <1>2 DEF TaskHeld, EventInv, HoldInv
<1>8. BatchInv'
    BY <1>2, <1>5, <1>7 DEF EventInv, BatchInv
<1>9. \A b \in Agents : /\ task'[b].wire = task[b].wire
                        /\ task'[b].buf = task[b].buf
                        /\ Steers(b) # {} => /\ task'[b].ch = task[b].ch
                                             /\ task'[b].phase = task[b].phase
    BY <1>2, <1>3, <1>6
<1> QED
    BY <1>5, <1>7, <1>8, <1>9

\* A turn is over: its batch goes back to its channel, or is given up on the
\* record, but for the events merged into it.
LEMMA TurnEndsEvents ==
    ASSUME EventInv, TypeInv', NEW a \in Agents, task[a].phase \in {"done", "panicked"},
           task' = [task EXCEPT ![a] = NoTask], UNCHANGED <<acks, merged, arrived, spent>>,
           NEW c \in Channels, NEW Q \in QueueState, NEW drops,
           q' = MarkComplete(Q, c), settled' = settled \cup drops,
           ChannelOnce(Q, c),
           ChannelHeld(Q, c) \cup drops \subseteq ChannelHeld(q, c) \cup TaskHeld(a),
           ChannelHeld(q, c) \cup Range(task[a].batch.events) \subseteq ChannelHeld(Q, c) \cup drops,
           ChannelHeld(Q, c) \cap drops = {},
           \A d \in Channels \ {c} : SameLists(q, Q, d),
           Q.withheld = q.withheld, Q.overdue = q.overdue
    PROVE  EventsKept
<1>1. /\ BatchInv'
      /\ TaskHeld(a)' = {}
      /\ \A b \in Agents \ {a} : TaskHeld(b)' = TaskHeld(b)
      /\ \A b \in Agents : /\ BatchOnce(task'[b].batch)
                           /\ task'[b].wire = task[b].wire
                           /\ task'[b].buf = task[b].buf
                           /\ Steers(b) # {} => /\ task'[b].ch = task[b].ch
                                                /\ task'[b].phase = task[b].phase
    BY SlotEmptied
<1>2. Known' = Known
    BY DEF Known
<1>3. \A d \in Channels : SameLists(Q, q', d)
    BY ClockLists
<1>4. q'.overdue \subseteq q.overdue
    BY MarkCompleteType
<1>5. ChannelHeld(q', c) = ChannelHeld(Q, c) /\ ChannelOnce(q', c)
    BY <1>3, SameListsHeld
<1>6. \A d \in Channels \ {c} : ChannelHeld(q', d) = ChannelHeld(q, d) /\ ChannelOnce(q', d)
    <2> SUFFICES ASSUME NEW d \in Channels \ {c}
                 PROVE  ChannelHeld(q', d) = ChannelHeld(q, d) /\ ChannelOnce(q', d)
        OBVIOUS
    <2>1. ChannelHeld(Q, d) = ChannelHeld(q, d) /\ ChannelOnce(Q, d)
        BY SameListsHeld DEF EventInv, HoldInv
    <2> QED
        BY <1>3, <2>1, SameListsHeld
<1>7. \A d \in Channels : Range(q'.withheld[d]) = Range(q.withheld[d])
    BY <1>3 DEF SameLists
<1>8. drops \subseteq Known
    BY DEF EventInv, KnownInv
<1>9. MovesBetween(c, a)
    <2>1. Tidy
        BY <1>1, <1>2, <1>5, <1>6, <1>8 DEF Tidy, EventInv, KnownInv
    <2> QED
        BY <1>1, <1>5, <1>6, <2>1 DEF MovesBetween
<1>10. TriggersConserved'
    <2>1. \A d \in Channels : ChannelHeld(q', d) \subseteq Held'
        BY <1>1, HeldByOwnerNext
    <2>2. \A d \in Channels : ChannelHeld(q, d) \subseteq Held' \cup settled' \cup merged'
        BY <1>5, <1>6, <2>1
    <2>3. ASSUME NEW b \in Agents PROVE TaskHeld(b) \subseteq Held' \cup settled' \cup merged'
        <3>1. CASE b = a
            <4>1. TaskHeld(a) = Range(task[a].batch.events) \cup Range(task[a].batch.cancelled)
                BY DEF TaskHeld, BatchEvents
            <4>2. Range(task[a].batch.cancelled) \subseteq merged'
                BY DEF EventInv, BatchInv
            <4> QED
                BY <1>5, <2>1, <3>1, <4>1, <4>2
        <3>2. CASE b # a
            BY <1>1, <3>2, HeldByOwnerNext
        <3> QED
            BY <3>1, <3>2
    <2>4. settled \subseteq settled' /\ merged \subseteq merged' /\ Known' \ Known = {}
        BY <1>2
    <2> QED
        BY <1>1, <2>2, <2>3, <2>4, Accounted
<1>11. AckInv'
    <2>1. spent'.hangs = 0 => /\ spent.hangs = 0
                              /\ q'.overdue = {}
                              /\ settled \subseteq settled'
                              /\ \A d \in Channels :
                                    Range(q.withheld[d]) \subseteq Range(q'.withheld[d]) \cup settled'
        BY <1>4, <1>7 DEF EventInv, PunctualInv
    <2> QED
        BY <1>1, <1>2, <1>7, <2>1, SteersKept
<1> QED
    BY <1>1, <1>9, <1>10, <1>11, MovesBetweenKeeps DEF EventsKept

\* handle_prompt_result and recover_panicked_agent
LEMMA ResultEvents ==
    ASSUME EventInv, TypeInv', NEW a \in Agents,
           HandlePromptResult(a) \/ RecoverPanickedAgent(a)
    PROVE  EventsKept
<1> DEFINE t == task[a]
           c == task[a].ch
           requeued == c # NoChannel /\ DedupMode = "Queue" /\ c \notin removed
<1>1. /\ q \in QueueState /\ task \in [Agents -> Task]
      /\ t \in Task /\ t.batch \in FlushBatch
    BY DEF EventInv, SlotInv, TypeInv, TypeOK, Task
<1>2. /\ task[a].phase \in {"done", "panicked"}
      /\ task' = [task EXCEPT ![a] = NoTask]
      /\ UNCHANGED <<acks, merged, arrived, spent>>
    BY DEF HandlePromptResult, RecoverPanickedAgent
<1>3. CASE c = NoChannel
    <2>1. TaskHeld(a) = {}
        BY <1>3 DEF EventInv, BatchInv
    <2>2. q' = q /\ settled' = settled
        <3>1. CASE HandlePromptResult(a)
            BY <1>3, <3>1 DEF HandlePromptResult
        <3>2. CASE RecoverPanickedAgent(a)
            BY <1>3, <2>1, <3>2 DEF RecoverPanickedAgent, TaskHeld
        <3> QED
            BY <3>1, <3>2
    <2>3. /\ BatchInv'
          /\ TaskHeld(a)' = {}
          /\ \A b \in Agents \ {a} : TaskHeld(b)' = TaskHeld(b)
          /\ \A b \in Agents : /\ BatchOnce(task'[b].batch)
                               /\ task'[b].wire = task[b].wire
                               /\ task'[b].buf = task[b].buf
                               /\ Steers(b) # {} => /\ task'[b].ch = task[b].ch
                                                    /\ task'[b].phase = task[b].phase
        BY <1>2, SlotEmptied
    <2>4. Known' = Known
        BY <1>2 DEF Known
    <2>5. GivesUp
        BY <1>2, <2>1, <2>2, <2>3, <2>4 DEF GivesUp, Tidy, EventInv, KnownInv, HoldInv
    <2>6. TriggersConserved'
        <3>1. \A d \in Channels : ChannelHeld(q, d) \subseteq Held'
            BY <2>2, <2>3, HeldByOwnerNext
        <3>2. \A b \in Agents : TaskHeld(b) \subseteq Held'
            BY <2>1, <2>3, HeldByOwnerNext
        <3> QED
            BY <1>2, <2>2, <2>3, <2>4, <3>1, <3>2, Accounted
    <2>7. AckInv'
        <3>1. spent'.hangs = 0 => /\ spent.hangs = 0
                                  /\ q'.overdue = {}
                                  /\ settled \subseteq settled'
                                  /\ \A d \in Channels :
                                        Range(q.withheld[d]) \subseteq Range(q'.withheld[d]) \cup settled'
            BY <1>2, <2>2 DEF EventInv, PunctualInv
        <3> QED
            BY <1>2, <2>2, <2>3, <2>4, <3>1, SteersKept
    <2> QED
        BY <2>3, <2>5, <2>6, <2>7, GivesUpKeeps DEF EventsKept
<1>4. CASE c # NoChannel
    <2>1. c \in Channels
        BY <1>1, <1>4 DEF Task
    <2>2. /\ ChannelOnce(q, c) /\ BatchOnce(t.batch)
          /\ ChannelHeld(q, c) \cap BatchEvents(t.batch) = {}
        BY <2>1 DEF EventInv, HoldInv, TaskHeld
    <2>3. PICK Q, drops :
                 /\ q' = MarkComplete(Q, c) /\ settled' = settled \cup drops
                 /\ \/ Q = q /\ drops = BatchEvents(t.batch)
                    \/ Q = RequeueAsCancelled(q, c, t.batch) /\ drops = {}
                    \/ Q = Requeue(q, c, t.batch) /\ drops = RequeueDrops(q, c, t.batch)
        <3>1. CASE HandlePromptResult(a)
            <4>1. /\ q' = MarkComplete(ResultQueue(t), c)
                  /\ settled' = settled \cup ResultDrops(t)
                BY <1>4, <3>1 DEF HandlePromptResult
            <4>2. \/ ResultQueue(t) = q /\ ResultDrops(t) = BatchEvents(t.batch)
                  \/ ResultQueue(t) = RequeueAsCancelled(q, c, t.batch) /\ ResultDrops(t) = {}
                  \/ /\ ResultQueue(t) = Requeue(q, c, t.batch)
                     /\ ResultDrops(t) = RequeueDrops(q, c, t.batch)
                BY DEF ResultQueue, ResultDrops
            <4> QED
                BY <4>1, <4>2
        <3>2. CASE RecoverPanickedAgent(a)
            <4>1. /\ q' = MarkComplete(IF requeued THEN Requeue(q, c, t.batch) ELSE q, c)
                  /\ settled' = settled \cup (IF requeued THEN RequeueDrops(q, c, t.batch)
                                                          ELSE BatchEvents(t.batch))
                BY <1>4, <3>2 DEF RecoverPanickedAgent
            <4> QED
                BY <4>1
        <3> QED
            BY <3>1, <3>2
    <2>4. /\ Q \in QueueState /\ Q.overdue = q.overdue /\ Q.withheld = q.withheld
          /\ ChannelOnce(Q, c)
          /\ ChannelHeld(Q, c) \cup drops \subseteq ChannelHeld(q, c) \cup BatchEvents(t.batch)
          /\ ChannelHeld(q, c) \cup Range(t.batch.events) \subseteq ChannelHeld(Q, c) \cup drops
          /\ ChannelHeld(Q, c) \cap drops = {}
          /\ \A d \in Channels \ {c} : SameLists(q, Q, d)
        <3>1. Range(t.batch.events) \subseteq BatchEvents(t.batch)
            BY DEF BatchEvents
        <3> HIDE DEF t, c
        <3>2. CASE Q = q /\ drops = BatchEvents(t.batch)
            BY <1>1, <2>2, <3>1, <3>2 DEF SameLists
        <3>3. CASE Q = RequeueAsCancelled(q, c, t.batch) /\ drops = {}
            BY <1>1, <2>1, <2>2, <3>1, <3>3, RequeueAsCancelledLists, RequeueAsCancelledType
        <3>4. CASE Q = Requeue(q, c, t.batch) /\ drops = RequeueDrops(q, c, t.batch)
            BY <1>1, <2>1, <2>2, <3>4, RequeueLists, RequeueType
        <3> QED
            BY <2>3, <3>2, <3>3, <3>4
    <2>5. TaskHeld(a) = BatchEvents(t.batch)
        BY DEF TaskHeld
    <2> QED
        BY <1>2, <2>1, <2>3, <2>4, <2>5, TurnEndsEvents
<1> QED
    BY <1>3, <1>4
\* A steer goes to the read loop of slot a, and its event to the side table.
LEMMA SteerSent ==
    ASSUME EventInv, TypeInv', NEW a \in Agents, NEW c \in Channels, NEW e \in Events,
           task[a].ch = c, task[a].phase = "run", task[a].buf = NoEvent,
           e \notin Known, Known' = Known \cup {e},
           \A b \in Agents \ {a} : task'[b] = task[b],
           task'[a].ch = c, task'[a].phase = "run",
           task'[a].wire = task[a].wire, task'[a].buf = e,
           UNCHANGED <<acks, spent>>, settled \subseteq settled', q'.overdue = q.overdue,
           \A d \in Channels \ {c} : Range(q'.withheld[d]) = Range(q.withheld[d]),
           Range(q'.withheld[c]) = Range(q.withheld[c]) \cup {e}
    PROVE  AckInv'
<1>1. e # NoEvent
    BY HarnessAssumption DEF NoEvent
<1>2. Steers(a)' = Steers(a) \cup {e} /\ \A b \in Agents \ {a} : Steers(b)' = Steers(b)
    BY <1>1 DEF Steers
<1>3. /\ \A b \in Agents : Steers(b) \subseteq Known /\ e \notin Steers(b)
      /\ \A m \in acks : m.ev \in Known /\ m.ev # e
    BY DEF EventInv, SteerOnce
<1>4. SteersEnd'
    BY <1>2 DEF EventInv, SteersEnd
<1>5. SteerOnce'
    <2>1. task[a].wire # e
        BY <1>1, <1>3 DEF Steers
    <2>2. \A b \in Agents : task'[b].wire # NoEvent => task'[b].wire # task'[b].buf
        BY <2>1 DEF EventInv, SteerOnce
    <2>3. ASSUME NEW b \in Agents, NEW d \in Agents, b # d PROVE Steers(b)' \cap Steers(d)' = {}
        <3>1. Steers(b) \cap Steers(d) = {}
            BY <2>3 DEF EventInv, SteerOnce
        <3> QED
            BY <1>2, <1>3, <2>3, <3>1
    <2>4. \A b \in Agents : \A m \in acks : m.ev \notin Steers(b)'
        <3>1. \A b \in Agents : \A m \in acks : m.ev \notin Steers(b)
            BY DEF EventInv, SteerOnce
        <3> QED
            BY <1>2, <1>3, <3>1
    <2>5. \A b \in Agents : Steers(b)' \subseteq Known'
        BY <1>2, <1>3
    <2> QED
        BY <1>3, <2>2, <2>3, <2>4, <2>5 DEF EventInv, SteerOnce
<1>6. ASSUME NEW d \in Channels, NEW x
      PROVE  Pending(d, x)' <=> Pending(d, x) \/ (d = c /\ x = e)
    <2>1. ASSUME Pending(d, x)' PROVE Pending(d, x) \/ (d = c /\ x = e)
        <3>1. CASE \E b \in Agents : task'[b].ch = d /\ x \in Steers(b)'
            BY <1>2, <3>1 DEF Pending
        <3>2. CASE \E m \in acks' : m.ch = d /\ m.ev = x
            BY <3>2 DEF Pending
        <3> QED
            BY <2>1, <3>1, <3>2 DEF Pending
    <2>2. ASSUME Pending(d, x) PROVE Pending(d, x)'
        <3>1. ASSUME NEW b \in Agents, task[b].ch = d, x \in Steers(b) PROVE Pending(d, x)'
            BY <1>2, <3>1 DEF Pending
        <3>2. CASE \E m \in acks : m.ch = d /\ m.ev = x
            BY <3>2 DEF Pending
        <3> QED
            BY <2>2, <3>1, <3>2 DEF Pending
    <2>3. Pending(c, e)'
        BY <1>2 DEF Pending
    <2> QED
        BY <2>1, <2>2, <2>3
<1>7. WithheldHasAck'
    <2>1. \A d \in Channels : \A x \in Range(q.withheld[d]) : Pending(d, x)
        BY WithheldPending DEF EventInv, SlotInv
    <2>2. \A d \in Channels : \A x \in Range(q'.withheld[d]) : Pending(d, x)'
        BY <1>6, <2>1
    <2> QED
        BY <1>4, <2>2, WithheldPendingNext
<1>8. PunctualInv'
    <2>1. ASSUME spent.hangs = 0, NEW d \in Channels, NEW x \in Events, Pending(d, x)'
          PROVE  x \in Range(q'.withheld[d]) \cup settled'
        <3>1. CASE d = c /\ x = e
            BY <3>1
        <3>2. CASE Pending(d, x)
            BY <2>1, <3>2 DEF EventInv, PunctualInv
        <3> QED
            BY <1>6, <2>1, <3>1, <3>2
    <2> QED
        BY <2>1 DEF EventInv, PunctualInv
<1> QED
    BY <1>4, <1>5, <1>7, <1>8 DEF AckInv

\* The loop takes the outcome of a steer, and its event out of the side table.
LEMMA OutcomeTaken ==
    ASSUME EventInv, TypeInv', NEW m \in acks, acks' = acks \ {m}, TasksAlike,
           UNCHANGED <<arrived, spent>>, settled \subseteq settled',
           q'.overdue \subseteq q.overdue,
           \A d \in Channels \ {m.ch} : Range(q'.withheld[d]) = Range(q.withheld[d]),
           Range(q'.withheld[m.ch]) = Range(q.withheld[m.ch]) \ {m.ev}
    PROVE  AckInv'
<1>1. \A a \in Agents : Steers(a)' = Steers(a) /\ m.ev \notin Steers(a)
    BY DEF TasksAlike, Steers, EventInv, SteerOnce
<1>2. SteersEnd'
    BY <1>1 DEF EventInv, SteersEnd, TasksAlike
<1>3. Known' = Known
    BY DEF Known
<1>4. SteerOnce'
    BY <1>1, <1>3 DEF EventInv, SteerOnce, TasksAlike
<1>5. ASSUME NEW d \in Channels, NEW x
      PROVE  Pending(d, x)' <=> Pending(d, x) /\ x # m.ev
    <2>1. ASSUME Pending(d, x)' PROVE Pending(d, x) /\ x # m.ev
        <3>1. CASE \E b \in Agents : task'[b].ch = d /\ x \in Steers(b)'
            BY <1>1, <3>1 DEF Pending, TasksAlike
        <3>2. ASSUME NEW n \in acks', n.ch = d, n.ev = x PROVE Pending(d, x) /\ x # m.ev
            BY <3>2 DEF Pending, EventInv, SteerOnce
        <3> QED
            BY <2>1, <3>1, <3>2 DEF Pending
    <2>2. ASSUME Pending(d, x), x # m.ev PROVE Pending(d, x)'
        <3>1. CASE \E b \in Agents : task[b].ch = d /\ x \in Steers(b)
            BY <1>1, <3>1 DEF Pending, TasksAlike
        <3>2. ASSUME NEW n \in acks, n.ch = d, n.ev = x PROVE Pending(d, x)'
            BY <2>2, <3>2 DEF Pending
        <3> QED
            BY <2>2, <3>1, <3>2 DEF Pending
    <2> QED
        BY <2>1, <2>2
<1>6. \A d \in Channels : \A x \in Range(q.withheld[d]) : Pending(d, x)
    BY WithheldPending DEF EventInv, SlotInv
<1>7. \A d \in Channels \ {m.ch} : m.ev \notin Range(q.withheld[d])
    <2> SUFFICES ASSUME NEW d \in Channels \ {m.ch}, Pending(d, m.ev)
                 PROVE  FALSE
        BY <1>6
    <2>1. PICK n \in acks : n.ch = d /\ n.ev = m.ev
        BY <1>1 DEF Pending
    <2> QED
        BY <2>1 DEF EventInv, SteerOnce
<1>8. WithheldHasAck'
    <2>1. \A d \in Channels : \A x \in Range(q'.withheld[d]) : Pending(d, x)'
        BY <1>5, <1>6, <1>7
    <2> QED
        BY <1>2, <2>1, WithheldPendingNext
<1>9. PunctualInv'
    <2>1. ASSUME spent.hangs = 0, NEW d \in Channels, NEW x \in Events, Pending(d, x)'
          PROVE  x \in Range(q'.withheld[d]) \cup settled'
        <3>1. x # m.ev /\ x \in Range(q.withheld[d]) \cup settled
            BY <1>5, <2>1 DEF EventInv, PunctualInv
        <3> QED
            BY <3>1
    <2> QED
        BY <2>1 DEF EventInv, PunctualInv
<1> QED
    BY <1>2, <1>4, <1>8, <1>9 DEF AckInv
\* A step that rearranges one channel, and takes in what is new.
LEMMA ChannelKeeps ==
    ASSUME EventInv, NEW c \in Channels, NEW drops,
           settled' = settled \cup drops, merged' = merged,
           Known \subseteq Known', drops \subseteq Known',
           spent'.hangs = 0 => spent.hangs = 0,
           \A a \in Agents : /\ task'[a].batch = task[a].batch
                             /\ task'[a].ch = task[a].ch
                             /\ task'[a].phase = task[a].phase,
           \A d \in Channels \ {c} : SameLists(q, q', d),
           ChannelOnce(q', c),
           ChannelHeld(q', c) \subseteq ChannelHeld(q, c) \cup (Known' \ Known),
           ChannelHeld(q, c) \cup (Known' \ Known) \subseteq ChannelHeld(q', c) \cup drops,
           spent.hangs = 0 => /\ drops \ settled \subseteq ChannelHeld(q, c) \cup (Known' \ Known)
                              /\ (drops \ settled) \cap ChannelHeld(q', c) = {}
    PROVE  BatchInv' /\ Settled /\ TriggersConserved'
<1>1. \A a \in Agents : TaskHeld(a)' = TaskHeld(a) /\ BatchOnce(task'[a].batch)
    BY DEF TaskHeld, EventInv, HoldInv
<1>2. BatchInv'
    BY <1>1 DEF EventInv, BatchInv
<1>3. \A d \in Channels \ {c} : ChannelHeld(q', d) = ChannelHeld(q, d) /\ ChannelOnce(q', d)
    BY SameListsHeld DEF EventInv, HoldInv
<1>4. Tidy
    BY <1>1, <1>2, <1>3 DEF Tidy, EventInv, KnownInv
<1>5. MovesWithin(c)
    BY <1>1, <1>3, <1>4 DEF MovesWithin
<1>6. /\ \A d \in Channels : ChannelHeld(q', d) \subseteq Held'
      /\ \A a \in Agents : TaskHeld(a) \subseteq Held'
    BY <1>1, <1>2, HeldByOwnerNext
<1>7. TriggersConserved'
    <2>1. \A d \in Channels : ChannelHeld(q, d) \subseteq Held' \cup settled' \cup merged'
        BY <1>3, <1>6
    <2>2. Known' \ Known \subseteq Held' \cup settled' \cup merged'
        BY <1>6
    <2> QED
        BY <1>2, <1>6, <2>1, <2>2, Accounted
<1> QED
    BY <1>2, <1>5, <1>7, MovesWithinKeeps

\* A signal touches only the oneshot of a task.
LEMMA SignalAlike ==
    ASSUME TypeInv, NEW c \in Channels, NEW a \in TasksOf(c), NEW s \in Signals,
           task' = [task EXCEPT ![a] = Signalled(@, s)]
    PROVE  TasksAlike
<1>1. /\ a \in Agents
      /\ Signalled(task[a], s).ch = task[a].ch
      /\ Signalled(task[a], s).phase = task[a].phase
      /\ Signalled(task[a], s).batch = task[a].batch
      /\ Signalled(task[a], s).wire = task[a].wire
      /\ Signalled(task[a], s).buf = task[a].buf
    BY SignalType
<1>2. task \in [Agents -> Task]
    BY DEF TypeInv, TypeOK
<1>3. task'[a] = Signalled(task[a], s) /\ \A b \in Agents \ {a} : task'[b] = task[b]
    BY <1>1, <1>2
<1> QED
    BY <1>1, <1>3 DEF TasksAlike

\* The relay's event: it is queued, dropped on the record, or withheld while a
\* steer takes it to the turn in flight.
LEMMA ReceiveEvents ==
    ASSUME EventInv, TypeInv', NEW c \in Channels, ReceiveEvent(c)
    PROVE  EventsKept
<1> DEFINE e == arrived + 1
           pushed == Push(q, c, e)
           drops == PushDrops(q, c, e)
<1>1. /\ TypeInv /\ q \in QueueState /\ task \in [Agents -> Task] /\ arrived \in Nat
    BY DEF EventInv, SlotInv, TypeInv, TypeOK
<1>2. /\ e \in Events /\ arrived' = e /\ settled' = settled \cup drops
      /\ UNCHANGED <<acks, merged, spent>>
    BY DEF ReceiveEvent
<1>3. e \notin Known /\ Known' = Known \cup {e} /\ Known' \ Known = {e}
    BY <1>1, <1>2 DEF Known
<1> HIDE DEF e
<1>4. ChannelOnce(q, c) /\ e \notin ChannelHeld(q, c) /\ ChannelHeld(q, c) \subseteq Known
    BY <1>3 DEF EventInv, HoldInv, KnownInv
<1>5. /\ ChannelOnce(pushed, c)
      /\ ChannelHeld(pushed, c) \cup drops = ChannelHeld(q, c) \cup {e}
      /\ ChannelHeld(pushed, c) \cap drops = {}
      /\ \A d \in Channels \ {c} : SameLists(q, pushed, d)
      /\ pushed.withheld = q.withheld
      /\ Accepts(q, c) => e \in Range(pushed.queues[c])
    BY <1>1, <1>2, <1>4, PushLists
<1>6. pushed \in QueueState /\ pushed.overdue = q.overdue
    BY <1>1, <1>2, PushType
<1> HIDE DEF pushed, drops
<1>7. CASE q' = pushed /\ TasksAlike
    <2>1. BatchInv' /\ Settled /\ TriggersConserved'
        BY <1>2, <1>3, <1>4, <1>5, <1>7, ChannelKeeps DEF TasksAlike
    <2>2. AckInv'
        <3>1. spent'.hangs = 0 => /\ spent.hangs = 0
                                  /\ q'.overdue = {}
                                  /\ settled \subseteq settled'
                                  /\ \A d \in Channels :
                                        Range(q.withheld[d]) \subseteq Range(q'.withheld[d]) \cup settled'
            BY <1>2, <1>5, <1>6, <1>7 DEF EventInv, PunctualInv
        <3> QED
            BY <1>2, <1>3, <1>5, <1>7, <3>1, SteersKept DEF TasksAlike
    <2> QED
        BY <2>1, <2>2 DEF EventsKept
<1>8. ASSUME NEW a \in TasksOf(c), Accepts(q, c), task[a].phase = "run", task[a].buf = NoEvent,
             task' = [task EXCEPT ![a].buf = e],
             q' = MarkNativeSteerPending(pushed, c, e)
      PROVE  EventsKept
    <2>1. a \in Agents /\ task[a].ch = c /\ task[a] \in Task
        BY <1>1 DEF TasksOf, Busy
    <2>2. /\ \A b \in Agents \ {a} : task'[b] = task[b]
          /\ task'[a].ch = task[a].ch /\ task'[a].phase = task[a].phase
          /\ task'[a].batch = task[a].batch
          /\ task'[a].wire = task[a].wire /\ task'[a].buf = e
        BY <1>1, <1>8, <2>1 DEF Task
    <2>3. /\ ChannelOnce(q', c) /\ ChannelHeld(q', c) = ChannelHeld(pushed, c)
          /\ \A d \in Channels \ {c} : SameLists(pushed, q', d)
          /\ Range(q'.withheld[c]) = Range(pushed.withheld[c]) \cup {e}
        BY <1>2, <1>5, <1>6, <1>8, WithholdLists
    <2>4. q'.overdue = q.overdue
        BY <1>2, <1>6, <1>8, MarkNativeSteerPendingType
    <2>5. \A d \in Channels \ {c} : SameLists(q, q', d)
        BY <1>5, <2>3 DEF SameLists
    <2>6. BatchInv' /\ Settled /\ TriggersConserved'
        <3>1. \A b \in Agents : /\ task'[b].batch = task[b].batch
                                /\ task'[b].ch = task[b].ch
                                /\ task'[b].phase = task[b].phase
            BY <2>2
        <3>2. /\ ChannelHeld(q', c) \subseteq ChannelHeld(q, c) \cup (Known' \ Known)
              /\ ChannelHeld(q, c) \cup (Known' \ Known) \subseteq ChannelHeld(q', c) \cup drops
              /\ drops \ settled \subseteq ChannelHeld(q, c) \cup (Known' \ Known)
              /\ (drops \ settled) \cap ChannelHeld(q', c) = {}
              /\ Known \subseteq Known' /\ drops \subseteq Known'
            BY <1>3, <1>4, <1>5, <2>3
        <3> QED
            BY <1>2, <2>3, <2>5, <3>1, <3>2, ChannelKeeps
    <2>7. AckInv'
        <3>1. \A d \in Channels \ {c} : Range(q'.withheld[d]) = Range(q.withheld[d])
            BY <2>5, SameListsHeld
        <3>2. Range(q'.withheld[c]) = Range(q.withheld[c]) \cup {e}
            BY <1>5, <2>3
        <3>3. /\ task[a].ch = c /\ task[a].phase = "run" /\ task[a].buf = NoEvent
              /\ task'[a].ch = c /\ task'[a].phase = "run"
              /\ task'[a].wire = task[a].wire /\ task'[a].buf = e
              /\ \A b \in Agents \ {a} : task'[b] = task[b]
            BY <1>8, <2>1, <2>2
        <3>4. UNCHANGED <<acks, spent>> /\ settled \subseteq settled' /\ e \in Events
            BY <1>2
        <3>5. e \notin Known /\ Known' = Known \cup {e}
            BY <1>3
        <3> QED
            BY <2>1, <2>4, <3>1, <3>2, <3>3, <3>4, <3>5, SteerSent
    <2> QED
        BY <2>6, <2>7 DEF EventsKept
<1>9. CASE q' = pushed /\ UNCHANGED task
    <2>1. TasksAlike
        BY <1>9 DEF TasksAlike
    <2> QED
        BY <1>7, <1>9, <2>1
<1>10. ASSUME NEW s \in ModeGateSignals, NEW a \in TasksOf(c), q' = pushed,
              task' = [task EXCEPT ![a] = IF s = "none" THEN @ ELSE Signalled(@, s)]
       PROVE  EventsKept
    <2>1. CASE s = "none"
        <3>1. a \in Agents
            BY DEF TasksOf, Busy
        <3>2. task' = task
            BY <1>1, <1>10, <2>1, <3>1
        <3> QED
            BY <1>9, <1>10, <3>2
    <2>2. CASE s # "none"
        <3>1. s \in Signals
            BY <2>2, HarnessAssumption DEF ModeGateSignals, Signals
        <3>2. task' = [task EXCEPT ![a] = Signalled(@, s)]
            BY <1>10, <2>2
        <3>3. TasksAlike
            BY <1>1, <3>1, <3>2, SignalAlike
        <3> QED
            BY <1>7, <1>10, <3>3
    <2> QED
        BY <2>1, <2>2
<1>11. \/ /\ Accepts(q, c)
          /\ \E s \in ModeGateSignals : \E a \in TasksOf(c) :
                \/ /\ NativeSteerAccepted(a, s)
                   /\ task' = [task EXCEPT ![a].buf = e]
                   /\ q' = MarkNativeSteerPending(pushed, c, e)
                \/ /\ task' = [task EXCEPT ![a] = IF s = "none" THEN @ ELSE Signalled(@, s)]
                   /\ q' = pushed
       \/ q' = pushed /\ UNCHANGED task
    BY DEF ReceiveEvent, e, pushed
<1> QED
    BY <1>8, <1>9, <1>10, <1>11 DEF NativeSteerAccepted
\* The SteerAck arm.
LEMMA SteerAckEvents ==
    ASSUME EventInv, TypeInv', NEW m \in acks, HandleSteerAck(m)
    PROVE  EventsKept
<1>1. TypeInv /\ q \in QueueState /\ m.ch \in Channels /\ m.ev \in Events
    BY DEF EventInv, SlotInv, TypeInv, TypeOK, Ack
<1>2. /\ acks' = acks \ {m}
      /\ UNCHANGED <<merged, arrived, spent>>
    BY DEF HandleSteerAck
<1>3. Known' = Known /\ Known' \ Known = {}
    BY <1>2 DEF Known
<1>4. TasksAlike
    <2>1. CASE UNCHANGED task
        BY <2>1 DEF TasksAlike
    <2>2. ASSUME NEW a \in TasksOf(m.ch), task' = [task EXCEPT ![a] = Signalled(@, "Steer")]
          PROVE  TasksAlike
        BY <1>1, <2>2, SignalAlike DEF Signals
    <2> QED
        BY <2>1, <2>2 DEF HandleSteerAck
<1>5. ChannelOnce(q, m.ch) /\ ChannelHeld(q, m.ch) \subseteq Known /\ m.ev \in Known
    BY <1>1 DEF EventInv, HoldInv, KnownInv, SteerOnce
<1>6. PICK drops :
         /\ settled' = settled \cup drops
         /\ drops \subseteq Known
         /\ ChannelOnce(q', m.ch)
         /\ ChannelHeld(q', m.ch) \subseteq ChannelHeld(q, m.ch)
         /\ ChannelHeld(q, m.ch) \subseteq ChannelHeld(q', m.ch) \cup drops
         /\ spent.hangs = 0 => /\ drops \ settled \subseteq ChannelHeld(q, m.ch)
                               /\ (drops \ settled) \cap ChannelHeld(q', m.ch) = {}
         /\ \A d \in Channels \ {m.ch} : SameLists(q, q', d)
         /\ Range(q'.withheld[m.ch]) = Range(q.withheld[m.ch]) \ {m.ev}
         /\ q'.overdue \subseteq q.overdue
    <2>1. CASE m.kind = "success"
        <3> DEFINE Q == ExtendInFlightDeadline(q, m.ch)
        <3>1. q' = RemoveEvent(Q, m.ch, m.ev) /\ settled' = settled \cup {m.ev}
            BY <2>1 DEF HandleSteerAck
        <3>2. Q \in QueueState /\ Q.overdue \subseteq q.overdue
            BY <1>1, ClockType
        <3>3. \A d \in Channels : SameLists(q, Q, d)
            BY <1>1, ClockLists
        <3> HIDE DEF Q
        <3>4. /\ ChannelOnce(Q, m.ch) /\ ChannelHeld(Q, m.ch) = ChannelHeld(q, m.ch)
              /\ Range(Q.withheld[m.ch]) = Range(q.withheld[m.ch])
            BY <1>1, <1>5, <3>3, SameListsHeld
        <3>5. /\ ChannelOnce(q', m.ch)
              /\ ChannelHeld(q', m.ch) \subseteq ChannelHeld(Q, m.ch)
              /\ ChannelHeld(Q, m.ch) \subseteq ChannelHeld(q', m.ch) \cup {m.ev}
              /\ m.ev \in Range(Q.withheld[m.ch]) => m.ev \notin ChannelHeld(q', m.ch)
              /\ \A d \in Channels \ {m.ch} : SameLists(Q, q', d)
              /\ Range(q'.withheld[m.ch]) = Range(Q.withheld[m.ch]) \ {m.ev}
            BY <1>1, <3>1, <3>2, <3>4, RemoveLists
        <3>6. q'.overdue \subseteq q.overdue
            BY <1>1, <3>1, <3>2, RemoveEventType
        <3>7. \A d \in Channels \ {m.ch} : SameLists(q, q', d)
            BY <3>3, <3>5 DEF SameLists
        <3>8. spent.hangs = 0 => m.ev \in Range(q.withheld[m.ch]) \cup settled
            <4>1. Pending(m.ch, m.ev)
                BY DEF Pending
            <4> QED
                BY <1>1, <4>1 DEF EventInv, PunctualInv
        <3>9. Range(q.withheld[m.ch]) \subseteq ChannelHeld(q, m.ch)
            BY DEF ChannelHeld
        <3> DEFINE drops == {m.ev}
        <3>10. spent.hangs = 0 => /\ drops \ settled \subseteq ChannelHeld(q, m.ch)
                                  /\ (drops \ settled) \cap ChannelHeld(q', m.ch) = {}
            BY <3>4, <3>5, <3>8, <3>9
        <3>11. settled' = settled \cup drops /\ drops \subseteq Known
            BY <1>5, <3>1
        <3>12. ChannelHeld(q, m.ch) \subseteq ChannelHeld(q', m.ch) \cup drops
            BY <3>4, <3>5
        <3> HIDE DEF drops
        <3> QED
            BY <3>4, <3>5, <3>6, <3>7, <3>10, <3>11, <3>12
    <2>2. CASE m.kind # "success"
        <3>1. /\ q' = ReleaseNativeSteer(q, m.ch, m.ev)
              /\ settled' = settled \cup ReleaseDrops(q, m.ch, m.ev)
            BY <2>2 DEF HandleSteerAck
        <3> DEFINE drops == ReleaseDrops(q, m.ch, m.ev)
        <3>2. /\ ChannelOnce(q', m.ch)
              /\ ChannelHeld(q', m.ch) \cup drops = ChannelHeld(q, m.ch)
              /\ ChannelHeld(q', m.ch) \cap drops = {}
              /\ \A d \in Channels \ {m.ch} : SameLists(q, q', d)
              /\ Range(q'.withheld[m.ch]) = Range(q.withheld[m.ch]) \ {m.ev}
            BY <1>1, <1>5, <3>1, ReleaseLists
        <3>3. q'.overdue \subseteq q.overdue
            BY <1>1, <3>1, ReleaseNativeSteerType
        <3> HIDE DEF drops
        <3> QED
            BY <1>5, <3>1, <3>2, <3>3 DEF drops
    <2> QED
        BY <2>1, <2>2
<1>7. BatchInv' /\ Settled /\ TriggersConserved'
    <2>1. \A a \in Agents : /\ task'[a].batch = task[a].batch
                            /\ task'[a].ch = task[a].ch
                            /\ task'[a].phase = task[a].phase
        BY <1>4 DEF TasksAlike
    <2> QED
        BY <1>1, <1>2, <1>3, <1>6, <2>1, ChannelKeeps
<1>8. AckInv'
    <2>1. \A d \in Channels \ {m.ch} : Range(q'.withheld[d]) = Range(q.withheld[d])
        BY <1>6, SameListsHeld
    <2>2. settled \subseteq settled'
        BY <1>6
    <2> QED
        BY <1>2, <1>4, <1>6, <2>1, <2>2, OutcomeTaken
<1> QED
    BY <1>7, <1>8 DEF EventsKept

\* Owner controls and membership changes.
LEMMA ControlEvents ==
    ASSUME EventInv, TypeInv', NEW c \in Channels,
           (\E s \in Controls : OwnerControl(c, s)) \/ MemberRemoved(c) \/ MemberAdded(c)
    PROVE  EventsKept
<1>1. /\ TypeInv /\ q \in QueueState
      /\ spent \in [faults: Nat, controls: Nat, changes: Nat, hangs: Nat]
    BY DEF EventInv, SlotInv, TypeInv, TypeOK
<1>2. spent'.hangs = spent.hangs /\ UNCHANGED <<acks, merged, arrived>>
    BY <1>1 DEF OwnerControl, MemberRemoved, MemberAdded, history
<1>3. Known' = Known /\ Known' \ Known = {}
    BY <1>2 DEF Known
<1>4. CASE (\E s \in Controls : OwnerControl(c, s)) \/ MemberAdded(c)
    <2>1. UNCHANGED <<q, settled>>
        BY <1>4 DEF OwnerControl, MemberAdded, history
    <2>2. TasksAlike
        <3>1. CASE UNCHANGED task
            BY <3>1 DEF TasksAlike
        <3>2. ASSUME NEW s \in Controls, NEW a \in TasksOf(c),
                     task' = [task EXCEPT ![a] = Signalled(@, s)]
              PROVE  TasksAlike
            <4>1. s \in Signals
                BY HarnessAssumption DEF Signals
            <4> QED
                BY <1>1, <3>2, <4>1, SignalAlike
        <3> QED
            BY <1>4, <3>1, <3>2 DEF OwnerControl, MemberAdded, poolVars
    <2>3. \A d \in Channels : SameLists(q, q', d)
        BY <2>1 DEF SameLists
    <2> QED
        BY <1>2, <2>1, <2>2, <2>3, StillKeeps
<1>5. CASE MemberRemoved(c)
    <2> DEFINE drops == ChannelHeld(q, c)
    <2>1. q' = DrainChannel(q, c) /\ settled' = settled \cup DrainDrops(q, c) /\ UNCHANGED task
        BY <1>5 DEF MemberRemoved
    <2>2. /\ ChannelOnce(q', c) /\ ChannelHeld(q', c) = {}
          /\ DrainDrops(q, c) = ChannelHeld(q, c)
          /\ \A d \in Channels \ {c} : SameLists(q, q', d)
        BY <1>1, <2>1, DrainLists
    <2>3. q'.overdue = q.overdue
        BY <1>1, <2>1, DrainChannelType
    <2>4. drops \subseteq Known
        BY DEF EventInv, KnownInv
    <2>5. BatchInv' /\ Settled /\ TriggersConserved'
        BY <1>2, <1>3, <2>1, <2>2, <2>4, ChannelKeeps
    <2>6. AckInv'
        <3>1. Range(q'.withheld[c]) = {} /\ Range(q.withheld[c]) \subseteq settled'
            BY <2>1, <2>2 DEF ChannelHeld
        <3>2. \A d \in Channels \ {c} : Range(q'.withheld[d]) = Range(q.withheld[d])
            BY <2>2, SameListsHeld
        <3>3. spent'.hangs = 0 => /\ spent.hangs = 0
                                  /\ q'.overdue = {}
                                  /\ settled \subseteq settled'
                                  /\ \A d \in Channels :
                                        Range(q.withheld[d]) \subseteq Range(q'.withheld[d]) \cup settled'
            BY <1>2, <2>1, <2>3, <3>1, <3>2 DEF EventInv, PunctualInv
        <3>4. \A d \in Channels : Range(q'.withheld[d]) \subseteq Range(q.withheld[d])
            BY <3>1, <3>2
        <3> QED
            BY <1>2, <1>3, <2>1, <3>3, <3>4, SteersKept
    <2> QED
        BY <2>5, <2>6 DEF EventsKept
<1> QED
    BY <1>4, <1>5
\* The read loop of slot a stops: every steer it has not answered gets its
\* outcome.
LEMMA ReadLoopStops ==
    ASSUME EventInv, TypeInv', NEW a \in Agents, UNCHANGED <<q, settled, merged, arrived>>,
           \A b \in Agents \ {a} : task'[b] = task[b],
           task'[a].ch = task[a].ch,
           task'[a].batch.events = task[a].batch.events,
           task'[a].batch.cancelled = task[a].batch.cancelled,
           task'[a].wire = NoEvent, task'[a].buf = NoEvent,
           task[a].phase # "none", task'[a].phase # "none",
           acks' = acks \cup NeutralAcks(task[a]), spent'.hangs = spent.hangs
    PROVE  EventsKept
<1>1. Quiet
    <2>1. \A b \in Agents : /\ task'[b].batch.events = task[b].batch.events
                            /\ task'[b].batch.cancelled = task[b].batch.cancelled
                            /\ task'[b].ch = task[b].ch
                            /\ task'[b].phase = "none" <=> task[b].phase = "none"
        OBVIOUS
    <2> QED
        BY <2>1 DEF Quiet, SameLists
<1>2. Steers(a)' = {}
    BY DEF Steers
<1>3. NeutralAcks(task[a]) = {[ch |-> task[a].ch, ev |-> e, kind |-> "neutral"] : e \in Steers(a)}
    BY DEF NeutralAcks, Steers
<1>4. \A m \in acks' \ acks : m.ch = task[a].ch /\ m.ev \in Steers(a) \ Steers(a)'
    BY <1>2, <1>3
<1>5. \A m, n \in acks' \ acks : m.ev = n.ev => m = n
    BY <1>3
<1>6. \A e \in Steers(a) \ Steers(a)' : \E m \in acks' : m.ch = task[a].ch /\ m.ev = e
    <2> SUFFICES ASSUME NEW e \in Steers(a)
                 PROVE  \E m \in acks' : m.ch = task[a].ch /\ m.ev = e
        OBVIOUS
    <2> DEFINE n == [ch |-> task[a].ch, ev |-> e, kind |-> "neutral"]
    <2>1. n \in acks' /\ n.ch = task[a].ch /\ n.ev = e
        BY <1>3
    <2> HIDE DEF n
    <2> QED
        BY <2>1
<1>7. AckInv'
    BY <1>2, <1>4, <1>5, <1>6, SteersAnswered
<1> QED
    BY <1>1, <1>7, QuietKeeps DEF EventsKept

\* The read loop writes a steer, or takes its answer.
LEMMA SteerEvents ==
    ASSUME EventInv, TypeInv', NEW a \in Agents,
           WriteSteer(a) \/ \E kind \in {"success", "fallback", "reject"} : AnswerSteer(a, kind)
    PROVE  EventsKept
<1>1. task \in [Agents -> Task] /\ task[a] \in Task
    BY DEF EventInv, SlotInv, TypeInv, TypeOK
<1>2. UNCHANGED <<q, settled, merged, arrived, spent>>
    BY DEF WriteSteer, AnswerSteer, loopVars, history
<1>3. /\ \A b \in Agents \ {a} : task'[b] = task[b]
      /\ task'[a].ch = task[a].ch /\ task'[a].batch = task[a].batch
      /\ task[a].phase = "run" /\ task'[a].phase = "run"
    BY <1>1 DEF WriteSteer, AnswerSteer, Task
<1>4. Quiet
    <2>1. \A b \in Agents : /\ task'[b].batch = task[b].batch
                            /\ task'[b].ch = task[b].ch
                            /\ task'[b].phase = task[b].phase
        BY <1>3
    <2> QED
        BY <1>2, <2>1 DEF Quiet, SameLists
<1>5. task[a].wire # NoEvent => task[a].wire # task[a].buf
    BY DEF EventInv, SteerOnce
<1>6. AckInv'
    <2>1. ASSUME task[a].wire = NoEvent, task'[a].wire = task[a].buf, task'[a].buf = NoEvent,
                 UNCHANGED acks
          PROVE  AckInv'
        <3>1. Steers(a)' = Steers(a) /\ Steers(a) \ Steers(a)' = {}
            BY <2>1 DEF Steers
        <3>2. task'[a].wire # NoEvent => task'[a].wire # task'[a].buf
            BY <2>1
        <3>3. acks' \ acks = {}
            BY <2>1
        <3> QED
            BY <1>2, <1>3, <2>1, <3>1, <3>2, <3>3, SteersAnswered
    <2>2. ASSUME NEW m, m.ch = task[a].ch, m.ev \in Steers(a), acks' = acks \cup {m},
                 Steers(a)' = Steers(a) \ {m.ev},
                 task'[a].wire # NoEvent => task'[a].wire # task'[a].buf
          PROVE  AckInv'
        <3>1. Steers(a) \ Steers(a)' = {m.ev} /\ Steers(a)' \subseteq Steers(a)
            BY <2>2
        <3>2. \A n \in acks' \ acks : n = m
            BY <2>2
        <3>3. \A n \in acks' \ acks : n.ch = task[a].ch /\ n.ev \in Steers(a) \ Steers(a)'
            BY <2>2, <3>1, <3>2
        <3>4. \A e \in Steers(a) \ Steers(a)' : \E n \in acks' : n.ch = task[a].ch /\ n.ev = e
            BY <2>2, <3>1
        <3> QED
            BY <1>2, <1>3, <2>2, <3>1, <3>2, <3>3, <3>4, SteersAnswered
    <2>3. CASE WriteSteer(a)
        <3> DEFINE m == [ch |-> task[a].ch, ev |-> task[a].buf, kind |-> "fallback"]
        <3>1. task[a].buf # NoEvent /\ task[a].wire = NoEvent
            BY <2>3 DEF WriteSteer
        <3>2. \/ /\ task'[a].wire = task[a].buf /\ task'[a].buf = NoEvent
                 /\ UNCHANGED acks
              \/ /\ task'[a].wire = NoEvent /\ task'[a].buf = NoEvent
                 /\ acks' = acks \cup {m}
            BY <1>1, <2>3 DEF WriteSteer, Task
        <3>3. m.ch = task[a].ch /\ m.ev = task[a].buf
            OBVIOUS
        <3> HIDE DEF m
        <3>4. Steers(a) = {task[a].buf}
            BY <3>1 DEF Steers
        <3>5. task'[a].wire = NoEvent /\ task'[a].buf = NoEvent => Steers(a)' = {}
            BY DEF Steers
        <3> QED
            BY <2>1, <2>2, <3>1, <3>2, <3>3, <3>4, <3>5
    <2>4. ASSUME NEW kind, AnswerSteer(a, kind) PROVE AckInv'
        <3> DEFINE m == [ch |-> task[a].ch, ev |-> task[a].wire, kind |-> kind]
        <3>1. /\ task[a].wire # NoEvent
              /\ task'[a].wire = NoEvent /\ task'[a].buf = task[a].buf
              /\ acks' = acks \cup {m}
            BY <1>1, <2>4 DEF AnswerSteer, Task
        <3>2. m.ch = task[a].ch /\ m.ev = task[a].wire
            OBVIOUS
        <3> HIDE DEF m
        <3>3. m.ev \in Steers(a) /\ Steers(a)' = Steers(a) \ {m.ev}
            BY <1>5, <3>1, <3>2 DEF Steers
        <3> QED
            BY <2>2, <3>1, <3>2, <3>3
    <2> QED
        BY <2>3, <2>4
<1> QED
    BY <1>4, <1>6, QuietKeeps DEF EventsKept

\* Prompt tasks, respawn tasks and clocks.
LEMMA EnvironmentEvents ==
    ASSUME EventInv, TypeInv', TaskStep \/ ClockStep
    PROVE  EventsKept
<1>1. /\ q \in QueueState /\ task \in [Agents -> Task]
      /\ spent \in [faults: Nat, controls: Nat, changes: Nat, hangs: Nat]
    BY DEF EventInv, SlotInv, TypeInv, TypeOK
<1>2. ASSUME NEW a \in Agents,
             \/ FinishTurn(a) \/ TakeControl(a) \/ FinishCancelled(a) \/ PanicTask(a)
             \/ \E o \in Failures : FailTurn(a, o)
             \/ \E o \in {"drainTimeout", "exited", "appError", "authError"} :
                   FailCancelled(a, o)
      PROVE  EventsKept
    <2>1. task[a] \in Task /\ task[a].phase \in {"run", "cancelling"}
        BY <1>1, <1>2 DEF FinishTurn, TakeControl, FinishCancelled, PanicTask, FailTurn,
                          FailCancelled
    <2>2. /\ UNCHANGED <<q, settled, merged, arrived>>
          /\ acks' = acks \cup NeutralAcks(task[a])
        BY <1>2 DEF FinishTurn, FinishCancelled, FailTurn, FailCancelled, SendPromptResult,
                    TakeControl, PanicTask, loopVars, history
    <2>3. spent'.hangs = spent.hangs
        BY <1>1, <1>2 DEF FinishTurn, FinishCancelled, FailTurn, FailCancelled,
                          TakeControl, PanicTask
    <2>4. /\ \A b \in Agents \ {a} : task'[b] = task[b]
          /\ task'[a].ch = task[a].ch
          /\ task'[a].batch.events = task[a].batch.events
          /\ task'[a].batch.cancelled = task[a].batch.cancelled
          /\ task'[a].wire = NoEvent /\ task'[a].buf = NoEvent
          /\ task'[a].phase # "none"
        <3>1. CASE \/ FinishTurn(a) \/ FinishCancelled(a)
                   \/ \E o \in Failures : FailTurn(a, o)
                   \/ \E o \in {"drainTimeout", "exited", "appError", "authError"} :
                         FailCancelled(a, o)
            <4>1. PICK o, kept, reason : SendPromptResult(a, o, kept, reason)
                BY <3>1 DEF FinishTurn, FinishCancelled, FailTurn, FailCancelled
            <4> DEFINE b == [task[a].batch EXCEPT !.reason = reason]
                       t == [task[a] EXCEPT !.phase = "done", !.out = o, !.kept = kept,
                                            !.batch = b, !.wire = NoEvent, !.buf = NoEvent]
            <4>2. task' = [task EXCEPT ![a] = t]
                <5>1. task' = [task EXCEPT ![a].phase = "done", ![a].out = o, ![a].kept = kept,
                                           ![a].batch.reason = reason,
                                           ![a].wire = NoEvent, ![a].buf = NoEvent]
                    BY <4>1 DEF SendPromptResult
                <5> QED
                    BY <1>1, <2>1, <5>1 DEF Task, FlushBatch
            <4>3. b.events = task[a].batch.events /\ b.cancelled = task[a].batch.cancelled
                BY <2>1 DEF Task, FlushBatch
            <4> HIDE DEF b
            <4>4. /\ t.ch = task[a].ch /\ t.phase = "done" /\ t.batch = b
                  /\ t.wire = NoEvent /\ t.buf = NoEvent
                BY <2>1 DEF Task
            <4> HIDE DEF t
            <4>5. task'[a] = t /\ \A d \in Agents \ {a} : task'[d] = task[d]
                BY <1>1, <4>2
            <4> QED
                BY <4>3, <4>4, <4>5
        <3>2. CASE TakeControl(a) \/ PanicTask(a)
            BY <1>1, <2>1, <3>2 DEF TakeControl, PanicTask, Task
        <3> QED
            BY <1>2, <3>1, <3>2
    <2> QED
        BY <2>1, <2>2, <2>3, <2>4, ReadLoopStops
<1>3. ASSUME NEW a \in Agents, RespawnOk(a) \/ RespawnFailed(a) \/ CircuitCools(a)
      PROVE  EventsKept
    <2>1. UNCHANGED <<q, task, acks, settled, merged, arrived>> /\ spent'.hangs = spent.hangs
        BY <1>1, <1>3 DEF RespawnOk, RespawnFailed, CircuitCools, loopVars, history
    <2>2. TasksAlike /\ \A c \in Channels : SameLists(q, q', c)
        BY <2>1 DEF TasksAlike, SameLists
    <2> QED
        BY <2>1, <2>2, StillKeeps
<1>4. ASSUME NEW c \in Channels, ThrottleElapses(c) \/ DeadlinePasses(c)
      PROVE  EventsKept
    <2>1. UNCHANGED <<task, acks, settled, merged, arrived>>
        BY <1>4 DEF ThrottleElapses, DeadlinePasses, poolVars, envVars, history
    <2>2. \A d \in Channels : SameLists(q, q', d)
        BY <1>1, <1>4, ClockLists DEF ThrottleElapses, DeadlinePasses
    <2>3. spent'.hangs = 0 => spent.hangs = 0 /\ q'.overdue \subseteq q.overdue
        <3>1. CASE ThrottleElapses(c)
            BY <1>1, <3>1, ClockType DEF ThrottleElapses, envVars
        <3>2. CASE DeadlinePasses(c)
            BY <1>1, <3>2 DEF DeadlinePasses
        <3> QED
            BY <1>4, <3>1, <3>2
    <2>4. TasksAlike
        BY <2>1 DEF TasksAlike
    <2> QED
        BY <2>1, <2>2, <2>3, <2>4, StillKeeps
<1> QED
    BY <1>2, <1>3, <1>4, SteerEvents DEF TaskStep, ClockStep
-----------------------------------------------------------------------------
(***************************************************************************)
(* The theorems.                                                           *)
(***************************************************************************)
\* Nothing has arrived: the queue and the slots are empty.
LEMMA EventInit == Init => EventInv
<1> SUFFICES ASSUME Init PROVE EventInv
    OBVIOUS
<1>1. SlotInv
    BY SafeInit
<1>2. \A c \in Channels : /\ q.queues[c] = << >> /\ q.cancelled[c] = << >>
                          /\ q.withheld[c] = << >>
    BY DEF Init, NewQueue
<1>3. q.overdue = {} /\ acks = {} /\ settled = {} /\ arrived = 0
    BY DEF Init, NewQueue
<1>4. \A a \in Agents : task[a] = NoTask
    BY DEF Init
<1>5. /\ NoTask.phase = "none" /\ NoTask.wire = NoEvent /\ NoTask.buf = NoEvent
      /\ NoTask.batch.events = << >> /\ NoTask.batch.cancelled = << >>
    BY DEF NoTask, EmptyBatch
<1>6. \A c \in Channels : ChannelOnce(q, c) /\ ChannelHeld(q, c) = {} /\ Range(q.withheld[c]) = {}
    BY <1>2, EmptyOnce DEF ChannelOnce, ChannelHeld
<1>7. \A a \in Agents : /\ BatchOnce(task[a].batch) /\ TaskHeld(a) = {} /\ Steers(a) = {}
                        /\ Range(task[a].batch.cancelled) = {}
    BY <1>4, <1>5, EmptyOnce DEF BatchOnce, TaskHeld, BatchEvents, Steers
<1>8. HoldInv /\ KnownInv /\ BatchInv
    BY <1>3, <1>6, <1>7 DEF HoldInv, KnownInv, BatchInv
<1>9. TriggersConserved /\ NoResurrection
    BY <1>3 DEF TriggersConserved, NoResurrection
<1>10. SteersEnd /\ SteerOnce
    BY <1>3, <1>4, <1>5, <1>7 DEF SteersEnd, SteerOnce
<1>11. WithheldHasAck
    BY <1>6 DEF WithheldHasAck
<1>12. PunctualInv
    BY <1>3, <1>7 DEF PunctualInv, Pending
<1> QED
    BY <1>1, <1>8, <1>9, <1>10, <1>11, <1>12 DEF EventInv

\* Every step keeps the invariant.
LEMMA EventNext == EventInv /\ [Next \/ Exited]_vars => EventInv'
<1> SUFFICES ASSUME EventInv, [Next \/ Exited]_vars PROVE EventInv'
    OBVIOUS
<1>1. SlotInv'
    BY SafeNext DEF EventInv
<1>2. TypeInv'
    BY <1>1 DEF SlotInv
<1>3. CASE UNCHANGED vars \/ Exited
    <2>1. UNCHANGED <<q, task, acks, settled, merged, arrived, spent>>
        BY <1>3 DEF Exited, vars, poolVars, envVars, history
    <2>2. TasksAlike /\ \A c \in Channels : SameLists(q, q', c)
        BY <2>1 DEF TasksAlike, SameLists
    <2>3. EventsKept
        BY <1>2, <2>1, <2>2, StillKeeps
    <2> QED
        BY <1>1, <2>3 DEF EventsKept, Settled, AckInv, EventInv
<1>4. CASE LoopStep
    <2>1. EventsKept
        BY <1>2, <1>4, LoopEvents, DispatchEvents, ResultEvents, SteerAckEvents DEF LoopStep
    <2> QED
        BY <1>1, <2>1 DEF EventsKept, Settled, AckInv, EventInv
<1>5. CASE RelayStep
    <2>1. EventsKept
        BY <1>2, <1>5, ReceiveEvents, ControlEvents DEF RelayStep
    <2> QED
        BY <1>1, <2>1 DEF EventsKept, Settled, AckInv, EventInv
<1>6. CASE TaskStep \/ ClockStep
    <2>1. EventsKept
        BY <1>2, <1>6, EnvironmentEvents
    <2> QED
        BY <1>1, <2>1 DEF EventsKept, Settled, AckInv, EventInv
<1> QED
    BY <1>3, <1>4, <1>5, <1>6 DEF Next

\* The invariant of the harness's events holds in every reachable state.
THEOREM EventInvariant == Spec => []EventInv
<1>1. Init => EventInv
    BY EventInit
<1>2. EventInv /\ [Next \/ Exited]_vars => EventInv'
    BY EventNext
<1> QED
    BY <1>1, <1>2, PTL DEF Spec

\* Every event received is held, was finished on the record, or was merged
\* into a turn that re-prompted it: no requeue, cancel, panic, steer, expiry or
\* membership change loses one otherwise.
THEOREM TriggersKept == Spec => []TriggersConserved
<1>1. EventInv => TriggersConserved
    BY DEF EventInv
<1> QED
    BY <1>1, EventInvariant, PTL

\* While every turn keeps its deadline, an event the harness is done with is
\* never queued or prompted again, whatever order results and outcomes come in.
THEOREM FinishedStaysFinished == Spec => []NoResurrection
<1>1. EventInv => NoResurrection
    BY DEF EventInv
<1> QED
    BY <1>1, EventInvariant, PTL

\* A withheld event's outcome is always on its way: the side table orphans none.
THEOREM WithheldAnswered == Spec => []WithheldHasAck
<1>1. EventInv => WithheldHasAck
    BY DEF EventInv
<1> QED
    BY <1>1, EventInvariant, PTL

\* The places of an event in one list s of owner o.
ListPlaces(o, kind, s, e) == {<<o, kind, i>> : i \in {j \in DOMAIN s : s[j] = e}}

LEMMA ListPlacesOnce ==
    ASSUME NEW o, NEW kind, NEW s, NEW e, IsInjective(s)
    PROVE  /\ \A x, y \in ListPlaces(o, kind, s, e) : x = y
           /\ ListPlaces(o, kind, s, e) # {} => e \in Range(s)
BY DEF ListPlaces, IsInjective, Range

\* The places of event e in channel c, and in the task of slot a.
ChannelPlaces(c, e) ==
    ListPlaces(c, "queued", q.queues[c], e) \cup ListPlaces(c, "cancelled", q.cancelled[c], e)
        \cup ListPlaces(c, "withheld", q.withheld[c], e)

TaskPlaces(a, e) ==
    ListPlaces(a, "event", task[a].batch.events, e)
        \cup ListPlaces(a, "merged", task[a].batch.cancelled, e)

\* No event is in two places at once.
LEMMA HeldOnce == EventInv => NoDoubleHold
<1> SUFFICES ASSUME EventInv, NEW e \in 1..arrived PROVE Cardinality(Places(e)) <= 1
    BY DEF NoDoubleHold
<1>1. Places(e) = (UNION {ChannelPlaces(c, e) : c \in Channels})
                      \cup (UNION {TaskPlaces(a, e) : a \in Busy})
    BY DEF Places, ListPlaces, ChannelPlaces, TaskPlaces
<1>2. ASSUME NEW c \in Channels
      PROVE  /\ \A x, y \in ChannelPlaces(c, e) : x = y
             /\ ChannelPlaces(c, e) # {} => e \in ChannelHeld(q, c)
    <2> DEFINE A == ListPlaces(c, "queued", q.queues[c], e)
               B == ListPlaces(c, "cancelled", q.cancelled[c], e)
               D == ListPlaces(c, "withheld", q.withheld[c], e)
    <2>1. ChannelOnce(q, c)
        BY DEF EventInv, HoldInv
    <2>2. (\A x, y \in A : x = y) /\ (A # {} => e \in Range(q.queues[c]))
        BY <2>1, ListPlacesOnce DEF ChannelOnce
    <2>3. (\A x, y \in B : x = y) /\ (B # {} => e \in Range(q.cancelled[c]))
        BY <2>1, ListPlacesOnce DEF ChannelOnce
    <2>4. (\A x, y \in D : x = y) /\ (D # {} => e \in Range(q.withheld[c]))
        BY <2>1, ListPlacesOnce DEF ChannelOnce
    <2>5. ChannelPlaces(c, e) = A \cup B \cup D
        BY DEF ChannelPlaces
    <2> HIDE DEF A, B, D
    <2> QED
        BY <2>1, <2>2, <2>3, <2>4, <2>5 DEF ChannelOnce, ChannelHeld
<1>3. ASSUME NEW a \in Agents
      PROVE  /\ \A x, y \in TaskPlaces(a, e) : x = y
             /\ TaskPlaces(a, e) # {} => e \in TaskHeld(a)
    <2> DEFINE A == ListPlaces(a, "event", task[a].batch.events, e)
               B == ListPlaces(a, "merged", task[a].batch.cancelled, e)
    <2>1. BatchOnce(task[a].batch)
        BY DEF EventInv, HoldInv
    <2>2. (\A x, y \in A : x = y) /\ (A # {} => e \in Range(task[a].batch.events))
        BY <2>1, ListPlacesOnce DEF BatchOnce
    <2>3. (\A x, y \in B : x = y) /\ (B # {} => e \in Range(task[a].batch.cancelled))
        BY <2>1, ListPlacesOnce DEF BatchOnce
    <2>4. TaskPlaces(a, e) = A \cup B
        BY DEF TaskPlaces
    <2> HIDE DEF A, B
    <2> QED
        BY <2>1, <2>2, <2>3, <2>4 DEF BatchOnce, TaskHeld, BatchEvents
<1>4. Busy \subseteq Agents
    BY DEF Busy
<1>5. \A x \in Places(e) : \/ \E c \in Channels : x \in ChannelPlaces(c, e)
                           \/ \E a \in Busy : x \in TaskPlaces(a, e)
    BY <1>1
<1>6. ASSUME NEW x \in Places(e), NEW y \in Places(e) PROVE x = y
    <2>1. /\ \A c, d \in Channels : c # d => ChannelHeld(q, c) \cap ChannelHeld(q, d) = {}
          /\ \A a, b \in Agents : a # b => TaskHeld(a) \cap TaskHeld(b) = {}
          /\ \A c \in Channels, a \in Agents : ChannelHeld(q, c) \cap TaskHeld(a) = {}
        BY DEF EventInv, HoldInv
    <2>2. CASE \E c \in Channels : x \in ChannelPlaces(c, e)
        <3>1. PICK c \in Channels : x \in ChannelPlaces(c, e)
            BY <2>2
        <3>2. e \in ChannelHeld(q, c)
            BY <1>2, <3>1
        <3>3. ASSUME NEW d \in Channels, y \in ChannelPlaces(d, e) PROVE x = y
            <4>1. d = c
                BY <1>2, <2>1, <3>2, <3>3
            <4> QED
                BY <1>2, <3>1, <3>3, <4>1
        <3>4. ASSUME NEW a \in Busy, y \in TaskPlaces(a, e) PROVE FALSE
            BY <1>3, <1>4, <2>1, <3>2, <3>4
        <3> QED
            BY <1>5, <3>3, <3>4
    <2>3. CASE \E a \in Busy : x \in TaskPlaces(a, e)
        <3>1. PICK a \in Busy : x \in TaskPlaces(a, e)
            BY <2>3
        <3>2. a \in Agents /\ e \in TaskHeld(a)
            BY <1>3, <1>4, <3>1
        <3>3. ASSUME NEW b \in Busy, y \in TaskPlaces(b, e) PROVE x = y
            <4>1. b = a
                BY <1>3, <1>4, <2>1, <3>2, <3>3
            <4> QED
                BY <1>3, <1>4, <3>1, <3>3, <4>1
        <3>4. ASSUME NEW c \in Channels, y \in ChannelPlaces(c, e) PROVE FALSE
            BY <1>2, <2>1, <3>2, <3>4
        <3> QED
            BY <1>5, <3>3, <3>4
    <2> QED
        BY <1>5, <2>2, <2>3
<1>7. CASE Places(e) = {}
    BY <1>7, FS_EmptySet
<1>8. CASE Places(e) # {}
    <2>1. PICK x : x \in Places(e)
        BY <1>8
    <2>2. Places(e) = {x}
        BY <1>6, <2>1
    <2>3. Cardinality({x}) = 1
        BY FS_Singleton
    <2> QED
        BY <2>2, <2>3
<1> QED
    BY <1>7, <1>8

\* No event is in two places at once, through every requeue, cancel, merge,
\* withhold, release and expiry: no agent is given it twice in one go, and no
\* two agents work on it.
THEOREM HeldInOnePlace == Spec => []NoDoubleHold
BY HeldOnce, EventInvariant, PTL
-----------------------------------------------------------------------------
(***************************************************************************)
(* Queue handling: no turn is cancelled to be merged into a later one, so  *)
(* nothing at all is lost.                                                 *)
(***************************************************************************)
\* Only !cancel and !rotate interrupt a turn; both discard its batch.
PlainHandling == Handling = "Queue" /\ "SwitchModel" \notin Controls

NoneCancelled(Q) == \A c \in Channels : Q.cancelled[c] = << >>

\* Task t carries no steer, and the batch of a cancelled turn is not kept.
PlainTask(t) ==
    /\ t.wire = NoEvent /\ t.buf = NoEvent
    /\ t.ctl \in {"open", "Cancel", "Rotate"}
    /\ t.phase = "cancelling" => t.ctl # "open"
    /\ t.out \in {"cancelled", "drainTimeout"} => ~t.kept

PlainInv ==
    /\ NoneCancelled(q)
    /\ merged = {} /\ acks = {}
    /\ \A a \in Agents : PlainTask(task[a])

\* Steps of the loop.
LEMMA PlainLoop ==
    ASSUME PlainHandling, TypeInv, TypeInv', PlainInv, LoopStep
    PROVE  PlainInv'
<1>1. /\ q \in QueueState /\ task \in [Agents -> Task] /\ idle \subseteq Agents
      /\ NoneCancelled(q) /\ acks = {} /\ merged = {}
      /\ \A a \in Agents : PlainTask(task[a])
    BY DEF TypeInv, TypeOK, PlainInv
<1>2. PlainTask(NoTask)
    BY DEF PlainTask, NoTask
<1>3. ExpireInFlight(q) \in QueueState /\ NoneCancelled(ExpireInFlight(q))
    BY <1>1, ExpireInFlightType DEF NoneCancelled, ExpireInFlight, QueueState
<1>4. CASE TopSkip \/ CollectRespawns \/ ReapDone \/ TimerTick \/ IdlePoolSleep
               \/ WakeSucceeded \/ WakeFailed \/ WakeRetryDue
    <2>1. UNCHANGED <<q, task, acks, merged>>
        BY <1>4 DEF TopSkip, CollectRespawns, ReapDone, TimerTick, IdlePoolSleep,
                    WakeSucceeded, WakeFailed, WakeRetryDue, poolVars, envVars, history
    <2> QED
        BY <2>1 DEF PlainInv
<1>5. CASE TopLazy \/ DispatchDone
    <2>1. q' = ExpireInFlight(q) /\ UNCHANGED <<task, acks, merged>>
        BY <1>5 DEF TopLazy, DispatchDone, poolVars, envVars
    <2> QED
        BY <1>1, <1>3, <2>1 DEF PlainInv
<1>6. CASE Maintenance
    <2>1. q' = ExpireInFlight(CompactExpiredState(q)) /\ UNCHANGED <<task, acks, merged>>
        BY <1>6 DEF Maintenance, envVars
    <2>2. CompactExpiredState(q) \in QueueState
        BY <1>1, CompactExpiredStateType
    <2>3. NoneCancelled(CompactExpiredState(q))
        BY <1>1 DEF NoneCancelled, CompactExpiredState, QueueState
    <2>4. NoneCancelled(q')
        BY <2>1, <2>2, <2>3 DEF NoneCancelled, ExpireInFlight, QueueState
    <2> QED
        BY <1>1, <2>1, <2>4 DEF PlainInv
<1>7. CASE HeartbeatTick
    <2>1. q' = ExpireInFlight(q) /\ UNCHANGED <<acks, merged>>
        BY <1>7 DEF HeartbeatTick
    <2>2. \A a \in Agents : PlainTask(task'[a])
        <3>1. CASE UNCHANGED task
            BY <1>1, <3>1
        <3>2. ASSUME NEW a \in idle, task' = [task EXCEPT ![a] = [NoTask EXCEPT !.phase = "run"]]
              PROVE  \A b \in Agents : PlainTask(task'[b])
            <4> DEFINE t == [NoTask EXCEPT !.phase = "run"]
            <4>1. PlainTask(t)
                BY DEF PlainTask, NoTask
            <4> HIDE DEF t
            <4>2. task' = [task EXCEPT ![a] = t]
                BY <3>2 DEF t
            <4> QED
                BY <1>1, <4>1, <4>2
        <3> QED
            BY <1>7, <3>1, <3>2 DEF HeartbeatTick
    <2> QED
        BY <1>1, <1>3, <2>1, <2>2 DEF PlainInv
<1>8. CASE DispatchQueued
    <2> DEFINE live == ExpireInFlight(q)
    <2>1. PICK c \in Flushable(live) : \E sorted \in StableSorts(Drained(live, c)) :
                 DispatchBatch(c, FlushedBatch(live, c, sorted), AfterFlush(live, c))
        BY <1>8 DEF DispatchQueued, OldestFlushable
    <2>2. PICK sorted \in StableSorts(Drained(live, c)) :
                 DispatchBatch(c, FlushedBatch(live, c, sorted), AfterFlush(live, c))
        BY <2>1
    <2>3. c \in Channels
        BY DEF Flushable
    <2> HIDE DEF live
    <2> DEFINE b == FlushedBatch(live, c, sorted)
               R == AfterFlush(live, c)
    <2>4. b \in FlushBatch /\ R \in QueueState
        BY <1>3, <2>3, FlushType DEF live
    <2>5. NoneCancelled(R)
        BY <1>3, <2>3 DEF live, NoneCancelled, AfterFlush, QueueState
    <2>6. Range(b.cancelled) = {}
        <3>1. b.cancelled = << >>
            BY <1>3, <2>3 DEF live, NoneCancelled, FlushedBatch
        <3> QED
            BY <3>1, EmptyOnce
    <2>7. DispatchBatch(c, b, R)
        BY <2>2
    <2> HIDE DEF b, R
    <2>8. merged' = {} /\ acks' = {}
        BY <1>1, <2>6, <2>7 DEF DispatchBatch, envVars
    <2>9. CASE \E a \in Claimable(c) : StartTurn(c, b, R, a)
        <3> DEFINE t == [NoTask EXCEPT !.phase = "run", !.ch = c, !.batch = b]
        <3>1. PICK a \in idle : StartTurn(c, b, R, a)
            BY <2>9 DEF Claimable
        <3>2. PlainTask(t)
            BY DEF PlainTask, NoTask
        <3>3. task' = [task EXCEPT ![a] = t] /\ q' = R
            BY <3>1 DEF StartTurn
        <3> HIDE DEF t
        <3>4. \A d \in Agents : PlainTask(task'[d])
            BY <1>1, <3>2, <3>3
        <3> QED
            BY <2>5, <2>8, <3>3, <3>4 DEF PlainInv
    <2>10. CASE PoolExhausted(c, b, R)
        <3>1. q' = MarkComplete(RequeuePreserveTimestamps(R, c, b), c) /\ UNCHANGED task
            BY <2>10 DEF PoolExhausted
        <3>2. /\ RequeuePreserveTimestamps(R, c, b) \in QueueState
              /\ NoneCancelled(RequeuePreserveTimestamps(R, c, b))
            BY <2>3, <2>4, <2>5, RequeuePreserveTimestampsType
               DEF NoneCancelled, RequeuePreserveTimestamps, QueueState
        <3>3. NoneCancelled(q')
            BY <2>3, <3>1, <3>2 DEF NoneCancelled, MarkComplete, QueueState
        <3> QED
            BY <1>1, <2>8, <3>1, <3>3 DEF PlainInv
    <2> QED
        BY <2>7, <2>9, <2>10 DEF DispatchBatch
<1>9. CASE DispatchCancelled
    BY <1>3, <1>9 DEF DispatchCancelled, CancelledReady, NoneCancelled
<1>10. ASSUME NEW a \in Agents, HandlePromptResult(a) \/ RecoverPanickedAgent(a)
       PROVE  PlainInv'
    <2> DEFINE t == task[a]
               c == task[a].ch
    <2>1. task' = [task EXCEPT ![a] = NoTask] /\ UNCHANGED <<acks, merged>>
        BY <1>10 DEF HandlePromptResult, RecoverPanickedAgent
    <2>2. \A b \in Agents : PlainTask(task'[b])
        BY <1>1, <1>2, <2>1
    <2>3. NoneCancelled(q')
        <3>1. t \in Task /\ t.batch \in FlushBatch /\ (c # NoChannel => c \in Channels)
            BY <1>1 DEF Task
        <3>2. t.out \in {"cancelled", "drainTimeout"} => ~t.kept
            BY <1>1 DEF PlainTask
        <3>3. \/ q' = q
              \/ /\ c \in Channels
                 /\ q' = MarkComplete(q, c) \/ q' = MarkComplete(Requeue(q, c, t.batch), c)
            <4>1. CASE HandlePromptResult(a)
                <5>1. \/ q' = q
                      \/ c # NoChannel /\ q' = MarkComplete(ResultQueue(t), c)
                    BY <4>1 DEF HandlePromptResult
                <5>2. ResultQueue(t) = q \/ ResultQueue(t) = Requeue(q, c, t.batch)
                    BY <3>2 DEF ResultQueue
                <5> QED
                    BY <3>1, <5>1, <5>2
            <4>2. CASE RecoverPanickedAgent(a)
                <5> DEFINE requeued == c # NoChannel /\ DedupMode = "Queue" /\ c \notin removed
                <5>1. q' = IF c = NoChannel THEN q
                           ELSE MarkComplete(IF requeued THEN Requeue(q, c, t.batch) ELSE q, c)
                    BY <4>2 DEF RecoverPanickedAgent
                <5> QED
                    BY <3>1, <5>1
            <4> QED
                BY <1>10, <4>1, <4>2
        <3>4. c \in Channels => /\ Requeue(q, c, t.batch) \in QueueState
                                /\ NoneCancelled(Requeue(q, c, t.batch))
            BY ZenonT(60), <1>1, <3>1, RequeueType DEF NoneCancelled, Requeue, QueueState
        <3>5. \A Q \in QueueState : NoneCancelled(Q) /\ c \in Channels => NoneCancelled(MarkComplete(Q, c))
            BY DEF NoneCancelled, MarkComplete, QueueState
        <3> HIDE DEF t, c
        <3> QED
            BY <1>1, <3>3, <3>4, <3>5
    <2> QED
        BY <1>1, <2>1, <2>2, <2>3 DEF PlainInv
<1>11. ~ \E m \in acks : HandleSteerAck(m)
    BY <1>1
<1> QED
    BY <1>4, <1>5, <1>6, <1>7, <1>8, <1>9, <1>10, <1>11 DEF LoopStep
\* Steps of the relay: no event signals the turn in flight, no steer is sent.
LEMMA PlainRelay ==
    ASSUME PlainHandling, TypeInv, TypeInv', PlainInv, RelayStep
    PROVE  PlainInv'
<1>1. /\ q \in QueueState /\ task \in [Agents -> Task] /\ arrived \in Nat
      /\ NoneCancelled(q) /\ acks = {} /\ merged = {}
      /\ \A a \in Agents : PlainTask(task[a])
    BY DEF TypeInv, TypeOK, PlainInv
<1>2. ASSUME NEW c \in Channels, ReceiveEvent(c) PROVE PlainInv'
    <2> DEFINE e == arrived + 1
    <2>1. ModeGateSignals = {"none"}
        BY DEF PlainHandling, ModeGateSignals
    <2>2. q' = Push(q, c, e) /\ task' = task /\ UNCHANGED <<acks, merged>> /\ e \in Events
        <3>1. ASSUME NEW s \in ModeGateSignals, NEW a \in TasksOf(c)
              PROVE  /\ ~NativeSteerAccepted(a, s)
                     /\ [task EXCEPT ![a] = IF s = "none" THEN @ ELSE Signalled(@, s)] = task
            BY <1>1, <2>1 DEF NativeSteerAccepted, TasksOf, Busy
        <3> QED
            BY <1>2, <3>1 DEF ReceiveEvent
    <2> HIDE DEF e
    <2>3. NoneCancelled(q')
        BY <1>1, <2>2 DEF NoneCancelled, Push, QueueState
    <2> QED
        BY <1>1, <2>2, <2>3 DEF PlainInv
<1>3. ASSUME NEW c \in Channels, NEW s \in Controls, OwnerControl(c, s) PROVE PlainInv'
    <2>1. s \in {"Cancel", "Rotate"}
        BY HarnessAssumption DEF PlainHandling
    <2>2. UNCHANGED <<q, acks, merged>>
        BY <1>3 DEF OwnerControl, history
    <2>3. \A b \in Agents : PlainTask(task'[b])
        <3>1. CASE UNCHANGED task
            BY <1>1, <3>1
        <3>2. ASSUME NEW a \in TasksOf(c), task' = [task EXCEPT ![a] = Signalled(@, s)]
              PROVE  \A b \in Agents : PlainTask(task'[b])
            <4>1. a \in Agents /\ task[a] \in Task /\ PlainTask(task[a])
                BY <1>1 DEF TasksOf, Busy
            <4> DEFINE t == Signalled(task[a], s)
            <4>2. PlainTask(t)
                BY <2>1, <4>1 DEF PlainTask, Signalled, Task
            <4>3. task' = [task EXCEPT ![a] = t]
                BY <3>2
            <4> HIDE DEF t
            <4> QED
                BY <1>1, <4>2, <4>3
        <3> QED
            BY <1>3, <3>1, <3>2 DEF OwnerControl
    <2> QED
        BY <1>1, <2>2, <2>3 DEF PlainInv
<1>4. ASSUME NEW c \in Channels, MemberRemoved(c) PROVE PlainInv'
    <2>1. q' = DrainChannel(q, c) /\ UNCHANGED <<task, acks, merged>>
        BY <1>4 DEF MemberRemoved
    <2>2. NoneCancelled(q')
        BY <1>1, <2>1 DEF NoneCancelled, DrainChannel, QueueState
    <2> QED
        BY <1>1, <2>1, <2>2 DEF PlainInv
<1>5. ASSUME NEW c \in Channels, MemberAdded(c) PROVE PlainInv'
    BY <1>5 DEF MemberAdded, poolVars, history, PlainInv
<1> QED
    BY <1>2, <1>3, <1>4, <1>5 DEF RelayStep

\* Steps of tasks and clocks: a cancelled turn's batch is discarded.
LEMMA PlainEnvironment ==
    ASSUME PlainHandling, TypeInv, TypeInv', PlainInv, TaskStep \/ ClockStep
    PROVE  PlainInv'
<1>1. /\ q \in QueueState /\ task \in [Agents -> Task]
      /\ NoneCancelled(q) /\ acks = {} /\ merged = {}
      /\ \A a \in Agents : PlainTask(task[a])
    BY DEF TypeInv, TypeOK, PlainInv
<1>2. ASSUME NEW a \in Agents PROVE NeutralAcks(task[a]) = {}
    BY <1>1 DEF NeutralAcks, PlainTask
<1>3. ASSUME NEW a \in Agents, NEW o, NEW kept, NEW reason, SendPromptResult(a, o, kept, reason),
             o \in {"cancelled", "drainTimeout"} => ~kept
      PROVE  PlainInv'
    <2> DEFINE b == [task[a].batch EXCEPT !.reason = reason]
               t == [task[a] EXCEPT !.phase = "done", !.out = o, !.kept = kept,
                                    !.batch = b, !.wire = NoEvent, !.buf = NoEvent]
    <2>1. task[a] \in Task /\ PlainTask(task[a])
        BY <1>1
    <2>2. task' = [task EXCEPT ![a] = t]
        <3>1. task' = [task EXCEPT ![a].phase = "done", ![a].out = o, ![a].kept = kept,
                                   ![a].batch.reason = reason,
                                   ![a].wire = NoEvent, ![a].buf = NoEvent]
            BY <1>3 DEF SendPromptResult
        <3> QED
            BY <1>1, <2>1, <3>1 DEF Task, FlushBatch
    <2> HIDE DEF b
    <2>3. /\ t.phase = "done" /\ t.out = o /\ t.kept = kept
          /\ t.wire = NoEvent /\ t.buf = NoEvent /\ t.ctl = task[a].ctl
        BY <2>1 DEF Task
    <2> HIDE DEF t
    <2>4. PlainTask(t)
        BY <1>3, <2>1, <2>3 DEF PlainTask
    <2>5. UNCHANGED <<q, merged>> /\ acks' = {}
        BY <1>1, <1>2, <1>3 DEF SendPromptResult, loopVars, history
    <2>6. \A d \in Agents : PlainTask(task'[d])
        BY <1>1, <2>2, <2>4
    <2> QED
        BY <1>1, <2>5, <2>6 DEF PlainInv
<1>4. ASSUME NEW a \in Agents, FinishTurn(a) \/ \E o \in Failures : FailTurn(a, o)
      PROVE  PlainInv'
    <2>1. CASE FinishTurn(a)
        BY <1>3, <2>1 DEF FinishTurn
    <2>2. ASSUME NEW o \in Failures, FailTurn(a, o) PROVE PlainInv'
        BY <1>3, <2>2 DEF FailTurn, Failures
    <2> QED
        BY <1>4, <2>1, <2>2
<1>5. ASSUME NEW a \in Agents,
             \/ FinishCancelled(a)
             \/ \E o \in {"drainTimeout", "exited", "appError", "authError"} : FailCancelled(a, o)
      PROVE  PlainInv'
    <2>1. task[a].phase = "cancelling"
        BY <1>5 DEF FinishCancelled, FailCancelled
    <2>2. ~CancelKeeps(task[a])
        BY <1>1, <2>1 DEF CancelKeeps, PlainTask
    <2>3. CASE FinishCancelled(a)
        BY <1>3, <2>2, <2>3 DEF FinishCancelled
    <2>4. ASSUME NEW o, FailCancelled(a, o) PROVE PlainInv'
        BY <1>3, <2>2, <2>4 DEF FailCancelled
    <2> QED
        BY <1>5, <2>3, <2>4
<1>6. ASSUME NEW a \in Agents, TakeControl(a) \/ PanicTask(a) PROVE PlainInv'
    <2>1. task[a] \in Task /\ PlainTask(task[a])
        BY <1>1
    <2>2. UNCHANGED <<q, merged>> /\ acks' = {}
        BY <1>1, <1>2, <1>6 DEF TakeControl, PanicTask, loopVars, history
    <2>3. PICK p \in {"cancelling", "panicked"} :
             /\ task' = [task EXCEPT ![a].phase = p, ![a].wire = NoEvent, ![a].buf = NoEvent]
             /\ p = "cancelling" => task[a].ctl # "open"
        BY <1>6 DEF TakeControl, PanicTask
    <2> DEFINE t == [task[a] EXCEPT !.phase = p, !.wire = NoEvent, !.buf = NoEvent]
    <2>4. task' = [task EXCEPT ![a] = t]
        BY <1>1, <2>1, <2>3 DEF Task
    <2>5. /\ t.phase = p /\ t.out = task[a].out /\ t.kept = task[a].kept
          /\ t.wire = NoEvent /\ t.buf = NoEvent /\ t.ctl = task[a].ctl
        BY <2>1 DEF Task
    <2> HIDE DEF t
    <2>6. PlainTask(t)
        BY <2>1, <2>3, <2>5 DEF PlainTask
    <2>7. \A d \in Agents : PlainTask(task'[d])
        BY <1>1, <2>4, <2>6
    <2> QED
        BY <1>1, <2>2, <2>7 DEF PlainInv
<1>7. ASSUME NEW a \in Agents
      PROVE  ~WriteSteer(a) /\ \A kind : ~AnswerSteer(a, kind)
    BY <1>1 DEF WriteSteer, AnswerSteer, PlainTask
<1>8. ASSUME NEW a \in Agents, RespawnOk(a) \/ RespawnFailed(a) \/ CircuitCools(a)
      PROVE  PlainInv'
    BY <1>8 DEF RespawnOk, RespawnFailed, CircuitCools, loopVars, history, PlainInv
<1>9. ASSUME NEW c \in Channels, ThrottleElapses(c) \/ DeadlinePasses(c) PROVE PlainInv'
    <2>1. UNCHANGED <<task, acks, merged>>
        BY <1>9 DEF ThrottleElapses, DeadlinePasses, poolVars, envVars, history
    <2>2. NoneCancelled(q')
        BY <1>1, <1>9 DEF ThrottleElapses, DeadlinePasses, ThrottleElapsed, DeadlinePassed,
                          NoneCancelled, QueueState
    <2> QED
        BY <1>1, <2>1, <2>2 DEF PlainInv
<1> QED
    BY <1>4, <1>5, <1>6, <1>7, <1>8, <1>9 DEF TaskStep, ClockStep

\* With queue handling and no model switch, every event received is held or was
\* finished on the record, through every fault, panic, requeue, overflow, owner
\* control, membership change and late turn: nothing is lost.
THEOREM NothingLost ==
    ASSUME PlainHandling
    PROVE  Spec => []Conserved
<1>1. Init => PlainInv
    <2> SUFFICES ASSUME Init PROVE PlainInv
        OBVIOUS
    <2>1. NoneCancelled(q)
        BY DEF Init, NewQueue, NoneCancelled
    <2>2. \A a \in Agents : PlainTask(task[a])
        BY DEF Init, NoTask, PlainTask
    <2> QED
        BY <2>1, <2>2 DEF Init, PlainInv
<1>2. EventInv /\ PlainInv /\ [Next \/ Exited]_vars => PlainInv'
    <2> SUFFICES ASSUME EventInv, PlainInv, [Next \/ Exited]_vars PROVE PlainInv'
        OBVIOUS
    <2>1. TypeInv /\ TypeInv'
        BY SafeNext DEF EventInv, SlotInv
    <2>2. CASE UNCHANGED vars \/ Exited
        BY <2>2 DEF Exited, vars, poolVars, envVars, history, PlainInv
    <2> QED
        BY <2>1, <2>2, PlainLoop, PlainRelay, PlainEnvironment DEF Next
<1>3. EventInv /\ PlainInv => Conserved
    BY DEF EventInv, PlainInv, TriggersConserved, Conserved
<1> QED
    BY <1>1, <1>2, <1>3, EventInvariant, PTL DEF Spec
=============================================================================
