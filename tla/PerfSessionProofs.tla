-------------------------- MODULE PerfSessionProofs --------------------------
(***************************************************************************)
(* The rounds of perf record and the queue of perf script deliver the      *)
(* records in the order of their times, for every number of CPUs, every    *)
(* recording whose times are monotonic and every interleaving of the       *)
(* kernel and the passes of perf record, lost records included.            *)
(***************************************************************************)
EXTENDS PerfSession, WellFoundedInduction, TLAPS

-----------------------------------------------------------------------------
(* The time-ordered queue of ordered-events.c: queue_event inserts an      *)
(* event where it belongs, for every list and every event, although it     *)
(* starts to search from the event queued last.                            *)

(* All that is used of an event and of the mark of a round *)
LEMMA EventFacts ==
  /\ \A e \in Event : /\ e.ts \in Nat /\ e.ts > 0 /\ e.id \in Nat /\ e.id # 0
                      /\ e.type # "round"
  /\ Round.type = "round"
  BY DEF Event, Round

(* The time-ordered list.  `into' is list with e inserted at position p.   *)
Inserted(list, p, e, into) ==
  /\ into \in Seq(Event) /\ Len(into) = Len(list) + 1
  /\ into[p] = e
  /\ \A k \in 1..(p - 1) : into[k] = list[k]
  /\ \A k \in (p + 1)..Len(into) : into[k] = list[k - 1]

LEMMA InsertFacts ==
  ASSUME NEW list \in Seq(Event), NEW e \in Event, NEW p \in 1..(Len(list) + 1)
  PROVE  Inserted(list, p, e, InsertBefore(list, p, e))
<1> DEFINE s == SubSeq(list, 1, p - 1)
           t == SubSeq(list, p, Len(list))
<1>0. Len(list) \in Nat /\ p \in Nat
  OBVIOUS
<1>1. s \in Seq(Event) /\ Len(s) = p - 1 /\ \A k \in 1..(p - 1) : s[k] = list[k]
  BY <1>0
<1>2. t \in Seq(Event) /\ Len(t) = Len(list) - p + 1
      /\ \A k \in 1..(Len(list) - p + 1) : t[k] = list[p + k - 1]
  BY <1>0
<1> HIDE DEF s, t
<1>3. s \o <<e>> \in Seq(Event) /\ Len(s \o <<e>>) = p /\ (s \o <<e>>)[p] = e
      /\ \A k \in 1..(p - 1) : (s \o <<e>>)[k] = list[k]
  BY <1>0, <1>1
<1> DEFINE u == s \o <<e>>
           v == u \o t
<1> HIDE DEF u
<1>4. u \in Seq(Event) /\ Len(u) = p /\ u[p] = e /\ \A k \in 1..(p - 1) : u[k] = list[k]
  BY <1>3, Zenon DEF u
<1>5. v \in Seq(Event) /\ Len(v) = Len(list) + 1 /\ \A k \in 1..p : v[k] = u[k]
  BY <1>0, <1>2, <1>4
<1>6. ASSUME NEW k \in (p + 1)..Len(v)
      PROVE  v[k] = list[k - 1]
  <2>1. k - p \in 1..(Len(list) - p + 1)
    BY <1>0, <1>5
  <2>2. v[k] = t[k - p]
    BY <1>0, <1>2, <1>4, <2>1
  <2>3. t[k - p] = list[p + (k - p) - 1]
    BY <1>2, <2>1, Zenon
  <2> QED
    BY <1>0, <2>2, <2>3
<1> HIDE DEF v
<1>7. v[p] = e /\ \A k \in 1..(p - 1) : v[k] = list[k]
  <2>1. p \in 1..p /\ \A k \in 1..(p - 1) : k \in 1..p
    BY <1>0
  <2> QED
    BY <1>4, <1>5, <2>1, Zenon
<1>8. Inserted(list, p, e, v)
  BY <1>5, <1>6, <1>7, Zenon DEF Inserted
<1> QED
  BY <1>8, Zenon DEF v, u, s, t, InsertBefore

LEMMA EndsFacts ==
  ASSUME NEW list \in Seq(Event), NEW e \in Event
  PROVE  /\ Inserted(list, 1, e, <<e>> \o list)
         /\ Inserted(list, Len(list) + 1, e, Append(list, e))
<1>1. Inserted(list, 1, e, <<e>> \o list)
  <2> DEFINE v == <<e>> \o list
  <2>1. v \in Seq(Event) /\ Len(v) = Len(list) + 1 /\ v[1] = e
    OBVIOUS
  <2>2. \A k \in 2..Len(v) : v[k] = list[k - 1]
    OBVIOUS
  <2> QED
    BY <2>1, <2>2 DEF Inserted
<1>2. Inserted(list, Len(list) + 1, e, Append(list, e))
  BY DEF Inserted
<1> QED
  BY <1>1, <1>2, Zenon

(* Inserted between the events not later and the later ones, it is sorted  *)
LEMMA InsertSorted ==
  ASSUME NEW list \in Seq(Event), NEW e \in Event, NEW p \in 1..(Len(list) + 1), NEW into,
         Inserted(list, p, e, into), Sorted(list),
         \A k \in 1..(p - 1) : list[k].ts <= e.ts,
         \A k \in p..Len(list) : e.ts <= list[k].ts
  PROVE  Sorted(into)
<1> SUFFICES ASSUME NEW i \in 1..Len(into), NEW j \in 1..Len(into), i < j
             PROVE  into[i].ts <= into[j].ts
  BY Zenon DEF Sorted
<1>0. Len(list) \in Nat /\ p \in Nat /\ Len(into) = Len(list) + 1
  BY DEF Inserted
<1>1. CASE i < p /\ j < p
  BY <1>0, <1>1 DEF Sorted, Inserted
<1>2. CASE i < p /\ j = p
  BY <1>0, <1>2 DEF Inserted
<1>3. CASE i < p /\ j > p
  <2>1. into[i] = list[i] /\ into[j] = list[j - 1] /\ i \in 1..Len(list) /\ j - 1 \in 1..Len(list)
        /\ i < j - 1
    BY <1>0, <1>3 DEF Inserted
  <2> QED
    BY <2>1, Zenon DEF Sorted
<1>4. CASE i = p /\ j > p
  <2>1. j \in (p + 1)..Len(into) /\ j - 1 \in p..Len(list)
    BY <1>0, <1>4
  <2>2. into[i] = e /\ into[j] = list[j - 1]
    BY <1>4, <2>1, Zenon DEF Inserted
  <2> QED
    BY <2>1, <2>2, Zenon
<1>5. CASE i > p
  <2>1. /\ i \in (p + 1)..Len(into) /\ j \in (p + 1)..Len(into)
        /\ i - 1 \in 1..Len(list) /\ j - 1 \in 1..Len(list) /\ i - 1 < j - 1
    BY <1>0, <1>5
  <2>2. into[i] = list[i - 1] /\ into[j] = list[j - 1]
    BY <2>1, Zenon DEF Inserted
  <2> QED
    BY <2>1, <2>2, Zenon DEF Sorted
<1> QED
  BY <1>0, <1>1, <1>2, <1>3, <1>4, <1>5

(* The queue between two operations *)
QueueFields == {"list", "last", "max_timestamp", "next_flush", "last_flush"}

QueueOK(q) ==
  /\ DOMAIN q = QueueFields
  /\ q.list \in Seq(Event) /\ Sorted(q.list)
  /\ q.last \in Nat /\ q.max_timestamp \in Nat /\ q.next_flush \in Nat

(* A set of numbers has a first member, and a set of positions a last one  *)
LEMMA FirstOf ==
  ASSUME NEW S \in SUBSET Nat, S # {}
  PROVE  \E i \in S : \A j \in S : i <= j
<1> DEFINE R == OpToRel(<, Nat)
<1>1. \A x, y \in Nat : <<x, y>> \in R <=> x < y
  BY Zenon DEF OpToRel
<1> HIDE DEF R
<1>2. PICK x \in S : \A y \in S : ~(<<y, x>> \in R)
  BY Zenon, NatLessThanWellFounded, WFMin DEF R
<1>3. \A y \in S : ~(y < x)
  BY Zenon, <1>1, <1>2
<1> QED
  BY <1>3

LEMMA LeastFacts ==
  ASSUME NEW S \in SUBSET Nat, S # {}
  PROVE  Least(S) \in S /\ \A j \in S : Least(S) <= j
  BY Zenon, FirstOf DEF Least

LEMMA GreatestFacts ==
  ASSUME NEW n \in Nat, NEW S \in SUBSET (1..n), S # {}
  PROVE  Greatest(S) \in S /\ \A j \in S : j <= Greatest(S)
<1> DEFINE T == {n - j : j \in S}
<1>1. T \in SUBSET Nat /\ T # {}
  <2>1. \A j \in S : n - j \in Nat
    OBVIOUS
  <2>2. PICK j \in S : TRUE
    BY Zenon
  <2> QED
    BY <2>1, <2>2, Zenon
<1>2. PICK t \in T : \A u \in T : t <= u
  BY Zenon, <1>1, FirstOf
<1>3. PICK i \in S : t = n - i
  BY Zenon
<1>4. \A j \in S : n - i <= n - j
  BY <1>2, <1>3, Zenon
<1>5. \A j \in S : j <= i
  BY <1>4
<1> QED
  BY Zenon, <1>5 DEF Greatest

(* queue_event() inserts the event where it belongs: the list stays sorted, *)
(* the event is the one queued last, the newest only at the end.            *)
LEMMA QueueEventFacts ==
  ASSUME NEW q, QueueOK(q), LastQueued(q), NEW e \in Event
  PROVE  LET r == queue_event(q, e)
         IN  /\ QueueOK(r) /\ LastQueued(r)
             /\ r.next_flush = q.next_flush /\ r.max_timestamp \in {q.max_timestamp, e.ts}
             /\ \E p \in 1..(Len(q.list) + 1) : Inserted(q.list, p, e, r.list)
<1> DEFINE list == q.list
           n == Len(q.list)
           i == IndexOf(list, q.last)
           later == After(list, i, e.ts)
           earlier == Before(list, i, e.ts)
           queued(l) == [q EXCEPT !.list = l, !.last = e.id]
           newest(l) == [q EXCEPT !.list = l, !.last = e.id, !.max_timestamp = e.ts]
           Fits(p) == /\ \A k \in 1..(p - 1) : list[k].ts <= e.ts
                      /\ \A k \in p..n : e.ts <= list[k].ts
           Result(r) == /\ QueueOK(r) /\ LastQueued(r)
                        /\ r.next_flush = q.next_flush /\ r.max_timestamp \in {q.max_timestamp, e.ts}
                        /\ \E p \in 1..(Len(q.list) + 1) : Inserted(q.list, p, e, r.list)
<1>0. list \in Seq(Event) /\ n \in Nat /\ Sorted(list) /\ e.ts \in Nat /\ e.id \in Nat /\ e.id # 0
      /\ \A k \in 1..n : list[k] \in Event /\ list[k].ts \in Nat
  BY EventFacts DEF QueueOK
<1>r. ASSUME NEW p \in 1..(n + 1), NEW l, Inserted(list, p, e, l), Fits(p)
      PROVE  Result(queued(l)) /\ Result(newest(l))
  <2>1. Sorted(l)
    BY Zenon, <1>0, <1>r, InsertSorted
  <2>2. l \in Seq(Event) /\ Len(l) = n + 1 /\ l[p] = e
    BY <1>r, Zenon DEF Inserted
  <2>3. ASSUME NEW r, DOMAIN r = QueueFields, r.list = l, r.last = e.id,
               r.next_flush = q.next_flush, r.max_timestamp \in {q.max_timestamp, e.ts}
        PROVE  Result(r)
    <3>1. QueueOK(r)
      BY <1>0, <2>1, <2>2, <2>3, Zenon DEF QueueOK
    <3>2. LastQueued(r)
      <4>1. r.list # <<>> /\ p \in 1..Len(r.list) /\ r.list[p].id = r.last
        BY <1>0, <2>2, <2>3
      <4> QED
        BY <4>1, Zenon DEF LastQueued
    <3> QED
      BY <1>r, <2>3, <3>1, <3>2, Zenon
  <2>4. /\ DOMAIN queued(l) = QueueFields /\ queued(l).list = l /\ queued(l).last = e.id
        /\ queued(l).next_flush = q.next_flush /\ queued(l).max_timestamp = q.max_timestamp
    BY Zenon DEF QueueOK, QueueFields
  <2>5. /\ DOMAIN newest(l) = QueueFields /\ newest(l).list = l /\ newest(l).last = e.id
        /\ newest(l).next_flush = q.next_flush /\ newest(l).max_timestamp = e.ts
    BY Zenon DEF QueueOK, QueueFields
  <2> HIDE DEF Result, queued, newest
  <2>6. Result(queued(l))
    BY <2>3, <2>4, Zenon
  <2>7. Result(newest(l))
    BY <2>3, <2>5, Zenon
  <2> QED
    BY <2>6, <2>7, Zenon
<1>s. \A j, k \in 1..n : j <= k => list[j].ts <= list[k].ts
  BY <1>0 DEF Sorted
<1>f. Inserted(list, 1, e, <<e>> \o list) /\ Inserted(list, n + 1, e, Append(list, e))
  BY <1>0, EndsFacts, Zenon
<1>g. \A p \in 1..(n + 1) : Inserted(list, p, e, InsertBefore(list, p, e))
  BY <1>0, InsertFacts, Zenon
<1>1. CASE q.last = 0
  <2>1. list = <<>> /\ n = 0
    <3>1. ASSUME list # <<>> PROVE FALSE
      <4>1. PICK k \in 1..n : list[k].id = 0
        BY <1>1, <3>1, Zenon DEF LastQueued
      <4> QED
        BY <1>0, <4>1, EventFacts, Zenon
    <3> QED
      BY <3>1, Zenon
  <2>2. queue_event(q, e) = newest(<<e>> \o list)
    BY <1>1, Zenon DEF queue_event
  <2>3. Fits(1) /\ 1 \in 1..(n + 1)
    BY <2>1
  <2>4. Result(newest(<<e>> \o list))
    <3> HIDE DEF Result, newest, Fits
    <3> QED
      BY Zenon, <1>f, <1>r, <2>3
  <2> QED
    BY <2>2, <2>4, Zenon
<1>2. CASE q.last # 0
  <2>0. i \in 1..n /\ list[i].id = q.last
    <3>1. \E k \in 1..n : list[k].id = q.last
      BY <1>2, Zenon DEF LastQueued
    <3> QED
      BY <3>1, Zenon DEF IndexOf
  <2> HIDE DEF i
  <2>1. CASE list[i].ts <= e.ts /\ later = {}
    <3>1. queue_event(q, e) = newest(Append(list, e))
      BY <1>0, <1>2, <2>0, <2>1 DEF queue_event, i
    <3>2. \A k \in 1..n : list[k].ts <= e.ts
      <4> TAKE k \in 1..n
      <4>1. CASE k <= i
        BY <1>0, <1>s, <2>0, <2>1, <4>1
      <4>2. CASE k > i
        BY <1>0, <2>0, <2>1, <4>2 DEF After
      <4> QED
        BY <1>0, <2>0, <4>1, <4>2
    <3>3. Fits(n + 1) /\ n + 1 \in 1..(n + 1)
      BY <1>0, <3>2
    <3>4. Result(newest(Append(list, e)))
      <4> HIDE DEF Result, newest, Fits
      <4> QED
        BY Zenon, <1>f, <1>r, <3>3
    <3> QED
      BY <3>1, <3>4, Zenon
  <2>2. CASE list[i].ts <= e.ts /\ later # {}
    <3> DEFINE p == Least(later)
    <3>1. queue_event(q, e) = queued(InsertBefore(list, p, e))
      BY <1>0, <1>2, <2>0, <2>2 DEF queue_event, i
    <3>2. p \in later /\ \A k \in later : p <= k
      <4>1. later \in SUBSET Nat
        BY <1>0, <2>0 DEF After
      <4> QED
        BY <2>2, <4>1, LeastFacts, Zenon
    <3> HIDE DEF p
    <3>3. p \in (i + 1)..n /\ list[p].ts > e.ts
          /\ \A k \in (i + 1)..n : list[k].ts > e.ts => p <= k
      BY <3>2, Zenon DEF After
    <3>4. p \in 1..(n + 1)
      BY <1>0, <2>0, <3>3
    <3>5. \A k \in 1..(p - 1) : list[k].ts <= e.ts
      <4> TAKE k \in 1..(p - 1)
      <4>1. CASE k <= i
        <5>1. k \in 1..n /\ list[k].ts <= list[i].ts
          BY <1>0, <1>s, <2>0, <3>3, <4>1
        <5> QED
          BY <1>0, <2>0, <2>2, <5>1
      <4>2. CASE k > i
        <5>1. k \in (i + 1)..n /\ k \in 1..n /\ ~(p <= k)
          BY <1>0, <2>0, <3>3, <4>2
        <5> QED
          BY <1>0, <3>3, <5>1
      <4> QED
        BY <1>0, <2>0, <3>3, <4>1, <4>2
    <3>6. \A k \in p..n : e.ts <= list[k].ts
      <4> TAKE k \in p..n
      <4>1. p \in 1..n /\ k \in 1..n /\ p <= k
        BY <1>0, <2>0, <3>3
      <4>2. list[p].ts <= list[k].ts
        BY <1>s, <4>1, Zenon
      <4> QED
        BY <1>0, <3>3, <4>1, <4>2
    <3>7. Fits(p)
      BY <3>5, <3>6, Zenon
    <3>8. Result(queued(InsertBefore(list, p, e)))
      <4> HIDE DEF Result, queued, Fits
      <4> QED
        BY Zenon, <1>g, <3>4, <3>7, <1>r
    <3> QED
      BY <3>1, <3>8, Zenon
  <2>3. CASE list[i].ts > e.ts /\ earlier = {}
    <3>1. queue_event(q, e) = queued(<<e>> \o list)
      BY <1>0, <1>2, <2>0, <2>3 DEF queue_event, i
    <3>2. \A k \in 1..n : e.ts <= list[k].ts
      <4> TAKE k \in 1..n
      <4>1. CASE k < i
        BY <1>0, <2>0, <2>3, <4>1 DEF Before
      <4>2. CASE k >= i
        BY <1>0, <1>s, <2>0, <2>3, <4>2
      <4> QED
        BY <1>0, <2>0, <4>1, <4>2
    <3>3. Fits(1) /\ 1 \in 1..(n + 1)
      BY <1>0, <3>2
    <3>4. Result(queued(<<e>> \o list))
      <4> HIDE DEF Result, queued, Fits
      <4> QED
        BY Zenon, <1>f, <1>r, <3>3
    <3> QED
      BY <3>1, <3>4, Zenon
  <2>4. CASE list[i].ts > e.ts /\ earlier # {}
    <3> DEFINE m == Greatest(earlier)
    <3>1. queue_event(q, e) = queued(InsertBefore(list, m + 1, e))
      BY <1>0, <1>2, <2>0, <2>4 DEF queue_event, i
    <3>2. m \in earlier /\ \A k \in earlier : k <= m
      <4>1. earlier \in SUBSET (1..n)
        BY <1>0, <2>0 DEF Before
      <4> QED
        BY Zenon, <1>0, <2>4, <4>1, GreatestFacts
    <3> HIDE DEF m
    <3>3. m \in 1..(i - 1) /\ list[m].ts <= e.ts
          /\ \A k \in 1..(i - 1) : list[k].ts <= e.ts => k <= m
      BY <3>2, Zenon DEF Before
    <3> DEFINE p == m + 1
    <3>4. p \in 1..(n + 1) /\ p - 1 = m
      BY <1>0, <2>0, <3>3
    <3>5. queue_event(q, e) = queued(InsertBefore(list, p, e))
      BY <3>1, Zenon
    <3> HIDE DEF p
    <3>6. \A k \in 1..(p - 1) : list[k].ts <= e.ts
      <4> TAKE k \in 1..(p - 1)
      <4>1. k \in 1..n /\ m \in 1..n /\ k <= m
        BY <1>0, <2>0, <3>3, <3>4
      <4>2. list[k].ts <= list[m].ts
        BY <1>s, <4>1, Zenon
      <4> QED
        BY <1>0, <3>3, <4>1, <4>2
    <3>7. \A k \in p..n : e.ts <= list[k].ts
      <4> TAKE k \in p..n
      <4>1. CASE k < i
        BY <1>0, <2>0, <3>3, <3>4, <4>1
      <4>2. CASE k >= i
        <5>1. k \in 1..n /\ list[i].ts <= list[k].ts
          BY <1>0, <1>s, <2>0, <3>4, <4>2
        <5> QED
          BY <1>0, <2>0, <2>4, <5>1
      <4> QED
        BY <1>0, <2>0, <3>4, <4>1, <4>2
    <3>8. Fits(p)
      BY <3>6, <3>7
    <3>9. Result(queued(InsertBefore(list, p, e)))
      <4> HIDE DEF Result, queued, Fits
      <4> QED
        BY Zenon, <1>g, <3>4, <3>8, <1>r
    <3> QED
      BY <3>5, <3>9
  <2> QED
    BY <1>0, <2>0, <2>1, <2>2, <2>3, <2>4
<1> QED
  BY <1>1, <1>2, Zenon

(* The empty queue *)
LEMMA NewEventsFacts ==
  /\ QueueOK(NewEvents) /\ LastQueued(NewEvents) /\ NewEvents.list = <<>>
  /\ NewEvents.next_flush = 0 /\ NewEvents.max_timestamp = 0
<1>1. /\ DOMAIN NewEvents = QueueFields /\ NewEvents.list = <<>> /\ NewEvents.last = 0
      /\ NewEvents.next_flush = 0 /\ NewEvents.max_timestamp = 0
  BY Zenon DEF NewEvents, QueueFields
<1>2. <<>> \in Seq(Event) /\ Sorted(<<>>)
  BY DEF Sorted
<1> QED
  BY <1>1, <1>2 DEF QueueOK, LastQueued

(* The final flush goes up to the end of time *)
LEMMA FinalFields ==
  ASSUME NEW q, QueueOK(q)
  PROVE  LET r == FlushBegun(q, "FINAL")
         IN  QueueOK(r) /\ r.list = q.list
<1> DEFINE r == FlushBegun(q, "FINAL")
<1>1. ULLONG_MAX \in Nat
  BY SMT DEF ULLONG_MAX
<1>2. /\ DOMAIN r = QueueFields /\ r.list = q.list /\ r.last = q.last
      /\ r.max_timestamp = q.max_timestamp /\ r.next_flush = ULLONG_MAX
  BY Zenon DEF QueueOK, QueueFields, FlushBegun
<1> HIDE DEF r
<1>3. QueueOK(r)
  BY <1>1, <1>2, Zenon DEF QueueOK
<1> QED
  BY <1>2, <1>3, Zenon DEF r

-----------------------------------------------------------------------------
(* The rounds of perf record and the session of perf script *)
Entry == Event \cup {Round}

(* Where there are marks in the data d: before position j, two of them     *)
(* before j, two between i and j, one or two behind i                      *)
IsRound(d, i) == d[i].type = "round"
Before1(d, j) == \E a \in 1..(j - 1) : IsRound(d, a)
Before2(d, j) == \E a, b \in 1..(j - 1) : a < b /\ IsRound(d, a) /\ IsRound(d, b)
Between2(d, i, j) ==
  \E a, b \in (i + 1)..(j - 1) : a < b /\ IsRound(d, a) /\ IsRound(d, b)
Behind1(d, i) == \E a \in (i + 1)..Len(d) : IsRound(d, a)
Behind2(d, i) == \E a, b \in (i + 1)..Len(d) : a < b /\ IsRound(d, a) /\ IsRound(d, b)

(* Two rounds apart, times are in order: what perf record guarantees *)
Spread(d) ==
  \A i, j \in 1..Len(d) :
    ~IsRound(d, i) /\ ~IsRound(d, j) /\ i < j /\ Between2(d, i, j) => d[i].ts <= d[j].ts

(* The events behind the next mark are not before nf, those behind the one *)
(* after it not before mt: what perf script relies on                      *)
ReadBound(d, nf, mt) ==
  \A j \in 1..Len(d) : ~IsRound(d, j) =>
    /\ Before1(d, j) => nf <= d[j].ts
    /\ Before2(d, j) => mt <= d[j].ts

FlushBound(d, nf, mt) ==
  \A j \in 1..Len(d) : ~IsRound(d, j) =>
    /\ nf <= d[j].ts
    /\ Before1(d, j) => mt <= d[j].ts

(* Taking the first entry off the data *)
LEMMA TailFacts ==
  ASSUME NEW d \in Seq(Entry), d # <<>>
  PROVE  /\ Tail(d) \in Seq(Entry) /\ Len(Tail(d)) = Len(d) - 1 /\ Len(d) \in Nat /\ Len(d) >= 1
         /\ \A j \in 1..Len(Tail(d)) : Tail(d)[j] = d[j + 1] /\ j + 1 \in 1..Len(d)
  OBVIOUS

LEMMA TailMarks ==
  ASSUME NEW d \in Seq(Entry), d # <<>>, NEW j \in 1..Len(Tail(d))
  PROVE  /\ IsRound(Tail(d), j) <=> IsRound(d, j + 1)
         /\ Before1(Tail(d), j) => Before1(d, j + 1)
         /\ Before2(Tail(d), j) => Before2(d, j + 1)
         /\ IsRound(d, 1) => Before1(d, j + 1)
         /\ IsRound(d, 1) /\ Before1(Tail(d), j) => Before2(d, j + 1)
         /\ Before2(Tail(d), j) => Between2(d, 1, j + 1)
         /\ \A i \in 1..Len(Tail(d)) : Between2(Tail(d), i, j) => Between2(d, i + 1, j + 1)
<1>0. /\ Len(Tail(d)) = Len(d) - 1 /\ Len(d) \in Nat
      /\ \A a \in 1..Len(Tail(d)) : Tail(d)[a] = d[a + 1] /\ a + 1 \in 1..Len(d)
  BY TailFacts, Zenon
<1>1. \A a \in 1..Len(Tail(d)) : IsRound(Tail(d), a) <=> IsRound(d, a + 1)
  BY <1>0, Zenon DEF IsRound
<1>2. Before1(Tail(d), j) => \E a \in 2..j : IsRound(d, a)
  <2> SUFFICES ASSUME Before1(Tail(d), j) PROVE \E a \in 2..j : IsRound(d, a)
    BY Zenon
  <2>1. PICK a \in 1..(j - 1) : IsRound(Tail(d), a)
    BY Zenon DEF Before1
  <2>2. a \in 1..Len(Tail(d)) /\ a + 1 \in 2..j
    BY <1>0
  <2> QED
    BY <1>1, <2>1, <2>2, Zenon
<1>3. \A i \in 0..Len(Tail(d)) :
        (\E a, b \in (i + 1)..(j - 1) : a < b /\ IsRound(Tail(d), a) /\ IsRound(Tail(d), b))
        => \E a, b \in (i + 2)..j : a < b /\ IsRound(d, a) /\ IsRound(d, b)
  <2> TAKE i \in 0..Len(Tail(d))
  <2> HAVE \E a, b \in (i + 1)..(j - 1) : a < b /\ IsRound(Tail(d), a) /\ IsRound(Tail(d), b)
  <2>1. PICK a \in (i + 1)..(j - 1), b \in (i + 1)..(j - 1) :
          a < b /\ IsRound(Tail(d), a) /\ IsRound(Tail(d), b)
    BY Zenon
  <2>2. /\ a \in 1..Len(Tail(d)) /\ b \in 1..Len(Tail(d))
        /\ a + 1 \in (i + 2)..j /\ b + 1 \in (i + 2)..j /\ a + 1 < b + 1
    BY <1>0, <2>1
  <2>3. IsRound(d, a + 1) /\ IsRound(d, b + 1)
    BY <1>1, <2>1, <2>2, Zenon
  <2> QED
    BY <2>2, <2>3, Zenon
<1>4. Before2(Tail(d), j) => \E a, b \in 2..j : a < b /\ IsRound(d, a) /\ IsRound(d, b)
  BY <1>0, <1>3 DEF Before2
<1>5. Before1(Tail(d), j) => Before1(d, j + 1)
  BY <1>2 DEF Before1
<1>6. Before2(Tail(d), j) => Before2(d, j + 1) /\ Between2(d, 1, j + 1)
  BY <1>4 DEF Before2, Between2
<1>7. IsRound(d, 1) => Before1(d, j + 1)
  BY DEF Before1
<1>8. IsRound(d, 1) /\ Before1(Tail(d), j) => Before2(d, j + 1)
  BY <1>2 DEF Before2
<1>9. \A i \in 1..Len(Tail(d)) : Between2(Tail(d), i, j) => Between2(d, i + 1, j + 1)
  BY <1>0, <1>3 DEF Between2
<1> QED
  BY <1>1, <1>5, <1>6, <1>7, <1>8, <1>9, Zenon

(* What the data is good for stays when its first entry is taken off *)
LEMMA TailSpread ==
  ASSUME NEW d \in Seq(Entry), d # <<>>, Spread(d)
  PROVE  Spread(Tail(d))
<1> SUFFICES ASSUME NEW i \in 1..Len(Tail(d)), NEW j \in 1..Len(Tail(d)),
                    ~IsRound(Tail(d), i), ~IsRound(Tail(d), j), i < j, Between2(Tail(d), i, j)
             PROVE  Tail(d)[i].ts <= Tail(d)[j].ts
  BY Zenon DEF Spread
<1>1. /\ Tail(d)[i] = d[i + 1] /\ Tail(d)[j] = d[j + 1]
      /\ i + 1 \in 1..Len(d) /\ j + 1 \in 1..Len(d) /\ i + 1 < j + 1
  BY TailFacts
<1>2. ~IsRound(d, i + 1) /\ ~IsRound(d, j + 1) /\ Between2(d, i + 1, j + 1)
  BY TailMarks, Zenon
<1> QED
  BY <1>1, <1>2, Zenon DEF Spread

(* An event is read: it may be the newest so far *)
LEMMA ReadBoundEvent ==
  ASSUME NEW d \in Seq(Entry), d # <<>>, ~IsRound(d, 1), Spread(d),
         NEW nf \in Nat, NEW mt \in Nat, ReadBound(d, nf, mt), NEW m \in {mt, d[1].ts}
  PROVE  ReadBound(Tail(d), nf, m)
<1> SUFFICES ASSUME NEW j \in 1..Len(Tail(d)), ~IsRound(Tail(d), j)
             PROVE  /\ Before1(Tail(d), j) => nf <= Tail(d)[j].ts
                    /\ Before2(Tail(d), j) => m <= Tail(d)[j].ts
  BY Zenon DEF ReadBound
<1>1. Tail(d)[j] = d[j + 1] /\ j + 1 \in 1..Len(d) /\ 1 \in 1..Len(d) /\ 1 < j + 1
  BY TailFacts
<1>2. ~IsRound(d, j + 1)
  BY TailMarks, Zenon
<1>3. Before1(Tail(d), j) => nf <= Tail(d)[j].ts
  BY <1>1, <1>2, TailMarks, Zenon DEF ReadBound
<1>4. Before2(Tail(d), j) => mt <= Tail(d)[j].ts /\ d[1].ts <= Tail(d)[j].ts
  BY <1>1, <1>2, TailMarks, Zenon DEF ReadBound, Spread
<1> QED
  BY <1>3, <1>4, Zenon

(* A mark is read: what was behind it is all that is left *)
LEMMA ReadBoundRound ==
  ASSUME NEW d \in Seq(Entry), d # <<>>, IsRound(d, 1),
         NEW nf \in Nat, NEW mt \in Nat, ReadBound(d, nf, mt)
  PROVE  FlushBound(Tail(d), nf, mt) /\ ReadBound(Tail(d), nf, mt)
<1>1. ASSUME NEW j \in 1..Len(Tail(d)), ~IsRound(Tail(d), j)
      PROVE  /\ nf <= Tail(d)[j].ts
             /\ Before1(Tail(d), j) => mt <= Tail(d)[j].ts
             /\ Before2(Tail(d), j) => mt <= Tail(d)[j].ts
  <2>1. Tail(d)[j] = d[j + 1] /\ j + 1 \in 1..Len(d)
    BY TailFacts, Zenon
  <2>2. ~IsRound(d, j + 1)
    BY <1>1, TailMarks, Zenon
  <2>3. nf <= Tail(d)[j].ts
    BY Zenon, <2>1, <2>2, TailMarks DEF ReadBound
  <2>4. Before1(Tail(d), j) => mt <= Tail(d)[j].ts
    BY <2>1, <2>2, TailMarks, Zenon DEF ReadBound
  <2>5. Before2(Tail(d), j) => mt <= Tail(d)[j].ts
    BY <2>1, <2>2, TailMarks, Zenon DEF ReadBound
  <2> QED
    BY <2>3, <2>4, <2>5, Zenon
<1> QED
  BY <1>1, Zenon DEF ReadBound, FlushBound

-----------------------------------------------------------------------------
(* The inductive invariant *)

Types ==
  /\ trace \in Traces
  /\ data \in Seq(Entry) /\ delivered \in Seq(Event)
  /\ QueueOK(oe)

(* perf record: an event still to be written is not before any recorded    *)
(* one.  An event in a buffer is not before the events of all the rounds   *)
(* that are complete, when the pass has already been to its buffer, and of *)
(* all but the last of them otherwise.                                     *)
RecordOK ==
  /\ written \in [Queues -> Nat] /\ ring \in [Queues -> Seq(Event)]
  /\ mmap \in 0..(trace.nr_mmaps - 1)
  /\ oe = NewEvents /\ delivered = <<>>
  /\ \A c \in Queues : c >= trace.nr_mmaps => ring[c] = <<>>
  /\ \A c \in Unwritten :
       /\ \A d \in Queues : \A k \in 1..Len(ring[d]) : ring[d][k].ts <= NextEvent(c).ts
       /\ \A i \in 1..Len(data) : ~IsRound(data, i) => data[i].ts <= NextEvent(c).ts
  /\ \A c \in Queues : \A k \in 1..Len(ring[c]), i \in 1..Len(data) :
       /\ ~IsRound(data, i)
       /\ IF c < mmap THEN Behind1(data, i) ELSE Behind2(data, i)
       => data[i].ts <= ring[c][k].ts

(* perf script: whatever is delivered is not after what is left, and `last' *)
(* survives a round's flush when its time is behind what is flushed.       *)
DeliveredFirst ==
  /\ \A i, j \in 1..Len(delivered) : i < j => delivered[i].ts <= delivered[j].ts
  /\ \A i \in 1..Len(delivered) :
       /\ \A j \in 1..Len(oe.list) : delivered[i].ts <= oe.list[j].ts
       /\ \A j \in 1..Len(data) : ~IsRound(data, j) => delivered[i].ts <= data[j].ts

LastSurvives ==
  flushing.how = "ROUND" /\ (oe.next_flush = 0 \/ ~(flushing.last_ts <= oe.next_flush))
  => \E i \in 1..Len(oe.list) : oe.list[i].id = oe.last /\ oe.list[i].ts > oe.next_flush

FlushOK ==
  /\ flushing.how \in {"ROUND", "FINAL"}
  /\ flushing.how = "ROUND" => FlushBound(data, oe.next_flush, oe.max_timestamp)
  /\ flushing.how = "FINAL" => data = <<>>
  /\ LastSurvives

Inv ==
  /\ Types /\ Spread(data) /\ DeliveredFirst
  /\ phase = "record" => RecordOK
  /\ phase = "read" => LastQueued(oe) /\ ReadBound(data, oe.next_flush, oe.max_timestamp)
  /\ phase \in {"flush", "deliver"} => FlushOK
  /\ phase = "deliver" => Due(oe) /\ until = oe.list[1].ts

(* The invariant says what is claimed *)
LEMMA InvOrder ==
  Inv => DeliveredInOrder
<1> SUFFICES ASSUME Inv PROVE DeliveredInOrder
  BY Zenon
<1>1. ASSUME phase = "deliver"
      PROVE  /\ \A i \in 1..Len(oe.list) : until <= oe.list[i].ts
             /\ \A i \in 1..Len(data) : data[i].type # "round" => until <= data[i].ts
  <2>1. /\ oe.list \in Seq(Event) /\ Sorted(oe.list) /\ oe.list # <<>> /\ Len(oe.list) \in Nat
        /\ oe.list[1].ts <= oe.next_flush /\ oe.next_flush \in Nat /\ until = oe.list[1].ts
    BY <1>1 DEF Inv, Types, QueueOK, Due
  <2>2. 1 \in 1..Len(oe.list) /\ \A i \in 1..Len(oe.list) : oe.list[i].ts \in Nat
    BY <2>1, EventFacts
  <2>3. \A i \in 1..Len(oe.list) : until <= oe.list[i].ts
    BY <2>1, <2>2 DEF Sorted
  <2>4. ASSUME NEW i \in 1..Len(data), data[i].type # "round"
        PROVE  until <= data[i].ts
    <3>1. flushing.how = "ROUND" /\ FlushBound(data, oe.next_flush, oe.max_timestamp)
      BY <1>1 DEF Inv, FlushOK
    <3>2. oe.next_flush <= data[i].ts
      BY <2>4, <3>1, Zenon DEF FlushBound, IsRound
    <3>3. data[i] \in Event
      BY <2>4, EventFacts DEF Inv, Types, Entry
    <3> QED
      BY <2>1, <2>2, <3>2, <3>3, EventFacts
  <2> QED
    BY <2>3, <2>4, Zenon
<1> QED
  BY <1>1, Zenon DEF DeliveredInOrder, Inv, DeliveredFirst

LEMMA InvQueue ==
  Inv => QueueSound
  BY Zenon DEF Inv, Types, QueueOK, QueueSound

LEMMA InvInit ==
  Init => Inv
<1> SUFFICES ASSUME Init PROVE Inv
  BY Zenon
<1>0. trace \in Traces /\ TraceOK(trace) /\ nr_queues \in Nat
  BY TraceAssumption, Zenon DEF Init, QueuesInit
<1>1. /\ data = <<>> /\ delivered = <<>> /\ oe = NewEvents /\ phase = "record" /\ mmap = 0
      /\ written = [c \in Queues |-> 0] /\ ring = [c \in Queues |-> <<>>]
  BY Zenon DEF Init
<1>2. Types
  BY <1>0, <1>1, NewEventsFacts DEF Types
<1>3. Spread(data) /\ DeliveredFirst
  BY <1>1 DEF Spread, DeliveredFirst
<1>4. RecordOK
  <2>1. written \in [Queues -> Nat] /\ ring \in [Queues -> Seq(Event)]
    BY <1>1
  <2>2. mmap \in 0..(trace.nr_mmaps - 1)
    BY <1>0, <1>1 DEF TraceOK
  <2>3. \A c \in Queues : ring[c] = <<>> /\ Len(ring[c]) = 0
    BY <1>1, Zenon
  <2>4. Len(data) = 0
    BY <1>1, Zenon
  <2> QED
    BY <1>1, <2>1, <2>2, <2>3, <2>4 DEF RecordOK
<1> QED
  BY <1>1, <1>2, <1>3, <1>4, Zenon DEF Inv

-----------------------------------------------------------------------------
(* perf record.  `more' is what the data becomes when the events s, and     *)
(* perhaps the mark of a round, are appended to d.                          *)
Copied(d, s, marked) == IF marked THEN Append(d \o s, Round) ELSE d \o s

LEMMA CopiedFacts ==
  ASSUME NEW d \in Seq(Entry), NEW s \in Seq(Event), NEW marked \in BOOLEAN
  PROVE  LET more == Copied(d, s, marked)
         IN  /\ more \in Seq(Entry)
             /\ Len(more) \in Nat
             /\ marked => Len(more) = Len(d) + Len(s) + 1
             /\ ~marked => Len(more) = Len(d) + Len(s)
             /\ \A i \in 1..Len(d) : more[i] = d[i]
             /\ \A i \in (Len(d) + 1)..(Len(d) + Len(s)) :
                  more[i] = s[i - Len(d)] /\ i - Len(d) \in 1..Len(s)
             /\ marked => more[Len(d) + Len(s) + 1] = Round
<1> DEFINE both == d \o s
<1>0. Len(d) \in Nat /\ Len(s) \in Nat /\ d \in Seq(Entry) /\ s \in Seq(Entry)
  BY DEF Entry
<1>1. /\ both \in Seq(Entry) /\ Len(both) = Len(d) + Len(s)
      /\ \A i \in 1..Len(d) : both[i] = d[i]
      /\ \A i \in (Len(d) + 1)..(Len(d) + Len(s)) : both[i] = s[i - Len(d)] /\ i - Len(d) \in 1..Len(s)
  BY <1>0
<1> HIDE DEF both
<1>2. CASE marked
  <2> DEFINE more == Append(both, Round)
  <2>1. Round \in Entry
    BY Zenon DEF Entry
  <2>2. more \in Seq(Entry) /\ Len(more) = Len(both) + 1 /\ more[Len(both) + 1] = Round
        /\ \A i \in 1..Len(both) : more[i] = both[i]
    BY <1>1, <2>1
  <2>3. Copied(d, s, marked) = more
    BY <1>2, Zenon DEF Copied, both
  <2> HIDE DEF more
  <2>4. /\ Len(more) \in Nat /\ Len(more) = Len(d) + Len(s) + 1
        /\ more[Len(d) + Len(s) + 1] = Round
        /\ \A i \in 1..Len(d) : more[i] = d[i]
        /\ \A i \in (Len(d) + 1)..(Len(d) + Len(s)) :
             more[i] = s[i - Len(d)] /\ i - Len(d) \in 1..Len(s)
    BY <1>0, <1>1, <2>2
  <2> QED
    BY Zenon, <1>2, <2>2, <2>3, <2>4
<1>3. CASE ~marked
  <2>1. Copied(d, s, marked) = both
    BY <1>3, Zenon DEF Copied, both
  <2>2. Len(both) \in Nat
    BY <1>0, <1>1
  <2> QED
    BY Zenon, <1>1, <1>3, <2>1, <2>2
<1> QED
  BY <1>2, <1>3, Zenon

(* The marks in it are those of d, and the new one at its end *)
LEMMA CopiedMarks ==
  ASSUME NEW d \in Seq(Entry), NEW s \in Seq(Event), NEW marked \in BOOLEAN,
         NEW b \in 1..Len(Copied(d, s, marked)), IsRound(Copied(d, s, marked), b)
  PROVE  \/ b \in 1..Len(d) /\ IsRound(d, b)
         \/ marked /\ b = Len(d) + Len(s) + 1 /\ b = Len(Copied(d, s, marked))
<1> DEFINE more == Copied(d, s, marked)
<1>0. /\ Len(d) \in Nat /\ Len(s) \in Nat
      /\ Len(more) \in Nat
      /\ (marked => Len(more) = Len(d) + Len(s) + 1) /\ (~marked => Len(more) = Len(d) + Len(s))
      /\ \A i \in 1..Len(d) : more[i] = d[i]
      /\ \A i \in (Len(d) + 1)..(Len(d) + Len(s)) : more[i] = s[i - Len(d)] /\ i - Len(d) \in 1..Len(s)
  BY CopiedFacts
<1> HIDE DEF more
<1>1. CASE b <= Len(d)
  BY <1>0, <1>1 DEF IsRound, more
<1>2. CASE b > Len(d) /\ b <= Len(d) + Len(s)
  <2>1. b \in (Len(d) + 1)..(Len(d) + Len(s))
    BY <1>0, <1>2
  <2>2. more[b] = s[b - Len(d)] /\ b - Len(d) \in 1..Len(s)
    BY <1>0, <2>1, Zenon
  <2>3. more[b] \in Event
    BY <2>2
  <2> QED
    BY <2>3, EventFacts, Zenon DEF IsRound, more
<1>3. CASE b > Len(d) + Len(s)
  BY <1>0, <1>3 DEF more
<1> QED
  BY <1>0, <1>1, <1>2, <1>3

(* So the events that have a mark behind them are events of d *)
LEMMA CopiedBehind ==
  ASSUME NEW d \in Seq(Entry), NEW s \in Seq(Event), NEW marked \in BOOLEAN,
         NEW i \in 1..Len(Copied(d, s, marked)), ~IsRound(Copied(d, s, marked), i)
  PROVE  LET more == Copied(d, s, marked)
         IN  /\ ~marked /\ Behind1(more, i) => i \in 1..Len(d) /\ Behind1(d, i)
             /\ ~marked /\ Behind2(more, i) => i \in 1..Len(d) /\ Behind2(d, i)
             /\ Behind2(more, i) => i \in 1..Len(d) /\ Behind1(d, i)
             /\ \A j \in 1..Len(more) :
                  ~IsRound(more, j) /\ Between2(more, i, j) =>
                    /\ i \in 1..Len(d)
                    /\ j \in 1..Len(d) => Between2(d, i, j)
                    /\ j \notin 1..Len(d) =>
                         Behind2(d, i) /\ j \in (Len(d) + 1)..(Len(d) + Len(s))
<1> DEFINE more == Copied(d, s, marked)
<1>0. Len(d) \in Nat /\ Len(s) \in Nat /\ Len(more) \in Nat
      /\ (marked => Len(more) = Len(d) + Len(s) + 1) /\ (~marked => Len(more) = Len(d) + Len(s))
  BY CopiedFacts
<1>1. \A b \in 1..Len(more) : IsRound(more, b) =>
        \/ b \in 1..Len(d) /\ IsRound(d, b)
        \/ marked /\ b = Len(d) + Len(s) + 1 /\ b = Len(more)
  BY CopiedMarks, Zenon
<1>2. marked => IsRound(more, Len(d) + Len(s) + 1)
  BY Zenon, CopiedFacts, EventFacts DEF IsRound
<1> HIDE DEF more
<1>3. ASSUME ~marked, Behind1(more, i)
      PROVE  i \in 1..Len(d) /\ Behind1(d, i)
  <2>1. PICK a \in (i + 1)..Len(more) : IsRound(more, a)
    BY <1>3, Zenon DEF Behind1
  <2>2. a \in 1..Len(d) /\ IsRound(d, a)
    BY <1>0, <1>1, <1>3, <2>1 DEF more
  <2> QED
    BY <1>0, <2>1, <2>2 DEF Behind1, more
<1>4. ASSUME Behind2(more, i)
      PROVE  i \in 1..Len(d) /\ Behind1(d, i) /\ (~marked => Behind2(d, i))
  <2>1. PICK a \in (i + 1)..Len(more), b \in (i + 1)..Len(more) :
          a < b /\ IsRound(more, a) /\ IsRound(more, b)
    BY <1>4, Zenon DEF Behind2
  <2>2. a \in 1..Len(d) /\ IsRound(d, a)
    BY <1>0, <1>1, <2>1 DEF more
  <2>3. ~marked => b \in 1..Len(d) /\ IsRound(d, b)
    BY <1>0, <1>1, <2>1 DEF more
  <2> QED
    BY <1>0, <2>1, <2>2, <2>3 DEF Behind1, Behind2, more
<1>5. ASSUME NEW j \in 1..Len(more), ~IsRound(more, j), Between2(more, i, j)
      PROVE  /\ i \in 1..Len(d)
             /\ j \in 1..Len(d) => Between2(d, i, j)
             /\ j \notin 1..Len(d) => Behind2(d, i) /\ j \in (Len(d) + 1)..(Len(d) + Len(s))
  <2>1. PICK a \in (i + 1)..(j - 1), b \in (i + 1)..(j - 1) :
          a < b /\ IsRound(more, a) /\ IsRound(more, b)
    BY <1>5, Zenon DEF Between2
  <2>2. a \in 1..Len(more) /\ b \in 1..Len(more) /\ b < Len(more)
    BY <1>0 DEF more
  <2>3. a \in 1..Len(d) /\ IsRound(d, a) /\ b \in 1..Len(d) /\ IsRound(d, b)
    BY <1>0, <1>1, <2>1, <2>2
  <2>4. i \in 1..Len(d)
    BY <1>0, <2>3 DEF more
  <2>5. j \in 1..Len(d) => Between2(d, i, j)
    BY <2>1, <2>3, Zenon DEF Between2
  <2>6. j \notin 1..Len(d) => j \in (Len(d) + 1)..(Len(d) + Len(s))
    BY <1>0, <1>2, <1>5 DEF more
  <2>7. Behind2(d, i)
    BY <1>0, <2>1, <2>3 DEF Behind2
  <2> QED
    BY <2>4, <2>5, <2>6, <2>7, Zenon
<1> QED
  BY <1>3, <1>4, <1>5, Zenon DEF more

(* The kernel writes an event: it is not before anything recorded *)
LEMMA KernelWritesInv ==
  ASSUME Inv, NEW c \in Queues, KernelWrites(c)
  PROVE  Inv'
<1> DEFINE e == NextEvent(c)
           events == trace.events
<1>0. /\ phase = "record" /\ phase' = "record" /\ RecordOK /\ c \in Unwritten
      /\ \A d \in Unwritten : e.ts <= NextEvent(d).ts
      /\ written' = [written EXCEPT ![c] = @ + 1]
      /\ ring' = ring \/ ring' = [ring EXCEPT ![c] = Append(@, e)]
      /\ mmap' = mmap /\ data' = data /\ oe' = oe /\ delivered' = delivered /\ trace' = trace
  BY Zenon DEF Inv, KernelWrites, scriptVars, queueVars
<1>1. /\ events \in [Queues -> Seq(Event)] /\ trace.nr_mmaps \in Nat
      /\ \A d \in Queues : d >= trace.nr_mmaps => events[d] = <<>>
      /\ \A d \in Queues : \A i \in 1..(Len(events[d]) - 1) : events[d][i].ts <= events[d][i + 1].ts
  <2>1. TraceOK(trace) /\ nr_queues \in Nat
    BY TraceAssumption, Zenon DEF Inv, Types
  <2>2. trace.nr_mmaps \in Nat
    BY <2>1 DEF TraceOK
  <2> QED
    BY <2>1, <2>2, Zenon DEF TraceOK
<1>2. /\ written \in [Queues -> Nat] /\ ring \in [Queues -> Seq(Event)] /\ mmap \in Nat
      /\ nr_queues \in Nat
  BY <1>0, <1>1, TraceAssumption DEF RecordOK
<1>3. /\ \A d \in Unwritten : d \in Queues /\ written[d] + 1 \in 1..Len(events[d])
      /\ \A d \in Unwritten : NextEvent(d) \in Event /\ NextEvent(d).ts \in Nat
  <2>1. ASSUME NEW d \in Unwritten
        PROVE  d \in Queues /\ written[d] + 1 \in 1..Len(events[d]) /\ NextEvent(d) \in Event
    <3>1. d \in Queues /\ written[d] < Len(events[d])
      BY Zenon DEF Unwritten
    <3>2. written[d] \in Nat /\ events[d] \in Seq(Event)
      BY <1>1, <1>2, <3>1, Zenon
    <3>3. written[d] + 1 \in 1..Len(events[d])
      BY <3>1, <3>2
    <3> QED
      BY <3>1, <3>2, <3>3 DEF NextEvent
  <2> QED
    BY <2>1, EventFacts, Zenon
<1>4. ~(c >= trace.nr_mmaps)
  BY <1>0, <1>1, <1>3
<1> HIDE DEF e
<1>5. e \in Event /\ e.ts \in Nat
  BY <1>0, <1>3, Zenon DEF e
<1>6. /\ written' \in [Queues -> Nat] /\ ring' \in [Queues -> Seq(Event)]
      /\ \A d \in Queues : d >= trace.nr_mmaps => ring'[d] = <<>>
  <2>1. written' \in [Queues -> Nat]
    BY <1>0, <1>2
  <2>2. CASE ring' = ring
    BY <1>0, <1>2, <2>1, <2>2, Zenon DEF RecordOK
  <2>3. CASE ring' = [ring EXCEPT ![c] = Append(@, e)]
    <3>1. ring[c] \in Seq(Event) /\ Append(ring[c], e) \in Seq(Event)
      BY <1>2, <1>5
    <3>2. ring' \in [Queues -> Seq(Event)]
      BY <1>2, <2>3, <3>1, Zenon
    <3>3. \A d \in Queues : d >= trace.nr_mmaps => ring'[d] = ring[d]
      BY <1>2, <1>4, <2>3, Zenon
    <3> QED
      BY <1>0, <2>1, <3>2, <3>3, Zenon DEF RecordOK
  <2> QED
    BY <1>0, <2>2, <2>3, Zenon
<1>7. \A d \in Queues : \A k \in 1..Len(ring'[d]) :
        (k \in 1..Len(ring[d]) /\ ring'[d][k] = ring[d][k]) \/ ring'[d][k] = e
  <2>1. CASE ring' = ring
    BY <2>1, Zenon
  <2>2. CASE ring' = [ring EXCEPT ![c] = Append(@, e)]
    <3> TAKE d \in Queues
    <3>1. CASE d = c
      <4>1. ring'[d] = Append(ring[c], e) /\ ring[c] \in Seq(Event)
        BY <1>2, <2>2, <3>1, Zenon
      <4> QED
        BY <1>5, <3>1, <4>1
    <3>2. CASE d # c
      BY <1>2, <2>2, <3>2, Zenon
    <3> QED
      BY <3>1, <3>2, Zenon
  <2> QED
    BY <1>0, <2>1, <2>2, Zenon
<1>8. /\ \A d \in Queues : \A k \in 1..Len(ring[d]) : ring[d][k].ts <= e.ts
      /\ \A i \in 1..Len(data) : ~IsRound(data, i) => data[i].ts <= e.ts
  BY <1>0, Zenon DEF RecordOK, e
<1>9. ASSUME NEW d \in Unwritten'
      PROVE  e.ts <= NextEvent(d)' .ts /\ NextEvent(d)' \in Event
  <2>1. d \in Queues /\ written'[d] < Len(events[d])
    BY <1>0, Zenon DEF Unwritten
  <2>2. written[d] \in Nat /\ events[d] \in Seq(Event) /\ Len(events[d]) \in Nat
    BY <1>1, <1>2, <2>1
  <2>3. CASE d = c
    <3>1. written'[d] = written[d] + 1
      BY <1>0, <1>2, <2>1, <2>3, Zenon
    <3>2. NextEvent(d)' = events[d][written[d] + 1 + 1]
      BY <1>0, <3>1, Zenon DEF NextEvent
    <3>3. written[d] + 1 \in 1..(Len(events[d]) - 1) /\ written[d] + 1 + 1 \in 1..Len(events[d])
      BY <2>1, <2>2, <3>1
    <3>4. e = events[d][written[d] + 1]
      BY <2>3, Zenon DEF e, NextEvent
    <3>5. events[d][written[d] + 1].ts <= events[d][written[d] + 1 + 1].ts
      BY <1>1, <2>1, <3>3, Zenon
    <3>6. events[d][written[d] + 1 + 1] \in Event
      BY <2>2, <3>3
    <3> QED
      BY <3>2, <3>4, <3>5, <3>6, Zenon
  <2>4. CASE d # c
    <3>1. written'[d] = written[d] /\ NextEvent(d)' = NextEvent(d) /\ d \in Unwritten
      BY <1>0, <1>2, <2>1, <2>4, Zenon DEF NextEvent, Unwritten
    <3> QED
      BY <1>0, <1>3, <3>1, Zenon
  <2> QED
    BY <2>3, <2>4, Zenon
<1>10. ASSUME NEW d \in Unwritten'
       PROVE  /\ \A x \in Queues : \A k \in 1..Len(ring'[x]) : ring'[x][k].ts <= NextEvent(d)' .ts
              /\ \A i \in 1..Len(data') : ~IsRound(data', i) => data'[i].ts <= NextEvent(d)' .ts
  <2> DEFINE f == NextEvent(d)'
  <2>1. e.ts <= f.ts /\ f.ts \in Nat /\ e.ts \in Nat
    BY <1>5, <1>9, EventFacts, Zenon
  <2> HIDE DEF f
  <2>2. ASSUME NEW x \in Queues, NEW k \in 1..Len(ring'[x])
        PROVE  ring'[x][k].ts <= f.ts
    <3>1. ring'[x][k].ts <= e.ts
      BY <1>5, <1>7, <1>8
    <3>2. ring'[x][k].ts \in Nat
      BY <1>6, EventFacts
    <3> QED
      BY <2>1, <3>1, <3>2
  <2>3. ASSUME NEW i \in 1..Len(data), ~IsRound(data, i)
        PROVE  data[i].ts <= f.ts
    <3>1. data[i] \in Event
      BY <2>3, EventFacts DEF Inv, Types, Entry, IsRound
    <3>2. data[i].ts <= e.ts /\ data[i].ts \in Nat
      BY <1>8, <2>3, <3>1, EventFacts, Zenon
    <3> QED
      BY <2>1, <3>2
  <2> QED
    BY <1>0, <2>2, <2>3, Zenon DEF f
<1>11. ASSUME NEW x \in Queues, NEW k \in 1..Len(ring'[x]), NEW i \in 1..Len(data),
              ~IsRound(data, i), IF x < mmap THEN Behind1(data, i) ELSE Behind2(data, i)
       PROVE  data[i].ts <= ring'[x][k].ts
  <2>1. CASE k \in 1..Len(ring[x]) /\ ring'[x][k] = ring[x][k]
    BY <1>0, <1>11, <2>1, Zenon DEF RecordOK
  <2>2. CASE ring'[x][k] = e
    BY <1>8, <1>11, <2>2, Zenon
  <2> QED
    BY <1>7, <2>1, <2>2, Zenon
<1>12. RecordOK'
  <2>1. mmap' \in 0..(trace' .nr_mmaps - 1) /\ oe' = NewEvents /\ delivered' = <<>>
    BY <1>0, Zenon DEF RecordOK
  <2> QED
    BY Zenon, <1>0, <1>6, <1>10, <1>11, <2>1 DEF RecordOK
<1>13. Types' /\ Spread(data') /\ DeliveredFirst'
  BY Zenon, <1>0 DEF Inv, Types, DeliveredFirst
<1> QED
  BY <1>0, <1>12, <1>13, Zenon DEF Inv

(* A pass reads the next buffer: its events are two rounds behind nothing *)
(* that is later.                                                          *)
LEMMA ReadMmapInv ==
  ASSUME Inv, ReadMmap
  PROVE  Inv'
<1> DEFINE s == ring[mmap]
           last == mmap = trace.nr_mmaps - 1
<1>0. /\ phase = "record" /\ phase' = "record" /\ RecordOK
      /\ written' = written /\ oe' = oe /\ delivered' = delivered /\ trace' = trace
      /\ mmap' = (IF last THEN 0 ELSE mmap + 1)
      /\ ring' = [ring EXCEPT ![mmap] = <<>>]
  BY Zenon DEF Inv, ReadMmap, scriptVars, queueVars
<1>1. /\ trace.nr_mmaps \in 1..nr_queues /\ nr_queues \in Nat
      /\ ring \in [Queues -> Seq(Event)] /\ mmap \in 0..(trace.nr_mmaps - 1) /\ data \in Seq(Entry)
  BY Zenon, <1>0, TraceAssumption DEF TraceOK, Inv, Types, RecordOK
<1>2. PICK marked \in BOOLEAN : data' = Copied(data, s, marked) /\ (marked => last)
  <2>1. PICK aux \in BOOLEAN :
          LET found == aux \/ s # <<>>
          IN  data' = IF last /\ (hit \/ found) THEN Append(data \o s, Round) ELSE data \o s
    BY Zenon DEF ReadMmap
  <2> DEFINE marked == last /\ (hit \/ (aux \/ s # <<>>))
  <2>2. marked \in BOOLEAN /\ (marked => last) /\ data' = Copied(data, s, marked)
    BY <2>1, Zenon DEF Copied
  <2> HIDE DEF marked
  <2> QED
    BY <2>2, Zenon
<1>3. mmap \in Queues /\ s \in Seq(Event) /\ mmap \in Nat
  BY <1>1 DEF Queues
<1> HIDE DEF s
<1>4. /\ data' \in Seq(Entry)
      /\ \A i \in 1..Len(data) : data'[i] = data[i] /\ (IsRound(data', i) <=> IsRound(data, i))
      /\ \A i \in (Len(data) + 1)..(Len(data) + Len(s)) :
           data'[i] = s[i - Len(data)] /\ i - Len(data) \in 1..Len(s)
  BY Zenon, <1>1, <1>2, <1>3, CopiedFacts DEF IsRound
<1>5. ASSUME NEW i \in 1..Len(data'), ~IsRound(data', i)
      PROVE  /\ ~marked /\ Behind1(data', i) => i \in 1..Len(data) /\ Behind1(data, i)
             /\ ~marked /\ Behind2(data', i) => i \in 1..Len(data) /\ Behind2(data, i)
             /\ Behind2(data', i) => i \in 1..Len(data) /\ Behind1(data, i)
             /\ \A j \in 1..Len(data') :
                  ~IsRound(data', j) /\ Between2(data', i, j) =>
                    /\ i \in 1..Len(data)
                    /\ j \in 1..Len(data) => Between2(data, i, j)
                    /\ j \notin 1..Len(data) =>
                         Behind2(data, i) /\ j \in (Len(data) + 1)..(Len(data) + Len(s))
  BY <1>1, <1>2, <1>3, <1>5, CopiedBehind, Zenon
<1>6. Spread(data')
  <2> SUFFICES ASSUME NEW i \in 1..Len(data'), NEW j \in 1..Len(data'),
                      ~IsRound(data', i), ~IsRound(data', j), i < j, Between2(data', i, j)
               PROVE  data'[i].ts <= data'[j].ts
    BY Zenon DEF Spread
  <2>1. i \in 1..Len(data) /\ data'[i] = data[i] /\ ~IsRound(data, i)
    BY <1>4, <1>5, Zenon
  <2>2. CASE j \in 1..Len(data)
    <3>1. Between2(data, i, j) /\ data'[j] = data[j] /\ ~IsRound(data, j)
      BY <1>4, <1>5, <2>2, Zenon
    <3> QED
      BY <2>1, <2>2, <3>1, Zenon DEF Spread, Inv
  <2>3. CASE j \notin 1..Len(data)
    <3>1. Behind2(data, i) /\ j \in (Len(data) + 1)..(Len(data) + Len(s))
      BY <1>5, <2>3, Zenon
    <3>2. data'[j] = ring[mmap][j - Len(data)] /\ j - Len(data) \in 1..Len(ring[mmap])
      BY <1>4, <3>1, Zenon DEF s
    <3>3. ~(mmap < mmap)
      BY <1>3
    <3> QED
      BY <1>0, <1>3, <2>1, <3>1, <3>2, <3>3, Zenon DEF RecordOK
  <2> QED
    BY <2>2, <2>3, Zenon
<1>7. /\ ring' \in [Queues -> Seq(Event)] /\ ring'[mmap] = <<>> /\ Len(ring'[mmap]) = 0
      /\ \A c \in Queues : c # mmap => ring'[c] = ring[c]
  BY <1>0, <1>1, <1>3
<1>8. \A c \in Queues : c >= trace.nr_mmaps => ring'[c] = <<>>
  BY <1>0, <1>7, Zenon DEF RecordOK
<1>9. ASSUME NEW c \in Unwritten'
      PROVE  /\ \A d \in Queues : \A k \in 1..Len(ring'[d]) : ring'[d][k].ts <= NextEvent(c)' .ts
             /\ \A i \in 1..Len(data') : ~IsRound(data', i) => data'[i].ts <= NextEvent(c)' .ts
  <2>1. c \in Unwritten /\ NextEvent(c)' = NextEvent(c)
    BY <1>0, Zenon DEF Unwritten, NextEvent
  <2>2. /\ \A d \in Queues : \A k \in 1..Len(ring[d]) : ring[d][k].ts <= NextEvent(c).ts
        /\ \A i \in 1..Len(data) : ~IsRound(data, i) => data[i].ts <= NextEvent(c).ts
    BY <1>0, <2>1, Zenon DEF RecordOK
  <2>3. ASSUME NEW d \in Queues, NEW k \in 1..Len(ring'[d])
        PROVE  ring'[d][k].ts <= NextEvent(c)' .ts
    <3>1. d # mmap
      BY <1>7
    <3> QED
      BY <1>7, <2>1, <2>2, <3>1, Zenon
  <2>4. ASSUME NEW i \in 1..Len(data'), ~IsRound(data', i)
        PROVE  data'[i].ts <= NextEvent(c)' .ts
    <3>1. CASE i \in 1..Len(data)
      BY <1>4, <2>1, <2>2, <2>4, <3>1, Zenon
    <3>2. CASE i \in (Len(data) + 1)..(Len(data) + Len(s))
      <4>1. data'[i] = ring[mmap][i - Len(data)] /\ i - Len(data) \in 1..Len(ring[mmap])
        BY <1>4, <3>2, Zenon DEF s
      <4> QED
        BY <1>3, <2>1, <2>2, <4>1, Zenon
    <3>3. i \in 1..Len(data) \/ i \in (Len(data) + 1)..(Len(data) + Len(s))
      <4>1. /\ Len(data) \in Nat /\ Len(s) \in Nat /\ Len(data') \in Nat
            /\ marked => Len(data') = Len(data) + Len(s) + 1
            /\ ~marked => Len(data') = Len(data) + Len(s)
            /\ marked => data'[Len(data) + Len(s) + 1] = Round
        <5>1. Len(data) \in Nat /\ Len(s) \in Nat
          BY <1>1, <1>3
        <5> QED
          BY Zenon, <1>1, <1>2, <1>3, <5>1, CopiedFacts
      <4>2. marked => i # Len(data) + Len(s) + 1
        BY <2>4, <4>1, EventFacts, Zenon DEF IsRound
      <4> QED
        BY <4>1, <4>2
    <3> QED
      BY <3>1, <3>2, <3>3, Zenon
  <2> QED
    BY <2>3, <2>4, Zenon
<1>10. ASSUME NEW c \in Queues, NEW k \in 1..Len(ring'[c]), NEW i \in 1..Len(data'),
              ~IsRound(data', i), IF c < mmap' THEN Behind1(data', i) ELSE Behind2(data', i)
       PROVE  data'[i].ts <= ring'[c][k].ts
  <2>1. c # mmap /\ ring'[c] = ring[c] /\ k \in 1..Len(ring[c])
    BY <1>7
  <2>2. c \in Nat /\ (last => c < mmap)
    <3>1. c \in Nat
      BY <1>1 DEF Queues
    <3>2. ~(c >= trace.nr_mmaps)
      <4>1. c >= trace.nr_mmaps => Len(ring[c]) = 0
        BY <1>0 DEF RecordOK
      <4> QED
        BY <2>1, <4>1
    <3> QED
      BY <1>1, <2>1, <3>1, <3>2
  <2>3. i \in 1..Len(data) /\ IF c < mmap THEN Behind1(data, i) ELSE Behind2(data, i)
    <3>1. CASE last
      <4>1. mmap' = 0 /\ c < mmap /\ Behind2(data', i)
        BY <1>0, <1>10, <2>2, <3>1
      <4> QED
        BY <1>5, <1>10, <4>1, Zenon
    <3>2. CASE ~last
      <4>1. mmap' = mmap + 1 /\ ~marked
        BY <1>0, <1>2, <3>2, Zenon
      <4>2. CASE c < mmap
        <5>1. Behind1(data', i)
          BY <1>3, <1>10, <2>2, <4>1, <4>2
        <5> QED
          BY <1>5, <1>10, <4>1, <4>2, <5>1, Zenon
      <4>3. CASE ~(c < mmap)
        <5>1. Behind2(data', i)
          BY <1>3, <1>10, <2>1, <2>2, <4>1, <4>3
        <5> QED
          BY <1>5, <1>10, <4>1, <4>3, <5>1, Zenon
      <4> QED
        BY <4>2, <4>3, Zenon
    <3> QED
      BY <3>1, <3>2, Zenon
  <2>4. data'[i] = data[i] /\ ~IsRound(data, i)
    BY <1>4, <1>10, <2>3, Zenon
  <2> QED
    BY <1>0, <2>1, <2>3, <2>4, Zenon DEF RecordOK
<1>11. RecordOK'
  <2>1. written' \in [Queues -> Nat] /\ oe' = NewEvents /\ delivered' = <<>>
    BY <1>0, Zenon DEF RecordOK
  <2>2. mmap' \in 0..(trace' .nr_mmaps - 1)
    BY <1>0, <1>1
  <2> QED
    BY <1>0, <1>7, <1>8, <1>9, <1>10, <2>1, <2>2, Zenon DEF RecordOK
<1>12. Types'
  BY <1>0, <1>4, Zenon DEF Inv, Types
<1>13. DeliveredFirst'
  <2>1. delivered' = <<>> /\ Len(delivered') = 0
    BY <1>0, Zenon DEF RecordOK
  <2> QED
    BY <2>1 DEF DeliveredFirst
<1> QED
  BY Zenon, <1>0, <1>6, <1>11, <1>12, <1>13 DEF Inv

-----------------------------------------------------------------------------
(* What the flush is about does not change while the queues are decoded *)
LEMMA SameQueue ==
  ASSUME Inv, trace' = trace, data' = data, oe' = oe, delivered' = delivered,
         flushing' = flushing
  PROVE  /\ Types' /\ Spread(data') /\ DeliveredFirst'
         /\ FlushOK => FlushOK'
         /\ Due(oe) <=> Due(oe')
<1>1. Types' /\ Spread(data') /\ DeliveredFirst'
  BY Zenon DEF Inv, Types, DeliveredFirst
<1>2. FlushOK => FlushOK'
  BY Zenon DEF FlushOK, LastSurvives
<1> QED
  BY <1>1, <1>2, Zenon

LEMMA StopRecordInv ==
  ASSUME Inv, StopRecord
  PROVE  Inv'
<1>1. /\ phase = "record" /\ phase' = "read" /\ trace' = trace /\ data' = data /\ oe' = oe
      /\ delivered' = delivered /\ flushing' = flushing
  BY Zenon DEF StopRecord, scriptVars, queueVars
<1>2. Types' /\ Spread(data') /\ DeliveredFirst'
  BY <1>1, SameQueue, Zenon
<1>3. oe' = NewEvents
  BY Zenon, <1>1 DEF Inv, RecordOK
<1>4. \A j \in 1..Len(data) : ~IsRound(data, j) => data[j].ts \in Nat
  BY EventFacts DEF Inv, Types, Entry, IsRound
<1>5. ReadBound(data', oe' .next_flush, oe' .max_timestamp)
  <2>1. oe' .next_flush = 0 /\ oe' .max_timestamp = 0
    BY <1>3, NewEventsFacts, Zenon
  <2>2. \A j \in 1..Len(data) : ~IsRound(data, j) => 0 <= data[j].ts
    BY <1>4
  <2> QED
    BY <1>1, <2>1, <2>2, Zenon DEF ReadBound
<1> QED
  BY Zenon, <1>1, <1>2, <1>3, <1>5, NewEventsFacts DEF Inv

LEMMA QueueEventInv ==
  ASSUME Inv, QueueEvent
  PROVE  Inv'
<1> DEFINE e == data[1]
<1>0. /\ phase = "read" /\ phase' = "read" /\ data # <<>> /\ ~IsRound(data, 1)
      /\ oe' = queue_event(oe, e) /\ data' = Tail(data) /\ delivered' = delivered /\ trace' = trace
  BY Zenon DEF QueueEvent, IsRound, queueVars
<1>1. /\ data \in Seq(Entry) /\ QueueOK(oe) /\ LastQueued(oe) /\ Spread(data) /\ trace \in Traces
      /\ ReadBound(data, oe.next_flush, oe.max_timestamp) /\ delivered \in Seq(Event)
  BY <1>0, Zenon DEF Inv, Types
<1>2. 1 \in 1..Len(data) /\ e \in Entry /\ e \in Event
  <2>1. 1 \in 1..Len(data) /\ e \in Entry
    BY <1>0, <1>1
  <2> QED
    BY <1>0, <2>1, EventFacts, Zenon DEF Entry, IsRound
<1> HIDE DEF e
<1>3. /\ QueueOK(oe') /\ LastQueued(oe') /\ oe' .next_flush = oe.next_flush
      /\ oe' .max_timestamp \in {oe.max_timestamp, e.ts}
      /\ \E p \in 1..(Len(oe.list) + 1) : Inserted(oe.list, p, e, oe' .list)
  BY Zenon, <1>0, <1>1, <1>2, QueueEventFacts
<1>4. data' \in Seq(Entry) /\ Spread(data')
  BY <1>0, <1>1, TailFacts, TailSpread, Zenon
<1>5. ReadBound(data', oe' .next_flush, oe' .max_timestamp)
  <2>1. oe.next_flush \in Nat /\ oe.max_timestamp \in Nat
    BY <1>1, Zenon DEF QueueOK
  <2> QED
    BY <1>0, <1>1, <1>3, <2>1, ReadBoundEvent, Zenon DEF e
<1>6. DeliveredFirst'
  <2>1. PICK p \in 1..(Len(oe.list) + 1) : Inserted(oe.list, p, e, oe' .list)
    BY Zenon, <1>3
  <2>2. ASSUME NEW i \in 1..Len(delivered)
        PROVE  /\ \A j \in 1..Len(oe' .list) : delivered[i].ts <= oe' .list[j].ts
               /\ \A j \in 1..Len(data') : ~IsRound(data', j) => delivered[i].ts <= data'[j].ts
    <3>1. /\ \A j \in 1..Len(oe.list) : delivered[i].ts <= oe.list[j].ts
          /\ \A j \in 1..Len(data) : ~IsRound(data, j) => delivered[i].ts <= data[j].ts
      BY <2>2, Zenon DEF Inv, DeliveredFirst
    <3>2. delivered[i].ts <= e.ts
      BY <1>0, <1>2, <3>1, Zenon DEF e
    <3>3. ASSUME NEW j \in 1..Len(oe' .list)
          PROVE  delivered[i].ts <= oe' .list[j].ts
      <4>0. Len(oe.list) \in Nat /\ Len(oe' .list) = Len(oe.list) + 1 /\ p \in Nat
        BY <1>1, <2>1 DEF QueueOK, Inserted
      <4>1. CASE j < p
        <5>1. j \in 1..(p - 1) /\ j \in 1..Len(oe.list)
          BY <4>0, <4>1
        <5> QED
          BY Zenon, <2>1, <3>1, <5>1 DEF Inserted
      <4>2. CASE j = p
        BY <2>1, <3>2, <4>2, Zenon DEF Inserted
      <4>3. CASE j > p
        <5>1. j \in (p + 1)..Len(oe' .list) /\ j - 1 \in 1..Len(oe.list)
          BY <4>0, <4>3
        <5> QED
          BY Zenon, <2>1, <3>1, <5>1 DEF Inserted
      <4> QED
        BY <4>0, <4>1, <4>2, <4>3
    <3>4. ASSUME NEW j \in 1..Len(data'), ~IsRound(data', j)
          PROVE  delivered[i].ts <= data'[j].ts
      <4>1. data'[j] = data[j + 1] /\ j + 1 \in 1..Len(data)
        BY <1>0, <1>1, TailFacts, Zenon
      <4>2. ~IsRound(data, j + 1)
        BY <3>4, <4>1, Zenon DEF IsRound
      <4> QED
        BY <3>1, <4>1, <4>2, Zenon
    <3> QED
      BY <3>3, <3>4, Zenon
  <2> QED
    BY Zenon, <1>0, <2>2 DEF Inv, DeliveredFirst
<1>7. Types'
  BY <1>0, <1>1, <1>3, <1>4, Zenon DEF Types
<1> QED
  BY Zenon, <1>0, <1>3, <1>4, <1>5, <1>6, <1>7 DEF Inv

(* A mark is read, or the end of the file: all that is delivered stays     *)
(* before what is left.                                                    *)
LEMMA DataRead ==
  ASSUME Inv, data # <<>>, data' = Tail(data), delivered' = delivered, oe' .list = oe.list
  PROVE  DeliveredFirst'
<1>1. data \in Seq(Entry)
  BY Zenon DEF Inv, Types
<1>2. ASSUME NEW i \in 1..Len(delivered), NEW j \in 1..Len(data'), ~IsRound(data', j)
      PROVE  delivered[i].ts <= data'[j].ts
  <2>1. data'[j] = data[j + 1] /\ j + 1 \in 1..Len(data)
    BY <1>1, TailFacts, Zenon
  <2>2. ~IsRound(data, j + 1)
    BY <1>2, <2>1, Zenon DEF IsRound
  <2> QED
    BY Zenon, <2>1, <2>2 DEF Inv, DeliveredFirst
<1> QED
  BY <1>2, Zenon DEF Inv, DeliveredFirst

LEMMA SkipAuxInv ==
  ASSUME Inv, SkipAux
  PROVE  Inv'
<1>0. /\ phase = "read" /\ phase' = "read" /\ data # <<>> /\ ~IsRound(data, 1)
      /\ oe' = oe /\ data' = Tail(data) /\ delivered' = delivered /\ trace' = trace
  <2>1. data[1].type = "aux" => data[1].type # "round"
    OBVIOUS
  <2> QED
    BY <2>1, Zenon DEF SkipAux, IsRound, scriptVars, queueVars
<1>1. /\ data \in Seq(Entry) /\ QueueOK(oe) /\ LastQueued(oe) /\ Spread(data) /\ trace \in Traces
      /\ ReadBound(data, oe.next_flush, oe.max_timestamp) /\ delivered \in Seq(Event)
  BY <1>0, Zenon DEF Inv, Types
<1>2. oe.next_flush \in Nat /\ oe.max_timestamp \in Nat
  BY <1>1, Zenon DEF QueueOK
<1>3. oe.max_timestamp \in {oe.max_timestamp, data[1].ts}
  BY Zenon
<1>4. ReadBound(data', oe' .next_flush, oe' .max_timestamp)
  BY <1>0, <1>1, <1>2, <1>3, ReadBoundEvent, Zenon
<1>5. Types' /\ Spread(data')
  BY <1>0, <1>1, TailFacts, TailSpread, Zenon DEF Types
<1>6. DeliveredFirst'
  BY <1>0, DataRead, Zenon
<1> QED
  BY <1>0, <1>1, <1>4, <1>5, <1>6, Zenon DEF Inv

LEMMA FinishedRoundInv ==
  ASSUME Inv, FinishedRound
  PROVE  Inv'
<1>0. /\ phase = "read" /\ data # <<>> /\ IsRound(data, 1) /\ data' = Tail(data)
      /\ delivered' = delivered /\ trace' = trace
      /\ phase' = (IF oe.list = <<>> THEN "read" ELSE "flush")
      /\ oe' = oe
      /\ oe.list # <<>> => flushing' = [how |-> "ROUND", last_ts |-> LastTimestamp(oe)]
  BY Zenon DEF FinishedRound, Flush, FlushBegun, IsRound, queueVars
<1>1. /\ data \in Seq(Entry) /\ QueueOK(oe) /\ LastQueued(oe) /\ Spread(data) /\ trace \in Traces
      /\ ReadBound(data, oe.next_flush, oe.max_timestamp) /\ delivered \in Seq(Event)
  BY Zenon, <1>0 DEF Inv, Types
<1>2. oe.next_flush \in Nat /\ oe.max_timestamp \in Nat /\ oe.list \in Seq(Event)
  BY <1>1, Zenon DEF QueueOK
<1>3. /\ FlushBound(data', oe.next_flush, oe.max_timestamp)
      /\ ReadBound(data', oe.next_flush, oe.max_timestamp)
  BY Zenon, <1>0, <1>1, <1>2, ReadBoundRound
<1>4. Types' /\ Spread(data')
  BY <1>0, <1>1, TailFacts, TailSpread, Zenon DEF Types
<1>5. DeliveredFirst'
  BY <1>0, DataRead, Zenon
<1>6. CASE oe.list = <<>>
  BY Zenon, <1>0, <1>1, <1>3, <1>4, <1>5, <1>6 DEF Inv
<1>7. CASE oe.list # <<>>
  <2>1. flushing' .how = "ROUND" /\ flushing' .last_ts = LastTimestamp(oe) /\ phase' = "flush"
    BY <1>0, <1>7
  <2> DEFINE i == IndexOf(oe.list, oe.last)
  <2>2. i \in 1..Len(oe.list) /\ oe.list[i].id = oe.last
    <3>1. \E k \in 1..Len(oe.list) : oe.list[k].id = oe.last
      BY <1>1, <1>7, Zenon DEF LastQueued
    <3> QED
      BY <3>1, Zenon DEF IndexOf
  <2>3. oe.list[i] \in Event /\ oe.last # 0 /\ oe.list[i].ts \in Nat /\ oe.list[i].ts > 0
    BY <1>2, <2>2, EventFacts
  <2>4. LastTimestamp(oe) = oe.list[i].ts
    BY <2>3, Zenon DEF LastTimestamp
  <2> HIDE DEF i
  <2>5. LastSurvives'
    BY <1>0, <1>2, <2>1, <2>2, <2>3, <2>4 DEF LastSurvives
  <2>6. FlushOK'
    BY Zenon, <1>0, <1>3, <2>1, <2>5 DEF FlushOK
  <2> QED
    BY <1>4, <1>5, <2>1, <2>6, Zenon DEF Inv
<1> QED
  BY <1>6, <1>7, Zenon

LEMMA EndOfFileInv ==
  ASSUME Inv, EndOfFile
  PROVE  Inv'
<1>0. /\ phase = "read" /\ data = <<>> /\ data' = data /\ delivered' = delivered /\ trace' = trace
      /\ phase' = (IF oe.list = <<>> THEN "flushed" ELSE "flush")
      /\ oe.list = <<>> => oe' = oe
      /\ oe.list # <<>> => /\ oe' = FlushBegun(oe, "FINAL")
                           /\ flushing' = [how |-> "FINAL", last_ts |-> LastTimestamp(oe)]
  BY Zenon DEF EndOfFile, Flush, queueVars
<1>1. QueueOK(oe') /\ oe' .list = oe.list
  BY Zenon, <1>0, FinalFields DEF Inv, Types
<1>2. Types' /\ Spread(data') /\ DeliveredFirst'
  BY Zenon, <1>0, <1>1 DEF Inv, Types, DeliveredFirst
<1>3. CASE oe.list = <<>>
  BY Zenon, <1>0, <1>2, <1>3 DEF Inv
<1>4. CASE oe.list # <<>>
  <2>1. phase' = "flush" /\ flushing' .how = "FINAL"
    BY <1>0, <1>4
  <2>2. FlushOK'
    BY <1>0, <2>1, Zenon DEF FlushOK, LastSurvives
  <2> QED
    BY Zenon, <1>2, <2>1, <2>2 DEF Inv
<1> QED
  BY <1>3, <1>4

LEMMA DeliverInv ==
  ASSUME Inv, Deliver
  PROVE  Inv'
<1>1. /\ phase = "flush" /\ phase' = "deliver" /\ trace' = trace /\ data' = data /\ oe' = oe
      /\ delivered' = delivered /\ flushing' = flushing /\ Due(oe) /\ until' = oe.list[1].ts
  BY Zenon DEF Deliver, ProcessQueues
<1>2. Types' /\ Spread(data') /\ DeliveredFirst' /\ (FlushOK => FlushOK')
  BY <1>1, SameQueue, Zenon
<1> QED
  BY Zenon, <1>1, <1>2 DEF Inv

(* Decoding leaves the queue and the bound of the call alone *)
LEMMA RunQueuesInv ==
  ASSUME Inv, RunQueues
  PROVE  Inv'
<1>1. trace' = trace /\ until' = until
  BY Zenon DEF RunQueues, Turn, StartTurn, Sample, NoData, DecodeError, Decode
<1>2. /\ phase \in {"deliver", "drain"} /\ phase' = phase /\ data' = data /\ oe' = oe
      /\ delivered' = delivered /\ flushing' = flushing
  BY Zenon DEF RunQueues, scriptVars
<1>3. Types' /\ Spread(data') /\ DeliveredFirst' /\ (FlushOK => FlushOK')
  BY <1>1, <1>2, SameQueue, Zenon
<1> QED
  BY <1>1, <1>2, <1>3, Zenon DEF Inv

(* The event delivered is not after any that is left, and `last' is not it  *)
(* when it is to survive.                                                   *)
LEMMA HandledInv ==
  ASSUME Inv, Handled
  PROVE  Inv'
<1> DEFINE e == oe.list[1]
           list == oe.list
<1>0. /\ phase = "deliver" /\ phase' = "flush" /\ trace' = trace /\ data' = data
      /\ flushing' = flushing /\ delivered' = Append(delivered, e)
      /\ oe' = ordered_events__delete(oe) /\ Due(oe) /\ FlushOK
  BY Zenon DEF Handled, Inv
<1>1. /\ QueueOK(oe) /\ list \in Seq(Event) /\ Sorted(list) /\ delivered \in Seq(Event)
      /\ list # <<>> /\ oe.next_flush \in Nat /\ oe.next_flush # 0 /\ e.ts <= oe.next_flush
      /\ data \in Seq(Entry) /\ trace \in Traces
  BY Zenon, <1>0 DEF Inv, Types, QueueOK, Due
<1>2. /\ Len(list) \in Nat /\ 1 \in 1..Len(list) /\ e \in Event /\ e.ts \in Nat
      /\ Tail(list) \in Seq(Event) /\ Len(Tail(list)) = Len(list) - 1
      /\ \A j \in 1..Len(Tail(list)) : Tail(list)[j] = list[j + 1] /\ j + 1 \in 1..Len(list)
  <2>1. /\ Len(list) \in Nat /\ 1 \in 1..Len(list) /\ e \in Event
        /\ Tail(list) \in Seq(Event) /\ Len(Tail(list)) = Len(list) - 1
    BY <1>1
  <2>2. \A j \in 1..Len(Tail(list)) : Tail(list)[j] = list[j + 1] /\ j + 1 \in 1..Len(list)
    BY <1>1, <2>1
  <2>3. e.ts \in Nat
    BY <2>1, EventFacts, Zenon
  <2> QED
    BY <2>1, <2>2, <2>3, Zenon
<1>3. /\ DOMAIN oe' = QueueFields /\ oe' .list = Tail(list) /\ oe' .last = oe.last
      /\ oe' .max_timestamp = oe.max_timestamp /\ oe' .next_flush = oe.next_flush
  BY <1>0, <1>1, Zenon DEF ordered_events__delete, QueueOK, QueueFields
<1> HIDE DEF e, list
<1>4. QueueOK(oe')
  <2>1. Sorted(Tail(list))
    <3> SUFFICES ASSUME NEW i \in 1..Len(Tail(list)), NEW j \in 1..Len(Tail(list)), i < j
                 PROVE  Tail(list)[i].ts <= Tail(list)[j].ts
      BY Zenon DEF Sorted
    <3>1. i + 1 < j + 1
      BY <1>2
    <3> QED
      BY <1>1, <1>2, <3>1, Zenon DEF Sorted
  <2> QED
    BY <1>1, <1>2, <1>3, <2>1, Zenon DEF QueueOK
<1>5. ASSUME NEW j \in 1..Len(data), ~IsRound(data, j)
      PROVE  e.ts <= data[j].ts
  <2>1. flushing.how = "ROUND" /\ FlushBound(data, oe.next_flush, oe.max_timestamp)
    BY <1>0 DEF FlushOK
  <2>2. oe.next_flush <= data[j].ts
    BY <1>5, <2>1, Zenon DEF FlushBound
  <2>3. data[j] \in Event
    BY <1>1, <1>5, EventFacts DEF Entry, IsRound
  <2> QED
    BY <1>1, <1>2, <2>2, <2>3, EventFacts
<1>6. \A j \in 1..Len(Tail(list)) : e.ts <= Tail(list)[j].ts
  <2> TAKE j \in 1..Len(Tail(list))
  <2>1. 1 < j + 1 /\ j + 1 \in 1..Len(list) /\ Tail(list)[j] = list[j + 1]
    BY <1>2
  <2> QED
    BY <1>1, <1>2, <2>1, Zenon DEF Sorted, e, list
<1>7. /\ Len(delivered) \in Nat /\ delivered' \in Seq(Event) /\ Len(delivered') = Len(delivered) + 1
      /\ \A i \in 1..Len(delivered) : delivered'[i] = delivered[i]
      /\ delivered'[Len(delivered) + 1] = e
  BY <1>0, <1>1, <1>2
<1>8. ASSUME NEW i \in 1..Len(delivered)
      PROVE  /\ delivered[i].ts <= e.ts
             /\ \A j \in 1..Len(Tail(list)) : delivered[i].ts <= Tail(list)[j].ts
             /\ \A j \in 1..Len(data) : ~IsRound(data, j) => delivered[i].ts <= data[j].ts
  <2>1. /\ \A j \in 1..Len(list) : delivered[i].ts <= list[j].ts
        /\ \A j \in 1..Len(data) : ~IsRound(data, j) => delivered[i].ts <= data[j].ts
    BY Zenon DEF Inv, DeliveredFirst, list
  <2>2. delivered[i].ts <= e.ts
    BY <1>2, <2>1, Zenon DEF e, list
  <2> QED
    BY <1>2, <2>1, <2>2, Zenon
<1>9. DeliveredFirst'
  <2>1. ASSUME NEW i \in 1..Len(delivered'), NEW j \in 1..Len(delivered'), i < j
        PROVE  delivered'[i].ts <= delivered'[j].ts
    <3>1. i \in 1..Len(delivered) /\ delivered'[i] = delivered[i]
      BY <1>7, <2>1
    <3>2. CASE j \in 1..Len(delivered)
      BY Zenon, <1>7, <2>1, <3>1, <3>2 DEF Inv, DeliveredFirst
    <3>3. CASE j = Len(delivered) + 1
      BY Zenon, <1>7, <1>8, <3>1, <3>3
    <3> QED
      BY <1>7, <3>2, <3>3
  <2>2. ASSUME NEW i \in 1..Len(delivered')
        PROVE  /\ \A j \in 1..Len(oe' .list) : delivered'[i].ts <= oe' .list[j].ts
               /\ \A j \in 1..Len(data') : ~IsRound(data', j) => delivered'[i].ts <= data'[j].ts
    <3>1. CASE i \in 1..Len(delivered)
      BY <1>0, <1>3, <1>7, <1>8, <3>1, Zenon
    <3>2. CASE i = Len(delivered) + 1
      BY Zenon, <1>0, <1>3, <1>5, <1>6, <1>7, <3>2
    <3> QED
      BY <1>7, <3>1, <3>2
  <2> QED
    BY Zenon, <2>1, <2>2 DEF DeliveredFirst
<1>10. LastSurvives'
  <2> SUFFICES ASSUME flushing' .how = "ROUND",
                      oe' .next_flush = 0 \/ ~(flushing' .last_ts <= oe' .next_flush)
               PROVE  \E i \in 1..Len(oe' .list) :
                        oe' .list[i].id = oe' .last /\ oe' .list[i].ts > oe' .next_flush
    BY Zenon DEF LastSurvives
  <2>1. PICK i \in 1..Len(list) : list[i].id = oe.last /\ list[i].ts > oe.next_flush
    BY <1>0, <1>3, Zenon DEF FlushOK, LastSurvives, list
  <2>2. list[i].ts \in Nat
    BY <1>1, EventFacts
  <2>3. i # 1
    BY <1>1, <1>2, <2>1, <2>2 DEF e, list
  <2>4. i - 1 \in 1..Len(Tail(list)) /\ (i - 1) + 1 = i
    BY <1>2, <2>3
  <2>5. Tail(list)[i - 1] = list[i]
    BY <1>2, <2>4, Zenon
  <2> QED
    BY Zenon, <1>3, <2>1, <2>4, <2>5
<1>11. FlushOK'
  BY <1>0, <1>3, <1>10, Zenon DEF FlushOK
<1>12. Types' /\ Spread(data')
  BY <1>0, <1>1, <1>4, <1>7, Zenon DEF Inv, Types
<1> QED
  BY <1>0, <1>9, <1>11, <1>12, Zenon DEF Inv

(* After a flush the search starts from an event of the list again *)
LEMMA FlushedInv ==
  ASSUME Inv, Flushed
  PROVE  Inv'
<1> DEFINE list == oe.list
<1>0. /\ phase = "flush" /\ ~Due(oe) /\ trace' = trace /\ data' = data /\ delivered' = delivered
      /\ oe' = FlushDone(oe, flushing.how, flushing.last_ts) /\ FlushOK
      /\ phase' = (IF flushing.how = "FINAL" THEN "flushed" ELSE "read")
  BY Zenon DEF Flushed, Inv, queueVars
<1>1. /\ QueueOK(oe) /\ list \in Seq(Event) /\ Sorted(list) /\ Len(list) \in Nat
      /\ oe.next_flush \in Nat /\ oe.max_timestamp \in Nat /\ oe.last \in Nat
  <2>1. QueueOK(oe)
    BY Zenon DEF Inv, Types
  <2>2. list \in Seq(Event)
    BY <2>1, Zenon DEF QueueOK
  <2> QED
    BY <2>1, <2>2 DEF QueueOK
<1>2. /\ DOMAIN oe' = QueueFields /\ oe' .list = list /\ oe' .last = Relocated(oe, flushing.last_ts)
      /\ oe' .max_timestamp = oe.max_timestamp
      /\ oe' .next_flush = (IF flushing.how = "ROUND" THEN oe.max_timestamp ELSE oe.next_flush)
  BY <1>0, <1>1, Zenon DEF FlushDone, QueueOK, QueueFields
<1>3. list # <<>> => Len(list) \in 1..Len(list) /\ list[Len(list)].id \in Nat
  BY <1>1, EventFacts
<1>4. Relocated(oe, flushing.last_ts) \in Nat
  BY <1>1, <1>3, Zenon DEF Relocated
<1>5. QueueOK(oe')
  BY <1>1, <1>2, <1>4, Zenon DEF QueueOK
<1>6. Types' /\ Spread(data') /\ DeliveredFirst'
  BY Zenon, <1>0, <1>2, <1>5 DEF Inv, Types, DeliveredFirst
<1>7. CASE flushing.how = "FINAL"
  BY <1>0, <1>6, <1>7, Zenon DEF Inv
<1>8. CASE flushing.how = "ROUND"
  <2>1. phase' = "read" /\ oe' .next_flush = oe.max_timestamp
    BY <1>0, <1>2, <1>8, Zenon
  <2>2. FlushBound(data, oe.next_flush, oe.max_timestamp)
    BY <1>0, <1>8, Zenon DEF FlushOK
  <2>3. \A j \in 1..Len(data) : Before2(data, j) => Before1(data, j)
    BY Zenon DEF Before1, Before2
  <2>4. ReadBound(data', oe' .next_flush, oe' .max_timestamp)
    BY <1>0, <1>2, <2>1, <2>2, <2>3, Zenon DEF ReadBound, FlushBound
  <2>5. LastQueued(oe')
    <3>1. CASE oe.next_flush = 0 \/ ~(flushing.last_ts <= oe.next_flush)
      <4>1. PICK i \in 1..Len(list) : list[i].id = oe.last
        BY <1>0, <1>8, <3>1, Zenon DEF FlushOK, LastSurvives
      <4>2. list # <<>>
        BY <4>1
      <4>3. oe' .last = oe.last
        BY <1>2, <3>1, <4>2, Zenon DEF Relocated
      <4> QED
        BY <1>2, <4>1, <4>2, <4>3, Zenon DEF LastQueued
    <3>2. CASE oe.next_flush # 0 /\ flushing.last_ts <= oe.next_flush
      <4>1. CASE list = <<>>
        BY <1>2, <3>2, <4>1, Zenon DEF Relocated, LastQueued
      <4>2. CASE list # <<>>
        <5>1. oe' .last = list[Len(list)].id
          BY <1>2, <3>2, <4>2, Zenon DEF Relocated
        <5> QED
          BY <1>2, <1>3, <4>2, <5>1, Zenon DEF LastQueued
      <4> QED
        BY <4>1, <4>2, Zenon
    <3> QED
      BY <3>1, <3>2, Zenon
  <2> QED
    BY <1>6, <2>1, <2>4, <2>5, Zenon DEF Inv
<1> QED
  BY <1>0, <1>7, <1>8, Zenon DEF FlushOK

LEMMA DrainInv ==
  ASSUME Inv, IntelPtFlush \/ Finish
  PROVE  Inv'
<1>1. /\ phase' \in {"drain", "done"} /\ trace' = trace /\ data' = data /\ oe' = oe
      /\ delivered' = delivered /\ flushing' = flushing
  BY Zenon DEF IntelPtFlush, Finish, ProcessQueues, scriptVars, queueVars
<1>2. Types' /\ Spread(data') /\ DeliveredFirst'
  BY <1>1, SameQueue, Zenon
<1> QED
  BY <1>1, <1>2, Zenon DEF Inv

LEMMA StutterInv ==
  ASSUME Inv, UNCHANGED vars
  PROVE  Inv'
<1>1. /\ phase' = phase /\ trace' = trace /\ data' = data /\ oe' = oe /\ delivered' = delivered
      /\ flushing' = flushing /\ until' = until /\ written' = written /\ ring' = ring
      /\ mmap' = mmap
  BY Zenon DEF vars, recordVars, scriptVars, queueVars
<1>2. Types' /\ Spread(data') /\ DeliveredFirst' /\ (FlushOK => FlushOK')
  BY <1>1, SameQueue, Zenon
<1>3. RecordOK => RecordOK'
  BY Zenon, <1>1 DEF RecordOK, Unwritten, NextEvent
<1> QED
  BY <1>1, <1>2, <1>3, Zenon DEF Inv

LEMMA InvNext ==
  Inv /\ [Next]_vars => Inv'
<1> SUFFICES ASSUME Inv, [Next]_vars PROVE Inv'
  BY Zenon
<1>1. CASE Record
  BY <1>1, KernelWritesInv, ReadMmapInv, StopRecordInv, Zenon DEF Record
<1>2. CASE Script
  BY <1>2, QueueEventInv, SkipAuxInv, FinishedRoundInv, EndOfFileInv, DeliverInv, RunQueuesInv,
     HandledInv, FlushedInv, DrainInv DEF Script
<1>3. CASE UNCHANGED vars
  BY <1>3, StutterInv, Zenon
<1> QED
  BY <1>1, <1>2, <1>3, Zenon DEF Next

-----------------------------------------------------------------------------
(* perf delivers the records of all CPUs in the order of their times, and  *)
(* has read every earlier one when it decodes the queues up to the time of *)
(* a record (perf_event__process_finished_round, __ordered_events__flush). *)
THEOREM RecordsInOrder ==
  Spec => []DeliveredInOrder
<1>1. Init => Inv
  BY InvInit, Zenon
<1>2. Inv /\ [Next]_vars => Inv'
  BY InvNext, Zenon
<1>3. Inv => DeliveredInOrder
  BY InvOrder, Zenon
<1> QED
  BY <1>1, <1>2, <1>3, PTL DEF Spec

(* The list of queue_event stays sorted and the event it starts to search  *)
(* from is in the list, across flushes that delete events.                 *)
THEOREM QueueStaysSound ==
  Spec => []QueueSound
<1>1. Init => Inv
  BY InvInit
<1>2. Inv /\ [Next]_vars => Inv'
  BY InvNext
<1>3. Inv => QueueSound
  BY InvQueue, Zenon
<1> QED
  BY <1>1, <1>2, <1>3, PTL DEF Spec
=============================================================================
