----------------------------- MODULE DTreeLemmas -----------------------------
(***************************************************************************)
(* The inductive invariant of DTree that relates the watches, the events   *)
(* still to come and the cache, and lemmas about what the queue of events  *)
(* and the cache become when they are changed.                             *)
(***************************************************************************)
EXTENDS DTree, SequenceTheorems, FiniteSetTheorems, TLAPS

\* The events that tell of the end of a watch.
IsGone(e) == e.mask \in {"DELETE_SELF", "UNMOUNT"}
GoneAt(s) == {i \in 1 .. Len(s) : IsGone(s[i])}
GoneWds(s) == {s[i].wd : i \in GoneAt(s)}
Lost(s) == \E i \in 1 .. Len(s) : s[i] = Overflow

IsSeq(s) == s \in Seq(Range(s))

\* A watch whose end is reported has been given out, has gone, and is reported
\* once.
GoneOnce(s, W, next) ==
    \A i \in GoneAt(s) : /\ s[i].wd \in (1 .. next - 1) \ W
                         /\ \A j \in GoneAt(s) : s[j].wd = s[i].wd => i = j

\* The kernel's side: descriptors are fresh and a directory has one watch.
WatchesOk(w, next) == /\ next \in Nat \ {0} /\ DOMAIN w \subseteq 1 .. next - 1
                      /\ \A v, x \in DOMAIN w : w[v].ino = w[x].ino => v = x

\* The program's side: an array of slots, and each descriptor in one of them.
CacheOk(c) == /\ IsSeq(c)
              /\ \A j \in 1 .. Len(c) : c[j] = [wd |-> c[j].wd, path |-> c[j].path]
CachedWds(c) == {c[j].wd : j \in Used(c)}
Distinct(c) == \A i, j \in Used(c) : c[i].wd = c[j].wd => i = j

\* WatchesAreCached in terms of positions.
Synced(s, c, W) == ~Lost(s) => CachedWds(c) = W \cup GoneWds(s) /\ Distinct(c)

\* The buffer b, the queue q, the cache c and the watches w fit together.
Fits(b, q, c, w, next) ==
    /\ IsSeq(b) /\ IsSeq(q) /\ CacheOk(c) /\ WatchesOk(w, next)
    /\ GoneOnce(b \o q, DOMAIN w, next) /\ Synced(b \o q, c, DOMAIN w)

\* The buffer is empty between two reads.
BufferUsed == pc \in {"select", "read"} \/ (pc = "walk" /\ after \in {"select", "read"})
              => buf = << >>

WatchInv == pc \notin Stopped => Fits(buf, queue, cache, watch, nextWd) /\ BufferUsed

-----------------------------------------------------------------------------
(* Sequences.                                                              *)

\* A sequence over any set is one over its range.
LEMMA SeqRange == ASSUME NEW S, NEW s \in Seq(S) PROVE IsSeq(s)
BY DEF IsSeq, Range

\* What is in a sequence.
LEMMA InRange ==
    ASSUME NEW s, IsSeq(s)
    PROVE  /\ Len(s) \in Nat /\ DOMAIN s = 1 .. Len(s)
           /\ \A x : x \in Range(s) <=> \E i \in 1 .. Len(s) : s[i] = x
BY DEF IsSeq, Range

\* One sequence after another.
LEMMA Joined ==
    ASSUME NEW s, NEW t, IsSeq(s), IsSeq(t)
    PROVE  /\ IsSeq(s \o t) /\ Len(s \o t) = Len(s) + Len(t)
           /\ \A i \in 1 .. Len(s) : (s \o t)[i] = s[i]
           /\ \A i \in Len(s) + 1 .. Len(s) + Len(t) : (s \o t)[i] = t[i - Len(s)]
<1> DEFINE S == Range(s) \cup Range(t)
<1>1. s \in Seq(S) /\ t \in Seq(S)
  BY DEF IsSeq
<1>2. /\ s \o t \in Seq(S) /\ Len(s \o t) = Len(s) + Len(t) /\ Len(s) \in Nat /\ Len(t) \in Nat
      /\ \A i \in 1 .. Len(s) + Len(t) : (s \o t)[i] = IF i <= Len(s) THEN s[i] ELSE t[i - Len(s)]
  BY <1>1, ConcatProperties, LenProperties
<1>3. IsSeq(s \o t)
  BY <1>2, SeqRange
<1> QED
  BY <1>2, <1>3

\* The invariant of the runs, in terms of positions.
LEMMA Cached == ASSUME WatchInv PROVE WatchesAreCached
<1> SUFFICES ASSUME pc \notin Stopped, Fits(buf, queue, cache, watch, nextWd) PROVE WatchesAreCached
  BY DEF WatchInv, WatchesAreCached
<1>1. IsSeq(Pending)
  BY Joined DEF Fits, Pending
<1>2. Overflow \in Range(Pending) <=> Lost(Pending)
  BY <1>1, InRange DEF Lost
<1>3. {e.wd : e \in {x \in Range(Pending) : x.mask \in {"DELETE_SELF", "UNMOUNT"}}} = GoneWds(Pending)
  BY <1>1, InRange DEF GoneWds, GoneAt, IsGone
<1>4. Synced(Pending, cache, DOMAIN watch)
  BY DEF Fits, Pending
<1> QED
  BY <1>2, <1>3, <1>4 DEF WatchesAreCached, CachedWds, Distinct, Synced

-----------------------------------------------------------------------------
(* Posting events.                                                         *)

\* The queue r is q with further events, which tell once each of the end of the
\* watches W and of no other, unless events were lost.
Adds(q, r, W) ==
    /\ IsSeq(r) /\ Len(q) <= Len(r) /\ \A i \in 1 .. Len(q) : r[i] = q[i]
    /\ \A i \in GoneAt(r) : i > Len(q) =>
          /\ r[i].wd \in W
          /\ \A j \in GoneAt(r) : j > Len(q) /\ r[j].wd = r[i].wd => i = j
    /\ Lost(r) \/ W \subseteq GoneWds(r)

\* One more event.
LEMMA Appended ==
    ASSUME NEW q, IsSeq(q), NEW e
    PROVE  /\ IsSeq(Append(q, e)) /\ Len(Append(q, e)) = Len(q) + 1
           /\ \A i \in 1 .. Len(q) : Append(q, e)[i] = q[i]
           /\ Append(q, e)[Len(q) + 1] = e
<1> DEFINE S == Range(q) \cup {e}
<1>1. q \in Seq(S) /\ e \in S
  BY DEF IsSeq
<1> HIDE DEF S
<1>2. Append(q, e) \in Seq(S)
  BY <1>1, AppendProperties
<1>3. IsSeq(Append(q, e))
  BY <1>2, SeqRange
<1> QED
  BY <1>1, <1>3, AppendProperties

\* Overflow tells of no watch.
LEMMA OverflowNotGone == ~IsGone(Overflow)
BY DEF IsGone, Overflow, Event

\* What is lost, or told, stays so when the queue grows.
LEMMA StaysTold ==
    ASSUME NEW q, NEW r, Len(q) \in Nat, Len(r) \in Nat, Len(q) <= Len(r),
           \A i \in 1 .. Len(q) : r[i] = q[i]
    PROVE  (Lost(q) => Lost(r)) /\ GoneWds(q) \subseteq GoneWds(r)
BY DEF Lost, GoneWds, GoneAt

\* No event at all.
LEMMA AddsNothing == ASSUME NEW q, IsSeq(q) PROVE Adds(q, q, {})
BY InRange DEF Adds, GoneAt

\* Posting an event that tells of no end.
LEMMA PostOther == ASSUME NEW q, IsSeq(q), NEW e, ~IsGone(e) PROVE Adds(q, Post(q, e), {})
<1>1. CASE Post(q, e) = q
  BY <1>1, AddsNothing
<1>2. ASSUME NEW x, ~IsGone(x) PROVE Adds(q, Append(q, x), {})
  BY <1>2, Appended, InRange DEF Adds, GoneAt
<1> QED
  BY <1>1, <1>2, OverflowNotGone DEF Post

\* Posting an event that tells of the end of a watch.
LEMMA PostGone ==
    ASSUME NEW q, IsSeq(q), NEW e, IsGone(e) PROVE Adds(q, Post(q, e), {e.wd})
<1>1. Len(q) \in Nat /\ (q # << >> => Len(q) > 0)
  BY InRange, EmptySeq DEF IsSeq
<1>2. CASE q # << >> /\ Last(q) = e /\ Post(q, e) = q
  <2>1. e.wd \in GoneWds(q)
    BY <1>1, <1>2 DEF GoneWds, GoneAt, Last
  <2> QED
    BY <1>1, <1>2, <2>1 DEF Adds, GoneAt
<1>3. CASE Post(q, e) = Append(q, e)
  <2>1. e.wd \in GoneWds(Append(q, e))
    BY <1>1, Appended DEF GoneWds, GoneAt
  <2> QED
    BY <1>1, <1>3, <2>1, Appended DEF Adds, GoneAt
<1>4. CASE Len(q) >= QueueMax /\ Last(q) = Overflow /\ Post(q, e) = q
  <2>1. Lost(q)
    BY <1>1, <1>4, FSAssumption DEF Lost, Last
  <2> QED
    BY <1>1, <1>4, <2>1 DEF Adds, GoneAt
<1>5. CASE Post(q, e) = Append(q, Overflow)
  <2>1. Lost(Append(q, Overflow))
    BY <1>1, Appended DEF Lost
  <2> QED
    BY <1>1, <1>5, <2>1, Appended, OverflowNotGone DEF Adds, GoneAt
<1> QED
  BY <1>1, <1>2, <1>3, <1>4, <1>5, FSAssumption DEF Post

\* One posting after another.
LEMMA AddsThen ==
    ASSUME NEW q, NEW r, NEW s, NEW V, NEW W, IsSeq(q), Adds(q, r, V), Adds(r, s, W),
           V = {} \/ W = {}
    PROVE  Adds(q, s, V \cup W)
<1>1. /\ Len(q) \in Nat /\ Len(r) \in Nat /\ Len(s) \in Nat
      /\ Len(q) <= Len(r) /\ Len(r) <= Len(s) /\ IsSeq(s)
      /\ \A i \in 1 .. Len(q) : r[i] = q[i]
      /\ \A i \in 1 .. Len(r) : s[i] = r[i]
  BY InRange DEF Adds
<1>2. \A i \in 1 .. Len(q) : s[i] = q[i]
  BY <1>1
<1>3. Lost(s) \/ V \cup W \subseteq GoneWds(s)
  BY <1>1, StaysTold DEF Adds
<1>4. \A i \in GoneAt(s) : i <= Len(r) => i \in GoneAt(r) /\ s[i].wd = r[i].wd
  BY <1>1 DEF GoneAt
<1>5. \A i \in GoneAt(s) : i \in Nat
  BY DEF GoneAt
<1>6. ASSUME NEW i \in GoneAt(s), i > Len(q)
      PROVE  /\ s[i].wd \in V \cup W
             /\ \A j \in GoneAt(s) : j > Len(q) /\ s[j].wd = s[i].wd => i = j
  BY <1>1, <1>4, <1>5, <1>6, SMTT(20) DEF Adds
<1> QED
  BY <1>1, <1>2, <1>3, <1>6 DEF Adds

\* Notify() tells of the end of no watch.
LEMMA NotifyAdds ==
    ASSUME NEW q, IsSeq(q), NEW ino, NEW m, m \notin {"DELETE_SELF", "UNMOUNT"}, NEW n, NEW k
    PROVE  Adds(q, Notify(q, ino, m, n, k), {})
<1>1. \A w : ~IsGone(Event(w, m, n, k))
  BY DEF IsGone, Event
<1> QED
  BY <1>1, PostOther, AddsNothing DEF Notify

\* NotifyGone() tells of the end of the watch on the directory.
LEMMA NotifyGoneAdds ==
    ASSUME NEW q, IsSeq(q), NEW ino, \A v, w \in DOMAIN watch : watch[v].ino = watch[w].ino => v = w
    PROVE  Adds(q, NotifyGone(q, ino), Watching(watch, ino))
<1>1. CASE Watching(watch, ino) = {}
  BY <1>1, AddsNothing DEF NotifyGone
<1>2. ASSUME NEW w \in Watching(watch, ino)
      PROVE  Adds(q, NotifyGone(q, ino), Watching(watch, ino))
  <2> DEFINE e == Event(w, "DELETE_SELF", NoName, 0)
             f == Event(w, "IGNORED", NoName, 0)
  <2>1. Watching(watch, ino) = {w}
    BY <1>2 DEF Watching
  <2>2. NotifyGone(q, ino) = Post(Post(q, e), f)
    BY <2>1 DEF NotifyGone
  <2>3. IsGone(e) /\ e.wd = w /\ ~IsGone(f)
    BY DEF IsGone, Event
  <2> HIDE DEF e, f
  <2>4. Adds(q, Post(q, e), {w})
    BY <2>3, PostGone
  <2>5. Adds(Post(q, e), Post(Post(q, e), f), {})
    BY <2>3, <2>4, PostOther DEF Adds
  <2>6. Adds(q, Post(Post(q, e), f), {w} \cup {})
    BY <2>4, <2>5, AddsThen
  <2> QED
    BY <2>1, <2>2, <2>6
<1> QED
  BY <1>1, <1>2

\* The queue r is q with events es after it; all of them, unless events were
\* lost.  The first may be the last of q.
Posts(q, es, r) ==
    /\ IsSeq(r) /\ Len(q) <= Len(r) /\ \A i \in 1 .. Len(q) : r[i] = q[i]
    /\ \E d \in 0 .. 1 : \A i \in Len(q) + 1 .. Len(r) :
          \/ r[i] = Overflow
          \/ i - Len(q) + d \in 1 .. Len(es) /\ r[i] = es[i - Len(q) + d]
    /\ Lost(r) \/ \A k \in 1 .. Len(es) : \E i \in 1 .. Len(r) : r[i] = es[k]

\* What posting several events does to the queue.
LEMMA PostAllFacts ==
    ASSUME NEW q, IsSeq(q), NEW es, IsSeq(es), Len(q) \in Nat, Len(es) \in Nat,
           NEW r, r = PostAll(q, es)
    PROVE  Posts(q, es, r)
<1> DEFINE same == es # << >> /\ q # << >> /\ Last(q) = es[1]
           new  == IF same THEN Tail(es) ELSE es
           d    == IF same THEN 1 ELSE 0
           room == QueueMax - Len(q)
<1>1. /\ IsSeq(new) /\ d \in Int /\ 0 <= d /\ d <= 1 /\ Len(new) \in Nat /\ Len(es) = Len(new) + d
      /\ \A i \in 1 .. Len(new) : new[i] = es[i + d]
  <2>1. CASE same
    <3>1. /\ Tail(es) \in Seq(Range(es)) /\ Len(Tail(es)) = Len(es) - 1
          /\ \A i \in 1 .. Len(Tail(es)) : Tail(es)[i] = es[i + 1]
          /\ Len(es) > 0
      BY <2>1, HeadTailProperties, EmptySeq DEF IsSeq
    <3>2. IsSeq(Tail(es))
      BY <3>1, SeqRange
    <3>3. new = Tail(es) /\ d = 1
      BY <2>1
    <3> HIDE DEF new, d
    <3> QED
      BY <3>1, <3>2, <3>3
  <2>2. CASE ~same
    <3>1. new = es /\ d = 0
      BY <2>2
    <3> HIDE DEF new, d
    <3> QED
      BY <3>1
  <2> QED
    BY <2>1, <2>2
<1>8. d = 1 => Len(q) > 0 /\ q[Len(q)] = es[1]
  BY EmptySeq DEF Last, IsSeq
<1>2. r = IF Len(new) <= room THEN q \o new
          ELSE IF room <= 0 /\ Last(q) = Overflow THEN q
          ELSE q \o Append(SubSeq(new, 1, room), Overflow)
  BY DEF PostAll
<1> HIDE DEF same, new, d, room
<1>9. ASSUME NEW m \in 1 .. Len(new) PROVE m + d \in 1 .. Len(es) /\ new[m] = es[m + d]
  BY <1>1
<1>3. CASE r = q \o new
  <2>1. /\ IsSeq(r) /\ Len(r) = Len(q) + Len(new)
        /\ \A i \in 1 .. Len(q) : r[i] = q[i]
        /\ \A i \in Len(q) + 1 .. Len(q) + Len(new) : r[i] = new[i - Len(q)]
    BY <1>1, <1>3, Joined
  <2>2. ASSUME NEW i \in Len(q) + 1 .. Len(r)
        PROVE  i - Len(q) + d \in 1 .. Len(es) /\ r[i] = es[i - Len(q) + d]
    <3>1. i - Len(q) \in 1 .. Len(new) /\ i \in Len(q) + 1 .. Len(q) + Len(new)
      BY <1>1, <2>1
    <3> QED
      BY <1>1, <2>1, <3>1
  <2>3. ASSUME NEW k \in 1 .. Len(es) PROVE \E i \in 1 .. Len(r) : r[i] = es[k]
    <3>1. CASE d = 1 /\ k = 1
      BY <1>8, <2>1, <3>1
    <3>2. CASE k > d
      <4> DEFINE i == Len(q) + (k - d)
      <4>1. i \in Len(q) + 1 .. Len(r) /\ i \in 1 .. Len(r) /\ i - Len(q) + d = k
        BY <1>1, <2>1, <3>2
      <4>2. r[i] = es[k]
        BY <2>2, <4>1
      <4> QED
        BY <4>1, <4>2
    <3> QED
      BY <1>1, <3>1, <3>2
  <2> QED
    <3>1. Len(q) <= Len(r) /\ d \in 0 .. 1
      BY <1>1, <2>1
    <3>2. \E e \in 0 .. 1 : \A i \in Len(q) + 1 .. Len(r) :
             i - Len(q) + e \in 1 .. Len(es) /\ r[i] = es[i - Len(q) + e]
      BY <2>2, <3>1
    <3> QED
      BY <2>1, <2>3, <3>1, <3>2 DEF Posts
<1>4. CASE r = q /\ room <= 0 /\ Last(q) = Overflow
  <2>1. Lost(r)
    BY <1>4, FSAssumption DEF Lost, Last, room
  <2> QED
    BY <1>4, <2>1 DEF Posts
<1>5. CASE r = q \o Append(SubSeq(new, 1, room), Overflow) /\ room < Len(new)
  <2> DEFINE t == SubSeq(new, 1, room)
  <2>1. /\ IsSeq(t) /\ Len(t) \in Nat /\ Len(t) <= Len(new)
        /\ \A i \in 1 .. Len(t) : t[i] = new[i]
    <3>1. room \in Int
      BY FSAssumption DEF room
    <3>2. \A i \in 1 .. room : new[i] \in Range(new)
      BY <1>1, <1>5, <3>1, InRange
    <3>3. t \in Seq(Range(new)) /\ Len(t) = (IF 1 <= room THEN room ELSE 0)
          /\ \A i \in 1 .. room : t[i] = new[i]
      BY <3>1, <3>2, SubSeqProperties
    <3>4. IsSeq(t)
      BY <3>3, SeqRange
    <3> HIDE DEF t
    <3> QED
      BY <1>1, <1>5, <3>1, <3>3, <3>4
  <2> HIDE DEF t
  <2>2. /\ IsSeq(r) /\ Len(r) = Len(q) + Len(t) + 1
        /\ \A i \in 1 .. Len(q) : r[i] = q[i]
        /\ \A i \in Len(q) + 1 .. Len(q) + Len(t) : r[i] = t[i - Len(q)]
        /\ r[Len(q) + Len(t) + 1] = Overflow
    <3>1. /\ IsSeq(Append(t, Overflow)) /\ Len(Append(t, Overflow)) = Len(t) + 1
          /\ \A i \in 1 .. Len(t) : Append(t, Overflow)[i] = t[i]
          /\ Append(t, Overflow)[Len(t) + 1] = Overflow
      BY <2>1, Appended
    <3>2. r = q \o Append(t, Overflow)
      BY <1>5 DEF t
    <3> QED
      BY <2>1, <3>1, <3>2, Joined
  <2>3. Lost(r)
    BY <2>1, <2>2 DEF Lost
  <2>4. ASSUME NEW i \in Len(q) + 1 .. Len(r)
        PROVE  r[i] = Overflow \/ (i - Len(q) + d \in 1 .. Len(es) /\ r[i] = es[i - Len(q) + d])
    <3>1. CASE i = Len(q) + Len(t) + 1
      BY <2>2, <3>1
    <3>2. CASE i # Len(q) + Len(t) + 1
      <4>0. Len(r) = Len(q) + Len(t) + 1 /\ Len(t) \in Nat /\ Len(t) <= Len(new) /\ Len(new) \in Nat
        BY <1>1, <2>1, <2>2
      <4>1. i - Len(q) \in 1 .. Len(t) /\ i - Len(q) \in 1 .. Len(new)
            /\ i \in Len(q) + 1 .. Len(q) + Len(t)
        BY <3>2, <4>0
      <4> QED
        <5>1. r[i] = new[i - Len(q)]
          BY <2>1, <2>2, <4>1
        <5>2. i - Len(q) + d \in 1 .. Len(es) /\ new[i - Len(q)] = es[i - Len(q) + d]
          BY <1>9, <4>1
        <5> QED
          BY <5>1, <5>2
    <3> QED
      BY <3>1, <3>2
  <2> QED
    <3>1. Len(q) <= Len(r) /\ d \in 0 .. 1
      BY <1>1, <2>1, <2>2
    <3>2. \E e \in 0 .. 1 : \A i \in Len(q) + 1 .. Len(r) :
             r[i] = Overflow \/ (i - Len(q) + e \in 1 .. Len(es) /\ r[i] = es[i - Len(q) + e])
      BY <2>4, <3>1
    <3> QED
      BY <2>2, <2>3, <3>1, <3>2 DEF Posts
<1>6. room \in Int
  BY FSAssumption DEF room
<1>7. \/ r = q \o new
      \/ r = q /\ room <= 0 /\ Last(q) = Overflow
      \/ r = q \o Append(SubSeq(new, 1, room), Overflow) /\ room < Len(new)
  <2>1. CASE Len(new) <= room
    BY <1>2, <2>1
  <2>2. CASE ~(Len(new) <= room) /\ room <= 0 /\ Last(q) = Overflow
    BY <1>2, <2>2
  <2>3. CASE ~(Len(new) <= room) /\ ~(room <= 0 /\ Last(q) = Overflow)
    <3>1. room < Len(new)
      BY <1>1, <1>6, <2>3
    <3> QED
      BY <1>2, <2>3, <3>1
  <2> QED
    BY <2>1, <2>2, <2>3
<1> QED
  BY <1>3, <1>4, <1>5, <1>7

\* The sequences of all elements of a finite set.
LEMMA AllOf ==
    ASSUME NEW S, IsFiniteSet(S), NEW f \in Orders(S)
    PROVE  /\ f \in Seq(S) /\ \A i, j \in 1 .. Len(f) : f[i] = f[j] => i = j
           /\ \A x \in S : \E i \in 1 .. Len(f) : f[i] = x
<1> DEFINE n == Cardinality(S)
<1>1. n \in Nat
  BY FS_CardinalityType
<1>2. f \in [1 .. n -> S] /\ \A i, j \in 1 .. n : i # j => f[i] # f[j]
  BY DEF Orders, Injection, IsInjective
<1>3. f \in Seq(S) /\ Len(f) = n
  BY <1>1, <1>2
<1>4. f \in Injection(1 .. n, S)
  BY <1>2 DEF Injection, IsInjective
<1>5. Cardinality(1 .. n) = n
  BY <1>1, FS_Interval
<1>6. f \in Surjection(1 .. n, S)
  BY <1>4, <1>5, FS_Injection
<1> QED
  BY <1>2, <1>3, <1>6 DEF Surjection

\* The pending events u tell, after p, of the end of the watches W as well, and
\* of no watch in E.
Tells(p, u, W, E, next) == /\ GoneOnce(u, E, next) /\ (Lost(p) => Lost(u))
                           /\ ~Lost(u) => GoneWds(u) = GoneWds(p) \cup W

\* The kernel drops the watches W and posts that they have gone.
LEMMA Grows ==
    ASSUME NEW b, NEW q, NEW r, IsSeq(b), IsSeq(q), NEW D, NEW n, NEW W \in SUBSET D, NEW E \in SUBSET (D \ W),
           GoneOnce(b \o q, D, n), D \subseteq 1 .. n - 1, n \in Nat, Adds(q, r, W)
    PROVE  Tells(b \o q, b \o r, W, E, n)
<1> DEFINE p == b \o q
           u == b \o r
<1>1. IsSeq(r) /\ Len(q) <= Len(r) /\ \A i \in 1 .. Len(q) : r[i] = q[i]
  BY DEF Adds
<1>2. /\ Len(p) = Len(b) + Len(q) /\ Len(b) \in Nat /\ Len(q) \in Nat /\ IsSeq(p)
      /\ \A i \in 1 .. Len(b) : p[i] = b[i]
      /\ \A i \in Len(b) + 1 .. Len(b) + Len(q) : p[i] = q[i - Len(b)]
  BY Joined, InRange
<1>3. /\ Len(u) = Len(b) + Len(r) /\ Len(r) \in Nat /\ IsSeq(u)
      /\ \A i \in 1 .. Len(b) : u[i] = b[i]
      /\ \A i \in Len(b) + 1 .. Len(b) + Len(r) : u[i] = r[i - Len(b)]
  BY <1>1, Joined, InRange
<1> HIDE DEF p, u
<1>4. ASSUME NEW i \in 1 .. Len(p) PROVE u[i] = p[i]
  <2>1. CASE i <= Len(b)
    <3>1. i \in 1 .. Len(b)
      BY <1>2, <2>1
    <3> QED
      BY <1>2, <1>3, <3>1
  <2>2. CASE i > Len(b)
    <3>1. i \in Len(b) + 1 .. Len(b) + Len(q) /\ i \in Len(b) + 1 .. Len(b) + Len(r)
          /\ i - Len(b) \in 1 .. Len(q)
      BY <1>1, <1>2, <1>3, <2>2
    <3> QED
      BY <1>1, <1>2, <1>3, <3>1
  <2> QED
    BY <1>2, <2>1, <2>2
<1>5. (Lost(p) => Lost(u)) /\ GoneWds(p) \subseteq GoneWds(u)
  <2>1. Len(p) <= Len(u)
    BY <1>1, <1>2, <1>3
  <2> QED
    BY <1>2, <1>3, <1>4, <2>1, StaysTold
<1>6. ASSUME NEW i \in GoneAt(u), i <= Len(p) PROVE i \in GoneAt(p) /\ u[i] = p[i]
  BY <1>2, <1>3, <1>4, <1>6 DEF GoneAt
<1>7. ASSUME NEW i \in GoneAt(u), i > Len(p)
      PROVE  i - Len(b) \in GoneAt(r) /\ i - Len(b) > Len(q) /\ u[i] = r[i - Len(b)]
  <2>1. i \in Len(b) + 1 .. Len(b) + Len(r) /\ i - Len(b) \in 1 .. Len(r) /\ i - Len(b) > Len(q)
    BY <1>2, <1>3, <1>7 DEF GoneAt
  <2> QED
    BY <1>3, <2>1 DEF GoneAt
<1>8. \A i \in GoneAt(u) : i \in Nat
  BY DEF GoneAt
<1>9. ASSUME NEW i \in GoneAt(u) PROVE u[i].wd \in (1 .. n - 1) \ E
  <2>1. CASE i <= Len(p)
    BY <1>6, <2>1 DEF GoneOnce, p
  <2>2. CASE i > Len(p)
    <3>1. u[i].wd \in W
      BY <1>7, <2>2 DEF Adds
    <3> QED
      BY <3>1
  <2> QED
    BY <1>2, <1>8, <2>1, <2>2
<1>10. ASSUME NEW i \in GoneAt(u), NEW j \in GoneAt(u), u[i].wd = u[j].wd
       PROVE  i = j
  <2>1. CASE i <= Len(p) /\ j <= Len(p)
    BY <1>6, <1>10, <2>1 DEF GoneOnce, p
  <2>2. CASE i > Len(p) /\ j > Len(p)
    <3>1. i - Len(b) = j - Len(b)
      BY <1>7, <1>10, <2>2 DEF Adds
    <3> QED
      BY <1>2, <1>8, <3>1
  <2>3. ASSUME NEW k \in GoneAt(u), NEW l \in GoneAt(u), k <= Len(p), l > Len(p)
        PROVE  u[k].wd # u[l].wd
    <3>1. u[k].wd \notin D
      BY <1>6, <2>3 DEF GoneOnce, p
    <3>2. u[l].wd \in W
      BY <1>7, <2>3 DEF Adds
    <3> QED
      BY <3>1, <3>2
  <2> QED
    BY <1>2, <1>8, <1>10, <2>1, <2>2, <2>3
<1>11. ASSUME ~Lost(u) PROVE GoneWds(u) = GoneWds(p) \cup W
  <2>1. ASSUME NEW i \in 1 .. Len(r) PROVE i + Len(b) \in 1 .. Len(u) /\ u[i + Len(b)] = r[i]
    <3>1. i + Len(b) \in Len(b) + 1 .. Len(b) + Len(r) /\ (i + Len(b)) - Len(b) = i
      BY <1>2, <1>3
    <3>2. u[i + Len(b)] = r[(i + Len(b)) - Len(b)]
      BY <1>3, <3>1
    <3> QED
      BY <1>2, <1>3, <3>1, <3>2
  <2>2. ~Lost(r)
    BY <1>11, <2>1 DEF Lost
  <2>3. W \subseteq GoneWds(r)
    BY <2>2 DEF Adds
  <2>4. GoneWds(r) \subseteq GoneWds(u)
    <3>1. ASSUME NEW i \in GoneAt(r) PROVE i + Len(b) \in GoneAt(u) /\ u[i + Len(b)] = r[i]
      BY <2>1 DEF GoneAt
    <3> QED
      BY <3>1 DEF GoneWds
  <2>5. ASSUME NEW i \in GoneAt(u) PROVE u[i].wd \in GoneWds(p) \cup W
    <3>1. CASE i <= Len(p)
      BY <1>6, <3>1 DEF GoneWds
    <3>2. CASE i > Len(p)
      BY <1>7, <3>2 DEF Adds
    <3> QED
      BY <1>2, <1>8, <3>1, <3>2
  <2> QED
    BY <1>5, <2>3, <2>4, <2>5 DEF GoneWds
<1> QED
  BY <1>5, <1>9, <1>10, <1>11 DEF GoneOnce, Tells, p, u

\* The linear searches: the first of some slots, or 0.
LEMMA FirstOf ==
    ASSUME NEW S \in SUBSET (Nat \ {0})
    PROVE  /\ First(S) \in Nat
           /\ S # {} => First(S) > 0 /\ First(S) \in S
           /\ S = {} => First(S) = 0
<1>1. CASE S = {}
  BY <1>1 DEF First
<1>2. CASE S # {}
  <2>1. \E x \in S : \A y \in S : ~(<<y, x>> \in OpToRel(<, Nat))
    BY <1>2, NatLessThanWellFounded, WFMin, Zenon
  <2>2. ASSUME NEW x \in Nat, NEW y \in Nat, ~(<<y, x>> \in OpToRel(<, Nat)) PROVE x <= y
    BY <2>2 DEF OpToRel
  <2>3. \E x \in S : \A y \in S : x =< y
    BY <2>1, <2>2
  <2>4. Min(S) \in S
    BY <2>3 DEF Min
  <2>5. First(S) = Min(S)
    BY <1>2, Zenon DEF First
  <2>6. First(S) \in S
    BY <2>4, <2>5
  <2>7. First(S) \in Nat \ {0}
    BY <2>6, Zenon
  <2>8. First(S) \in Nat /\ First(S) > 0
    BY <2>7
  <2> QED
    BY <1>2, <2>6, <2>8, Zenon
<1> QED
  BY <1>1, <1>2

\* What is left of a sequence without its first k elements.
LEMMA Cut ==
    ASSUME NEW b, IsSeq(b), NEW k \in 0 .. Len(b)
    PROVE  LET c == SubSeq(b, k + 1, Len(b))
           IN  IsSeq(c) /\ Len(c) = Len(b) - k /\ \A i \in 1 .. Len(c) : c[i] = b[i + k]
<1> DEFINE c == SubSeq(b, k + 1, Len(b))
<1>1. Len(b) \in Nat /\ k \in Nat
  BY InRange
<1>2. \A i \in k + 1 .. Len(b) : b[i] \in Range(b)
  BY <1>1, InRange
<1>3. c \in Seq(Range(b)) /\ Len(c) = (IF k + 1 <= Len(b) THEN Len(b) - (k + 1) + 1 ELSE 0)
      /\ \A i \in 1 .. Len(b) - (k + 1) + 1 : c[i] = b[(k + 1) + i - 1]
  BY <1>1, <1>2, SubSeqProperties
<1>4. IsSeq(c)
  BY <1>3, SeqRange
<1> HIDE DEF c
<1>5. Len(c) = Len(b) - k
  BY <1>1, <1>3
<1>6. ASSUME NEW i \in 1 .. Len(c) PROVE c[i] = b[i + k]
  BY <1>1, <1>3, <1>5
<1> QED
  BY <1>4, <1>5, <1>6 DEF c

\* The pending events u are those of p without some that told of the end of the
\* watches W.
Untells(p, u, W, E, next) == /\ GoneOnce(u, E, next) /\ (Lost(p) => Lost(u))
                             /\ GoneWds(u) = GoneWds(p) \ W

\* The program is done with the first k events of its buffer.
LEMMA Shrinks ==
    ASSUME NEW b, NEW q, IsSeq(b), IsSeq(q), NEW k \in 1 .. Len(b),
           NEW D, NEW n, GoneOnce(b \o q, D, n),
           NEW c, IsSeq(c), Len(c) = Len(b) - k, \A i \in 1 .. Len(c) : c[i] = b[i + k],
           NEW W, W = {b[i].wd : i \in {j \in 1 .. k : IsGone(b[j])}},
           \A i \in 1 .. k : b[i] # Overflow
    PROVE  Untells(b \o q, c \o q, W, D, n)
<1> DEFINE p == b \o q
           u == c \o q
<1>1. /\ Len(p) = Len(b) + Len(q) /\ Len(b) \in Nat /\ Len(q) \in Nat /\ IsSeq(p) /\ k \in Nat
      /\ \A i \in 1 .. Len(b) : p[i] = b[i]
      /\ \A i \in Len(b) + 1 .. Len(b) + Len(q) : p[i] = q[i - Len(b)]
  BY Joined, InRange
<1>3. /\ Len(u) = Len(c) + Len(q) /\ Len(c) \in Nat /\ IsSeq(u)
      /\ \A i \in 1 .. Len(c) : u[i] = c[i]
      /\ \A i \in Len(c) + 1 .. Len(c) + Len(q) : u[i] = q[i - Len(c)]
  <2>1. IsSeq(c) /\ IsSeq(q)
    OBVIOUS
  <2>2. Len(c) \in Nat
    BY <2>1, InRange
  <2>3. /\ IsSeq(c \o q) /\ Len(c \o q) = Len(c) + Len(q)
        /\ \A i \in 1 .. Len(c) : (c \o q)[i] = c[i]
        /\ \A i \in Len(c) + 1 .. Len(c) + Len(q) : (c \o q)[i] = q[i - Len(c)]
    BY ONLY <2>1, Joined
  <2> QED
    BY ONLY <2>2, <2>3
<1> HIDE DEF p, u
<1>4. Len(u) = Len(p) - k /\ Len(u) \in Nat /\ Len(p) \in Nat
  BY <1>1, <1>3
<1>5. ASSUME NEW i \in 1 .. Len(u) PROVE i + k \in 1 .. Len(p) /\ i + k > k /\ u[i] = p[i + k]
  <2>1. CASE i <= Len(c)
    <3>1. i \in 1 .. Len(c) /\ i + k \in 1 .. Len(b)
      BY <1>1, <1>3, <2>1
    <3> QED
      BY <1>1, <1>3, <1>4, <3>1
  <2>2. CASE i > Len(c)
    <3>1. i \in Len(c) + 1 .. Len(c) + Len(q) /\ i + k \in Len(b) + 1 .. Len(b) + Len(q)
          /\ i - Len(c) = (i + k) - Len(b)
      <4>1. i \in Nat /\ i <= Len(c) + Len(q) /\ Len(c) = Len(b) - k /\ i > Len(c)
            /\ Len(b) \in Nat /\ Len(q) \in Nat /\ Len(c) \in Nat /\ k \in Nat
        BY <1>1, <1>3, <2>2
      <4> QED
        BY <4>1
    <3>2. u[i] = q[i - Len(c)] /\ p[i + k] = q[(i + k) - Len(b)]
      BY <1>1, <1>3, <3>1
    <3> QED
      BY <1>1, <1>4, <3>1, <3>2
  <2> QED
    BY <1>3, <2>1, <2>2
<1>6. ASSUME NEW i \in 1 .. Len(p), i > k PROVE i - k \in 1 .. Len(u) /\ u[i - k] = p[i]
  <2>1. i - k \in 1 .. Len(u) /\ (i - k) + k = i
    BY <1>1, <1>4, <1>6
  <2> QED
    BY <1>5, <2>1
<1>7. ASSUME NEW i \in 1 .. Len(p), i <= k PROVE i \in 1 .. k /\ p[i] = b[i]
  BY <1>1, <1>7
<1>8. ASSUME NEW i \in GoneAt(u) PROVE i + k \in GoneAt(p) /\ i + k > k /\ u[i] = p[i + k] /\ i \in Nat
  BY <1>5 DEF GoneAt
<1>9. GoneOnce(u, D, n)
  <2>1. ASSUME NEW i \in GoneAt(u) PROVE u[i].wd \in (1 .. n - 1) \ D
    BY <1>8 DEF GoneOnce, p
  <2>2. ASSUME NEW i \in GoneAt(u), NEW j \in GoneAt(u), u[i].wd = u[j].wd PROVE i = j
    <3>1. i + k = j + k
      <4>1. i + k \in GoneAt(p) /\ j + k \in GoneAt(p) /\ p[i + k].wd = p[j + k].wd
        BY <1>8, <2>2
      <4> QED
        BY <4>1 DEF GoneOnce, p
    <3> QED
      BY <1>1, <1>8, <3>1, SMTT(20)
  <2> QED
    BY <2>1, <2>2 DEF GoneOnce
<1>10. ASSUME Lost(p) PROVE Lost(u)
  <2>1. PICK i \in 1 .. Len(p) : p[i] = Overflow
    BY <1>10 DEF Lost
  <2>2. i > k
    BY <1>1, <1>7, <1>10, <2>1
  <2> QED
    BY <1>6, <2>1, <2>2 DEF Lost
<1>11. ASSUME NEW i \in GoneAt(u) PROVE u[i].wd \in GoneWds(p) \ W
  <2>1. u[i].wd \in GoneWds(p)
    BY <1>8 DEF GoneWds
  <2>2. ASSUME NEW j \in 1 .. k, IsGone(b[j]), u[i].wd = b[j].wd PROVE FALSE
    <3>1. j \in GoneAt(p) /\ p[j] = b[j]
      <4>1. j \in 1 .. Len(b) /\ j \in 1 .. Len(p)
        BY <1>1
      <4> QED
        BY <1>1, <2>2, <4>1 DEF GoneAt
    <3>2. j = i + k
      BY <1>8, <2>2, <3>1 DEF GoneOnce, p
    <3> QED
      BY <1>1, <1>8, <3>2
  <2> QED
    BY <2>1, <2>2
<1>12. ASSUME NEW i \in GoneAt(p), p[i].wd \notin W PROVE p[i].wd \in GoneWds(u)
  <2>1. i > k
    <3>1. i \in 1 .. Len(p) /\ IsGone(p[i])
      BY DEF GoneAt
    <3>2. ~(i <= k)
      BY <1>7, <1>12, <3>1
    <3> QED
      BY <1>1, <3>1, <3>2
  <2>2. i - k \in GoneAt(u) /\ u[i - k] = p[i]
    BY <1>6, <2>1 DEF GoneAt
  <2> QED
    BY <2>2 DEF GoneWds
<1>13. GoneWds(u) = GoneWds(p) \ W
  BY <1>11, <1>12, SMTT(20) DEF GoneWds
<1> QED
  BY <1>9, <1>10, <1>13 DEF Untells, p, u

\* Events move from the queue to the buffer.
LEMMA Moves ==
    ASSUME NEW b, NEW q, IsSeq(b), IsSeq(q), NEW k \in 0 .. Len(q)
    PROVE  /\ IsSeq(SubSeq(q, 1, k)) /\ IsSeq(b \o SubSeq(q, 1, k)) /\ IsSeq(SubSeq(q, k + 1, Len(q)))
           /\ (b \o SubSeq(q, 1, k)) \o SubSeq(q, k + 1, Len(q)) = b \o q
           /\ SubSeq(q, 1, k) \o SubSeq(q, k + 1, Len(q)) = q
           /\ << >> \o q = q
<1> DEFINE S == Range(b) \cup Range(q)
           f == SubSeq(q, 1, k)
           g == SubSeq(q, k + 1, Len(q))
<1>1. Len(q) \in Nat /\ k \in Nat /\ k <= Len(q) /\ \A i \in 1 .. Len(q) : q[i] \in S
  BY InRange
<1>2. b \in Seq(S) /\ q \in Seq(S)
  BY DEF IsSeq
<1>3. f \in Seq(S) /\ g \in Seq(S)
  <2>1. (\A i \in 1 .. k : q[i] \in S) /\ (\A i \in k + 1 .. Len(q) : q[i] \in S)
    BY <1>1
  <2> QED
    BY <1>1, <2>1, SubSeqProperties
<1>4. b \o f \in Seq(S)
  BY <1>2, <1>3, ConcatProperties
<1>5. f \o g = q
  <2>1. 1 \in 1 .. Len(q) + 1 /\ k \in 1 - 1 .. Len(q) /\ Len(q) \in k .. Len(q)
    BY <1>1
  <2>2. f \o g = SubSeq(q, 1, Len(q))
    BY <1>2, <2>1, ConcatAdjacentSubSeq
  <2> QED
    BY <1>2, <2>2, SubSeqFull
<1> HIDE DEF S, f, g
<1>6. (b \o f) \o g = b \o (f \o g)
  BY <1>2, <1>3, ConcatAssociative
<1> QED
  BY <1>2, <1>3, <1>4, <1>5, <1>6, SeqRange, ConcatEmptySeq DEF f, g

\* Events posted together, when they tell once of each watch in W.
LEMMA PostAllAdds ==
    ASSUME NEW q, IsSeq(q), NEW es, IsSeq(es), NEW W,
           \A k \in GoneAt(es) : /\ es[k].wd \in W
                                 /\ \A l \in GoneAt(es) : es[l].wd = es[k].wd => k = l,
           W \subseteq GoneWds(es), NEW r, r = PostAll(q, es)
    PROVE  Adds(q, r, W)
<1>1. Len(q) \in Nat /\ Len(es) \in Nat
  BY InRange
<1>2. /\ IsSeq(r) /\ Len(q) <= Len(r) /\ \A i \in 1 .. Len(q) : r[i] = q[i]
      /\ \E d \in 0 .. 1 : \A i \in Len(q) + 1 .. Len(r) :
            \/ r[i] = Overflow
            \/ i - Len(q) + d \in 1 .. Len(es) /\ r[i] = es[i - Len(q) + d]
      /\ Lost(r) \/ \A k \in 1 .. Len(es) : \E i \in 1 .. Len(r) : r[i] = es[k]
  <2>1. Posts(q, es, r)
    BY <1>1, PostAllFacts
  <2> QED
    BY <2>1 DEF Posts
<1>3. Len(r) \in Nat
  BY <1>2, InRange
<1>4. PICK d \in 0 .. 1 : \A i \in Len(q) + 1 .. Len(r) :
            \/ r[i] = Overflow
            \/ i - Len(q) + d \in 1 .. Len(es) /\ r[i] = es[i - Len(q) + d]
  BY <1>2
<1>5. ASSUME NEW i \in GoneAt(r), i > Len(q)
      PROVE  i - Len(q) + d \in GoneAt(es) /\ r[i] = es[i - Len(q) + d] /\ i \in Nat
  <2>1. i \in Len(q) + 1 .. Len(r) /\ IsGone(r[i]) /\ i \in Nat
    BY <1>1, <1>3, <1>5 DEF GoneAt
  <2>2. r[i] # Overflow
    BY <2>1, OverflowNotGone
  <2> QED
    BY <1>4, <2>1, <2>2 DEF GoneAt
<1>6. ASSUME NEW i \in GoneAt(r), i > Len(q), NEW j \in GoneAt(r), j > Len(q), r[j].wd = r[i].wd
      PROVE  i = j
  <2>1. i - Len(q) + d = j - Len(q) + d
    BY <1>5, <1>6
  <2> QED
    BY <1>1, <1>5, <1>6, <2>1
<1>7. Lost(r) \/ W \subseteq GoneWds(r)
  <2>1. ASSUME NEW k \in GoneAt(es), NEW i \in 1 .. Len(r), r[i] = es[k] PROVE es[k].wd \in GoneWds(r)
    BY <2>1 DEF GoneWds, GoneAt
  <2>2. \A k \in GoneAt(es) : k \in 1 .. Len(es)
    BY DEF GoneAt
  <2> QED
    BY <1>2, <2>1, <2>2, SMTT(20) DEF GoneWds
<1> QED
  BY <1>2, <1>5, <1>6, <1>7 DEF Adds

-----------------------------------------------------------------------------
(* The cache.                                                              *)

\* The linear search for a watch descriptor.
LEMMA SlotOf ==
    ASSUME NEW c, IsSeq(c), NEW wd, NEW j, j = findWatch(c, wd)
    PROVE  /\ j \in Nat
           /\ j > 0 => j \in 1 .. Len(c) /\ c[j].wd = wd
           /\ j = 0 => \A i \in 1 .. Len(c) : c[i].wd # wd
<1> DEFINE S == {i \in DOMAIN c : c[i].wd = wd}
<1>1. Len(c) \in Nat /\ DOMAIN c = 1 .. Len(c)
  BY InRange
<1>2. S \in SUBSET (Nat \ {0}) /\ j = First(S)
  BY <1>1 DEF findWatch
<1>3. j \in Nat /\ (S # {} => j > 0 /\ j \in S) /\ (S = {} => j = 0)
  BY <1>2, FirstOf
<1> QED
  BY <1>1, <1>3

\* The cache d is c without the watches W.
Forgets(c, d, W) == CacheOk(d) /\ (Distinct(c) => Distinct(d) /\ CachedWds(d) = CachedWds(c) \ W)

\* Slots that are emptied, and the watches that were in them.
Without(c, Z) == [j \in DOMAIN c |-> IF j \in Z THEN EmptySlot ELSE c[j]]
WdsIn(c, Z) == {c[j].wd : j \in Z}

\* zapSubtree() and processEvent() empty slots: every other slot stays as it is.
LEMMA Emptied ==
    ASSUME NEW c, CacheOk(c), NEW Z \in SUBSET Used(c)
    PROVE  Forgets(c, Without(c, Z), WdsIn(c, Z))
<1> DEFINE d == Without(c, Z)
           W == WdsIn(c, Z)
<1>1. Len(c) \in Nat /\ DOMAIN c = 1 .. Len(c)
  BY InRange DEF CacheOk
<1>0. d = [j \in DOMAIN c |-> IF j \in Z THEN EmptySlot ELSE c[j]] /\ W = {c[j].wd : j \in Z}
  BY DEF Without, WdsIn
<1> HIDE DEF d, W
<1>2. IsSeq(d) /\ Len(d) = Len(c) /\ DOMAIN d = 1 .. Len(c)
  <2>1. d \in Seq(Range(d)) /\ Len(d) = Len(c)
    BY <1>0, <1>1 DEF Range
  <2> QED
    BY <1>1, <2>1 DEF IsSeq
<1>3. \A j \in 1 .. Len(c) : d[j] = IF j \in Z THEN EmptySlot ELSE c[j]
  BY <1>0, <1>1
<1>4. CacheOk(d)
  BY <1>1, <1>2, <1>3 DEF CacheOk, EmptySlot
<1>5. Used(d) = Used(c) \ Z
  BY <1>1, <1>2, <1>3 DEF Used, EmptySlot
<1>6. \A j \in Used(d) : d[j] = c[j]
  BY <1>1, <1>3, <1>5 DEF Used
<1>7. ASSUME Distinct(c) PROVE Distinct(d) /\ CachedWds(d) = CachedWds(c) \ W
  BY <1>0, <1>5, <1>6, <1>7 DEF Distinct, CachedWds
<1> QED
  BY <1>4, <1>7 DEF Forgets, d, W

\* A slot for a new watch.
LEMMA NewSlot ==
    ASSUME NEW c, CacheOk(c), NEW wd, wd # NoWatch, wd \notin CachedWds(c), NEW p,
           NEW d, d = addWatchToCache(c, wd, p)
    PROVE  CacheOk(d) /\ CachedWds(d) = CachedWds(c) \cup {wd} /\ (Distinct(c) => Distinct(d))
<1> DEFINE room == findEmptyCacheSlot(c)
           f    == findWatch(room, NoWatch)
<1>1. Len(c) \in Nat /\ DOMAIN c = 1 .. Len(c)
  BY InRange DEF CacheOk
<1>2. /\ CacheOk(room) /\ Len(c) <= Len(room) /\ Len(room) \in Nat /\ DOMAIN room = 1 .. Len(room)
      /\ \A j \in 1 .. Len(c) : room[j] = c[j]
      /\ \A j \in 1 .. Len(room) : j > Len(c) => room[j] = EmptySlot
      /\ \E j \in 1 .. Len(room) : room[j].wd = NoWatch
  <2>1. CASE Used(c) # DOMAIN c
    <3>1. room = c
      BY <2>1 DEF findEmptyCacheSlot
    <3> QED
      BY <1>1, <2>1, <3>1 DEF Used
  <2>2. CASE Used(c) = DOMAIN c
    <3> DEFINE e == [j \in 1 .. ALLOC_INCR |-> EmptySlot]
    <3>1. room = c \o e
      BY <2>2 DEF findEmptyCacheSlot
    <3>2. e \in Seq({EmptySlot}) /\ Len(e) = ALLOC_INCR /\ ALLOC_INCR \in Nat \ {0}
      BY DTreeAssumption
    <3>3. IsSeq(e) /\ \A j \in 1 .. Len(e) : e[j] = EmptySlot
      BY <3>2, SeqRange
    <3> HIDE DEF e
    <3>4. /\ IsSeq(room) /\ Len(room) = Len(c) + Len(e)
          /\ \A j \in 1 .. Len(c) : room[j] = c[j]
          /\ \A j \in Len(c) + 1 .. Len(c) + Len(e) : room[j] = e[j - Len(c)]
      BY <3>1, <3>3, Joined, SMTT(20) DEF CacheOk
    <3> HIDE DEF room
    <3>5. Len(room) \in Nat /\ DOMAIN room = 1 .. Len(room)
      BY <3>4, InRange
    <3>6. ASSUME NEW j \in 1 .. Len(room), j > Len(c) PROVE room[j] = EmptySlot
      <4>1. j \in Len(c) + 1 .. Len(c) + Len(e) /\ j - Len(c) \in 1 .. Len(e)
        BY <1>1, <3>2, <3>4, <3>6
      <4> QED
        BY <3>3, <3>4, <4>1
    <3>7. Len(c) + 1 \in 1 .. Len(room) /\ Len(c) + 1 > Len(c) /\ Len(c) <= Len(room)
      BY <1>1, <3>2, <3>4
    <3>8. room[Len(c) + 1].wd = NoWatch
      BY <3>6, <3>7 DEF EmptySlot
    <3>9. ASSUME NEW j \in 1 .. Len(room) PROVE room[j] = [wd |-> room[j].wd, path |-> room[j].path]
      <4>1. CASE j > Len(c)
        BY <3>6, <4>1 DEF EmptySlot
      <4>2. CASE j <= Len(c)
        <5>1. j \in 1 .. Len(c)
          BY <1>1, <3>5, <4>2
        <5> QED
          BY <3>4, <5>1 DEF CacheOk
      <4> QED
        BY <1>1, <3>5, <4>1, <4>2
    <3> QED
      BY <3>4, <3>5, <3>6, <3>7, <3>8, <3>9 DEF CacheOk
  <2> QED
    BY <2>1, <2>2
<1>3. d = [room EXCEPT ![f] = [wd |-> wd, path |-> p]]
  BY DEF addWatchToCache
<1> HIDE DEF room
<1>4. f \in 1 .. Len(room) /\ room[f].wd = NoWatch
  <2>1. /\ f \in Nat /\ (f > 0 => f \in 1 .. Len(room) /\ room[f].wd = NoWatch)
        /\ (f = 0 => \A i \in 1 .. Len(room) : room[i].wd # NoWatch)
    BY <1>2, SlotOf, SMTT(20) DEF CacheOk
  <2> HIDE DEF f
  <2> QED
    BY <1>2, <2>1
<1> HIDE DEF f
<1>5. IsSeq(d) /\ Len(d) = Len(room) /\ DOMAIN d = 1 .. Len(room)
  <2>1. DOMAIN d = 1 .. Len(room) /\ d = [j \in 1 .. Len(room) |-> d[j]]
    BY <1>2, <1>3
  <2>2. d \in Seq(Range(d)) /\ Len(d) = Len(room)
    BY <1>2, <2>1 DEF Range
  <2> QED
    BY <2>1, <2>2 DEF IsSeq
<1>6. d[f] = [wd |-> wd, path |-> p] /\ \A j \in 1 .. Len(room) : j # f => d[j] = room[j]
  BY <1>2, <1>3, <1>4
<1>7. CacheOk(d)
  BY <1>2, <1>5, <1>6 DEF CacheOk
<1>8. Used(d) = Used(c) \cup {f} /\ f \notin Used(c)
  <2>1. Used(room) = Used(c)
    BY <1>1, <1>2, SMTT(20) DEF Used, EmptySlot
  <2> QED
    BY <1>2, <1>4, <1>5, <1>6, <2>1, SMTT(20) DEF Used
<1>9. \A j \in Used(c) : d[j] = c[j]
  BY <1>1, <1>2, <1>6, <1>8, SMTT(20) DEF Used
<1>10. CachedWds(d) = CachedWds(c) \cup {wd}
  <2>1. CachedWds(d) = {d[j].wd : j \in Used(c)} \cup {d[f].wd}
    BY <1>8 DEF CachedWds
  <2>2. CachedWds(d) = {c[j].wd : j \in Used(c)} \cup {d[f].wd}
    BY <1>9, <2>1, SMTT(20)
  <2> QED
    BY <1>6, <2>2, SMTT(20) DEF CachedWds
<1>11. ASSUME Distinct(c) PROVE Distinct(d)
  BY <1>6, <1>8, <1>9, <1>11, SMTT(20) DEF CachedWds, Distinct
<1> QED
  BY <1>7, <1>10, <1>11

\* The cache after traverseTree(): the watch is in it.
LEMMA CachesWatch ==
    ASSUME NEW c, CacheOk(c), NEW wd, wd # NoWatch, NEW p, NEW d, d = cacheWatch(c, wd, p)
    PROVE  CacheOk(d) /\ CachedWds(d) = CachedWds(c) \cup {wd} /\ (Distinct(c) => Distinct(d))
<1> DEFINE f == findWatch(c, wd)
<1>1. /\ f \in Nat /\ (f > 0 => f \in 1 .. Len(c) /\ c[f].wd = wd)
      /\ f = 0 => \A i \in 1 .. Len(c) : c[i].wd # wd
  BY SlotOf, SMTT(20) DEF CacheOk
<1>2. d = IF f > 0 THEN c ELSE addWatchToCache(c, wd, p)
  BY DEF cacheWatch
<1>3. Len(c) \in Nat /\ DOMAIN c = 1 .. Len(c)
  BY InRange DEF CacheOk
<1> HIDE DEF f
<1>4. CASE f > 0
  <2>1. d = c
    BY <1>2, <1>4
  <2>2. f \in Used(c) /\ c[f].wd = wd
    BY <1>1, <1>3, <1>4 DEF Used
  <2>3. wd \in CachedWds(c)
    BY <2>2 DEF CachedWds
  <2> QED
    BY <2>1, <2>3
<1>5. CASE f = 0
  <2>1. d = addWatchToCache(c, wd, p)
    BY <1>2, <1>5
  <2>2. wd \notin CachedWds(c)
    BY <1>1, <1>3, <1>5 DEF CachedWds, Used
  <2> QED
    BY <2>1, <2>2, NewSlot
<1> QED
  BY <1>1, <1>4, <1>5

\* A rename rewrites pathnames and nothing else.
LEMMA Rewritten ==
    ASSUME NEW c, CacheOk(c), NEW old, NEW new, NEW d, d = rewriteCachedPaths(c, old, new)
    PROVE  CacheOk(d) /\ CachedWds(d) = CachedWds(c) /\ (Distinct(c) => Distinct(d))
<1>1. Len(c) \in Nat /\ DOMAIN c = 1 .. Len(c)
  BY InRange DEF CacheOk
<1>2. DOMAIN d = 1 .. Len(c) /\ d = [j \in 1 .. Len(c) |-> d[j]]
  BY <1>1 DEF rewriteCachedPaths
<1>3. IsSeq(d) /\ Len(d) = Len(c)
  <2>1. d \in Seq(Range(d)) /\ Len(d) = Len(c)
    BY <1>1, <1>2 DEF Range
  <2> QED
    BY <2>1 DEF IsSeq
<1>4. ASSUME NEW j \in 1 .. Len(c) PROVE d[j].wd = c[j].wd /\ d[j] = [wd |-> d[j].wd, path |-> d[j].path]
  <2>1. c[j] = [wd |-> c[j].wd, path |-> c[j].path]
    BY DEF CacheOk
  <2>2. \/ d[j] = c[j]
        \/ \E p : d[j] = [c[j] EXCEPT !.path = p]
    BY <1>1 DEF rewriteCachedPaths
  <2>3. ASSUME NEW p PROVE [c[j] EXCEPT !.path = p] = [wd |-> c[j].wd, path |-> p]
    BY <2>1
  <2> QED
    BY <2>1, <2>2, <2>3
<1>5. CacheOk(d)
  BY <1>3, <1>4 DEF CacheOk
<1>6. Used(d) = Used(c)
  BY <1>1, <1>2, <1>4 DEF Used
<1>7. \A j \in Used(c) : d[j].wd = c[j].wd
  BY <1>1, <1>4 DEF Used
<1> QED
  BY <1>5, <1>6, <1>7 DEF CachedWds, Distinct

=============================================================================
