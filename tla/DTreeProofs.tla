----------------------------- MODULE DTreeProofs -----------------------------
(***************************************************************************)
(* Theorems about DTree, for any trees, roots, queue lengths and buffer    *)
(* sizes, any changes by other processes and any commands.                 *)
(***************************************************************************)
EXTENDS DTreeLemmas

-----------------------------------------------------------------------------
(* What fits together still does after each kind of step.                  *)

\* A new instance, an empty cache.
LEMMA FitsNone == Fits(<< >>, << >>, << >>, << >>, 1)
<1>1. IsSeq(<< >>) /\ Len(<< >>) = 0 /\ << >> \o << >> = << >> /\ DOMAIN << >> = {}
  <2>1. << >> \in Seq({}) /\ Len(<< >>) = 0 /\ DOMAIN << >> = {}
    BY EmptySeq
  <2> QED
    BY <2>1, SeqRange, ConcatEmptySeq
<1>2. GoneAt(<< >>) = {} /\ GoneWds(<< >>) = {}
  BY <1>1 DEF GoneAt, GoneWds
<1>3. Used(<< >>) = {} /\ CachedWds(<< >>) = {}
  BY <1>1 DEF Used, CachedWds
<1>4. CacheOk(<< >>) /\ Distinct(<< >>)
  BY <1>1, <1>3 DEF CacheOk, Distinct
<1>5. WatchesOk(<< >>, 1)
  BY <1>1 DEF WatchesOk
<1>6. GoneOnce(<< >> \o << >>, DOMAIN << >>, 1)
  BY <1>1, <1>2 DEF GoneOnce
<1>7. Synced(<< >> \o << >>, << >>, DOMAIN << >>)
  BY <1>1, <1>2, <1>3, <1>4 DEF Synced
<1> QED
  BY <1>1, <1>4, <1>5, <1>6, <1>7 DEF Fits

\* Some watches are dropped.
LEMMA FewerWatches ==
    ASSUME NEW w, NEW n, WatchesOk(w, n), NEW x, DOMAIN x \subseteq DOMAIN w, \A v \in DOMAIN x : x[v] = w[v]
    PROVE  WatchesOk(x, n)
BY DEF WatchesOk

\* The kernel drops the watches W and posts that they have gone.
LEMMA FitsPosts ==
    ASSUME NEW b, NEW q, NEW c, NEW w, NEW n, Fits(b, q, c, w, n), NEW W \in SUBSET DOMAIN w,
           NEW r, Adds(q, r, W), NEW x, DOMAIN x = DOMAIN w \ W, \A v \in DOMAIN x : x[v] = w[v]
    PROVE  Fits(b, r, c, x, n)
<1> DEFINE D == DOMAIN w
           E == DOMAIN x
<1>1. IsSeq(b) /\ IsSeq(q) /\ GoneOnce(b \o q, D, n) /\ D \subseteq 1 .. n - 1 /\ n \in Nat /\ IsSeq(r)
  BY DEF Fits, WatchesOk, Adds
<1>2. E \in SUBSET (D \ W)
  OBVIOUS
<1> HIDE DEF D, E
<1>3. /\ GoneOnce(b \o r, E, n) /\ (Lost(b \o q) => Lost(b \o r))
      /\ ~Lost(b \o r) => GoneWds(b \o r) = GoneWds(b \o q) \cup W
  <2>1. Tells(b \o q, b \o r, W, E, n)
    BY <1>1, <1>2, Grows DEF D
  <2> QED
    BY <2>1 DEF Tells
<1>4. WatchesOk(x, n)
  BY DEF Fits, WatchesOk
<1>5. Synced(b \o r, c, E)
  BY <1>3 DEF Synced, Fits, D, E
<1> QED
  BY <1>1, <1>3, <1>4, <1>5 DEF Fits, E

\* zapSubtree() drops watches and their slots together.
LEMMA FitsZap ==
    ASSUME NEW b, NEW q, NEW c, NEW w, NEW n, Fits(b, q, c, w, n), NEW Z \in SUBSET Used(c),
           WdsIn(c, Z) \subseteq DOMAIN w, NEW r, Adds(q, r, {}), NEW x, x = Restrict(w, DOMAIN w \ WdsIn(c, Z))
    PROVE  Fits(b, r, Without(c, Z), x, n)
<1> DEFINE d == Without(c, Z)
           W == WdsIn(c, Z)
           D == DOMAIN w
           E == DOMAIN x
<1>1. /\ IsSeq(b) /\ IsSeq(q) /\ GoneOnce(b \o q, D, n) /\ D \subseteq 1 .. n - 1 /\ n \in Nat /\ IsSeq(r)
      /\ CacheOk(c) /\ Synced(b \o q, c, D) /\ WatchesOk(w, n)
  BY DEF Fits, WatchesOk, Adds
<1>2. E = D \ W /\ \A v \in E : x[v] = w[v]
  BY DEF Restrict
<1>3. CacheOk(d) /\ (Distinct(c) => Distinct(d) /\ CachedWds(d) = CachedWds(c) \ W)
  <2>1. Forgets(c, d, W)
    BY <1>1, Emptied
  <2> QED
    BY <2>1 DEF Forgets
<1>0. W \subseteq D
  OBVIOUS
<1> HIDE DEF D, E, W, d
<1>4. /\ GoneOnce(b \o r, E, n) /\ (Lost(b \o q) => Lost(b \o r))
      /\ ~Lost(b \o r) => GoneWds(b \o r) = GoneWds(b \o q) \cup {}
  <2>1. {} \in SUBSET D /\ E \in SUBSET (D \ {})
    BY <1>2
  <2>2. Tells(b \o q, b \o r, {}, E, n)
    BY <1>1, <2>1, Grows
  <2> QED
    BY <2>2 DEF Tells
<1>5. WatchesOk(x, n)
  <2>1. DOMAIN x \subseteq DOMAIN w /\ \A v \in DOMAIN x : x[v] = w[v]
    BY <1>2 DEF D, E
  <2> QED
    BY <1>1, <2>1, FewerWatches
<1>6. GoneWds(b \o q) \cap D = {}
  BY <1>1, ZenonT(20) DEF GoneOnce, GoneWds
<1>7. Synced(b \o r, d, E)
  <2> SUFFICES ASSUME ~Lost(b \o r) PROVE CachedWds(d) = E \cup GoneWds(b \o r) /\ Distinct(d)
    BY DEF Synced
  <2>1. CachedWds(c) = D \cup GoneWds(b \o q) /\ Distinct(c)
    BY <1>1, <1>4 DEF Synced
  <2> QED
    BY <1>0, <1>2, <1>3, <1>4, <1>6, <2>1
<1> QED
  BY <1>1, <1>3, <1>4, <1>5, <1>7 DEF Fits, E, d

\* The program is done with k events, none of which tells of the end of a watch.
LEMMA FitsDone ==
    ASSUME NEW b, NEW q, NEW c, NEW w, NEW n, Fits(b, q, c, w, n), NEW k \in 1 .. Len(b),
           \A i \in 1 .. k : ~IsGone(b[i]) /\ b[i] # Overflow
    PROVE  Fits(SubSeq(b, k + 1, Len(b)), q, c, w, n)
<1> DEFINE e == SubSeq(b, k + 1, Len(b))
           W == {b[i].wd : i \in {j \in 1 .. k : IsGone(b[j])}}
<1>1. IsSeq(b) /\ IsSeq(q) /\ GoneOnce(b \o q, DOMAIN w, n)
  BY DEF Fits
<1>2. k \in 0 .. Len(b)
  BY <1>1, InRange
<1>3. IsSeq(e) /\ Len(e) = Len(b) - k /\ \A i \in 1 .. Len(e) : e[i] = b[i + k]
  BY <1>1, <1>2, Cut
<1> HIDE DEF e
<1>4. /\ GoneOnce(e \o q, DOMAIN w, n)
      /\ Lost(b \o q) => Lost(e \o q)
      /\ GoneWds(e \o q) = GoneWds(b \o q) \ W
  <2>1. Untells(b \o q, e \o q, W, DOMAIN w, n)
    BY <1>1, <1>3, Shrinks
  <2> QED
    BY <2>1 DEF Untells
<1>5. W = {}
  OBVIOUS
<1> HIDE DEF W
<1>6. Synced(e \o q, c, DOMAIN w)
  BY <1>4, <1>5 DEF Synced, Fits
<1> QED
  BY <1>3, <1>4, <1>6 DEF Fits, e

\* The end of a watch was read, and its slot emptied.
LEMMA FitsGone ==
    ASSUME NEW b, NEW q, NEW c, NEW w, NEW n, Fits(b, q, c, w, n), Len(b) > 0, IsGone(b[1]),
           NEW j \in 1 .. Len(c), c[j].wd = b[1].wd
    PROVE  Fits(SubSeq(b, 1 + 1, Len(b)), q, markCacheSlotEmpty(c, j), w, n)
<1> DEFINE e == SubSeq(b, 1 + 1, Len(b))
           d == markCacheSlotEmpty(c, j)
           W == {b[i].wd : i \in {l \in 1 .. 1 : IsGone(b[l])}}
           D == DOMAIN w
<1>1. /\ IsSeq(b) /\ IsSeq(q) /\ GoneOnce(b \o q, D, n) /\ CacheOk(c) /\ WatchesOk(w, n)
      /\ Synced(b \o q, c, D)
  BY DEF Fits
<1>2. 1 \in 0 .. Len(b) /\ 1 \in 1 .. Len(b) /\ Len(b) \in Nat
  BY <1>1, InRange
<1>3. IsSeq(e) /\ Len(e) = Len(b) - 1 /\ \A i \in 1 .. Len(e) : e[i] = b[i + 1]
  BY <1>1, <1>2, Cut
<1> HIDE DEF e, D
<1>4. /\ GoneOnce(e \o q, D, n)
      /\ Lost(b \o q) => Lost(e \o q)
      /\ GoneWds(e \o q) = GoneWds(b \o q) \ W
  <2>1. \A i \in 1 .. 1 : b[i] # Overflow
    BY OverflowNotGone
  <2>2. Untells(b \o q, e \o q, W, D, n)
    BY <1>1, <1>2, <1>3, <2>1, Shrinks
  <2> QED
    BY <2>2 DEF Untells
<1>5. W = {b[1].wd}
  OBVIOUS
<1> HIDE DEF W
<1>7. b[1].wd \in (1 .. n - 1) \ D
  <2>1. Len(b \o q) = Len(b) + Len(q) /\ Len(q) \in Nat /\ (b \o q)[1] = b[1]
    BY <1>1, <1>2, Joined, InRange, SMTT(30)
  <2>2. 1 \in GoneAt(b \o q)
    BY <1>2, <2>1 DEF GoneAt
  <2> QED
    BY <1>1, <2>1, <2>2 DEF GoneOnce
<1>8. b[1].wd # NoWatch
  BY <1>1, <1>7 DEF NoWatch, WatchesOk
<1>9. DOMAIN c = 1 .. Len(c)
  BY <1>1, InRange DEF CacheOk
<1>10. j \in Used(c)
  BY <1>8, <1>9 DEF Used
<1>11. d = Without(c, {j})
  BY <1>9 DEF markCacheSlotEmpty, Without
<1>12. {j} \in SUBSET Used(c) /\ W = WdsIn(c, {j})
  BY <1>5, <1>10 DEF WdsIn
<1> HIDE DEF d
<1>13. CacheOk(d) /\ (Distinct(c) => Distinct(d) /\ CachedWds(d) = CachedWds(c) \ W)
  <2>1. Forgets(c, d, W)
    BY <1>1, <1>11, <1>12, Emptied
  <2> QED
    BY <2>1 DEF Forgets
<1>14. Synced(e \o q, d, D)
  <2> SUFFICES ASSUME ~Lost(e \o q) PROVE CachedWds(d) = D \cup GoneWds(e \o q) /\ Distinct(d)
    BY DEF Synced
  <2>1. ~Lost(b \o q)
    BY <1>4
  <2>2. CachedWds(c) = D \cup GoneWds(b \o q) /\ Distinct(c)
    BY <1>1, <2>1 DEF Synced
  <2>3. W \cap D = {}
    BY <1>5, <1>7
  <2> QED
    BY <1>4, <1>13, <2>2, <2>3
<1> QED
  BY <1>1, <1>3, <1>4, <1>13, <1>14 DEF Fits, e, d, D

\* Events are read.
LEMMA FitsMoves ==
    ASSUME NEW b, NEW q, NEW c, NEW w, NEW n, Fits(b, q, c, w, n), NEW k \in 0 .. Len(q)
    PROVE  Fits(b \o SubSeq(q, 1, k), SubSeq(q, k + 1, Len(q)), c, w, n)
<1> DEFINE f == b \o SubSeq(q, 1, k)
           g == SubSeq(q, k + 1, Len(q))
<1>1. IsSeq(b) /\ IsSeq(q)
  BY DEF Fits
<1>2. IsSeq(f) /\ IsSeq(g) /\ f \o g = b \o q
  BY <1>1, Moves
<1> HIDE DEF f, g
<1>3. Fits(f, g, c, w, n)
  BY <1>2 DEF Fits
<1> QED
  BY <1>3 DEF f, g

\* A rename within the trees.
LEMMA FitsRewrite ==
    ASSUME NEW b, NEW q, NEW c, NEW w, NEW n, Fits(b, q, c, w, n), NEW old, NEW new
    PROVE  Fits(b, q, rewriteCachedPaths(c, old, new), w, n)
<1> DEFINE d == rewriteCachedPaths(c, old, new)
<1>1. CacheOk(c)
  BY DEF Fits
<1>2. CacheOk(d) /\ CachedWds(d) = CachedWds(c) /\ (Distinct(c) => Distinct(d))
  BY <1>1, Rewritten
<1> HIDE DEF d
<1>3. Fits(b, q, d, w, n)
  BY <1>2 DEF Fits, Synced
<1> QED
  BY <1>3 DEF d

\* traverseTree() puts a watch on a directory, and into the cache.
LEMMA FitsWatch ==
    ASSUME NEW b, NEW q, NEW c, NEW w, NEW n, Fits(b, q, c, w, n), NEW ino, NEW p,
           NEW wd, NEW m, \/ Watching(w, ino) = {} /\ wd = n /\ m = n + 1
                          \/ wd \in Watching(w, ino) /\ m = n,
           NEW x, DOMAIN x = DOMAIN w \cup {wd}, x[wd].ino = ino,
           \A v \in DOMAIN x : v # wd => x[v] = w[v]
    PROVE  Fits(b, q, cacheWatch(c, wd, p), x, m)
<1> DEFINE d == cacheWatch(c, wd, p)
           D == DOMAIN w
           u == b \o q
<1>1. IsSeq(b) /\ IsSeq(q) /\ GoneOnce(u, D, n) /\ CacheOk(c) /\ WatchesOk(w, n) /\ Synced(u, c, D)
  BY DEF Fits
<1> HIDE DEF D, u
<1>2. n \in Nat \ {0} /\ D \subseteq 1 .. n - 1
  BY <1>1 DEF WatchesOk, D
<1>3. /\ wd \in 1 .. m - 1 /\ m \in Nat \ {0} /\ n <= m /\ m <= n + 1
      /\ wd \in D \/ wd = n
  BY <1>2 DEF Watching, D
<1>4. wd # NoWatch
  BY <1>2, <1>3 DEF NoWatch
<1>5. CacheOk(d) /\ CachedWds(d) = CachedWds(c) \cup {wd} /\ (Distinct(c) => Distinct(d))
  BY <1>1, <1>4, CachesWatch
<1> HIDE DEF d
<1>6. WatchesOk(x, m)
  <2>1. DOMAIN x \subseteq 1 .. m - 1
    BY <1>2, <1>3 DEF D
  <2>2. ASSUME NEW v \in DOMAIN x, v # wd, x[v].ino = x[wd].ino PROVE FALSE
    <3>1. v \in DOMAIN w /\ w[v].ino = ino
      BY <2>2
    <3>2. v \in Watching(w, ino)
      BY <3>1 DEF Watching
    <3>3. wd \in DOMAIN w /\ w[wd].ino = ino
      BY <3>2 DEF Watching
    <3>4. v = wd
      BY <1>1, <3>1, <3>3 DEF WatchesOk
    <3> QED
      BY <2>2, <3>4
  <2>3. ASSUME NEW v \in DOMAIN x, NEW y \in DOMAIN x, v # wd, y # wd, x[v].ino = x[y].ino PROVE v = y
    <3>1. v \in DOMAIN w /\ y \in DOMAIN w /\ w[v].ino = w[y].ino
      BY <2>3
    <3> QED
      BY <1>1, <3>1 DEF WatchesOk
  <2>4. ASSUME NEW v \in DOMAIN x, NEW y \in DOMAIN x, x[v].ino = x[y].ino PROVE v = y
    BY <2>2, <2>3, <2>4
  <2> QED
    BY <1>3, <2>1, <2>4 DEF WatchesOk
<1>7. GoneOnce(u, D \cup {wd}, m)
  <2>1. ASSUME NEW i \in GoneAt(u) PROVE u[i].wd \in (1 .. m - 1) \ (D \cup {wd})
    <3>1. u[i].wd \in (1 .. n - 1) \ D
      BY <1>1 DEF GoneOnce
    <3> QED
      BY <1>2, <1>3, <3>1
  <2>2. ASSUME NEW i \in GoneAt(u), NEW j \in GoneAt(u), u[j].wd = u[i].wd PROVE i = j
    BY <1>1, <2>2 DEF GoneOnce
  <2> QED
    BY <2>1, <2>2 DEF GoneOnce
<1>8. Synced(u, d, D \cup {wd})
  BY <1>1, <1>5 DEF Synced
<1>9. DOMAIN x = D \cup {wd}
  BY DEF D
<1> QED
  BY <1>1, <1>5, <1>6, <1>7, <1>8, <1>9 DEF Fits, d, u

\* zapSubtree() as the program calls it, with b left in the buffer.
LEMMA Zapped ==
    ASSUME NEW b, Fits(b, queue, cache, watch, nextWd), NEW p, zapSubtree(p)
    PROVE  Fits(b, queue', cache', watch', nextWd)
<1> DEFINE Z == zapSlots(cache, p)
           W == WdsIn(cache, Z)
<1>1. IsSeq(cache) /\ IsSeq(queue)
  BY DEF Fits, CacheOk
<1>2. Len(cache) \in Nat /\ DOMAIN cache = 1 .. Len(cache)
  BY <1>1, InRange
<1>3. Z \in SUBSET Used(cache) /\ Used(cache) \subseteq 1 .. Len(cache)
  BY <1>2 DEF zapSlots, Used
<1>4. W \in SUBSET DOMAIN watch
  <2>1. ASSUME NEW j \in Z PROVE cache[j].wd \in DOMAIN watch
    <3>1. j \in Used(cache) /\ j <= j
      BY <1>3
    <3> QED
      BY <3>1 DEF zapSlots
  <2> QED
    BY <2>1 DEF WdsIn
<1>5. /\ cache' = Without(cache, Z)
      /\ watch' = Restrict(watch, DOMAIN watch \ W)
      /\ \E order \in Orders(Z) :
            queue' = PostAll(queue, [i \in DOMAIN order |->
                        Event(cache[order[i]].wd, "IGNORED", NoName, 0)])
  BY DEF zapSubtree, Without, WdsIn
<1> HIDE DEF Z, W
<1>6. PICK order \in Orders(Z) :
         queue' = PostAll(queue, [i \in DOMAIN order |-> Event(cache[order[i]].wd, "IGNORED", NoName, 0)])
  BY <1>5
<1>7. Adds(queue, queue', {})
  <2> DEFINE es == [i \in DOMAIN order |-> Event(cache[order[i]].wd, "IGNORED", NoName, 0)]
  <2>1. IsFiniteSet(Z)
    <3>1. IsFiniteSet(1 .. Len(cache))
      BY <1>2, FS_Interval
    <3>2. Z \subseteq 1 .. Len(cache)
      BY <1>3
    <3> QED
      BY <3>1, <3>2, FS_Subset
  <2>2. order \in Seq(Z)
    BY <2>1, AllOf
  <2>3. Len(order) \in Nat /\ DOMAIN order = 1 .. Len(order)
    BY <2>2
  <2>4. es \in Seq(Range(es)) /\ Len(es) = Len(order)
    BY <2>3 DEF Range
  <2>5. IsSeq(es)
    BY <2>4 DEF IsSeq
  <2>6. ASSUME NEW i \in 1 .. Len(es) PROVE ~IsGone(es[i])
    BY <2>3, <2>4 DEF IsGone, Event
  <2> HIDE DEF es
  <2>7. GoneAt(es) = {}
    BY <2>6 DEF GoneAt
  <2>8. queue' = PostAll(queue, es)
    BY <1>6 DEF es
  <2> QED
    BY <1>1, <2>5, <2>7, <2>8, PostAllAdds
<1> QED
  BY <1>3, <1>4, <1>5, <1>7, FitsZap DEF W

-----------------------------------------------------------------------------
(* The steps.                                                              *)

\* Half of an odd number, rounded up, tells which one it was.
LEMMA OddHalves ==
    ASSUME NEW i \in Nat, NEW j \in Nat, i % 2 = 1, j % 2 = 1, (i + 1) \div 2 = (j + 1) \div 2
    PROVE  i = j
OBVIOUS

\* What an unmount posts: of each watch in turn that it has gone.
LEMMA UnmountAdds ==
    ASSUME NEW q, IsSeq(q), NEW W, IsFiniteSet(W), NEW order \in Orders(W), NEW r,
           r = PostAll(q, [i \in 1 .. 2 * Len(order) |->
                    Event(order[(i + 1) \div 2], IF i % 2 = 1 THEN "UNMOUNT" ELSE "IGNORED", NoName, 0)])
    PROVE  Adds(q, r, W)
<1> DEFINE es == [i \in 1 .. 2 * Len(order) |->
                    Event(order[(i + 1) \div 2], IF i % 2 = 1 THEN "UNMOUNT" ELSE "IGNORED", NoName, 0)]
<1>1. /\ order \in Seq(W) /\ \A i, j \in 1 .. Len(order) : order[i] = order[j] => i = j
      /\ \A x \in W : \E i \in 1 .. Len(order) : order[i] = x
  BY AllOf
<1>2. Len(order) \in Nat /\ \A i \in 1 .. Len(order) : order[i] \in W
  BY <1>1
<1>3. es \in Seq(Range(es)) /\ Len(es) = 2 * Len(order)
  <2>1. 2 * Len(order) \in Nat /\ DOMAIN es = 1 .. 2 * Len(order)
    BY <1>2
  <2> HIDE DEF es
  <2>2. es = [i \in 1 .. 2 * Len(order) |-> es[i]]
    BY DEF es
  <2>3. \A i \in 1 .. 2 * Len(order) : es[i] \in Range(es)
    BY <2>1 DEF Range
  <2> QED
    BY <2>1, <2>2, <2>3
<1>4. \A i \in 1 .. 2 * Len(order) : es[i].wd = order[(i + 1) \div 2] /\ (IsGone(es[i]) <=> i % 2 = 1)
  BY DEF Event, IsGone
<1>5. IsSeq(es)
  BY <1>3 DEF IsSeq
<1>6. r = PostAll(q, es)
  OBVIOUS
<1> HIDE DEF es
<1>7. \A i \in GoneAt(es) : i \in 1 .. 2 * Len(order) /\ i % 2 = 1 /\ es[i].wd = order[(i + 1) \div 2]
  BY <1>3, <1>4 DEF GoneAt
<1>8. \A i \in GoneAt(es) : (i + 1) \div 2 \in 1 .. Len(order)
  BY <1>2, <1>7
<1>9. ASSUME NEW i \in GoneAt(es), NEW j \in GoneAt(es), es[j].wd = es[i].wd PROVE i = j
  <2> DEFINE m == (i + 1) \div 2
             l == (j + 1) \div 2
  <2>1. m \in 1 .. Len(order) /\ l \in 1 .. Len(order) /\ order[m] = order[l]
    BY <1>7, <1>8, <1>9
  <2>2. m = l
    <3> HIDE DEF m, l
    <3> QED
      BY <1>1, <2>1
  <2>3. i \in 1 .. 2 * Len(order) /\ j \in 1 .. 2 * Len(order) /\ i % 2 = 1 /\ j % 2 = 1
    BY <1>7
  <2>4. i \in Nat /\ j \in Nat
    BY <1>2, <2>3
  <2> QED
    BY <2>2, <2>3, <2>4, OddHalves
<1>10. \A i \in GoneAt(es) : es[i].wd \in W
  BY <1>2, <1>7, <1>8
<1>11. ASSUME NEW x \in W PROVE x \in GoneWds(es)
  <2>1. PICK k \in 1 .. Len(order) : order[k] = x
    BY <1>1
  <2>2. 2 * k - 1 \in 1 .. 2 * Len(order) /\ (2 * k - 1) % 2 = 1 /\ ((2 * k - 1) + 1) \div 2 = k
    BY <1>2
  <2>3. 2 * k - 1 \in GoneAt(es) /\ es[2 * k - 1].wd = x
    BY <1>3, <1>4, <2>1, <2>2 DEF GoneAt
  <2> QED
    BY <2>3 DEF GoneWds
<1> QED
  BY <1>5, <1>6, <1>9, <1>10, <1>11, PostAllAdds

\* The kernel's part of a step: the watches W end, and are said to end.
Ends(W) == /\ W \in SUBSET DOMAIN watch /\ Adds(queue, queue', W) /\ nextWd' = nextWd
           /\ DOMAIN watch' = DOMAIN watch \ W /\ \A v \in DOMAIN watch' : watch'[v] = watch[v]

\* Every change of the tree by another process.
LEMMA TreeEnds ==
    ASSUME IsSeq(queue), WatchesOk(watch, nextWd), Operation \/ \E r \in pend : RenameTo(r)
    PROVE  \E W : Ends(W)
<1>1. ASSUME watch' = watch, nextWd' = nextWd, Adds(queue, queue', {}) PROVE Ends({})
  BY <1>1 DEF Ends
<1>2. ASSUME NEW ino, watch' = Drop(watch, ino), nextWd' = nextWd, Adds(queue, queue', Watching(watch, ino))
      PROVE  Ends(Watching(watch, ino))
  BY <1>2 DEF Ends, Drop, Restrict, Watching
<1>3. \A v, w \in DOMAIN watch : watch[v].ino = watch[w].ino => v = w
  BY DEF WatchesOk
<1>4. ASSUME NEW p \in Paths, Mkdir(p) PROVE \E W : Ends(W)
  BY <1>1, <1>4, NotifyAdds DEF Mkdir
<1>5. ASSUME NEW p \in Paths, Rmdir(p) PROVE \E W : Ends(W)
  BY <1>2, <1>3, <1>5, NotifyGoneAdds DEF Rmdir
<1>6. ASSUME NEW t \in Tops, Unmount(t) PROVE \E W : Ends(W)
  <2> DEFINE inos == {fs[p] : p \in Under(<<t>>)}
             W    == {wd \in DOMAIN watch : watch[wd].ino \in inos}
  <2>1. watch' = Restrict(watch, DOMAIN watch \ W) /\ nextWd' = nextWd
    BY <1>6 DEF Unmount
  <2>2. PICK order \in Orders(W) :
           queue' = PostAll(queue, [i \in 1 .. 2 * Len(order) |->
                          Event(order[(i + 1) \div 2], IF i % 2 = 1 THEN "UNMOUNT" ELSE "IGNORED",
                                NoName, 0)])
    BY <1>6 DEF Unmount
  <2>3. W \subseteq DOMAIN watch
    OBVIOUS
  <2> HIDE DEF W
  <2>4. IsFiniteSet(W)
    <3>1. nextWd - 1 \in Int /\ W \subseteq 1 .. nextWd - 1
      BY <2>3 DEF WatchesOk
    <3>2. IsFiniteSet(1 .. nextWd - 1)
      BY <3>1, FS_Interval
    <3> QED
      BY <3>1, <3>2, FS_Subset
  <2>5. Adds(queue, queue', W)
    BY <2>2, <2>4, UnmountAdds
  <2>6. Ends(W)
    BY <2>1, <2>3, <2>5 DEF Ends, Restrict
  <2> QED
    BY <2>6
<1>7. ASSUME NEW p \in DOMAIN fs, NEW q \in Paths, RenameFrom(p, q) PROVE \E W : Ends(W)
  <2>1. /\ queue' = Notify(queue, ParentIno(p), "MOVED_FROM", Last(p), ops + 1)
        /\ watch' = watch /\ nextWd' = nextWd
    BY <1>7 DEF RenameFrom
  <2> QED
    BY <1>1, <2>1, NotifyAdds
<1>8. ASSUME NEW r \in pend, RenameTo(r) PROVE \E W : Ends(W)
  <2> DEFINE self == \E wd \in Watching(watch, r.moved) : watch[wd].self
             q1   == Notify(queue, r.to, "MOVED_TO", r.name, r.cookie)
             q2   == IF self THEN Notify(q1, r.moved, "MOVE_SELF", NoName, 0) ELSE q1
             V    == Watching(watch, r.victim)
  <2>1. queue' = NotifyGone(q2, r.victim) /\ watch' = Drop(watch, r.victim) /\ nextWd' = nextWd
    BY <1>8 DEF RenameTo
  <2>2. Adds(queue, q1, {})
    BY NotifyAdds
  <2>3. IsSeq(q1)
    BY <2>2 DEF Adds
  <2> HIDE DEF q1, self
  <2>4. Adds(q1, q2, {})
    <3>1. CASE self
      BY <2>3, <3>1, NotifyAdds
    <3>2. CASE ~self
      BY <2>3, <3>2, AddsNothing
    <3> QED
      BY <3>1, <3>2
  <2> HIDE DEF q2
  <2>5. IsSeq(q2)
    BY <2>4 DEF Adds
  <2>6. Adds(queue, q2, {} \cup {})
    BY <2>2, <2>4, AddsThen
  <2>7. Adds(queue, q2, {})
    BY <2>6
  <2>8. Adds(q2, queue', V)
    BY <1>3, <2>1, <2>5, NotifyGoneAdds
  <2> HIDE DEF V
  <2>9. Adds(queue, queue', {} \cup V)
    BY <2>7, <2>8, AddsThen
  <2>10. Adds(queue, queue', V)
    BY <2>9
  <2> QED
    BY <1>2, <2>1, <2>10 DEF V
<1> QED
  BY <1>4, <1>5, <1>6, <1>7, <1>8 DEF Operation

\* The invariant after a step, from what it does to each part.
LEMMA NowFits ==
    ASSUME pc' \notin Stopped => /\ Fits(buf', queue', cache', watch', nextWd')
                                 /\ pc' \in {"select", "read"} \/ (pc' = "walk" /\ after' \in {"select", "read"})
                                    => buf' = << >>
    PROVE  WatchInv'
BY DEF WatchInv, BufferUsed

\* A step of another process.
LEMMA TreeStep == ASSUME WatchInv, Tree PROVE WatchInv'
<1>1. /\ Operation \/ \E r \in pend : RenameTo(r)
      /\ buf' = buf /\ cache' = cache /\ pc' = pc /\ after' = after
  BY DEF Tree, prog
<1>2. ASSUME pc \notin Stopped PROVE Fits(buf', queue', cache', watch', nextWd')
  <2>1. Fits(buf, queue, cache, watch, nextWd)
    BY <1>2 DEF WatchInv
  <2>2. PICK W : Ends(W)
    BY <1>1, <2>1, TreeEnds DEF Fits
  <2>3. Fits(buf, queue', cache, watch', nextWd)
    BY <2>1, <2>2, FitsPosts DEF Ends
  <2> QED
    BY <1>1, <2>2, <2>3 DEF Ends
<1> QED
  BY <1>1, <1>2, NowFits DEF WatchInv, BufferUsed

\* A step of the program that leaves the events, the watches and the cache alone.
LEMMA Idles ==
    ASSUME WatchInv, pc \notin Stopped, buf' = buf, cache' = cache, UNCHANGED inotify,
           pc' \in {"select", "read"} \/ (pc' = "walk" /\ after' \in {"select", "read"}) => buf = << >>
    PROVE  WatchInv'
<1>1. watch' = watch /\ nextWd' = nextWd /\ queue' = queue
  BY DEF inotify
<1> QED
  BY <1>1, NowFits DEF WatchInv

\* A new instance and an empty cache.
LEMMA Reinitialized ==
    ASSUME NEW roots, NEW then, reinitialize(roots, then), buf' = << >>
    PROVE  WatchInv'
BY FitsNone, NowFits DEF reinitialize

\* findWatchChecked() fails.
LEMMA Problem == ASSUME CacheProblem PROVE WatchInv'
BY Reinitialized, NowFits DEF CacheProblem, discardBuffer, Stopped

\* The traversal of the trees.
LEMMA WalkSteps == ASSUME WatchInv, Walk PROVE WatchInv'
<1>1. CASE WalkStat
  BY <1>1, Idles DEF WalkStat, WalkStep, Stopped, WatchInv, BufferUsed
<1>2. CASE WalkList
  BY <1>2, Idles DEF WalkList, WalkStep, Stopped, WatchInv, BufferUsed
<1>3. CASE WalkDone
  BY <1>3, Idles DEF WalkDone, Stopped, WatchInv, BufferUsed
<1>4. CASE traverseTree
  <2>1. /\ pc = "walk" /\ pc' = pc /\ after' = after /\ buf' = buf /\ queue' = queue
        /\ Fits(buf, queue, cache, watch, nextWd) /\ BufferUsed
    BY <1>4 DEF traverseTree, WalkStep, Stopped, WatchInv
  <2>2. CASE Head1.path \notin DOMAIN fs
    BY <1>4, <2>1, <2>2, NowFits DEF traverseTree, BufferUsed
  <2>3. CASE Head1.path \in DOMAIN fs
    <3> DEFINE ino == fs[Head1.path]
               old == Watching(watch, ino)
               wd  == IF old = {} THEN nextWd ELSE CHOOSE w \in old : TRUE
    <3>1. /\ watch' = [w \in DOMAIN watch \cup {wd} |->
                          IF w = wd THEN [ino |-> ino, self |-> isRootDirPath(Head1.path)] ELSE watch[w]]
          /\ nextWd' = IF old = {} THEN nextWd + 1 ELSE nextWd
          /\ cache' = cacheWatch(cache, wd, Head1.path)
      BY <1>4, <2>3 DEF traverseTree
    <3>2. \/ Watching(watch, ino) = {} /\ wd = nextWd /\ nextWd' = nextWd + 1
          \/ wd \in Watching(watch, ino) /\ nextWd' = nextWd
      BY <3>1
    <3> HIDE DEF wd, old, ino
    <3>3. /\ DOMAIN watch' = DOMAIN watch \cup {wd} /\ watch'[wd].ino = ino
          /\ \A v \in DOMAIN watch' : v # wd => watch'[v] = watch[v]
      BY <3>1
    <3>4. Fits(buf, queue, cacheWatch(cache, wd, Head1.path), watch', nextWd')
      BY <2>1, <3>2, <3>3, FitsWatch
    <3> QED
      BY <2>1, <3>1, <3>4, NowFits DEF BufferUsed
  <2> QED
    BY <2>2, <2>3
<1> QED
  BY <1>1, <1>2, <1>3, <1>4 DEF Walk

\* The event in hand.
LEMMA EventInHand ==
    ASSUME WatchInv, NEW masks, Event1(masks), "Q_OVERFLOW" \notin masks
    PROVE  /\ Fits(buf, queue, cache, watch, nextWd) /\ Len(buf) > 0 /\ Len(buf) \in Nat
           /\ ev = buf[1] /\ ev.mask \in masks /\ ev # Overflow /\ pc \notin Stopped
           /\ slot \in Nat /\ (slot > 0 => slot \in 1 .. Len(cache) /\ cache[slot].wd = ev.wd)
<1>1. /\ pc \notin Stopped /\ Fits(buf, queue, cache, watch, nextWd) /\ buf # << >> /\ ev.mask \in masks
  BY DEF Event1, WatchInv, Stopped
<1>2. IsSeq(buf) /\ IsSeq(cache)
  BY <1>1 DEF Fits, CacheOk
<1>3. Len(buf) > 0 /\ Len(buf) \in Nat /\ ev = buf[1]
  BY <1>1, <1>2, EmptySeq DEF IsSeq, ev
<1>4. ev # Overflow
  BY <1>1 DEF Overflow, Event
<1>5. slot \in Nat /\ (slot > 0 => slot \in 1 .. Len(cache) /\ cache[slot].wd = ev.wd)
  BY <1>2, SlotOf DEF slot
<1> QED
  BY <1>1, <1>3, <1>4, <1>5

\* One event that tells of no end of a watch is done with.
LEMMA OneDone ==
    ASSUME Fits(buf, queue, cache, watch, nextWd), Len(buf) > 0, Len(buf) \in Nat, ev = buf[1], ev # Overflow,
           ev.mask \notin {"DELETE_SELF", "UNMOUNT"}
    PROVE  Fits(SubSeq(buf, 1 + 1, Len(buf)), queue, cache, watch, nextWd)
<1>1. 1 \in 1 .. Len(buf) /\ \A i \in 1 .. 1 : ~IsGone(buf[i]) /\ buf[i] # Overflow
  BY DEF IsGone
<1> QED
  BY <1>1, FitsDone

\* processNextInotifyEvent().
LEMMA HandleSteps == ASSUME WatchInv, Handle PROVE WatchInv'
<1>1. CASE UnknownWatch
  BY <1>1, Problem DEF UnknownWatch
<1>2. CASE QueueOverflow
  BY <1>2, Reinitialized DEF QueueOverflow, discardBuffer
<1>3. CASE HangingMovedFrom
  BY <1>3, Idles DEF HangingMovedFrom, Known, Event1, Stopped
<1>4. CASE DirCreated
  <2>1. Event1({"CREATE", "MOVED_TO"})
    BY <1>4 DEF DirCreated, Known
  <2>2. Fits(SubSeq(buf, 1 + 1, Len(buf)), queue, cache, watch, nextWd)
    BY <2>1, EventInHand, OneDone
  <2>3. /\ buf' = SubSeq(buf, 1 + 1, Len(buf)) /\ queue' = queue /\ cache' = cache /\ watch' = watch
        /\ nextWd' = nextWd /\ (pc' = "check" \/ (pc' = "walk" /\ after' = "check"))
    <3>1. buf' = SubSeq(buf, 1 + 1, Len(buf)) /\ UNCHANGED <<inotify, cache>>
      BY <1>4 DEF DirCreated, Consume
    <3>2. pc' = "check" \/ watchSubtree(name, "check")
      BY <1>4, Zenon DEF DirCreated
    <3> QED
      BY <3>1, <3>2 DEF watchSubtree, inotify
  <2> QED
    BY <2>2, <2>3, NowFits
<1>5. CASE Skipped
  <2>1. Event1({"IGNORED"}) \/ Event1({"MOVE_SELF"})
    BY <1>5 DEF Skipped, Known
  <2>2. Fits(SubSeq(buf, 1 + 1, Len(buf)), queue, cache, watch, nextWd)
    BY <2>1, EventInHand, OneDone
  <2>3. /\ buf' = SubSeq(buf, 1 + 1, Len(buf)) /\ queue' = queue /\ cache' = cache /\ watch' = watch
        /\ nextWd' = nextWd /\ pc' = "check"
    BY <1>5 DEF Skipped, Consume, inotify
  <2> QED
    BY <2>2, <2>3, NowFits
<1>6. CASE DirDeleted
  <2>1. Event1({"DELETE_SELF"}) /\ slot > 0
    BY <1>6 DEF DirDeleted, Known
  <2>2. CASE pc' = "noRoots"
    BY <2>2, NowFits DEF Stopped
  <2>3. CASE pc' # "noRoots"
    <3>1. IsGone(buf[1]) /\ Fits(SubSeq(buf, 1 + 1, Len(buf)), queue, markCacheSlotEmpty(cache, slot), watch, nextWd)
      BY <2>1, EventInHand, FitsGone DEF IsGone
    <3>2. /\ buf' = SubSeq(buf, 1 + 1, Len(buf)) /\ queue' = queue /\ cache' = markCacheSlotEmpty(cache, slot)
          /\ watch' = watch /\ nextWd' = nextWd /\ pc' = "check"
      BY <1>6, <2>3 DEF DirDeleted, Consume, inotify
    <3> QED
      BY <3>1, <3>2, NowFits
  <2> QED
    BY <2>2, <2>3
<1>7. CASE Unmounted
  <2>1. Event1({"UNMOUNT"}) /\ slot > 0
    BY <1>7 DEF Unmounted, Known
  <2>2. IsGone(buf[1]) /\ Fits(SubSeq(buf, 1 + 1, Len(buf)), queue, markCacheSlotEmpty(cache, slot), watch, nextWd)
    BY <2>1, EventInHand, FitsGone DEF IsGone
  <2>3. /\ buf' = SubSeq(buf, 1 + 1, Len(buf)) /\ queue' = queue /\ cache' = markCacheSlotEmpty(cache, slot)
        /\ watch' = watch /\ nextWd' = nextWd /\ pc' = "check"
    BY <1>7 DEF Unmounted, Consume, inotify
  <2> QED
    BY <2>2, <2>3, NowFits
<1>8. CASE DirMovedOut
  <2>1. Event1({"MOVED_FROM"})
    BY <1>8 DEF DirMovedOut, Known
  <2>2. CASE zapFailed(cache, name)
    BY <1>8, <2>2, Reinitialized DEF DirMovedOut, discardBuffer
  <2>3. CASE ~zapFailed(cache, name)
    <3>1. Fits(SubSeq(buf, 1 + 1, Len(buf)), queue, cache, watch, nextWd)
      BY <2>1, EventInHand, OneDone, SMTT(20)
    <3>2. /\ zapSubtree(name) /\ buf' = SubSeq(buf, 1 + 1, Len(buf)) /\ nextWd' = nextWd /\ pc' = "check"
      BY <1>8, <2>3 DEF DirMovedOut, Consume
    <3> QED
      BY <3>1, <3>2, Zapped, NowFits
  <2> QED
    BY <2>2, <2>3
<1>9. CASE RootMoved
  <2>1. Event1({"MOVE_SELF"})
    BY <1>9 DEF RootMoved, Known
  <2>2. CASE pc' = "noRoots"
    BY <2>2, NowFits DEF Stopped
  <2>3. CASE pc' # "noRoots" /\ zapFailed(cache, cache[slot].path)
    BY <1>9, <2>3, Reinitialized DEF RootMoved, discardBuffer
  <2>4. CASE pc' # "noRoots" /\ ~zapFailed(cache, cache[slot].path)
    <3>1. Fits(SubSeq(buf, 1 + 1, Len(buf)), queue, cache, watch, nextWd)
      BY <2>1, EventInHand, OneDone, SMTT(20)
    <3>2. /\ zapSubtree(cache[slot].path) /\ buf' = SubSeq(buf, 1 + 1, Len(buf)) /\ nextWd' = nextWd
          /\ pc' = "check"
      BY <1>9, <2>4 DEF RootMoved, Consume
    <3> QED
      BY <3>1, <3>2, Zapped, NowFits
  <2> QED
    BY <2>2, <2>3, <2>4
<1>10. CASE DirRenamed
  <2> DEFINE slot2 == findWatch(cache, buf[2].wd)
             new   == Append(cache[slot2].path, buf[2].name)
  <2>1. Event1({"MOVED_FROM"}) /\ Len(buf) > 1 /\ buf[2].mask = "MOVED_TO"
    BY <1>10 DEF DirRenamed, Known, Paired
  <2>2. CASE slot2 = 0
    BY <1>10, <2>2, Problem DEF DirRenamed
  <2>3. CASE slot2 # 0
    <3>1. /\ cache' = rewriteCachedPaths(cache, name, new) /\ pc' = "check"
          /\ buf' = SubSeq(buf, 2 + 1, Len(buf)) /\ queue' = queue /\ watch' = watch /\ nextWd' = nextWd
      BY <1>10, <2>3 DEF DirRenamed, Consume, inotify
    <3> HIDE DEF new
    <3>2. /\ Fits(buf, queue, cache, watch, nextWd) /\ Len(buf) \in Nat /\ ev = buf[1] /\ ev # Overflow
          /\ ev.mask = "MOVED_FROM"
      BY <2>1, EventInHand, SMTT(20)
    <3>3. buf[2] # Overflow
      BY <2>1 DEF Overflow, Event
    <3>4. 2 \in 1 .. Len(buf) /\ \A i \in 1 .. 2 : i = 1 \/ i = 2
      BY <2>1, <3>2
    <3>5. \A i \in 1 .. 2 : ~IsGone(buf[i]) /\ buf[i] # Overflow
      BY <2>1, <3>2, <3>3, <3>4 DEF IsGone
    <3>6. Fits(SubSeq(buf, 2 + 1, Len(buf)), queue, cache, watch, nextWd)
      BY <3>2, <3>4, <3>5, FitsDone
    <3> QED
      BY <3>1, <3>6, FitsRewrite, NowFits
  <2> QED
    BY <2>2, <2>3
<1> QED
  BY <1>1, <1>2, <1>3, <1>4, <1>5, <1>6, <1>7, <1>8, <1>9, <1>10 DEF Handle

\* Reading events, and the main loop.
LEMMA LoopSteps == ASSUME WatchInv, Loop PROVE WatchInv'
<1>1. CASE CheckStep
  BY <1>1, Idles DEF CheckStep, Stopped
<1>2. CASE EventsDone
  BY <1>2, Idles DEF EventsDone, Stopped
<1>3. CASE SelectEvents
  BY <1>3, Idles DEF SelectEvents, Stopped, WatchInv, BufferUsed
<1>7. CASE AlarmBeforeRead
  BY <1>7, Idles DEF AlarmBeforeRead, Stopped
<1>4. ASSUME Fits(buf, queue, cache, watch, nextWd)
      PROVE  Take \in 0 .. Len(queue)
  BY <1>4, InRange, DTreeAssumption DEF Fits, Take
<1>5. CASE ReadEvents
  <2>1. /\ Fits(buf, queue, cache, watch, nextWd) /\ buf = << >> /\ pc' = "events" /\ cache' = cache
        /\ watch' = watch /\ nextWd' = nextWd
        /\ buf' = SubSeq(queue, 1, Take) /\ queue' = SubSeq(queue, Take + 1, Len(queue))
    BY <1>5 DEF ReadEvents, Stopped, WatchInv, BufferUsed
  <2>2. Fits(buf \o SubSeq(queue, 1, Take), SubSeq(queue, Take + 1, Len(queue)), cache, watch, nextWd)
    BY <1>4, <2>1, FitsMoves
  <2>3. buf \o SubSeq(queue, 1, Take) = SubSeq(queue, 1, Take)
    <3>1. IsSeq(queue) /\ Take \in 0 .. Len(queue)
      BY <1>4, <2>1 DEF Fits
    <3>2. IsSeq(SubSeq(queue, 1, Take))
      BY <3>1, Moves
    <3> QED
      BY <2>1, <3>2, ConcatEmptySeq DEF IsSeq
  <2> QED
    BY <2>1, <2>2, <2>3, NowFits
<1>6. CASE SecondRead
  <2>1. /\ Fits(buf, queue, cache, watch, nextWd) /\ pc' = "events" /\ cache' = cache
        /\ watch' = watch /\ nextWd' = nextWd
        /\ buf' = buf \o SubSeq(queue, 1, Take) /\ queue' = SubSeq(queue, Take + 1, Len(queue))
    BY <1>6 DEF SecondRead, Stopped, WatchInv
  <2>2. Fits(buf \o SubSeq(queue, 1, Take), SubSeq(queue, Take + 1, Len(queue)), cache, watch, nextWd)
    BY <1>4, <2>1, FitsMoves
  <2> QED
    BY <2>1, <2>2, NowFits
<1> QED
  BY <1>1, <1>2, <1>3, <1>5, <1>6, <1>7 DEF Loop

\* executeCommand().
LEMMA UserSteps == ASSUME WatchInv, User PROVE WatchInv'
<1>1. ASSUME NEW c, Command(c)
      PROVE  Fits(buf, queue, cache, watch, nextWd) /\ buf = << >> /\ buf' = buf /\ pc \notin Stopped
  BY <1>1 DEF Command, WatchInv, BufferUsed, Stopped
<1>2. ASSUME NEW p \in CmdArgs, AddSubtree(p) PROVE WatchInv'
  BY <1>1, <1>2, Zapped, NowFits DEF AddSubtree
<1>3. ASSUME NEW p \in CmdArgs, ZapCommand(p) PROVE WatchInv'
  BY <1>1, <1>3, Zapped, NowFits DEF ZapCommand
<1>4. CASE Rebuild
  BY <1>1, <1>4, Reinitialized DEF Rebuild
<1>5. CASE ToggleChecking
  BY <1>1, <1>5, Idles DEF ToggleChecking
<1>6. CASE Quit
  BY <1>6, NowFits DEF Quit, Stopped
<1> QED
  BY <1>2, <1>3, <1>4, <1>5, <1>6 DEF User

\* Apart from the watches whose end is still to be read, the kernel's watches and
\* the entries of the cache are the same, for all trees and all interleavings.
THEOREM WatchesCached == Spec => []WatchesAreCached
<1>1. Init => WatchInv
  BY FitsNone DEF Init, FSInit, WatchInv, BufferUsed
<1>2. WatchInv /\ [Next]_vars => WatchInv'
  <2> SUFFICES ASSUME WatchInv, [Next]_vars PROVE WatchInv'
    OBVIOUS
  <2>1. CASE Next
    BY <2>1, TreeStep, WalkSteps, HandleSteps, LoopSteps, UserSteps DEF Next, Program
  <2>2. CASE UNCHANGED vars
    BY <2>2, NowFits DEF vars, inotify, prog, WatchInv, BufferUsed
  <2> QED
    BY <2>1, <2>2
<1>3. WatchInv => WatchesAreCached
  BY Cached
<1> QED
  BY <1>1, <1>2, <1>3, PTL DEF Spec
==============================================================================
