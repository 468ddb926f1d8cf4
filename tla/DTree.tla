-------------------------------- MODULE DTree --------------------------------
(***************************************************************************)
(* inotify_dtree.c: a cache of the pathnames of all directories below a    *)
(* set of root directories, kept up to date from inotify events.           *)
(*                                                                         *)
(* The program is one process, but it runs beside the processes that       *)
(* change the tree (InotifyFS): every system call that looks at the file   *)
(* system or at the inotify instance is a step of its own, so the tree may *)
(* change between any two of them.                                         *)
(***************************************************************************)
EXTENDS InotifyFS

CONSTANTS
    Roots,         \* the directories named on the command line, in order
    ReadMax,       \* events that fit into the read() buffer
    ALLOC_INCR,    \* growth of the cache array
    Commands,      \* the interactive commands in use: subset of a, z, 0, x, q
    CmdArgs,       \* pathnames given to the commands a and z
    MaxWd,         \* no 'a' command once this many descriptors were given out
    CheckCache,    \* the -x option
    AbortOnCacheProblem   \* the -a option

ASSUME DTreeAssumption ==
    /\ Roots \in Seq({<<t>> : t \in Tops})
    /\ MaxWd \in Nat /\ ReadMax \in Nat \ {0} /\ ALLOC_INCR \in Nat \ {0}
    /\ {CheckCache, AbortOnCacheProblem} \subseteq BOOLEAN

VARIABLES
    cache,        \* wlCache: an array of slots
    rootDirs,     \* rootDirPaths; NULL marks a root that is no longer monitored
    pc,           \* where the program is
    after,        \* where it goes when the traversal of a tree is over
    walk,         \* what nftw() still has to do
    buf,          \* events read and not yet processed
    firstTry,     \* FALSE after a second read() for a hanging IN_MOVED_FROM
    checkCache,   \* are consistency checks on?
    changed       \* history: how the tree has changed since the cache was rebuilt:
                  \* not at all ("none"), only while the program had caught up
                  \* ("calm"), or otherwise ("raced")

prog == <<cache, rootDirs, pc, after, walk, buf, firstTry, checkCache>>
vars == <<fsvars, inotify, prog, changed>>

NULL == << >>   \* no pathname
EmptySlot == [wd |-> NoWatch, path |-> << >>]
Used(c) == {j \in DOMAIN c : c[j].wd # NoWatch}

-----------------------------------------------------------------------------
(* The cache: an array searched linearly.  Slots are numbered from 1, and  *)
(* 0 stands for the result -1 of the searches.                             *)

First(S) == IF S = {} THEN 0 ELSE Min(S)

findWatch(c, wd) == First({j \in DOMAIN c : c[j].wd = wd})

pathnameToCacheSlot(c, p) == First({j \in Used(c) : c[j].path = p})

markCacheSlotEmpty(c, j) == [c EXCEPT ![j] = EmptySlot]

findEmptyCacheSlot(c) ==
    IF Used(c) # DOMAIN c THEN c ELSE c \o [j \in 1..ALLOC_INCR |-> EmptySlot]

addWatchToCache(c, wd, p) ==
    LET room == findEmptyCacheSlot(c)
    IN  [room EXCEPT ![findWatch(room, NoWatch)] = [wd |-> wd, path |-> p]]

\* The end of traverseTree(): nothing more to do for a watch in the cache.
cacheWatch(c, wd, p) == IF findWatch(c, wd) > 0 THEN c ELSE addWatchToCache(c, wd, p)

\* MUTANT: only the renamed directory itself is rewritten.
rewriteCachedPaths_Top(c, old, new) ==
    [j \in DOMAIN c |-> IF c[j].path = old THEN [c[j] EXCEPT !.path = new] ELSE c[j]]

rewriteCachedPaths(c, old, new) ==
    [j \in DOMAIN c |->
        IF IsPrefix(old, c[j].path)
        THEN [c[j] EXCEPT !.path = new \o SubSeq(@, Len(old) + 1, Len(@))]
        ELSE c[j]]

\* zapSubtree(): the slots below p, in order, up to the first one whose watch
\* the kernel has already dropped (inotify_rm_watch() fails).
zapFailed(c, p) == \E j \in Used(c) : IsPrefix(p, c[j].path) /\ c[j].wd \notin DOMAIN watch
zapSlots(c, p) ==
    {j \in Used(c) : /\ IsPrefix(p, c[j].path)
                     /\ \A i \in Used(c) : i <= j /\ IsPrefix(p, c[i].path) => c[i].wd \in DOMAIN watch}

\* MUTANT: the cache entries go, the watches stay.
zapSubtree_KeepWatches(p) ==
    LET zapped == zapSlots(cache, p)
    IN  /\ cache' = [j \in DOMAIN cache |-> IF j \in zapped THEN EmptySlot ELSE cache[j]]
        /\ UNCHANGED <<watch, queue>>

zapSubtree(p) ==
    LET zapped == zapSlots(cache, p)
        wds    == {cache[j].wd : j \in zapped}
    IN  /\ cache' = [j \in DOMAIN cache |-> IF j \in zapped THEN EmptySlot ELSE cache[j]]
        /\ watch' = Restrict(watch, DOMAIN watch \ wds)
        /\ \E order \in Orders(zapped) :
              /\ \A i, k \in DOMAIN order : i < k => order[i] < order[k]
              /\ queue' = PostAll(queue, [i \in DOMAIN order |->
                              Event(cache[order[i]].wd, "IGNORED", NoName, 0)])

-----------------------------------------------------------------------------
(* nftw() with traverseTree().  'walk' holds what is left to do, first     *)
(* thing first: a tree to enter ("root"), a directory entry to examine     *)
(* ("entry", found in directory 'dir'), a call of traverseTree() to make   *)
(* ("call"), a directory to list ("list").                                 *)

Frame(st, path, dir) == [st |-> st, path |-> path, dir |-> dir]

watchSubtree(p, then) ==
    /\ walk' = <<Frame("root", p, 0)>>
    /\ pc' = "walk" /\ after' = then

isRootDirPath(p) == p \in Range(rootDirs)

Head1 == Head(walk)
WalkStep == pc = "walk" /\ walk # << >>

\* Where the entry is now; directories stay open, so a directory that was
\* renamed is still found by its i-node.
Found == IF Head1.st = "root" THEN {p \in DOMAIN fs : p = Head1.path}
         ELSE {p \in Children(Head1.dir) : Last(p) = Last(Head1.path)}

WalkStat ==
    /\ WalkStep /\ Head1.st \in {"root", "entry"}
    /\ \/ /\ Found # {}
          /\ walk' = <<Frame("call", Head1.path, fs[CHOOSE p \in Found : TRUE])>> \o Tail(walk)
       \/ /\ Found = {}
          /\ walk' = Tail(walk)
       \* The stat() of an entry failed (FTW_NS): traverseTree() is called with an
       \* uninitialised stat buffer, which may look like a directory.
       \/ /\ Found = {} /\ Head1.st = "entry"
          /\ walk' = <<Frame("call", Head1.path, 0)>> \o Tail(walk)
    /\ UNCHANGED <<fsvars, inotify, cache, rootDirs, pc, after, buf, firstTry, checkCache, changed>>

\* The pathname is looked up again by inotify_add_watch(), which returns the
\* existing descriptor, with the new mask, if the i-node is watched already.
traverseTree ==
    /\ WalkStep /\ Head1.st = "call"
    /\ walk' = (IF Head1.dir = 0 THEN << >> ELSE <<Frame("list", Head1.path, Head1.dir)>>) \o Tail(walk)
    /\ IF Head1.path \notin DOMAIN fs        \* ENOENT: carry on
       THEN UNCHANGED <<watch, nextWd, cache>>
       ELSE LET old == Watching(watch, fs[Head1.path])
                wd  == IF old = {} THEN nextWd ELSE CHOOSE w \in old : TRUE
            IN  /\ watch' = [w \in DOMAIN watch \cup {wd} |->
                                IF w = wd THEN [ino |-> fs[Head1.path], self |-> isRootDirPath(Head1.path)]
                                ELSE watch[w]]
                /\ nextWd' = IF old = {} THEN nextWd + 1 ELSE nextWd
                /\ cache' = cacheWatch(cache, wd, Head1.path)
    /\ UNCHANGED <<fsvars, queue, rootDirs, pc, after, buf, firstTry, checkCache, changed>>

\* readdir(): the entries the directory has now, in any order.
WalkList ==
    /\ WalkStep /\ Head1.st = "list"
    /\ \E names \in Orders({Last(p) : p \in Children(Head1.dir)}) :
           walk' = [i \in DOMAIN names |-> Frame("entry", Append(Head1.path, names[i]), Head1.dir)]
                      \o Tail(walk)
    /\ UNCHANGED <<fsvars, inotify, cache, rootDirs, pc, after, buf, firstTry, checkCache, changed>>

WalkDone ==
    /\ pc = "walk" /\ walk = << >>
    /\ pc' = after
    /\ UNCHANGED <<fsvars, inotify, cache, rootDirs, after, walk, buf, firstTry, checkCache, changed>>

-----------------------------------------------------------------------------
(* Rebuilding the cache, and processNextInotifyEvent(): one action for     *)
(* each of its branches.                                                   *)

\* MUTANT: the events left in the read() buffer are kept.
discardBuffer_Keep == buf' = Tail(buf)

\* The result INOTIFY_READ_BUF_LEN: skip all remaining events in the buffer.
discardBuffer == buf' = << >>

\* MUTANT: the first root directory is not traversed.
reinitialize_SkipsFirst(roots, then) ==
    LET left == Tail(roots)
    IN  /\ watch' = << >> /\ nextWd' = 1 /\ queue' = << >>
        /\ cache' = << >>
        /\ walk' = [i \in DOMAIN left |-> Frame("root", left[i], 0)]
        /\ pc' = "walk" /\ after' = then
        /\ changed' = "none"

\* A root that is NULL is nowhere in the tree: WalkStat passes over it.
reinitialize(roots, then) ==
    /\ watch' = << >> /\ nextWd' = 1 /\ queue' = << >>
    /\ cache' = << >>
    /\ walk' = [i \in DOMAIN roots |-> Frame("root", roots[i], 0)]
    /\ pc' = "walk" /\ after' = then
    /\ changed' = "none"

\* What is accepted on the command line: directories, none of them twice.
copyRootDirPaths(argv) ==
    /\ Range(argv) \subseteq DOMAIN fs
    /\ \A j, k \in DOMAIN argv : fs[argv[j]] = fs[argv[k]] => j = k

zapRootDirPath(p) == [i \in DOMAIN rootDirs |-> IF rootDirs[i] = p THEN NULL ELSE rootDirs[i]]
NoRootLeft(roots) == Range(roots) = {NULL}

ev   == Head(buf)
slot == findWatch(cache, ev.wd)
name == Append(cache[slot].path, ev.name)    \* fullPath
Event1(masks) == pc = "events" /\ buf # << >> /\ ev.mask \in masks
Known(masks)  == Event1(masks) /\ slot > 0
OpEvents == {"CREATE", "MOVED_FROM", "MOVED_TO", "DELETE_SELF", "MOVE_SELF", "UNMOUNT"}
Consume(n)    == buf' = SubSeq(buf, n + 1, Len(buf)) /\ firstTry' = TRUE

\* findWatchChecked() fails: the cache is inconsistent.
CacheProblem ==
    IF AbortOnCacheProblem
    THEN pc' = "abort" /\ UNCHANGED <<inotify, cache, walk, after, buf, changed>>
    ELSE reinitialize(rootDirs, "events") /\ discardBuffer

UnknownWatch ==
    /\ Event1(OpEvents)
    /\ slot = 0
    /\ CacheProblem
    /\ firstTry' = TRUE
    /\ UNCHANGED <<fsvars, rootDirs, checkCache>>

DirCreated ==
    /\ Known({"CREATE", "MOVED_TO"})
    /\ IF pathnameToCacheSlot(cache, name) > 0
       THEN UNCHANGED <<walk, after>> /\ pc' = "check"
       ELSE watchSubtree(name, "check")
    /\ Consume(1)
    /\ UNCHANGED <<fsvars, inotify, cache, rootDirs, checkCache, changed>>

DirDeleted ==
    /\ Known({"DELETE_SELF"})
    /\ rootDirs' = zapRootDirPath(cache[slot].path)
    /\ IF NoRootLeft(rootDirs') THEN pc' = "noRoots" /\ UNCHANGED cache
       ELSE pc' = "check" /\ cache' = markCacheSlotEmpty(cache, slot)
    /\ Consume(1)
    /\ UNCHANGED <<fsvars, inotify, walk, after, checkCache, changed>>

\* The IN_MOVED_TO of an intra-tree rename() is looked for in the next event.
Paired == Len(buf) > 1 /\ buf[2].mask = "MOVED_TO" /\ buf[2].cookie = ev.cookie

DirRenamed ==
    LET slot2 == findWatch(cache, buf[2].wd)
    IN  /\ Known({"MOVED_FROM"}) /\ Paired
        /\ IF slot2 = 0 THEN CacheProblem /\ firstTry' = TRUE
           ELSE /\ cache' = rewriteCachedPaths(cache, name, Append(cache[slot2].path, buf[2].name))
                /\ pc' = "check"
                /\ Consume(2)
                /\ UNCHANGED <<inotify, walk, after, changed>>
        /\ UNCHANGED <<fsvars, rootDirs, checkCache>>

\* No IN_MOVED_TO follows: the directory has left the monitored trees.
DirMovedOut ==
    /\ Known({"MOVED_FROM"}) /\ ~Paired
    /\ Len(buf) > 1 \/ ~firstTry
    /\ IF zapFailed(cache, name)
       THEN reinitialize(rootDirs, "events") /\ discardBuffer /\ firstTry' = TRUE
       ELSE /\ zapSubtree(name)
            /\ pc' = "check"
            /\ Consume(1)
            /\ UNCHANGED <<nextWd, walk, after, changed>>
    /\ UNCHANGED <<fsvars, rootDirs, checkCache>>

\* IN_MOVED_FROM is the last event in the buffer: ask for another read().
HangingMovedFrom ==
    /\ Known({"MOVED_FROM"}) /\ Len(buf) = 1 /\ firstTry
    /\ pc' = "hang"
    /\ UNCHANGED <<fsvars, inotify, cache, rootDirs, after, walk, buf, firstTry, checkCache, changed>>

QueueOverflow ==
    /\ Event1({"Q_OVERFLOW"})
    /\ reinitialize(rootDirs, "check") /\ discardBuffer
    /\ firstTry' = TRUE
    /\ UNCHANGED <<fsvars, rootDirs, checkCache>>

Unmounted ==
    /\ Known({"UNMOUNT"})
    /\ cache' = markCacheSlotEmpty(cache, slot)
    /\ pc' = "check"
    /\ Consume(1)
    /\ UNCHANGED <<fsvars, inotify, rootDirs, after, walk, checkCache, changed>>

RootMoved ==
    /\ Known({"MOVE_SELF"}) /\ isRootDirPath(cache[slot].path)
    /\ rootDirs' = zapRootDirPath(cache[slot].path)
    /\ IF NoRootLeft(rootDirs')
       THEN pc' = "noRoots" /\ Consume(1) /\ UNCHANGED <<inotify, cache, walk, after, changed>>
       ELSE IF zapFailed(cache, cache[slot].path)
       THEN reinitialize(rootDirs', "events") /\ discardBuffer /\ firstTry' = TRUE
       ELSE /\ zapSubtree(cache[slot].path)
            /\ pc' = "check"
            /\ Consume(1)
            /\ UNCHANGED <<nextWd, walk, after, changed>>
    /\ UNCHANGED <<fsvars, checkCache>>

\* IN_IGNORED, and IN_MOVE_SELF of a directory that is no root any more.
Skipped ==
    /\ \/ Event1({"IGNORED"})
       \/ Known({"MOVE_SELF"}) /\ ~isRootDirPath(cache[slot].path)
    /\ pc' = "check"
    /\ Consume(1)
    /\ UNCHANGED <<fsvars, inotify, cache, rootDirs, after, walk, checkCache, changed>>

\* checkCacheConsistency() looks at 'sb' for the slots that are NOT in use: it
\* is uninitialised, and may not look like a directory, until the first
\* successful lstat().
ReadsUninitialised ==
    \E j \in DOMAIN cache \ Used(cache) :
       \A i \in Used(cache) : i < j => cache[i].path \notin DOMAIN fs

CheckStep ==
    /\ pc = "check"
    /\ \/ pc' = "events"
       \/ checkCache /\ ReadsUninitialised /\ pc' = "notDir"
    /\ UNCHANGED <<fsvars, inotify, cache, rootDirs, after, walk, buf, firstTry, checkCache, changed>>

-----------------------------------------------------------------------------
(* processInotifyEvents(), executeCommand() and the main loop.             *)

Take == IF Len(queue) < ReadMax THEN Len(queue) ELSE ReadMax

\* read() blocks while there is no event.
ReadEvents ==
    /\ pc = "read" /\ queue # << >>
    /\ buf' = SubSeq(queue, 1, Take)
    /\ queue' = SubSeq(queue, Take + 1, Len(queue))
    /\ firstTry' = TRUE
    /\ pc' = "events"
    /\ UNCHANGED <<fsvars, watch, nextWd, cache, rootDirs, after, walk, checkCache, changed>>

EventsDone ==
    /\ pc = "events" /\ buf = << >>
    /\ pc' = "select"
    /\ UNCHANGED <<fsvars, inotify, cache, rootDirs, after, walk, buf, firstTry, checkCache, changed>>

\* The alarm that is to end the second read() goes off before the read() is
\* entered: nothing but another event ends it then.
AlarmBeforeRead ==
    /\ pc = "hang"
    /\ pc' = "noAlarm"
    /\ UNCHANGED <<fsvars, inotify, cache, rootDirs, after, walk, buf, firstTry, checkCache, changed>>

\* MUTANT: firstTry is not cleared.
SecondRead_Again ==
    /\ pc = "hang" \/ (pc = "noAlarm" /\ queue # << >>)
    /\ buf' = buf \o SubSeq(queue, 1, Take)
    /\ queue' = SubSeq(queue, Take + 1, Len(queue))
    /\ pc' = "events"
    /\ UNCHANGED <<fsvars, watch, nextWd, cache, rootDirs, after, walk, firstTry, checkCache, changed>>

\* More events, or none when the alarm interrupts the read().  After an
\* interruption numRead is one too small; the one event in the buffer is
\* processed all the same.
SecondRead ==
    /\ pc = "hang" \/ (pc = "noAlarm" /\ queue # << >>)
    /\ buf' = buf \o SubSeq(queue, 1, Take)
    /\ queue' = SubSeq(queue, Take + 1, Len(queue))
    /\ firstTry' = FALSE
    /\ pc' = "events"
    /\ UNCHANGED <<fsvars, watch, nextWd, cache, rootDirs, after, walk, checkCache, changed>>

SelectEvents ==
    /\ pc = "select" /\ queue # << >>
    /\ pc' = "read"
    /\ UNCHANGED <<fsvars, inotify, cache, rootDirs, after, walk, buf, firstTry, checkCache, changed>>

\* After a command the same turn of the loop goes on to read events if
\* select() had reported some, on whatever instance is open by then.
Command(c) == /\ pc = "select" /\ c \in Commands
              /\ UNCHANGED <<fsvars, rootDirs, buf, firstTry>>
Rest == IF queue # << >> THEN "read" ELSE "select"

AddSubtree(p) == /\ Command("a") /\ nextWd <= MaxWd
                 /\ zapSubtree(p)
                 /\ watchSubtree(p, Rest)
                 /\ changed' = "raced"
                 /\ UNCHANGED <<nextWd, checkCache>>

ZapCommand(p) == /\ Command("z")
                 /\ zapSubtree(p)
                 /\ pc' = Rest
                 /\ changed' = "raced"
                 /\ UNCHANGED <<nextWd, after, walk, checkCache>>

Rebuild == /\ Command("0")
           /\ reinitialize(rootDirs, Rest)
           /\ UNCHANGED checkCache

ToggleChecking == /\ Command("x")
                  /\ checkCache' = ~checkCache
                  /\ pc' = Rest
                  /\ UNCHANGED <<inotify, cache, after, walk, changed>>

Quit == /\ Command("q")
        /\ pc' = "quit"
        /\ UNCHANGED <<inotify, cache, after, walk, checkCache, changed>>

-----------------------------------------------------------------------------
Init ==
    /\ FSInit
    /\ cache = << >>
    /\ copyRootDirPaths(Roots) /\ rootDirs = Roots
    /\ walk = [i \in DOMAIN Roots |-> Frame("root", Roots[i], 0)]
    /\ pc = "walk" /\ after = "select"
    /\ buf = << >>
    /\ firstTry = TRUE
    /\ checkCache = CheckCache
    /\ changed = "none"

CaughtUp == pc = "select" /\ queue = << >> /\ pend = {}

\* The other processes.
Tree == \/ /\ Operation
           /\ changed' = IF CaughtUp /\ changed # "raced" THEN "calm" ELSE "raced"
           /\ UNCHANGED prog
        \/ /\ \E r \in pend : RenameTo(r)
           /\ changed' = IF changed = "none" THEN "raced" ELSE changed
           /\ UNCHANGED prog

Walk == WalkStat \/ traverseTree \/ WalkList \/ WalkDone

Handle == \/ UnknownWatch \/ DirCreated \/ DirDeleted \/ DirRenamed \/ DirMovedOut
          \/ HangingMovedFrom \/ QueueOverflow \/ Unmounted \/ RootMoved \/ Skipped

Loop == ReadEvents \/ AlarmBeforeRead \/ SecondRead \/ CheckStep \/ EventsDone \/ SelectEvents

User == \/ \E p \in CmdArgs : AddSubtree(p) \/ ZapCommand(p)
        \/ Rebuild \/ ToggleChecking \/ Quit

Program == Walk \/ Handle \/ Loop

Next == Tree \/ Program \/ User

Spec == Init /\ [][Next]_vars
FairSpec == Spec /\ WF_vars(Program) /\ WF_vars(Tree /\ pend' # pend /\ ops' = ops)

-----------------------------------------------------------------------------
Stopped == {"noRoots", "notDir", "abort", "quit"}
Pending == buf \o queue

\* The watches of the kernel and the entries of the cache are the same, but
\* for the watches whose end is still to be read: no entry is lost, none is
\* left behind, no watch is cached twice.  (findWatchChecked(), zapSubtree()
\* and the comment on the race of IN_CREATE with the traversal rely on it.)
WatchesAreCached ==
    (pc \notin Stopped /\ Overflow \notin Range(Pending)) =>
       /\ {cache[j].wd : j \in Used(cache)} =
             DOMAIN watch \cup {e.wd : e \in {x \in Range(Pending) : x.mask \in {"DELETE_SELF", "UNMOUNT"}}}
       /\ \A i, j \in Used(cache) : cache[i].wd = cache[j].wd => i = j

\* The cache holds exactly the pathnames of the directories in the monitored
\* trees, each with the watch on that directory.
Consistent ==
    /\ {cache[j].path : j \in Used(cache)} =
          {p \in DOMAIN fs : \E r \in Range(rootDirs) \ {NULL} : IsPrefix(r, p)}
    /\ \A j \in Used(cache) : /\ cache[j].wd \in DOMAIN watch
                              /\ watch[cache[j].wd].ino = fs[cache[j].path]

\* While the tree is left alone, a rebuilt cache is exact, whatever state the
\* cache was in before (reinitialize()).
FreshCacheExact == (changed = "none" /\ pc \in {"select", "read"}) => Consistent

\* When every change of the tree came after the events of the one before were
\* processed, the cache "remains consistent with the filesystem"
\* (inotify_dtree.c:23-25).
ConsistentWhenCaughtUp == (CaughtUp /\ changed # "raced") => Consistent

\* In the same circumstances no event names a watch descriptor that is not in
\* the cache (findWatchChecked() finds no inconsistency).
NoCacheProblem ==
    (changed # "raced" /\ Event1(OpEvents)) => slot > 0

\* checkCacheConsistency() stops the program only for a cached pathname that
\* is not a directory; here every file is one.
StopsOnlyForNonDirectory == pc # "notDir"

\* The second read() was entered after its alarm: it waits with the hanging
\* IN_MOVED_FROM, and with nothing else, for an event that need not come.
MissedAlarm == pc = "noAlarm" /\ Len(buf) = 1 /\ buf[1].mask = "MOVED_FROM"

\* When the tree is no longer changed the program works off all events and
\* waits for more: it neither spins on an event nor rebuilds for ever.  The one
\* event it may be left with is an IN_MOVED_FROM at the end of the buffer, when
\* ualarm(2000, 0) expires before the read() that follows it is entered
\* (inotify_dtree.c:1120-1122).
CatchesUp == <>[](\/ pc \in Stopped
                  \/ queue = << >> /\ (MissedAlarm \/ (buf = << >> /\ pc \in {"select", "read"})))
==============================================================================
