------------------------------ MODULE InotifyFS ------------------------------
(***************************************************************************)
(* The environment of inotify_dtree: a tree of directories that other      *)
(* processes change, and the kernel's inotify instance that reports the    *)
(* changes.  None of it is code of the repository; it is modelled from the *)
(* calls and the event masks inotify_dtree.c uses.  Only directories are   *)
(* represented, as in the program.                                         *)
(*                                                                         *)
(* A pathname is the sequence of its components.  fs maps the pathname of  *)
(* every directory to its i-node; a rename moves a whole subtree.          *)
(***************************************************************************)
EXTENDS Integers, Sequences, FiniteSetsExt, Functions

CONSTANTS
    Tops,        \* directories that exist from the start, one component long
    Names,       \* names for the directories below them
    MaxDepth,    \* names below a top directory in the longest pathname
    InitDirs,    \* most directories below the tops in the initial tree
    MaxOps,      \* directory operations in a behaviour
    Ops,         \* the kinds of operation the other processes perform
    QueueMax     \* fs.inotify.max_queued_events

OpKinds == {"mkdir", "rmdir", "rename", "overwrite", "moveroot", "unmount"}

ASSUME FSAssumption == /\ Tops # {}
                       /\ MaxDepth \in Nat /\ InitDirs \in Nat /\ MaxOps \in Nat
                       /\ Ops \subseteq OpKinds
                       /\ QueueMax \in Nat \ {0}

VARIABLES
    fs,        \* pathname -> i-node of every directory
    nextIno,   \* next i-node number
    pend,      \* renames that have reported IN_MOVED_FROM, not IN_MOVED_TO
    ops,       \* operations done so far; it numbers the rename cookies too
    watch,     \* watch descriptor -> what it watches, in the open instance
    nextWd,    \* descriptors are never reused within an instance
    queue      \* events not yet read

fsvars  == <<fs, nextIno, pend, ops>>
inotify == <<watch, nextWd, queue>>

\* Operators of SequencesExt, defined here because to extend that module makes
\* every step of the proofs about this one slow to check.
Last(s) == s[Len(s)]
Front(s) == SubSeq(s, 1, Len(s) - 1)
IsPrefix(s, t) == Len(s) <= Len(t) /\ SubSeq(t, 1, Len(s)) = s

\* The elements of a finite set in any order.
Orders(S) == Injection(1 .. Cardinality(S), S)

Paths == {<<t>> \o s : t \in Tops, s \in UNION {[1 .. n -> Names] : n \in 0 .. MaxDepth}}

Closed(S) == \A p \in S : Len(p) > 1 => Front(p) \in S

Under(p) == {q \in DOMAIN fs : IsPrefix(p, q)}
Children(ino) == {p \in DOMAIN fs : Len(p) > 1 /\ fs[Front(p)] = ino}

NoWatch == -1
NoName  == "-"
Event(wd, mask, name, cookie) ==
    [wd |-> wd, mask |-> mask, name |-> name, cookie |-> cookie]
Overflow == Event(NoWatch, "Q_OVERFLOW", NoName, 0)

\* An event equal to the last one queued is dropped; one that finds the queue
\* full is lost, and the loss is reported once.
Post(q, e) ==
    IF q # << >> /\ Last(q) = e THEN q
    ELSE IF Len(q) < QueueMax THEN Append(q, e)
    ELSE IF Last(q) = Overflow THEN q
    ELSE Append(q, Overflow)

\* Several events posted one after the other, no two in a row being equal.
PostAll(q, es) ==
    LET new  == IF es # << >> /\ q # << >> /\ Last(q) = es[1] THEN Tail(es) ELSE es
        room == QueueMax - Len(q)
    IN  IF Len(new) <= room THEN q \o new
        ELSE IF room <= 0 /\ Last(q) = Overflow THEN q
        ELSE q \o Append(SubSeq(new, 1, room), Overflow)

Watching(w, ino) == {wd \in DOMAIN w : w[wd].ino = ino}

\* The event goes to the watch on 'ino', if there is one.
Notify(q, ino, mask, name, cookie) ==
    LET wds == Watching(watch, ino)
    IN  IF wds = {} THEN q ELSE Post(q, Event(CHOOSE wd \in wds : TRUE, mask, name, cookie))

\* The directory 'ino' is gone: its watch reports that and is dropped.
NotifyGone(q, ino) ==
    LET wds == Watching(watch, ino)
        wd  == CHOOSE w \in wds : TRUE
    IN  IF wds = {} THEN q
        ELSE Post(Post(q, Event(wd, "DELETE_SELF", NoName, 0)),
                  Event(wd, "IGNORED", NoName, 0))

Drop(w, ino) == Restrict(w, DOMAIN w \ Watching(w, ino))

ParentIno(p) == IF Len(p) > 1 THEN fs[Front(p)] ELSE 0

\* A rename holds the locks of both parent directories until it has reported
\* IN_MOVED_TO; two renames across directories exclude each other.
Locked(ino) == \E r \in pend : ino \in {r.from, r.to}

FSInit ==
    /\ \E S \in SUBSET Paths :
          /\ {<<t>> : t \in Tops} \subseteq S
          /\ Closed(S)
          /\ Cardinality(S) <= Cardinality(Tops) + InitDirs
          /\ fs = CHOOSE f \in Injection(S, 1 .. Cardinality(S)) : TRUE
    /\ nextIno = Cardinality(DOMAIN fs) + 1
    /\ pend = {}
    /\ ops = 0
    /\ watch = << >>
    /\ nextWd = 1
    /\ queue = << >>

Operate(kind) == /\ kind \in Ops
                 /\ ops < MaxOps
                 /\ ops' = ops + 1

Mkdir(p) ==
    /\ Operate("mkdir")
    /\ Len(p) > 1 /\ p \notin DOMAIN fs /\ Front(p) \in DOMAIN fs
    /\ ~Locked(ParentIno(p))
    /\ fs' = [d \in DOMAIN fs \cup {p} |-> IF d = p THEN nextIno ELSE fs[d]]
    /\ nextIno' = nextIno + 1
    /\ queue' = Notify(queue, ParentIno(p), "CREATE", Last(p), 0)
    /\ UNCHANGED <<pend, watch, nextWd>>

Rmdir(p) ==
    /\ Operate("rmdir")
    /\ p \in DOMAIN fs /\ Children(fs[p]) = {}
    /\ Len(p) = 1 => "moveroot" \in Ops
    /\ ~Locked(ParentIno(p)) /\ ~Locked(fs[p])
    /\ fs' = Restrict(fs, DOMAIN fs \ {p})
    /\ queue' = NotifyGone(queue, fs[p])
    /\ watch' = Drop(watch, fs[p])
    /\ UNCHANGED <<nextIno, pend, nextWd>>

\* rename(p, q), up to and including IN_MOVED_FROM.  An empty directory at q
\* is replaced.
RenameFrom(p, q) ==
    LET kind   == IF Len(p) = 1 THEN "moveroot"
                  ELSE IF q \in DOMAIN fs THEN "overwrite" ELSE "rename"
        victim == IF q \in DOMAIN fs THEN fs[q] ELSE 0
        gone   == Under(p) \cup {q}
        moved  == {q \o SubSeq(s, Len(p) + 1, Len(s)) : s \in Under(p)}
        origin == [d \in moved |-> p \o SubSeq(d, Len(q) + 1, Len(d))]
    IN
    /\ Operate(kind)
    /\ p \in DOMAIN fs /\ Len(q) > 1 /\ Front(q) \in DOMAIN fs
    /\ ~IsPrefix(p, q) /\ moved \subseteq Paths
    /\ q \in DOMAIN fs => "overwrite" \in Ops /\ Children(fs[q]) = {}
    /\ ~Locked(ParentIno(p)) /\ ~Locked(ParentIno(q))
    /\ victim # 0 => ~Locked(victim)
    /\ Front(p) # Front(q) => \A r \in pend : r.from = r.to
    /\ fs' = [d \in (DOMAIN fs \ gone) \cup moved |->
                 IF d \in moved THEN fs[origin[d]] ELSE fs[d]]
    /\ pend' = pend \cup {[from |-> ParentIno(p), to |-> ParentIno(q), name |-> Last(q),
                           cookie |-> ops + 1, moved |-> fs[p], victim |-> victim]}
    /\ queue' = Notify(queue, ParentIno(p), "MOVED_FROM", Last(p), ops + 1)
    /\ UNCHANGED <<nextIno, watch, nextWd>>

\* The rest of the rename: IN_MOVED_TO, IN_MOVE_SELF where it was asked for,
\* and the end of the directory that was replaced.
RenameTo(r) ==
    LET self == \E wd \in Watching(watch, r.moved) : watch[wd].self
        q1   == Notify(queue, r.to, "MOVED_TO", r.name, r.cookie)
        q2   == IF self THEN Notify(q1, r.moved, "MOVE_SELF", NoName, 0) ELSE q1
    IN  /\ pend' = pend \ {r}
        /\ queue' = NotifyGone(q2, r.victim)
        /\ watch' = Drop(watch, r.victim)
        /\ UNCHANGED <<fs, nextIno, ops, nextWd>>

\* A file system mounted at the directory t is unmounted: the watches on its
\* directories report that, in any order, and are dropped; the empty mount
\* point is left.
Unmount(t) ==
    LET inos == {fs[p] : p \in Under(<<t>>)}
        wds  == {wd \in DOMAIN watch : watch[wd].ino \in inos}
    IN  /\ Operate("unmount")
        /\ <<t>> \in DOMAIN fs /\ pend = {}
        /\ fs' = [p \in (DOMAIN fs \ Under(<<t>>)) \cup {<<t>>} |->
                     IF p = <<t>> THEN nextIno ELSE fs[p]]
        /\ nextIno' = nextIno + 1
        /\ watch' = Restrict(watch, DOMAIN watch \ wds)
        /\ \E order \in Orders(wds) :
              queue' = PostAll(queue, [i \in 1 .. 2 * Len(order) |->
                          Event(order[(i + 1) \div 2], IF i % 2 = 1 THEN "UNMOUNT" ELSE "IGNORED",
                                NoName, 0)])
        /\ UNCHANGED <<pend, nextWd>>

Operation == \/ \E p \in Paths : Mkdir(p) \/ Rmdir(p)
             \/ \E t \in Tops : Unmount(t)
             \/ \E p \in DOMAIN fs, q \in Paths : RenameFrom(p, q)
==============================================================================
