------------------------------- MODULE MCDTree -------------------------------
(***************************************************************************)
(* Instances of DTree for TLC: one root and one directory outside of it,   *)
(* or two roots.  The names of directories are interchangeable.            *)
(***************************************************************************)
EXTENDS DTree, TLC

CONSTANTS r, s, a, b

OneRoot  == << <<r>> >>
TwoRoots == << <<r>>, <<s>> >>
SubtreeArg == {<<r, n>> : n \in Names}
NoArgs == {}

SE == INSTANCE SequencesExt

\* PostAll posts the events one by one, at every filling of the queue.
ASSUME PostsEach ==
    LET es == {Event(wd, "IGNORED", NoName, 0) : wd \in 1 .. 3}
    IN  \A q \in SE!BoundedSeq(es \cup {Overflow}, 3), t \in UNION {Orders(S) : S \in SUBSET es} :
           (Len(q) > QueueMax => Len(q) = QueueMax + 1 /\ Last(q) = Overflow)
           => PostAll(q, t) = SE!FoldLeft(Post, q, t)

NameSymmetry == Permutations(Names)
==============================================================================
