---------------------------- MODULE ByteChannel ----------------------------
(***************************************************************************)
(* What the svshm_xfr programs promise, without processes, semaphores or   *)
(* shared memory: bytes taken from standard input are delivered to         *)
(* standard output once each and in order, and a block is taken only when  *)
(* the previous block has been delivered completely.                       *)
(***************************************************************************)
EXTENDS Integers, Sequences

CONSTANTS BUF_SIZE, InputLen

VARIABLES taken,       \* bytes taken from standard input
          delivered    \* bytes delivered to standard output

Init == taken = 0 /\ delivered = << >>

Take == /\ Len(delivered) = taken
        /\ \E n \in 1..BUF_SIZE : /\ taken + n <= InputLen
                                  /\ taken' = taken + n
        /\ UNCHANGED delivered

Deliver == /\ \E n \in 1..(taken - Len(delivered)) :
                 delivered' = delivered \o [i \in 1..n |-> Len(delivered) + i]
           /\ UNCHANGED taken

Next == Take \/ Deliver

Spec == Init /\ [][Next]_<<taken, delivered>>
=============================================================================
