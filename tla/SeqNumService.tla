---------------------------- MODULE SeqNumService ----------------------------
(***************************************************************************)
(* What both sequence number servers promise: each client is granted a     *)
(* run of consecutive numbers, and no number is granted twice by one       *)
(* server process.  Numbers are counted modulo 2^w and shown as signed     *)
(* integers, w being the width of 'int'.                                   *)
(***************************************************************************)
EXTENDS Integers

CONSTANTS Clients, seqLen, MaxInt, Starts, MaxEpoch

\* What the theorems suppose of the constants.
Sensible == /\ MaxInt \in Nat \ {0}
            /\ seqLen \in [Clients -> 1 .. MaxInt]
            /\ Starts \subseteq -MaxInt - 1 .. MaxInt
            /\ MaxEpoch \in Nat \ {0}

VARIABLES next, epoch, grant

svcVars == <<next, epoch, grant>>

\* Two's complement: what an int holds after a positive int is added to one.
Wrap(x) == IF x > MaxInt THEN x - 2 * (MaxInt + 1) ELSE x

NoGrant == [start |-> 0, epoch |-> 0]

SvcInit == next \in Starts /\ epoch = 1 /\ grant = [c \in Clients |-> NoGrant]

Allocate(c) == /\ grant[c] = NoGrant
               /\ grant' = [grant EXCEPT ![c] = [start |-> next, epoch |-> epoch]]
               /\ next' = Wrap(next + seqLen[c])
               /\ UNCHANGED epoch

\* Numbers whose client has gone are lost.
Waste(c) == next' = Wrap(next + seqLen[c]) /\ UNCHANGED <<epoch, grant>>

\* A new server process starts to count again.
Restart == epoch < MaxEpoch /\ next' \in Starts /\ epoch' = epoch + 1 /\ UNCHANGED grant

SvcNext == Restart \/ \E c \in Clients : Allocate(c) \/ Waste(c)
SvcSpec == SvcInit /\ [][SvcNext]_svcVars

\* The service while its counter does not overflow.
NoOverflow == next' >= next \/ epoch' # epoch
FreshNext == SvcNext /\ NoOverflow
FreshSpec == SvcInit /\ [][FreshNext]_svcVars

Numbers(c) == {Wrap(grant[c].start + i) : i \in 0 .. seqLen[c] - 1}

\* No number is granted to two clients by one server process ("unique sequential
\* numbers", fifo_seqnum_server.c, lines 16 and 17).
Disjoint == \A c, d \in Clients :
                /\ c # d /\ grant[c].epoch # 0
                /\ grant[c].epoch = grant[d].epoch
                => Numbers(c) \cap Numbers(d) = {}

\* The inductive invariant behind it: the runs granted by one server process
\* do not overlap, and those of the present one lie below the counter.
Below == /\ next \in -MaxInt - 1 .. MaxInt /\ epoch \in 1 .. MaxEpoch
         /\ grant \in [Clients -> [start : -MaxInt - 1 .. MaxInt, epoch : 0 .. epoch]]
         /\ \A c \in Clients : /\ grant[c].epoch # 0 => grant[c].start + seqLen[c] <= MaxInt
                               /\ grant[c].epoch = epoch => grant[c].start + seqLen[c] <= next
         /\ \A c, d \in Clients :
               c # d /\ grant[c].epoch # 0 /\ grant[c].epoch = grant[d].epoch =>
                   \/ grant[c].start + seqLen[c] <= grant[d].start
                   \/ grant[d].start + seqLen[d] <= grant[c].start
=============================================================================
