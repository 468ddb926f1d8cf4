------------------------- MODULE SeqNumServiceProofs -------------------------
(***************************************************************************)
(* While the counter does not overflow, SeqNumService grants no number     *)
(* twice: for any clients, lengths, first numbers and widths.              *)
(***************************************************************************)
EXTENDS SeqNumService, TLAPS

USE DEF Sensible

\* What the counter holds in the beginning, and after a restart.
LEMMA InitBelow == ASSUME Sensible PROVE SvcInit => Below
BY DEF SvcInit, Below, NoGrant

\* A grant keeps the runs apart: the new one starts where all others have ended.
LEMMA AllocateBelow ==
    ASSUME Sensible, Below, NEW c \in Clients, NoOverflow, Allocate(c)
    PROVE  Below'
<1>1. seqLen[c] \in 1 .. MaxInt
  OBVIOUS
<1>2. next' = next + seqLen[c] /\ next + seqLen[c] <= MaxInt /\ epoch' = epoch
  BY <1>1 DEF Allocate, Wrap, Below, NoOverflow
<1>3. grant' = [grant EXCEPT ![c] = [start |-> next, epoch |-> epoch]]
  BY DEF Allocate
<1>4. \A d \in Clients : grant'[d] = IF d = c THEN [start |-> next, epoch |-> epoch] ELSE grant[d]
  BY <1>3 DEF Below
<1>5. grant' \in [Clients -> [start : -MaxInt - 1 .. MaxInt, epoch : 0 .. epoch']]
  BY <1>2, <1>3 DEF Below
<1>6. \A d \in Clients : /\ grant'[d].epoch # 0 => grant'[d].start + seqLen[d] <= MaxInt
                         /\ grant'[d].epoch = epoch' => grant'[d].start + seqLen[d] <= next'
  BY <1>1, <1>2, <1>4 DEF Below
<1>7. \A d, e \in Clients :
         d # e /\ grant'[d].epoch # 0 /\ grant'[d].epoch = grant'[e].epoch =>
             \/ grant'[d].start + seqLen[d] <= grant'[e].start
             \/ grant'[e].start + seqLen[e] <= grant'[d].start
  BY <1>2, <1>4 DEF Below
<1> QED
  BY <1>1, <1>2, <1>5, <1>6, <1>7 DEF Below

\* Waste and Restart leave the grants alone.
LEMMA WasteBelow ==
    ASSUME Sensible, Below, NEW c \in Clients, NoOverflow, Waste(c)
    PROVE  Below'
<1>1. /\ next' = next + seqLen[c] /\ next + seqLen[c] <= MaxInt
      /\ epoch' = epoch /\ grant' = grant
  BY DEF Waste, Wrap, Below, NoOverflow
<1> QED
  BY <1>1 DEF Below

LEMMA RestartBelow == ASSUME Sensible, Below, Restart PROVE Below'
<1>1. epoch' = epoch + 1 /\ next' \in Starts /\ grant' = grant /\ epoch' \in 1 .. MaxEpoch
  BY DEF Restart, Below
<1>2. ASSUME NEW c \in Clients
      PROVE  /\ grant[c].epoch <= epoch
             /\ grant[c] \in [start : -MaxInt - 1 .. MaxInt, epoch : 0 .. epoch + 1]
  <2>1. grant[c] \in [start : -MaxInt - 1 .. MaxInt, epoch : 0 .. epoch] /\ epoch \in Nat
    BY DEF Below
  <2>2. PICK s \in -MaxInt - 1 .. MaxInt, e \in 0 .. epoch : grant[c] = [start |-> s, epoch |-> e]
    BY <2>1
  <2>3. e \in 0 .. epoch + 1 /\ e <= epoch
    BY <2>1
  <2> QED
    BY <2>2, <2>3
<1>3. grant \in [Clients -> [start : -MaxInt - 1 .. MaxInt, epoch : 0 .. epoch + 1]]
  BY <1>2 DEF Below
<1> QED
  BY <1>1, <1>2, <1>3 DEF Below

\* Runs that do not overlap have no number in common.
LEMMA BelowDisjoint == ASSUME Sensible PROVE Below => Disjoint
<1> SUFFICES ASSUME Below, NEW c \in Clients, NEW d \in Clients, c # d,
                    grant[c].epoch # 0, grant[c].epoch = grant[d].epoch,
                    NEW n, n \in Numbers(c), n \in Numbers(d)
             PROVE  FALSE
  BY DEF Disjoint
<1>1. PICK i \in 0 .. seqLen[c] - 1 : n = Wrap(grant[c].start + i)
  BY DEF Numbers
<1>2. PICK j \in 0 .. seqLen[d] - 1 : n = Wrap(grant[d].start + j)
  BY DEF Numbers
<1>3. n = grant[c].start + i
  BY <1>1 DEF Below, Wrap
<1>4. n = grant[d].start + j
  BY <1>2 DEF Below, Wrap
<1> QED
  BY <1>3, <1>4 DEF Below

\* The invariant, and with it uniqueness, holds in every reachable state:
\* no number is granted to two clients by one server process.
THEOREM BelowInvariant == ASSUME Sensible PROVE FreshSpec => []Below
<1>1. Below /\ [FreshNext]_svcVars => Below'
  <2> SUFFICES ASSUME Below, [FreshNext]_svcVars PROVE Below'
    OBVIOUS
  <2>1. CASE Restart
    BY <2>1, RestartBelow
  <2>2. ASSUME NEW c \in Clients, NoOverflow, Allocate(c) PROVE Below'
    BY <2>2, AllocateBelow
  <2>3. ASSUME NEW c \in Clients, NoOverflow, Waste(c) PROVE Below'
    BY <2>3, WasteBelow
  <2>4. CASE UNCHANGED svcVars
    BY <2>4 DEF Below, svcVars
  <2> QED
    BY <2>1, <2>2, <2>3, <2>4 DEF FreshNext, SvcNext
<1> QED
  BY <1>1, InitBelow, PTL DEF FreshSpec

\* No number is granted twice by one server process before the counter
\* overflows.
THEOREM UniqueNumbers == ASSUME Sensible PROVE FreshSpec => []Disjoint
BY BelowInvariant, BelowDisjoint, PTL
=============================================================================
