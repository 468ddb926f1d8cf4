---------------------------- MODULE ShmXfrProofs ----------------------------
(***************************************************************************)
(* Proofs about ShmXfr for any set of readers, any buffer size and any     *)
(* length of input, with processes killed and I/O failing at any point.    *)
(***************************************************************************)
EXTENDS ShmXfr, SequenceTheorems, TLAPS

\* The processes that own the segment from a reserve to the next release; the
\* writer keeps it for good after its last reserve.
WriterOwns == WriterInside \/ wpc \in {"rmSem", "rmShm", "done"}

\* The segment has at most one owner: one semaphore is 1, or the writer owns
\* it, or one reader does.  After a kill it may have none.
OneOwner ==
    /\ sem["WRITE"] \in {0, 1} /\ sem["READ"] \in {0, 1}
    /\ sem["WRITE"] = 0 \/ sem["READ"] = 0
    /\ WriterOwns => sem["WRITE"] = 0 /\ sem["READ"] = 0
    /\ \A r \in Readers : ReaderInside(r) =>
          /\ sem["WRITE"] = 0 /\ sem["READ"] = 0
          /\ ~WriterOwns
          /\ \A q \in Readers : ReaderInside(q) => q = r

\* Before the segment exists no reader gets past shmget(), so the
\* initialisation of the semaphores is not observed half done; after the
\* semaphores are gone nobody owns the segment.
Lifetime ==
    /\ wpc \in {"semget", "initWrite", "initRead", "shmget"} => seg = "none"
    /\ seg = "none" => wpc \in {"semget", "initWrite", "initRead", "shmget", "failed"}
    /\ wpc \in {"semget", "initWrite"} => sem["WRITE"] = 0
    /\ seg = "none" => /\ sem["READ"] = 0
                       /\ \A r \in Readers :
                             rpc[r] \in {"semget", "shmget", "failed", "broken"}
    /\ semset = "removed" => /\ wpc \in {"rmShm", "done", "failed"}
                             /\ sem["WRITE"] = 0 /\ sem["READ"] = 0
                             /\ \A r \in Readers : ~ReaderInside(r)

\* A block handed to the readers: shmp->cnt bytes, the next ones of the input.
BlockInSegment == /\ cnt \in 0..BUF_SIZE
                  /\ inPos = Len(stdout) + cnt
                  /\ cnt = 0 => inPos = InputLen
                  /\ \A i \in 1..cnt : buf[i] = Len(stdout) + i

\* What the owner of the segment knows of its contents.
Contents ==
    /\ wpc \in {"semget", "initWrite", "read"} \/ sem["WRITE"] = 1
          => inPos = Len(stdout)
    /\ wpc \in {"store", "release"} =>
          /\ inPos = Len(stdout) + got
          /\ \A i \in 1..got : buf[i] = Len(stdout) + i
    /\ wpc \in {"store", "release", "test", "count"} /\ got = 0 => inPos = InputLen
    /\ wpc \in {"release", "test", "count"} => cnt = got
    /\ sem["READ"] = 1 => BlockInSegment
    /\ \A r \in Readers :
          /\ rpc[r] = "test" => BlockInSegment
          /\ rpc[r] = "write" => BlockInSegment /\ cnt > 0
          /\ rpc[r] \in {"release", "detach", "lastRelease"} => inPos = Len(stdout)

\* The writer's own bookkeeping.
Bookkeeping ==
    /\ wpc \in {"semget", "initWrite", "initRead", "shmget", "reserve", "read"}
          => sent = inPos
    /\ wpc \in {"store", "release", "test", "count"} => sent = inPos - got
    /\ wpc \in {"lastReserve", "rmSem", "rmShm", "done"} =>
          sent = InputLen /\ inPos = InputLen
    /\ wpc \in {"rmSem", "rmShm", "done"} => inPos = Len(stdout)

IInv == TypeOK /\ PrefixDelivered /\ OneOwner /\ Lifetime /\ Contents /\ Bookkeeping
USE BufAssumption, InputAssumption DEF Min2

\* Appending the next n bytes of the input to a prefix of the input gives a
\* prefix of the input: what write() does to standard output.
LEMMA AppendNext ==
    ASSUME NEW s \in Seq(Nat), s = [i \in 1..Len(s) |-> i],
           NEW n \in Nat, NEW b, \A i \in 1..n : b[i] = Len(s) + i
    PROVE  LET t == s \o [i \in 1..n |-> b[i]]
           IN  /\ t \in Seq(Nat)
               /\ Len(t) = Len(s) + n
               /\ t = [i \in 1..Len(t) |-> i]
<1> DEFINE u == [i \in 1..n |-> b[i]]
           t == s \o u
<1>1. u \in Seq(Nat) /\ Len(u) = n
  <2>1. \A i \in 1..n : b[i] \in Nat
    OBVIOUS
  <2>2. u \in [1..n -> Nat]
    BY <2>1
  <2> QED BY <2>2
<1>2. t \in Seq(Nat) /\ Len(t) = Len(s) + n
  BY <1>1
<1>3. \A i \in 1..Len(t) : t[i] = i
  <2> TAKE i \in 1..Len(t)
  <2>1. CASE i <= Len(s)
    <3>1. t[i] = s[i]
      BY <1>1, <1>2, <2>1
    <3>2. s[i] = [k \in 1..Len(s) |-> k][i]
      OBVIOUS
    <3> QED BY <3>1, <3>2, <2>1
  <2>2. CASE i > Len(s)
    <3>1. t[i] = u[i - Len(s)]
      BY <1>1, <1>2, <2>2
    <3>2. u[i - Len(s)] = Len(s) + (i - Len(s))
      BY <1>1, <1>2, <2>2
    <3> QED BY <3>1, <3>2
  <2> QED BY <2>1, <2>2
<1>4. t = [i \in 1..Len(t) |-> i]
  BY <1>2, <1>3
<1> HIDE DEF t
<1> QED BY <1>2, <1>4 DEF t

\* The initial state satisfies the inductive invariant.
LEMMA InitIInv == Init => IInv
BY DEF Init, IInv, TypeOK, PrefixDelivered, OneOwner, Lifetime, Contents,
       Bookkeeping, WriterPC, ReaderPC, WriterOwns, WriterInside, ReaderInside,
       BlockInSegment

\* Every step of the two programs keeps the inductive invariant.
LEMMA NextIInv == IInv /\ [Next]_vars => IInv'
<1> SUFFICES ASSUME IInv, [Next]_vars PROVE IInv'
  OBVIOUS
<1> USE DEF IInv, WStep, RStep, reserveSem, releaseSem, initSemAvailable,
            initSemInUse, ipc, shm, wvars, rvars
<1>1. CASE WriterSemget
  <2> USE <1>1 DEF WriterSemget
  <2>1. TypeOK'
    BY DEF TypeOK, WriterPC, ReaderPC, Contents, BlockInSegment
  <2>2. PrefixDelivered'
    BY DEF PrefixDelivered
  <2>3. OneOwner'
    BY DEF TypeOK, OneOwner, Lifetime, WriterOwns, WriterInside, ReaderInside
  <2>4. Lifetime'
    BY DEF TypeOK, OneOwner, Lifetime, WriterOwns, WriterInside, ReaderInside
  <2>5. Contents'
    BY DEF TypeOK, OneOwner, Lifetime, Contents, Bookkeeping, WriterOwns,
           WriterInside, ReaderInside, BlockInSegment
  <2>6. Bookkeeping'
    BY DEF TypeOK, Contents, Bookkeeping
  <2> QED
    BY <2>1, <2>2, <2>3, <2>4, <2>5, <2>6
<1>2. CASE WriterInitWrite
  <2> USE <1>2 DEF WriterInitWrite
  <2>1. TypeOK'
    BY DEF TypeOK, WriterPC, ReaderPC, Contents, BlockInSegment
  <2>2. PrefixDelivered'
    BY DEF PrefixDelivered
  <2>3. OneOwner'
    BY DEF TypeOK, OneOwner, Lifetime, WriterOwns, WriterInside, ReaderInside
  <2>4. Lifetime'
    BY DEF TypeOK, OneOwner, Lifetime, WriterOwns, WriterInside, ReaderInside
  <2>5. Contents'
    BY DEF TypeOK, OneOwner, Lifetime, Contents, Bookkeeping, WriterOwns,
           WriterInside, ReaderInside, BlockInSegment
  <2>6. Bookkeeping'
    BY DEF TypeOK, Contents, Bookkeeping
  <2> QED
    BY <2>1, <2>2, <2>3, <2>4, <2>5, <2>6
<1>3. CASE WriterInitRead
  <2> USE <1>3 DEF WriterInitRead
  <2>1. TypeOK'
    BY DEF TypeOK, WriterPC, ReaderPC, Contents, BlockInSegment
  <2>2. PrefixDelivered'
    BY DEF PrefixDelivered
  <2>3. OneOwner'
    BY DEF TypeOK, OneOwner, Lifetime, WriterOwns, WriterInside, ReaderInside
  <2>4. Lifetime'
    BY DEF TypeOK, OneOwner, Lifetime, WriterOwns, WriterInside, ReaderInside
  <2>5. Contents'
    BY DEF TypeOK, OneOwner, Lifetime, Contents, Bookkeeping, WriterOwns,
           WriterInside, ReaderInside, BlockInSegment
  <2>6. Bookkeeping'
    BY DEF TypeOK, Contents, Bookkeeping
  <2> QED
    BY <2>1, <2>2, <2>3, <2>4, <2>5, <2>6
<1>4. CASE WriterShmget
  <2> USE <1>4 DEF WriterShmget
  <2>1. TypeOK'
    BY DEF TypeOK, WriterPC, ReaderPC, Contents, BlockInSegment
  <2>2. PrefixDelivered'
    BY DEF PrefixDelivered
  <2>3. OneOwner'
    BY DEF TypeOK, OneOwner, Lifetime, WriterOwns, WriterInside, ReaderInside
  <2>4. Lifetime'
    BY DEF TypeOK, OneOwner, Lifetime, WriterOwns, WriterInside, ReaderInside
  <2>5. Contents'
    BY DEF TypeOK, OneOwner, Lifetime, Contents, Bookkeeping, WriterOwns,
           WriterInside, ReaderInside, BlockInSegment
  <2>6. Bookkeeping'
    BY DEF TypeOK, Contents, Bookkeeping
  <2> QED
    BY <2>1, <2>2, <2>3, <2>4, <2>5, <2>6
<1>5. CASE WriterReserve
  <2> USE <1>5 DEF WriterReserve
  <2>1. TypeOK'
    BY DEF TypeOK, WriterPC, ReaderPC, Contents, BlockInSegment
  <2>2. PrefixDelivered'
    BY DEF PrefixDelivered
  <2>3. OneOwner'
    BY DEF TypeOK, OneOwner, Lifetime, WriterOwns, WriterInside, ReaderInside
  <2>4. Lifetime'
    BY DEF TypeOK, OneOwner, Lifetime, WriterOwns, WriterInside, ReaderInside
  <2>5. Contents'
    BY DEF TypeOK, OneOwner, Lifetime, Contents, Bookkeeping, WriterOwns,
           WriterInside, ReaderInside, BlockInSegment
  <2>6. Bookkeeping'
    BY DEF TypeOK, Contents, Bookkeeping
  <2> QED
    BY <2>1, <2>2, <2>3, <2>4, <2>5, <2>6
<1>6. CASE WriterRead
  <2> USE <1>6 DEF WriterRead
  <2>1. TypeOK'
    BY DEF TypeOK, WriterPC, ReaderPC, Contents, BlockInSegment
  <2>2. PrefixDelivered'
    BY DEF PrefixDelivered
  <2>3. OneOwner'
    BY DEF TypeOK, OneOwner, Lifetime, WriterOwns, WriterInside, ReaderInside
  <2>4. Lifetime'
    BY DEF TypeOK, OneOwner, Lifetime, WriterOwns, WriterInside, ReaderInside
  <2>5. Contents'
    <3>1. sem["WRITE"] = 0 /\ sem["READ"] = 0 /\ \A r \in Readers : ~ReaderInside(r)
      BY DEF OneOwner, WriterOwns, WriterInside
    <3>2. inPos = Len(stdout)
      BY DEF Contents
    <3>3. inPos' = inPos + got' /\ (got' = 0 => inPos' = InputLen)
      BY DEF TypeOK
    <3>4. \A i \in 1..got' : buf'[i] = inPos + i
      BY DEF TypeOK
    <3> QED
      BY <3>1, <3>2, <3>3, <3>4 DEF Contents, ReaderInside
  <2>6. Bookkeeping'
    BY DEF TypeOK, Contents, Bookkeeping
  <2> QED
    BY <2>1, <2>2, <2>3, <2>4, <2>5, <2>6
<1>7. CASE WriterReadError
  <2> USE <1>7 DEF WriterReadError
  <2>1. TypeOK'
    BY DEF TypeOK, WriterPC, ReaderPC, Contents, BlockInSegment
  <2>2. PrefixDelivered'
    BY DEF PrefixDelivered
  <2>3. OneOwner'
    BY DEF TypeOK, OneOwner, Lifetime, WriterOwns, WriterInside, ReaderInside
  <2>4. Lifetime'
    BY DEF TypeOK, OneOwner, Lifetime, WriterOwns, WriterInside, ReaderInside
  <2>5. Contents'
    BY DEF TypeOK, OneOwner, Lifetime, Contents, Bookkeeping, WriterOwns,
           WriterInside, ReaderInside, BlockInSegment
  <2>6. Bookkeeping'
    BY DEF TypeOK, Contents, Bookkeeping
  <2> QED
    BY <2>1, <2>2, <2>3, <2>4, <2>5, <2>6
<1>8. CASE WriterStore
  <2> USE <1>8 DEF WriterStore
  <2>1. TypeOK'
    BY DEF TypeOK, WriterPC, ReaderPC, Contents, BlockInSegment
  <2>2. PrefixDelivered'
    BY DEF PrefixDelivered
  <2>3. OneOwner'
    BY DEF TypeOK, OneOwner, Lifetime, WriterOwns, WriterInside, ReaderInside
  <2>4. Lifetime'
    BY DEF TypeOK, OneOwner, Lifetime, WriterOwns, WriterInside, ReaderInside
  <2>5. Contents'
    BY DEF TypeOK, OneOwner, Lifetime, Contents, Bookkeeping, WriterOwns,
           WriterInside, ReaderInside, BlockInSegment
  <2>6. Bookkeeping'
    BY DEF TypeOK, Contents, Bookkeeping
  <2> QED
    BY <2>1, <2>2, <2>3, <2>4, <2>5, <2>6
<1>9. CASE WriterRelease
  <2> USE <1>9 DEF WriterRelease
  <2>1. TypeOK'
    BY SMTT(30) DEF TypeOK, WriterPC, ReaderPC, Contents, BlockInSegment
  <2>2. PrefixDelivered'
    BY DEF PrefixDelivered
  <2>3. OneOwner'
    BY DEF TypeOK, OneOwner, Lifetime, WriterOwns, WriterInside, ReaderInside
  <2>4. Lifetime'
    BY DEF TypeOK, OneOwner, Lifetime, WriterOwns, WriterInside, ReaderInside
  <2>5. Contents'
    BY DEF TypeOK, OneOwner, Lifetime, Contents, Bookkeeping, WriterOwns,
           WriterInside, ReaderInside, BlockInSegment
  <2>6. Bookkeeping'
    BY DEF TypeOK, Contents, Bookkeeping
  <2> QED
    BY <2>1, <2>2, <2>3, <2>4, <2>5, <2>6
<1>10. CASE WriterTest
  <2> USE <1>10 DEF WriterTest
  <2>1. TypeOK'
    BY DEF TypeOK, WriterPC, ReaderPC, Contents, BlockInSegment
  <2>2. PrefixDelivered'
    BY DEF PrefixDelivered
  <2>3. OneOwner'
    BY DEF TypeOK, OneOwner, Lifetime, WriterOwns, WriterInside, ReaderInside
  <2>4. Lifetime'
    BY DEF TypeOK, OneOwner, Lifetime, WriterOwns, WriterInside, ReaderInside
  <2>5. Contents'
    BY DEF TypeOK, OneOwner, Lifetime, Contents, Bookkeeping, WriterOwns,
           WriterInside, ReaderInside, BlockInSegment
  <2>6. Bookkeeping'
    BY DEF TypeOK, Contents, Bookkeeping
  <2> QED
    BY <2>1, <2>2, <2>3, <2>4, <2>5, <2>6
<1>11. CASE WriterCount
  <2> USE <1>11 DEF WriterCount
  <2>1. TypeOK'
    BY DEF TypeOK, WriterPC, ReaderPC, Contents, BlockInSegment
  <2>2. PrefixDelivered'
    BY DEF PrefixDelivered
  <2>3. OneOwner'
    BY DEF TypeOK, OneOwner, Lifetime, WriterOwns, WriterInside, ReaderInside
  <2>4. Lifetime'
    BY DEF TypeOK, OneOwner, Lifetime, WriterOwns, WriterInside, ReaderInside
  <2>5. Contents'
    BY DEF TypeOK, OneOwner, Lifetime, Contents, Bookkeeping, WriterOwns,
           WriterInside, ReaderInside, BlockInSegment
  <2>6. Bookkeeping'
    BY DEF TypeOK, Contents, Bookkeeping
  <2> QED
    BY <2>1, <2>2, <2>3, <2>4, <2>5, <2>6
<1>12. CASE WriterLastReserve
  <2> USE <1>12 DEF WriterLastReserve
  <2>1. TypeOK'
    BY DEF TypeOK, WriterPC, ReaderPC, Contents, BlockInSegment
  <2>2. PrefixDelivered'
    BY DEF PrefixDelivered
  <2>3. OneOwner'
    BY DEF TypeOK, OneOwner, Lifetime, WriterOwns, WriterInside, ReaderInside
  <2>4. Lifetime'
    BY DEF TypeOK, OneOwner, Lifetime, WriterOwns, WriterInside, ReaderInside
  <2>5. Contents'
    BY DEF TypeOK, OneOwner, Lifetime, Contents, Bookkeeping, WriterOwns,
           WriterInside, ReaderInside, BlockInSegment
  <2>6. Bookkeeping'
    BY DEF TypeOK, OneOwner, Contents, Bookkeeping
  <2> QED
    BY <2>1, <2>2, <2>3, <2>4, <2>5, <2>6
<1>13. CASE WriterRmSem
  <2> USE <1>13 DEF WriterRmSem
  <2>1. TypeOK'
    BY DEF TypeOK, WriterPC, ReaderPC, Contents, BlockInSegment
  <2>2. PrefixDelivered'
    BY DEF PrefixDelivered
  <2>3. OneOwner'
    BY DEF TypeOK, OneOwner, Lifetime, WriterOwns, WriterInside, ReaderInside
  <2>4. Lifetime'
    BY DEF TypeOK, OneOwner, Lifetime, WriterOwns, WriterInside, ReaderInside
  <2>5. Contents'
    BY DEF TypeOK, OneOwner, Lifetime, Contents, Bookkeeping, WriterOwns,
           WriterInside, ReaderInside, BlockInSegment
  <2>6. Bookkeeping'
    BY DEF TypeOK, Contents, Bookkeeping
  <2> QED
    BY <2>1, <2>2, <2>3, <2>4, <2>5, <2>6
<1>14. CASE WriterRmShm
  <2> USE <1>14 DEF WriterRmShm
  <2>1. TypeOK'
    BY DEF TypeOK, WriterPC, ReaderPC, Contents, BlockInSegment
  <2>2. PrefixDelivered'
    BY DEF PrefixDelivered
  <2>3. OneOwner'
    BY DEF TypeOK, OneOwner, Lifetime, WriterOwns, WriterInside, ReaderInside
  <2>4. Lifetime'
    BY DEF TypeOK, OneOwner, Lifetime, WriterOwns, WriterInside, ReaderInside
  <2>5. Contents'
    BY DEF TypeOK, OneOwner, Lifetime, Contents, Bookkeeping, WriterOwns,
           WriterInside, ReaderInside, BlockInSegment
  <2>6. Bookkeeping'
    BY DEF TypeOK, Contents, Bookkeeping
  <2> QED
    BY <2>1, <2>2, <2>3, <2>4, <2>5, <2>6
<1>15. CASE WriterKilled
  <2> USE <1>15 DEF WriterKilled
  <2>1. TypeOK'
    BY DEF TypeOK, WriterPC, ReaderPC, Contents, BlockInSegment
  <2>2. PrefixDelivered'
    BY DEF PrefixDelivered
  <2>3. OneOwner'
    BY DEF TypeOK, OneOwner, Lifetime, WriterOwns, WriterInside, ReaderInside
  <2>4. Lifetime'
    BY DEF TypeOK, OneOwner, Lifetime, WriterOwns, WriterInside, ReaderInside
  <2>5. Contents'
    BY DEF TypeOK, OneOwner, Lifetime, Contents, Bookkeeping, WriterOwns,
           WriterInside, ReaderInside, BlockInSegment
  <2>6. Bookkeeping'
    BY DEF TypeOK, Contents, Bookkeeping
  <2> QED
    BY <2>1, <2>2, <2>3, <2>4, <2>5, <2>6
<1>16. ASSUME NEW r \in Readers, ReaderSemget(r) PROVE IInv'
  <2> USE <1>16 DEF ReaderSemget
  <2>1. TypeOK'
    BY DEF TypeOK, WriterPC, ReaderPC, Contents, BlockInSegment
  <2>2. PrefixDelivered'
    BY DEF PrefixDelivered
  <2>3. OneOwner'
    BY DEF TypeOK, OneOwner, Lifetime, WriterOwns, WriterInside, ReaderInside
  <2>4. Lifetime'
    BY DEF TypeOK, OneOwner, Lifetime, WriterOwns, WriterInside, ReaderInside
  <2>5. Contents'
    BY DEF TypeOK, OneOwner, Lifetime, Contents, Bookkeeping, WriterOwns,
           WriterInside, ReaderInside, BlockInSegment
  <2>6. Bookkeeping'
    BY DEF TypeOK, Contents, Bookkeeping
  <2> QED
    BY <2>1, <2>2, <2>3, <2>4, <2>5, <2>6
<1>17. ASSUME NEW r \in Readers, ReaderShmget(r) PROVE IInv'
  <2> USE <1>17 DEF ReaderShmget
  <2>1. TypeOK'
    BY DEF TypeOK, WriterPC, ReaderPC, Contents, BlockInSegment
  <2>2. PrefixDelivered'
    BY DEF PrefixDelivered
  <2>3. OneOwner'
    BY DEF TypeOK, OneOwner, Lifetime, WriterOwns, WriterInside, ReaderInside
  <2>4. Lifetime'
    BY DEF TypeOK, OneOwner, Lifetime, WriterOwns, WriterInside, ReaderInside
  <2>5. Contents'
    BY DEF TypeOK, OneOwner, Lifetime, Contents, Bookkeeping, WriterOwns,
           WriterInside, ReaderInside, BlockInSegment
  <2>6. Bookkeeping'
    BY DEF TypeOK, Contents, Bookkeeping
  <2> QED
    BY <2>1, <2>2, <2>3, <2>4, <2>5, <2>6
<1>18. ASSUME NEW r \in Readers, ReaderShmat(r) PROVE IInv'
  <2> USE <1>18 DEF ReaderShmat
  <2>1. TypeOK'
    BY DEF TypeOK, WriterPC, ReaderPC, Contents, BlockInSegment
  <2>2. PrefixDelivered'
    BY DEF PrefixDelivered
  <2>3. OneOwner'
    BY DEF TypeOK, OneOwner, Lifetime, WriterOwns, WriterInside, ReaderInside
  <2>4. Lifetime'
    BY DEF TypeOK, OneOwner, Lifetime, WriterOwns, WriterInside, ReaderInside
  <2>5. Contents'
    BY DEF TypeOK, OneOwner, Lifetime, Contents, Bookkeeping, WriterOwns,
           WriterInside, ReaderInside, BlockInSegment
  <2>6. Bookkeeping'
    BY DEF TypeOK, Contents, Bookkeeping
  <2> QED
    BY <2>1, <2>2, <2>3, <2>4, <2>5, <2>6
<1>19. ASSUME NEW r \in Readers, ReaderReserve(r) PROVE IInv'
  <2> USE <1>19 DEF ReaderReserve
  <2>1. TypeOK'
    BY DEF TypeOK, WriterPC, ReaderPC, Contents, BlockInSegment
  <2>2. PrefixDelivered'
    BY DEF PrefixDelivered
  <2>3. OneOwner'
    BY DEF TypeOK, OneOwner, Lifetime, WriterOwns, WriterInside, ReaderInside
  <2>4. Lifetime'
    BY DEF TypeOK, OneOwner, Lifetime, WriterOwns, WriterInside, ReaderInside
  <2>5. Contents'
    BY DEF TypeOK, OneOwner, Lifetime, Contents, Bookkeeping, WriterOwns,
           WriterInside, ReaderInside, BlockInSegment
  <2>6. Bookkeeping'
    BY DEF TypeOK, Contents, Bookkeeping
  <2> QED
    BY <2>1, <2>2, <2>3, <2>4, <2>5, <2>6
<1>20. ASSUME NEW r \in Readers, ReaderSemGone(r) PROVE IInv'
  <2> USE <1>20 DEF ReaderSemGone
  <2>1. TypeOK'
    BY DEF TypeOK, WriterPC, ReaderPC, Contents, BlockInSegment
  <2>2. PrefixDelivered'
    BY DEF PrefixDelivered
  <2>3. OneOwner'
    BY DEF TypeOK, OneOwner, Lifetime, WriterOwns, WriterInside, ReaderInside
  <2>4. Lifetime'
    BY DEF TypeOK, OneOwner, Lifetime, WriterOwns, WriterInside, ReaderInside
  <2>5. Contents'
    BY DEF TypeOK, OneOwner, Lifetime, Contents, Bookkeeping, WriterOwns,
           WriterInside, ReaderInside, BlockInSegment
  <2>6. Bookkeeping'
    BY DEF TypeOK, Contents, Bookkeeping
  <2> QED
    BY <2>1, <2>2, <2>3, <2>4, <2>5, <2>6
<1>21. ASSUME NEW r \in Readers, ReaderTest(r) PROVE IInv'
  <2> USE <1>21 DEF ReaderTest
  <2>1. TypeOK'
    BY DEF TypeOK, WriterPC, ReaderPC, Contents, BlockInSegment
  <2>2. PrefixDelivered'
    BY DEF PrefixDelivered
  <2>3. OneOwner'
    BY DEF TypeOK, OneOwner, Lifetime, WriterOwns, WriterInside, ReaderInside
  <2>4. Lifetime'
    BY DEF TypeOK, OneOwner, Lifetime, WriterOwns, WriterInside, ReaderInside
  <2>5. Contents'
    BY DEF TypeOK, OneOwner, Lifetime, Contents, Bookkeeping, WriterOwns,
           WriterInside, ReaderInside, BlockInSegment
  <2>6. Bookkeeping'
    BY DEF TypeOK, Contents, Bookkeeping
  <2> QED
    BY <2>1, <2>2, <2>3, <2>4, <2>5, <2>6
<1>22. ASSUME NEW r \in Readers, ReaderWrite(r) PROVE IInv'
  <2> USE <1>22 DEF ReaderWrite
  <2>1. TypeOK'
    BY DEF TypeOK, WriterPC, ReaderPC, Contents, BlockInSegment
  <2>2. PrefixDelivered'
    <3>2. cnt \in Nat /\ \A i \in 1..cnt : buf[i] = Len(stdout) + i
      BY DEF TypeOK, Contents, BlockInSegment
    <3>3. LET t == stdout \o [i \in 1..cnt |-> buf[i]]
          IN  t = [i \in 1..Len(t) |-> i]
      BY <3>2, AppendNext DEF TypeOK, PrefixDelivered
    <3> QED
      BY <3>3 DEF PrefixDelivered
  <2>3. OneOwner'
    BY DEF TypeOK, OneOwner, Lifetime, WriterOwns, WriterInside, ReaderInside
  <2>4. Lifetime'
    BY DEF TypeOK, OneOwner, Lifetime, WriterOwns, WriterInside, ReaderInside
  <2>5. Contents'
    BY DEF TypeOK, OneOwner, Lifetime, Contents, Bookkeeping, WriterOwns,
           WriterInside, ReaderInside, BlockInSegment
  <2>6. Bookkeeping'
    BY DEF TypeOK, OneOwner, WriterOwns, ReaderInside, Bookkeeping
  <2> QED
    BY <2>1, <2>2, <2>3, <2>4, <2>5, <2>6
<1>23. ASSUME NEW r \in Readers, ReaderWriteError(r) PROVE IInv'
  <2> USE <1>23 DEF ReaderWriteError
  <2>1. TypeOK'
    BY DEF TypeOK, WriterPC, ReaderPC, Contents, BlockInSegment
  <2>2. PrefixDelivered'
    <3>1. PICK n \in 0..(cnt - 1) : stdout' = stdout \o [i \in 1..n |-> buf[i]]
      OBVIOUS
    <3>2. n \in Nat /\ \A i \in 1..n : buf[i] = Len(stdout) + i
      BY <3>1 DEF TypeOK, Contents, BlockInSegment
    <3>3. LET t == stdout \o [i \in 1..n |-> buf[i]]
          IN  t = [i \in 1..Len(t) |-> i]
      BY <3>2, AppendNext DEF TypeOK, PrefixDelivered
    <3> QED
      BY <3>1, <3>3 DEF PrefixDelivered
  <2>3. OneOwner'
    BY DEF TypeOK, OneOwner, Lifetime, WriterOwns, WriterInside, ReaderInside
  <2>4. Lifetime'
    BY DEF TypeOK, OneOwner, Lifetime, WriterOwns, WriterInside, ReaderInside
  <2>5. Contents'
    BY DEF TypeOK, OneOwner, Lifetime, Contents, Bookkeeping, WriterOwns,
           WriterInside, ReaderInside, BlockInSegment
  <2>6. Bookkeeping'
    BY DEF TypeOK, OneOwner, WriterOwns, ReaderInside, Bookkeeping
  <2> QED
    BY <2>1, <2>2, <2>3, <2>4, <2>5, <2>6
<1>24. ASSUME NEW r \in Readers, ReaderRelease(r) PROVE IInv'
  <2> USE <1>24 DEF ReaderRelease
  <2>1. TypeOK'
    BY DEF TypeOK, WriterPC, ReaderPC, Contents, BlockInSegment
  <2>2. PrefixDelivered'
    BY DEF PrefixDelivered
  <2>3. OneOwner'
    BY DEF TypeOK, OneOwner, Lifetime, WriterOwns, WriterInside, ReaderInside
  <2>4. Lifetime'
    BY DEF TypeOK, OneOwner, Lifetime, WriterOwns, WriterInside, ReaderInside
  <2>5. Contents'
    BY DEF TypeOK, OneOwner, Lifetime, Contents, Bookkeeping, WriterOwns,
           WriterInside, ReaderInside, BlockInSegment
  <2>6. Bookkeeping'
    BY DEF TypeOK, Contents, Bookkeeping
  <2> QED
    BY <2>1, <2>2, <2>3, <2>4, <2>5, <2>6
<1>25. ASSUME NEW r \in Readers, ReaderDetach(r) PROVE IInv'
  <2> USE <1>25 DEF ReaderDetach
  <2>1. TypeOK'
    BY DEF TypeOK, WriterPC, ReaderPC, Contents, BlockInSegment
  <2>2. PrefixDelivered'
    BY DEF PrefixDelivered
  <2>3. OneOwner'
    BY DEF TypeOK, OneOwner, Lifetime, WriterOwns, WriterInside, ReaderInside
  <2>4. Lifetime'
    BY DEF TypeOK, OneOwner, Lifetime, WriterOwns, WriterInside, ReaderInside
  <2>5. Contents'
    BY DEF TypeOK, OneOwner, Lifetime, Contents, Bookkeeping, WriterOwns,
           WriterInside, ReaderInside, BlockInSegment
  <2>6. Bookkeeping'
    BY DEF TypeOK, Contents, Bookkeeping
  <2> QED
    BY <2>1, <2>2, <2>3, <2>4, <2>5, <2>6
<1>26. ASSUME NEW r \in Readers, ReaderLastRelease(r) PROVE IInv'
  <2> USE <1>26 DEF ReaderLastRelease
  <2>1. TypeOK'
    BY DEF TypeOK, WriterPC, ReaderPC, Contents, BlockInSegment
  <2>2. PrefixDelivered'
    BY DEF PrefixDelivered
  <2>3. OneOwner'
    BY DEF TypeOK, OneOwner, Lifetime, WriterOwns, WriterInside, ReaderInside
  <2>4. Lifetime'
    BY DEF TypeOK, OneOwner, Lifetime, WriterOwns, WriterInside, ReaderInside
  <2>5. Contents'
    BY DEF TypeOK, OneOwner, Lifetime, Contents, Bookkeeping, WriterOwns,
           WriterInside, ReaderInside, BlockInSegment
  <2>6. Bookkeeping'
    BY DEF TypeOK, Contents, Bookkeeping
  <2> QED
    BY <2>1, <2>2, <2>3, <2>4, <2>5, <2>6
<1>27. ASSUME NEW r \in Readers, ReaderKilled(r) PROVE IInv'
  <2> USE <1>27 DEF ReaderKilled
  <2>1. TypeOK'
    BY DEF TypeOK, WriterPC, ReaderPC, Contents, BlockInSegment
  <2>2. PrefixDelivered'
    BY DEF PrefixDelivered
  <2>3. OneOwner'
    BY DEF TypeOK, OneOwner, Lifetime, WriterOwns, WriterInside, ReaderInside
  <2>4. Lifetime'
    BY DEF TypeOK, OneOwner, Lifetime, WriterOwns, WriterInside, ReaderInside
  <2>5. Contents'
    BY DEF TypeOK, OneOwner, Lifetime, Contents, Bookkeeping, WriterOwns,
           WriterInside, ReaderInside, BlockInSegment
  <2>6. Bookkeeping'
    BY DEF TypeOK, Contents, Bookkeeping
  <2> QED
    BY <2>1, <2>2, <2>3, <2>4, <2>5, <2>6
<1>28. CASE UNCHANGED vars
  <2> USE <1>28 DEF vars
  <2>1. TypeOK' /\ PrefixDelivered'
    BY DEF TypeOK, PrefixDelivered
  <2>2. OneOwner' /\ Lifetime'
    BY DEF OneOwner, Lifetime, WriterOwns, WriterInside, ReaderInside
  <2>3. Contents' /\ Bookkeeping'
    BY DEF Contents, Bookkeeping, BlockInSegment
  <2> QED
    BY <2>1, <2>2, <2>3
<1> QED
  BY <1>1, <1>2, <1>3, <1>4, <1>5, <1>6, <1>7, <1>8, <1>9, <1>10, <1>11, <1>12, <1>13, <1>14, <1>15, <1>16, <1>17, <1>18, <1>19, <1>20, <1>21, <1>22, <1>23, <1>24, <1>25, <1>26, <1>27, <1>28 DEF Next, Writer, Reader

\* The inductive invariant holds in every reachable state of the two programs.
THEOREM Invariance == Spec => []IInv
BY InitIInv, NextIInv, PTL DEF Spec

\* TypeOK holds in every reachable state of svshm_xfr_writer and _reader.
THEOREM TypeCorrect == Spec => []TypeOK
<1>1. IInv => TypeOK
  BY DEF IInv
<1> QED BY <1>1, Invariance, PTL

\* No two processes use the segment at once (reserveSem/releaseSem around it),
\* for any number of readers, whoever is killed and whenever.
THEOREM Exclusion == Spec => []ExclusiveAccess
<1>1. IInv => ExclusiveAccess
  BY DEF IInv, OneOwner, WriterOwns, ExclusiveAccess
<1> QED BY <1>1, Invariance, PTL

\* The output of the readers' write() calls is always a prefix of the input.
THEOREM Integrity == Spec => []PrefixDelivered
<1>1. IInv => PrefixDelivered
  BY DEF IInv
<1> QED BY <1>1, Invariance, PTL

\* A writer that reaches exit(EXIT_SUCCESS) has delivered and counted it all.
THEOREM Completeness == Spec => []DoneMeansDelivered
<1>1. IInv => DoneMeansDelivered
  BY DEF IInv, Bookkeeping, DoneMeansDelivered
<1> QED BY <1>1, Invariance, PTL

\* The final reserveSem() of the writer makes the IPC_RMID safe.
THEOREM SafeRemoval == Spec => []RemovedAfterUse
<1>1. IInv => RemovedAfterUse
  BY DEF IInv, Lifetime, RemovedAfterUse
<1> QED BY <1>1, Invariance, PTL

\* The writer and the readers implement the byte channel: initial states map to
\* initial states and every step is a Take, a Deliver or a stuttering step.
THEOREM Refinement == Spec => ImplementsChannel
<1>1. Init => Channel!Init
  BY DEF Init, Channel!Init
<1>2. IInv /\ [Next]_vars => [Channel!Next]_<<inPos, stdout>>
  <2> SUFFICES ASSUME IInv, [Next]_vars PROVE [Channel!Next]_<<inPos, stdout>>
    OBVIOUS
  <2>1. CASE WriterRead
    <3>1. PICK n \in 0..Min2(BUF_SIZE, InputLen - inPos) : inPos' = inPos + n
      BY <2>1 DEF WriterRead
    <3>2. inPos = Len(stdout) /\ stdout' = stdout /\ inPos \in 0..InputLen
      BY <2>1 DEF WriterRead, WStep, rvars, IInv, Contents, TypeOK
    <3>3. CASE n = 0
      BY <3>1, <3>2, <3>3
    <3>4. CASE n # 0
      BY <3>1, <3>2, <3>4 DEF Channel!Next, Channel!Take
    <3> QED BY <3>3, <3>4
  <2>2. ASSUME NEW r \in Readers, rpc[r] = "write", NEW n \in 0..cnt,
               stdout' = stdout \o [i \in 1..n |-> buf[i]], UNCHANGED inPos
        PROVE  [Channel!Next]_<<inPos, stdout>>
    <3>1. n \in Nat /\ n <= inPos - Len(stdout)
          /\ \A i \in 1..n : buf[i] = Len(stdout) + i
      BY <2>2 DEF IInv, Contents, BlockInSegment, TypeOK
    <3>2. [i \in 1..n |-> buf[i]] = [i \in 1..n |-> Len(stdout) + i]
      BY <3>1
    <3>3. CASE n = 0
      <4>1. [i \in 1..n |-> buf[i]] = << >>
        BY <3>3
      <4>2. stdout \o << >> = stdout
        BY ConcatEmptySeq DEF IInv, TypeOK
      <4> QED BY <4>1, <4>2, <2>2
    <3>4. CASE n # 0
      <4>1. n \in 1..(inPos - Len(stdout))
        BY <3>1, <3>4 DEF IInv, TypeOK
      <4> QED BY <4>1, <3>2, <2>2 DEF Channel!Next, Channel!Deliver
    <3> QED BY <3>3, <3>4
  <2>3. ASSUME NEW r \in Readers, ReaderWrite(r)
        PROVE  [Channel!Next]_<<inPos, stdout>>
    <3>1. cnt \in 0..cnt
      BY <2>3 DEF ReaderWrite, RStep, IInv, Contents, BlockInSegment
    <3> QED BY <2>3, <3>1, <2>2 DEF ReaderWrite, RStep, wvars
  <2>4. ASSUME NEW r \in Readers, ReaderWriteError(r)
        PROVE  [Channel!Next]_<<inPos, stdout>>
    <3>1. PICK n \in 0..(cnt - 1) : stdout' = stdout \o [i \in 1..n |-> buf[i]]
      BY <2>4 DEF ReaderWriteError
    <3>2. n \in 0..cnt
      BY <3>1, <2>4 DEF IInv, TypeOK
    <3>3. rpc[r] = "write" /\ UNCHANGED inPos
      BY <2>4 DEF ReaderWriteError, RStep, wvars
    <3> QED BY <3>1, <3>2, <3>3, <2>2
  <2>5. ASSUME ~WriterRead,
               \A r \in Readers : ~ReaderWrite(r) /\ ~ReaderWriteError(r)
        PROVE  UNCHANGED <<inPos, stdout>>
    BY <2>5 DEF Next, Writer, Reader, vars, ipc, shm, wvars, rvars,
       WriterSemget, WriterInitWrite, WriterInitRead, WriterShmget,
       WriterReserve, WriterReadError, WriterStore, WriterRelease, WriterTest,
       WriterCount, WriterLastReserve, WriterRmSem, WriterRmShm, WriterKilled,
       ReaderSemget, ReaderShmget, ReaderShmat, ReaderReserve, ReaderSemGone,
       ReaderTest, ReaderRelease, ReaderDetach, ReaderLastRelease, ReaderKilled
  <2> QED BY <2>1, <2>3, <2>4, <2>5
<1> QED
  BY <1>1, <1>2, Invariance, PTL DEF Spec, ImplementsChannel, Channel!Spec
=============================================================================
