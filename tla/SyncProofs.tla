------------------------------ MODULE SyncProofs ------------------------------
(***************************************************************************)
(* Theorems about the programs that wait for one another: ProdCond and     *)
(* ThreadJoin, for any number of threads and of units and any number of    *)
(* wake-ups for no reason, and SemInit, for any number of processes and    *)
(* any operations.                                                         *)
(***************************************************************************)
EXTENDS ThreadJoin, ProdCond, SemInit, FiniteSetTheorems, TLAPS

(* ProdCond: no unit is lost, and the consumer does not sleep on one.      *)

ProdType == /\ ppc \in [Producers -> {"unborn", "loop", "load", "store", "unlock", "signal"}]
            /\ reg \in [Producers -> Int] /\ produced \in [Producers -> Nat]
            /\ cpc \in {"create", "lock", "test", "wait", "consume", "exit", "error"}
            /\ avail \in Int /\ numConsumed \in Int
            /\ waiting \subseteq {Main}

\* Whoever is between lock and unlock has the mutex, so a register that is
\* about to be stored is up to date.  The waiter can only be the main thread,
\* and only in pthread_cond_wait().
ProdInv == /\ ProdType
           /\ \A p \in Producers : ppc[p] \in {"load", "store", "unlock"} => mtx = p
           /\ cpc \in {"test", "consume"} => mtx = Main
           /\ \A p \in Producers : ppc[p] = "store" => reg[p] = avail
           /\ Main \in waiting => cpc = "wait"
           /\ SleepsOnlyOnNothing

\* Producers and the main thread, the only ones that take the mutex, differ.
LEMMA ThreadsDiffer == Main \notin Producers /\ Nobody \notin Producers /\ Main # Nobody
BY ProdAssumption DEF Main, Nobody

\* Every step keeps the mutual exclusion and loses no wake-up.
LEMMA ProdInvStep == ProdInv /\ [ProdNext]_prodVars => ProdInv'
<1> SUFFICES ASSUME ProdInv, [ProdNext]_prodVars PROVE ProdInv'
  OBVIOUS
<1> USE ThreadsDiffer DEF ProdInv, ProdType, SleepsOnlyOnNothing, sync, consumer, Lock, Unlock
<1>1. ASSUME NEW p \in Producers, ProduceLock(p) PROVE ProdInv'
  BY <1>1 DEF ProduceLock, Producer
<1>2. ASSUME NEW p \in Producers, ProduceLoad(p) PROVE ProdInv'
  BY <1>2 DEF ProduceLoad, Producer
<1>3. ASSUME NEW p \in Producers, ProduceStore(p) PROVE ProdInv'
  BY <1>3 DEF ProduceStore, Producer
<1>4. ASSUME NEW p \in Producers, ProduceUnlock(p) PROVE ProdInv'
  BY <1>4 DEF ProduceUnlock, Producer
<1>5. ASSUME NEW p \in Producers, ProduceSignal(p) PROVE ProdInv'
  BY <1>5 DEF ProduceSignal, Producer, Signal
<1>6. ASSUME NEW p \in Producers, CreateProducer(p) PROVE ProdInv'
  BY <1>6 DEF CreateProducer
<1>7. CASE CreateProducerFails \/ ConsumeLock \/ ConsumeResume
  BY <1>7 DEF CreateProducerFails, ConsumeLock, ConsumeResume, Consumer, Resume
<1>8. CASE ConsumeTest
  <2>1. CASE avail = 0
    BY <1>8, <2>1 DEF ConsumeTest, Wait
  <2>2. CASE avail # 0
    BY <1>8, <2>2 DEF ConsumeTest
  <2> QED BY <2>1, <2>2
<1>9. CASE ConsumeUnit \/ ConsumeUnlock
  BY <1>9 DEF ConsumeUnit, ConsumeUnlock, Consumer
<1>10. CASE WakeConsumer
  BY <1>10 DEF WakeConsumer, Spurious
<1>11. CASE UNCHANGED prodVars
  BY <1>11 DEF prodVars
<1> QED
  BY <1>1, <1>2, <1>3, <1>4, <1>5, <1>6, <1>7, <1>8, <1>9, <1>10, <1>11
     DEF ProdNext, ConsumerStep, ProducerStep

\* The while loop around pthread_cond_wait() and the signal after the unlock
\* lose no wake-up of the consumer.
THEOREM ConsumerWoken == ProdSpec => []SleepsOnlyOnNothing
<1>1. ProdInit => ProdInv
  BY DEF ProdInit, SyncInit, ProdInv, ProdType, SleepsOnlyOnNothing
<1>2. ProdInv /\ [ProdNext]_prodVars => ProdInv'
  BY ProdInvStep
<1>3. ProdInv => SleepsOnlyOnNothing
  BY DEF ProdInv
<1> QED BY <1>1, <1>2, <1>3, PTL DEF ProdSpec

\* How many units of producer p are counted in.
Made(p) == IF ppc[p] \in {"unlock", "signal"} THEN produced[p] + 1 ELSE produced[p]

\* Which units are counted in.
LEMMA InUnits == \A u : u \in Units <=> \E p \in Producers : \E j \in 1 .. Made(p) : u = <<p, j>>
BY DEF Units, Made

\* A step that counts no unit in leaves the set of units as it is.
LEMMA SameUnits == ASSUME \A p \in Producers : Made(p)' = Made(p) PROVE Units' = Units
<1>1. \A u : u \in Units' <=> \E p \in Producers : \E j \in 1 .. Made(p)' : u = <<p, j>>
  BY DEF Units, Made
<1>2. \A u : u \in Units' <=> u \in Units
  BY <1>1, InUnits
<1> QED BY <1>2

\* Every step keeps the sum.
LEMMA UnitsStep ==
    ASSUME ProdInv, [ProdNext]_prodVars, IsFiniteSet(Units), UnitsConserved
    PROVE  IsFiniteSet(Units)' /\ UnitsConserved'
<1> USE DEF ProdInv, ProdType, sync, consumer
<1>1. ASSUME \A p \in Producers : Made(p)' = Made(p), avail' + numConsumed' = avail + numConsumed
      PROVE  IsFiniteSet(Units)' /\ UnitsConserved'
  BY <1>1, SameUnits DEF UnitsConserved
<1>2. ASSUME NEW p \in Producers, ProduceStore(p)
      PROVE  IsFiniteSet(Units)' /\ UnitsConserved'
  <2> DEFINE new == <<p, produced[p] + 1>>
  <2>1. /\ Made(p) = produced[p] /\ Made(p)' = produced[p] + 1
        /\ \A q \in Producers \ {p} : Made(q)' = Made(q)
        /\ \A q \in Producers : Made(q) \in Nat
    BY <1>2 DEF ProduceStore, Producer, Made
  <2>2. \A u : u \in Units' <=> \E q \in Producers : \E j \in 1 .. Made(q)' : u = <<q, j>>
    BY DEF Units, Made
  <2>3. new \notin Units
    BY <2>1, InUnits
  <2>4. \A j : j \in 1 .. produced[p] + 1 <=> j \in 1 .. produced[p] \/ j = produced[p] + 1
    OBVIOUS
  <2>5. \A u : u \in Units' <=> u \in Units \cup {new}
    <3> SUFFICES ASSUME NEW u PROVE u \in Units' <=> u \in Units \cup {new}
      OBVIOUS
    <3>1. ASSUME u \in Units' PROVE u \in Units \cup {new}
      <4>0. PICK q \in Producers : \E j \in 1 .. Made(q)' : u = <<q, j>>
        BY <3>1, <2>2
      <4>1. PICK j \in 1 .. Made(q)' : u = <<q, j>>
        BY <4>0
      <4>2. CASE q = p
        BY <4>1, <4>2, <2>1, <2>4, InUnits
      <4>3. CASE q # p
        BY <4>1, <4>3, <2>1, InUnits
      <4> QED BY <4>2, <4>3
    <3>2. ASSUME u \in Units PROVE u \in Units'
      <4>0. PICK q \in Producers : \E j \in 1 .. Made(q) : u = <<q, j>>
        BY <3>2, InUnits
      <4>1. PICK j \in 1 .. Made(q) : u = <<q, j>>
        BY <4>0
      <4>2. j \in 1 .. Made(q)'
        BY <4>1, <2>1, <2>4
      <4> QED BY <4>1, <4>2, <2>2
    <3>3. new \in Units'
      BY <2>1, <2>2
    <3> QED BY <3>1, <3>2, <3>3
  <2>6. Units' = Units \cup {new}
    BY <2>5
  <2>7. IsFiniteSet(Units') /\ Cardinality(Units') = Cardinality(Units) + 1
    BY <2>3, <2>6, FS_AddElement
  <2>8. avail' = avail + 1 /\ numConsumed' = numConsumed
    BY <1>2 DEF ProduceStore, Producer
  <2> QED BY <2>7, <2>8 DEF UnitsConserved
<1>3. ASSUME NEW p \in Producers, ProduceLock(p) \/ ProduceLoad(p) \/ ProduceUnlock(p)
      PROVE  IsFiniteSet(Units)' /\ UnitsConserved'
  BY <1>1, <1>3 DEF ProduceLock, ProduceLoad, ProduceUnlock, Producer, Made
<1>4. ASSUME NEW p \in Producers, ProduceSignal(p)
      PROVE  IsFiniteSet(Units)' /\ UnitsConserved'
  BY <1>1, <1>4 DEF ProduceSignal, Producer, Made
<1>5. ASSUME NEW p \in Producers, CreateProducer(p)
      PROVE  IsFiniteSet(Units)' /\ UnitsConserved'
  BY <1>1, <1>5 DEF CreateProducer, Made
<1>6. CASE CreateProducerFails \/ ConsumeLock \/ ConsumeResume \/ ConsumeTest \/ ConsumeUnlock
  BY <1>1, <1>6 DEF CreateProducerFails, ConsumeLock, ConsumeResume, ConsumeTest, ConsumeUnlock, Made
<1>7. CASE ConsumeUnit
  BY <1>1, <1>7 DEF ConsumeUnit, Made
<1>8. CASE WakeConsumer \/ UNCHANGED prodVars
  BY <1>1, <1>8 DEF WakeConsumer, prodVars, Made
<1> QED
  BY <1>2, <1>3, <1>4, <1>5, <1>6, <1>7, <1>8 DEF ProdNext, ConsumerStep, ProducerStep

\* avail++ in the producers and avail-- in the consumer lose no unit and invent
\* none, although each loads and stores: the mutex keeps them apart.
THEOREM NoUnitLost == ProdSpec => []UnitsConserved
<1> DEFINE I == ProdInv /\ IsFiniteSet(Units) /\ UnitsConserved
<1>1. ProdInit => I
  <2> SUFFICES ASSUME ProdInit PROVE I
    OBVIOUS
  <2>1. ProdInv
    BY DEF ProdInit, SyncInit, ProdInv, ProdType, SleepsOnlyOnNothing
  <2>2. Units = {}
    BY InUnits DEF ProdInit, Made
  <2>3. IsFiniteSet(Units) /\ Cardinality(Units) = 0
    BY <2>2, FS_EmptySet
  <2> QED BY <2>1, <2>3 DEF ProdInit, UnitsConserved
<1>2. I /\ [ProdNext]_prodVars => I'
  BY ProdInvStep, UnitsStep
<1>3. I => UnitsConserved
  OBVIOUS
<1> QED BY <1>1, <1>2, <1>3, PTL DEF ProdSpec

-----------------------------------------------------------------------------
(* ThreadJoin: the counters agree with the array, and the main thread does *)
(* not sleep while a thread waits to be joined.                            *)

Pcs == {"unborn", "work", "count", "mark", "unlock", "signal", "gone"}
Marking == {t \in Threads : tpc[t] = "mark"}

TJType == /\ tpc \in [Threads -> Pcs]
          /\ state \in [Threads -> {"TS_ALIVE", "TS_TERMINATED", "TS_JOINED"}]
          /\ jpc \in {"create", "loop", "test", "wait", "scan", "exit", "error"}
          /\ idx \in Nat /\ totThreads \in Nat /\ numLive \in Int /\ numUnjoined \in Int
          /\ waiting \subseteq {Main}

\* Who has the mutex, and what each program counter says of the rest.  A
\* thread that has raised numUnjoined and not yet changed its state counts as
\* terminated, and nobody looks at the counters before it has done that.
TJInv == /\ TJType
         /\ \A t \in Threads : tpc[t] \in {"count", "mark", "unlock"} => mtx = t
         /\ \A t \in Threads :
               tpc[t] \in {"unborn", "work", "count", "mark"} => state[t] = "TS_ALIVE"
         /\ Main \in waiting => jpc = "wait"
         /\ jpc = "create" => \A t \in Threads : t >= idx => tpc[t] = "unborn"
         /\ jpc = "create" => In("TS_JOINED") = {}
         /\ jpc \notin {"create", "error"} => totThreads = NumArgs
         /\ JoinerSleepsOnlyOnNothing

TJCount == /\ numUnjoined = Cardinality(In("TS_TERMINATED")) + Cardinality(Marking)
           /\ jpc \notin {"create", "error"} => numLive = NumArgs - Cardinality(In("TS_JOINED"))

\* The sets of threads the counters stand for are finite.
LEMMA ThreadSetsFinite ==
    ASSUME NumArgs \in Nat
    PROVE  /\ IsFiniteSet(Marking) /\ Cardinality(Marking) \in Nat
           /\ \A s : IsFiniteSet(In(s)) /\ Cardinality(In(s)) \in Nat
<1>1. IsFiniteSet(Threads)
  BY FS_Interval DEF Threads
<1>2. Marking \subseteq Threads /\ \A s : In(s) \subseteq Threads
  BY DEF Marking, In
<1>3. IsFiniteSet(Marking) /\ \A s : IsFiniteSet(In(s))
  BY <1>1, <1>2, FS_Subset
<1> QED BY <1>3, FS_CardinalityType

\* What the invariants say holds in the initial state.
LEMMA TJInitially == NumArgs \in Nat /\ JoinInit => TJInv /\ TJCount
<1> SUFFICES ASSUME NumArgs \in Nat, JoinInit PROVE TJInv /\ TJCount
  OBVIOUS
<1> USE DEF JoinInit, SyncInit
<1>1. TJInv
  BY DEF TJInv, TJType, Pcs, In, JoinerSleepsOnlyOnNothing
<1>2. In("TS_TERMINATED") = {} /\ Marking = {}
  BY DEF In, Marking
<1>3. TJCount
  BY <1>2, FS_EmptySet DEF TJCount
<1> QED BY <1>1, <1>3

\* Every step keeps TJInv.
LEMMA TJInvStep == NumArgs \in Nat /\ TJInv /\ [JoinNext]_joinVars => TJInv'
<1> SUFFICES ASSUME NumArgs \in Nat, TJInv, [JoinNext]_joinVars PROVE TJInv'
  OBVIOUS
<1> USE DEF TJInv, TJType, Pcs, In, JoinerSleepsOnlyOnNothing, sync, main,
            Lock, Unlock
<1>0. Nobody \notin Threads /\ Main \notin Threads
  BY DEF Nobody, Main, Threads
<1>1. ASSUME NEW t \in Threads, DieLock(t) PROVE TJInv'
  BY <1>0, <1>1 DEF DieLock, Thread
<1>2. ASSUME NEW t \in Threads, DieCount(t) PROVE TJInv'
  BY <1>2 DEF DieCount, Thread
<1>3. ASSUME NEW t \in Threads, DieMark(t) PROVE TJInv'
  BY <1>3 DEF DieMark, Thread
<1>4. ASSUME NEW t \in Threads, DieUnlock(t) PROVE TJInv'
  BY <1>0, <1>4 DEF DieUnlock, Thread
<1>5. ASSUME NEW t \in Threads, DieSignal(t) PROVE TJInv'
  BY <1>5 DEF DieSignal, Thread, Signal
<1>6. CASE Create
  BY <1>6 DEF Create, Threads
<1>7. CASE CreateFails \/ Created
  BY <1>7 DEF CreateFails, Created
<1>8. CASE Loop
  BY <1>0, <1>8 DEF Loop
<1>9. CASE Test
  <2>1. CASE numUnjoined = 0
    BY <1>0, <1>9, <2>1 DEF Test, Wait
  <2>2. CASE numUnjoined # 0
    BY <1>9, <2>2 DEF Test
  <2> QED BY <2>1, <2>2
<1>10. CASE Woken
  BY <1>0, <1>10 DEF Woken, Resume
<1>11. CASE Join
  BY <1>11 DEF Join, Threads
<1>12. CASE Pass \/ Scanned
  BY <1>0, <1>12 DEF Pass, Scanned
<1>13. CASE Wake
  BY <1>13 DEF Wake, Spurious
<1>14. CASE UNCHANGED joinVars
  BY <1>14 DEF joinVars
<1> QED
  BY <1>1, <1>2, <1>3, <1>4, <1>5, <1>6, <1>7, <1>8, <1>9, <1>10, <1>11, <1>12, <1>13, <1>14
     DEF JoinNext, MainStep, ThreadStep

\* Every step keeps the counters equal to the sizes of the sets.
LEMMA TJCountStep == NumArgs \in Nat /\ TJInv /\ TJCount /\ [JoinNext]_joinVars => TJCount'
<1> SUFFICES ASSUME NumArgs \in Nat, TJInv, TJCount, [JoinNext]_joinVars PROVE TJCount'
  OBVIOUS
<1> DEFINE T == In("TS_TERMINATED")
           J == In("TS_JOINED")
<1>0. /\ IsFiniteSet(Marking) /\ IsFiniteSet(T) /\ IsFiniteSet(J)
      /\ Cardinality(Marking) \in Nat /\ Cardinality(T) \in Nat /\ Cardinality(J) \in Nat
  BY ThreadSetsFinite
<1>1. ASSUME UNCHANGED <<state, numUnjoined, numLive>>, Marking' = Marking,
             jpc \in {"create", "error"} => jpc' \in {"create", "error"}
      PROVE  TJCount'
  BY <1>1 DEF TJCount, In
<1> USE DEF TJInv, TJType, Pcs, sync, main
<1>2. ASSUME NEW t \in Threads, DieLock(t) \/ DieUnlock(t) \/ DieSignal(t) PROVE TJCount'
  <2>1. Marking' = Marking
    BY <1>2 DEF DieLock, DieUnlock, DieSignal, Thread, Marking
  <2> QED BY <1>1, <1>2, <2>1 DEF DieLock, DieUnlock, DieSignal
<1>3. ASSUME NEW t \in Threads, DieCount(t) PROVE TJCount'
  <2>1. Marking' = Marking \cup {t} /\ t \notin Marking
    BY <1>3 DEF DieCount, Thread, Marking
  <2>2. Cardinality(Marking') = Cardinality(Marking) + 1
    BY <1>0, <2>1, FS_AddElement
  <2>3. T' = T /\ J' = J
    BY <1>3 DEF DieCount, In
  <2> QED BY <1>0, <1>3, <2>2, <2>3 DEF DieCount, TJCount
<1>4. ASSUME NEW t \in Threads, DieMark(t) PROVE TJCount'
  <2>1. Marking' = Marking \ {t} /\ t \in Marking
    BY <1>4 DEF DieMark, Thread, Marking
  <2>2. T' = T \cup {t} /\ t \notin T /\ J' = J
    BY <1>4 DEF DieMark, Thread, In
  <2>3. Cardinality(Marking') = Cardinality(Marking) - 1
    BY <1>0, <2>1, FS_RemoveElement
  <2>4. Cardinality(T') = Cardinality(T) + 1
    BY <1>0, <2>2, FS_AddElement
  <2> QED BY <1>0, <1>4, <2>2, <2>3, <2>4 DEF DieMark, TJCount
<1>5. CASE Create
  <2>1. Marking' = Marking
    BY <1>5 DEF Create, Threads, Marking
  <2> QED BY <1>1, <1>5, <2>1 DEF Create
<1>6. CASE Created
  <2>1. J = {} /\ Cardinality(J) = 0
    BY <1>6, FS_EmptySet DEF Created
  <2>2. T' = T /\ J' = J /\ Marking' = Marking
    BY <1>6 DEF Created, In, Marking
  <2> QED BY <1>0, <1>6, <2>1, <2>2 DEF Created, TJCount
<1>7. CASE Join
  <2>1. idx \in Threads
    BY <1>7 DEF Join, Threads
  <2>2. T' = T \ {idx} /\ idx \in T
    BY <1>7, <2>1 DEF Join, In
  <2>3. J' = J \cup {idx} /\ idx \notin J /\ Marking' = Marking
    BY <1>7, <2>1 DEF Join, In, Marking
  <2>4. Cardinality(T') = Cardinality(T) - 1
    BY <1>0, <2>2, FS_RemoveElement
  <2>5. Cardinality(J') = Cardinality(J) + 1
    BY <1>0, <2>3, FS_AddElement
  <2> QED BY <1>0, <1>7, <2>3, <2>4, <2>5 DEF Join, TJCount
<1>8. CASE CreateFails \/ Loop \/ Test \/ Woken \/ Pass \/ Scanned \/ Wake
  <2>1. Marking' = Marking
    BY <1>8 DEF CreateFails, Loop, Test, Woken, Pass, Scanned, Wake, Marking
  <2> QED
    BY <1>1, <1>8, <2>1 DEF CreateFails, Loop, Test, Woken, Pass, Scanned, Wake
<1>9. CASE UNCHANGED joinVars
  BY <1>1, <1>9 DEF joinVars, Marking
<1> QED
  BY <1>2, <1>3, <1>4, <1>5, <1>6, <1>7, <1>8, <1>9 DEF JoinNext, MainStep, ThreadStep

\* With the mutex free no thread is between its two assignments, so the two
\* invariants give the property.
LEMMA TJCountersMatch == NumArgs \in Nat /\ TJInv /\ TJCount => CountersMatchArray
<1> SUFFICES ASSUME NumArgs \in Nat, TJInv, TJCount PROVE CountersMatchArray
  OBVIOUS
<1>1. Nobody \notin Threads
  BY DEF Nobody, Threads
<1>2. ASSUME mtx = Nobody PROVE Marking = {}
  BY <1>1, <1>2 DEF Marking, TJInv
<1>3. ASSUME mtx = Nobody PROVE Cardinality(Marking) = 0
  BY <1>2, <1>3, FS_EmptySet
<1>4. Cardinality(In("TS_TERMINATED")) \in Nat
  BY ThreadSetsFinite
<1>5. mtx = Nobody => numUnjoined = Cardinality(In("TS_TERMINATED"))
  BY <1>3, <1>4 DEF TJCount
<1> QED BY <1>5 DEF TJCount, CountersMatchArray

\* threadFunc() and main() keep numLive and numUnjoined equal to what the
\* array says, for everyone who takes the mutex.
THEOREM CountersRight == NumArgs \in Nat /\ JoinSpec => []CountersMatchArray
<1> SUFFICES ASSUME NumArgs \in Nat PROVE JoinSpec => []CountersMatchArray
  OBVIOUS
<1>1. JoinInit => TJInv /\ TJCount
  BY TJInitially
<1>2. TJInv /\ TJCount /\ [JoinNext]_joinVars => (TJInv /\ TJCount)'
  BY TJInvStep, TJCountStep
<1>3. TJInv /\ TJCount => CountersMatchArray
  BY TJCountersMatch
<1> QED BY <1>1, <1>2, <1>3, PTL DEF JoinSpec

\* The main thread sleeps only while no thread waits to be joined, or one is
\* about to signal.
THEOREM JoinerWoken == NumArgs \in Nat /\ JoinSpec => []JoinerSleepsOnlyOnNothing
<1> SUFFICES ASSUME NumArgs \in Nat PROVE JoinSpec => []JoinerSleepsOnlyOnNothing
  OBVIOUS
<1>1. JoinInit => TJInv
  BY TJInitially
<1>2. TJInv /\ [JoinNext]_joinVars => TJInv'
  BY TJInvStep
<1>3. TJInv => JoinerSleepsOnlyOnNothing
  BY DEF TJInv
<1> QED BY <1>1, <1>2, <1>3, PTL DEF JoinSpec

-----------------------------------------------------------------------------
(* SemInit: the inductive invariant says who the creator is.  While        *)
(* sem_otime is zero nobody has operated on the semaphore, and the one     *)
(* process that may still set its value is the one that created it.        *)

USE OpAssumption, TriesAssumption, ValsAssumption, DieAssumption

Creating == {"setval", "dummy"}

\* The phases of the life of the semaphore.
Phases == /\ ~set => ~otime /\ \A p \in Procs : pc[p] \in {"semget", "fatal"}
          /\ ~otime => applied = 0 /\ \A p \in Procs : pc[p] \notin {"semop", "done"}
          /\ \A p \in Procs : pc[p] \in Creating => set /\ ~otime
          /\ \A p, q \in Procs : pc[p] \in Creating /\ pc[q] \in Creating => p = q

\* A process that polls has tries left.
Polling == \A p \in Procs : /\ pc[p] = "semget" => tries[p] = 0
                            /\ pc[p] = "stat" => tries[p] < MAX_TRIES

IInv == TypeOK /\ Phases /\ Polling /\ NoLostOperation /\ DummyNeverWaits

\* The invariant holds when no process has called semget().
LEMMA InitIInv == Init => IInv
<1> SUFFICES ASSUME Init PROVE IInv
    OBVIOUS
<1> USE DEF Init
<1>1. TypeOK
  <2>1. 0 \in 0..SEMVMX /\ 0 \in 0..MAX_TRIES  OBVIOUS
  <2>2. pc \in [Procs -> {"semget", "setval", "dummy", "stat", "semop", "done", "fatal"}]  OBVIOUS
  <2>3. tries \in [Procs -> 0..MAX_TRIES]  BY <2>1
  <2>4. set \in BOOLEAN /\ otime \in BOOLEAN  BY Zenon
  <2>5. val \in 0..SEMVMX /\ applied \in Int  BY <2>1
  <2> QED  BY <2>2, <2>3, <2>4, <2>5 DEF TypeOK
<1>2. Phases  BY DEF Phases, Creating
<1>3. Polling  BY DEF Polling
<1>4. NoLostOperation /\ DummyNeverWaits  BY DEF NoLostOperation, DummyNeverWaits
<1> QED  BY <1>1, <1>2, <1>3, <1>4 DEF IInv

\* Every system call preserves the invariant.
LEMMA NextIInv == IInv /\ [Next]_vars => IInv'
<1> SUFFICES ASSUME IInv, [Next]_vars PROVE IInv'
    OBVIOUS
<1> USE DEF IInv, TypeOK, Creating
<1>1. ASSUME NEW p \in Procs, Semget(p) PROVE IInv'
  <2> USE <1>1 DEF Semget
  <2>1. CASE set
    <3>1. TypeOK' /\ Phases'  BY <2>1 DEF Phases
    <3>2. NoLostOperation' /\ DummyNeverWaits'  BY <2>1 DEF NoLostOperation, DummyNeverWaits
    <3>3. Polling'  BY <2>1 DEF Polling
    <3> QED  BY <3>1, <3>2, <3>3
  <2>2. CASE ~set
    <3>1. ~otime  BY <2>2 DEF Phases
    <3>2. TypeOK' /\ Phases'  BY <2>2, <3>1 DEF Phases
    <3>3. NoLostOperation' /\ DummyNeverWaits'
      BY <2>2, <3>1 DEF NoLostOperation, DummyNeverWaits, Phases
    <3>4. Polling'  BY <2>2 DEF Polling
    <3> QED  BY <3>2, <3>3, <3>4
  <2> QED  BY <2>1, <2>2
<1>2. ASSUME NEW p \in Procs, SetVal(p) PROVE IInv'
  <2> USE <1>2 DEF SetVal, Goto
  <2>1. TypeOK'  OBVIOUS
  <2>2. Phases'  BY DEF Phases
  <2>3. NoLostOperation' /\ DummyNeverWaits'
    BY DEF NoLostOperation, DummyNeverWaits, Phases
  <2>4. Polling'  BY DEF Polling
  <2> QED  BY <2>1, <2>2, <2>3, <2>4
<1>3. ASSUME NEW p \in Procs, DummySemop(p) PROVE IInv'
  <2> USE <1>3 DEF DummySemop, Goto
  <2>1. TypeOK'  OBVIOUS
  <2>2. Phases'  BY DEF Phases
  <2>3. NoLostOperation' /\ DummyNeverWaits'
    BY DEF NoLostOperation, DummyNeverWaits, Phases
  <2>4. Polling'  BY DEF Polling
  <2> QED  BY <2>1, <2>2, <2>3, <2>4
<1>4. ASSUME NEW p \in Procs, Stat(p) PROVE IInv'
  <2> USE <1>4 DEF Stat
  <2>1. TypeOK'
    <3>1. CASE otime  BY <3>1
    <3>2. CASE ~otime
      \* A process that polls again has tries left.
      <4>1. tries[p] + 1 \in 0..MAX_TRIES  BY <3>2 DEF Polling
      <4> QED  BY <3>2, <4>1
    <3> QED  BY <3>1, <3>2
  <2>2. Phases'  BY DEF Phases
  <2>3. NoLostOperation' /\ DummyNeverWaits'
    BY DEF NoLostOperation, DummyNeverWaits
  <2>4. Polling'  BY DEF Polling
  <2> QED  BY <2>1, <2>2, <2>3, <2>4
<1>5. ASSUME NEW p \in Procs, Semop(p) PROVE IInv'
  <2> USE <1>5 DEF Semop
  <2>1. otime  BY DEF Phases
  <2>2. val + op[p] \in Nat  OBVIOUS
  <2>3. TypeOK'
    <3>1. CASE val + op[p] > SEMVMX  BY <3>1
    <3>2. CASE ~(val + op[p] > SEMVMX)
      <4>1. val' \in 0..SEMVMX  BY <2>2, <3>2
      <4> QED  BY <3>2, <4>1
    <3> QED  BY <3>1, <3>2
  <2>4. Phases'  BY <2>1 DEF Phases
  <2>5. NoLostOperation' /\ DummyNeverWaits'
    <3>1. val = applied  BY <2>1 DEF NoLostOperation
    <3>2. \A q \in Procs : pc'[q] # "dummy"  BY <2>1 DEF Phases
    <3>3. val' = applied'  BY <3>1
    <3> QED  BY <3>2, <3>3 DEF NoLostOperation, DummyNeverWaits
  <2>6. Polling'  BY DEF Polling
  <2> QED  BY <2>3, <2>4, <2>5, <2>6
<1>6. ASSUME NEW p \in Procs, Kill(p) PROVE IInv'
  <2> USE <1>6 DEF Kill
  <2>1. TypeOK'  OBVIOUS
  <2>2. Phases'  BY DEF Phases
  <2>3. NoLostOperation' /\ DummyNeverWaits'
    BY DEF NoLostOperation, DummyNeverWaits
  <2>4. Polling'  BY DEF Polling
  <2> QED  BY <2>1, <2>2, <2>3, <2>4
<1>7. CASE UNCHANGED vars
  BY <1>7 DEF vars, Phases, Polling, NoLostOperation, DummyNeverWaits
<1> QED  BY <1>1, <1>2, <1>3, <1>4, <1>5, <1>6, <1>7 DEF Next, Proc

\* The invariant holds in every reachable state.
THEOREM Invariance == Spec => []IInv
BY InitIInv, NextIInv, PTL DEF Spec

\* svsem_good_init.c loses no operation and starts none from an uninitialised
\* value, whatever the number of processes and their operations.
THEOREM Initialised == Spec => []NoLostOperation
<1>1. IInv => NoLostOperation  BY DEF IInv
<1> QED  BY <1>1, Invariance, PTL

\* The no-op semop() of the creating process never has to wait.
THEOREM DummyImmediate == Spec => []DummyNeverWaits
<1>1. IInv => DummyNeverWaits  BY DEF IInv
<1> QED  BY <1>1, Invariance, PTL

\* Type correctness, with the bound on the number of tries.
THEOREM TypeCorrect == Spec => []TypeOK
<1>1. IInv => TypeOK  BY DEF IInv
<1> QED  BY <1>1, Invariance, PTL
===============================================================================
