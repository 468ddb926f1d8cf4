------------------------------- MODULE ProdCond -------------------------------
(***************************************************************************)
(* prod_condvar.c: producer threads count units up under a mutex and       *)
(* signal a condition variable; the main thread consumes until it has seen *)
(* as many units as the command line announces.                            *)
(***************************************************************************)
EXTENDS Pthreads, FiniteSets

CONSTANTS
    Producers, cnt       \* one thread per argument; atoi() of the argument

ASSUME ProdAssumption == Producers \subseteq Nat /\ cnt \in [Producers -> Int]

VARIABLES
    avail,
    ppc, reg, produced,  \* each producer: where it is, its register, and j
    cpc,                 \* the main thread
    totRequired, numConsumed, done

consumer == <<cpc, totRequired, numConsumed, done>>
prodVars == <<sync, avail, ppc, reg, produced, consumer>>

ProdInit == /\ SyncInit /\ avail = 0
            /\ ppc = [p \in Producers |-> "unborn"] /\ reg = [p \in Producers |-> 0]
            /\ produced = [p \in Producers |-> 0]
            /\ cpc = "create" /\ totRequired = 0 /\ numConsumed = 0 /\ done = FALSE

-----------------------------------------------------------------------------
(* producer()                                                              *)

Producer(p, from, to) == ppc[p] = from /\ ppc' = [ppc EXCEPT ![p] = to]

\* MUTANT: the mutex is not taken.
ProduceLock_None(p) == /\ Producer(p, "loop", "load") /\ produced[p] < cnt[p]
                       /\ UNCHANGED <<sync, avail, reg, produced, consumer>>

ProduceLock(p) == /\ Producer(p, "loop", "load") /\ produced[p] < cnt[p]
                  /\ Lock(p)
                  /\ UNCHANGED <<avail, reg, produced, consumer>>

\* avail++ loads and stores.
ProduceLoad(p) == /\ Producer(p, "load", "store")
                  /\ reg' = [reg EXCEPT ![p] = avail]
                  /\ UNCHANGED <<sync, avail, produced, consumer>>

ProduceStore(p) == /\ Producer(p, "store", "unlock")
                   /\ avail' = reg[p] + 1
                   /\ UNCHANGED <<sync, reg, produced, consumer>>

ProduceUnlock(p) == /\ Producer(p, "unlock", "signal")
                    /\ Unlock(p)
                    /\ UNCHANGED <<avail, reg, produced, consumer>>

\* MUTANT: only a unit that is the first one is signalled, as of now.
ProduceSignal_Stale(p) == /\ Producer(p, "signal", "loop")
                          /\ IF avail = 1 THEN Signal ELSE UNCHANGED sync
                          /\ produced' = [produced EXCEPT ![p] = @ + 1]
                          /\ UNCHANGED <<avail, reg, consumer>>

ProduceSignal(p) == /\ Producer(p, "signal", "loop")
                    /\ Signal
                    /\ produced' = [produced EXCEPT ![p] = @ + 1]
                    /\ UNCHANGED <<avail, reg, consumer>>

-----------------------------------------------------------------------------
(* main()                                                                  *)

Consumer(from, to) == cpc = from /\ cpc' = to

\* One round of the loop over the arguments, in their order.
CreateProducer(p) == /\ cpc = "create" /\ ppc[p] = "unborn"
                     /\ \A q \in Producers : q < p => ppc[q] # "unborn"
                     /\ ppc' = [ppc EXCEPT ![p] = "loop"]
                     /\ totRequired' = totRequired + cnt[p]
                     /\ cpc' = IF \A q \in Producers \ {p} : ppc[q] # "unborn" THEN "lock" ELSE "create"
                     /\ UNCHANGED <<sync, avail, reg, produced, numConsumed, done>>

\* pthread_create() fails: errExitEN() ends the process with all its threads.
CreateProducerFails == /\ Consumer("create", "error")
                       /\ UNCHANGED <<sync, avail, ppc, reg, produced, totRequired, numConsumed, done>>

ConsumeLock == /\ Consumer("lock", "test")
               /\ Lock(Main)
               /\ UNCHANGED <<avail, ppc, reg, produced, totRequired, numConsumed, done>>

\* while (avail == 0) pthread_cond_wait()
ConsumeTest == /\ cpc = "test"
               /\ IF avail = 0 THEN cpc' = "wait" /\ Wait(Main)
                               ELSE cpc' = "consume" /\ UNCHANGED sync
               /\ UNCHANGED <<avail, ppc, reg, produced, totRequired, numConsumed, done>>

ConsumeResume == /\ Consumer("wait", "test")
                 /\ Resume(Main)
                 /\ UNCHANGED <<avail, ppc, reg, produced, totRequired, numConsumed, done>>

\* MUTANT: one unit too many is expected.
ConsumeUnit_More == /\ cpc = "consume" /\ avail > 0
                    /\ numConsumed' = numConsumed + 1
                    /\ avail' = avail - 1
                    /\ done' = (numConsumed' > totRequired)
                    /\ UNCHANGED <<sync, ppc, reg, produced, cpc, totRequired>>

\* One round of the loop over the available units.
ConsumeUnit == /\ cpc = "consume" /\ avail > 0
               /\ numConsumed' = numConsumed + 1
               /\ avail' = avail - 1
               /\ done' = (numConsumed' >= totRequired)
               /\ UNCHANGED <<sync, ppc, reg, produced, cpc, totRequired>>

ConsumeUnlock == /\ Consumer("consume", IF done THEN "exit" ELSE "lock")
                 /\ avail = 0
                 /\ Unlock(Main)
                 /\ UNCHANGED <<avail, ppc, reg, produced, totRequired, numConsumed, done>>

WakeConsumer == Spurious /\ UNCHANGED <<avail, ppc, reg, produced, consumer>>

-----------------------------------------------------------------------------
ProdAlive == cpc \notin {"exit", "error"}
ProducerStep(p) == \/ ProduceLock(p) \/ ProduceLoad(p) \/ ProduceStore(p)
                   \/ ProduceUnlock(p) \/ ProduceSignal(p)
ConsumerStep == \/ (\E p \in Producers : CreateProducer(p)) \/ ConsumeLock \/ ConsumeTest
                \/ ConsumeResume \/ ConsumeUnit \/ ConsumeUnlock

ProdNext == ProdAlive /\ (ConsumerStep \/ CreateProducerFails \/ WakeConsumer \/ \E p \in Producers : ProducerStep(p))

ProdSpec == ProdInit /\ [][ProdNext]_prodVars

\* Every thread that can run does run.
ProdFairness == /\ WF_prodVars(ProdAlive /\ ConsumerStep)
                /\ \A p \in Producers : WF_prodVars(ProdAlive /\ ProducerStep(p))

-----------------------------------------------------------------------------
(* Properties.                                                             *)

\* The units counted in so far: the j-th of producer p is there once its store
\* is done.
Units == UNION {{<<p, j>> : j \in 1 .. IF ppc[p] \in {"unlock", "signal"} THEN produced[p] + 1
                                       ELSE produced[p]} : p \in Producers}

\* No unit is lost or invented: each one that was counted in is available or
\* consumed (avail++ and avail-- under the mutex).
UnitsConserved == avail + numConsumed = Cardinality(Units)

\* The consumer does not sleep on an available unit, unless a producer is about
\* to signal: the unlock before the signal loses no wake-up.
SleepsOnlyOnNothing ==
    Main \in waiting /\ avail > 0 => \E p \in Producers : ppc[p] \in {"unlock", "signal"}

\* The program ends, and every unit has been consumed by then.
AllConsumed == <>(cpc = "error" \/ (cpc = "exit" /\ avail = 0 /\ numConsumed = totRequired))
=============================================================================
