------------------------------ MODULE ThreadJoin ------------------------------
(***************************************************************************)
(* thread_multijoin.c: the main thread joins with the threads it created   *)
(* in the order in which they end.  A thread that ends says so in an array *)
(* and signals a condition variable; the main thread scans the array, and  *)
(* calls pthread_join(), with the mutex locked.                            *)
(***************************************************************************)
EXTENDS Pthreads, FiniteSets

CONSTANT NumArgs         \* argc - 1

VARIABLES
    tpc, state,          \* each thread: where it is, and thread[idx].state
    jpc, idx,            \* the main thread
    totThreads, numLive, numUnjoined

main == <<jpc, idx, totThreads, numLive>>
joinVars == <<sync, tpc, state, numUnjoined, main>>

Threads == 0 .. NumArgs - 1

JoinInit == /\ SyncInit
            /\ tpc = [t \in Threads |-> "unborn"] /\ state = [t \in Threads |-> "TS_ALIVE"]
            /\ jpc = "create" /\ idx = 0
            /\ totThreads = 0 /\ numLive = 0 /\ numUnjoined = 0

-----------------------------------------------------------------------------
(* threadFunc()                                                            *)

Thread(t, from, to) == tpc[t] = from /\ tpc' = [tpc EXCEPT ![t] = to]

\* MUTANT: the mutex is not taken.
DieLock_None(t) == /\ Thread(t, "work", "count")
                   /\ UNCHANGED <<sync, state, numUnjoined, main>>

DieLock(t) == /\ Thread(t, "work", "count")
              /\ Lock(t)
              /\ UNCHANGED <<state, numUnjoined, main>>

DieCount(t) == /\ Thread(t, "count", "mark")
               /\ numUnjoined' = numUnjoined + 1
               /\ UNCHANGED <<sync, state, main>>

DieMark(t) == /\ Thread(t, "mark", "unlock")
              /\ state' = [state EXCEPT ![t] = "TS_TERMINATED"]
              /\ UNCHANGED <<sync, numUnjoined, main>>

DieUnlock(t) == /\ Thread(t, "unlock", "signal")
                /\ Unlock(t)
                /\ UNCHANGED <<state, numUnjoined, main>>

\* MUTANT: the mutex is taken again for the signal.
DieSignal_Locked(t) == /\ Thread(t, "signal", "gone")
                       /\ mtx = Nobody
                       /\ Signal
                       /\ UNCHANGED <<state, numUnjoined, main>>

\* MUTANT: only the first thread that waits to be joined is signalled, as of now.
DieSignal_Stale(t) == /\ Thread(t, "signal", "gone")
                      /\ IF numUnjoined = 1 THEN Signal ELSE UNCHANGED sync
                      /\ UNCHANGED <<state, numUnjoined, main>>

DieSignal(t) == /\ Thread(t, "signal", "gone")
                /\ Signal
                /\ UNCHANGED <<state, numUnjoined, main>>

-----------------------------------------------------------------------------
(* main()                                                                  *)

Create == /\ jpc = "create" /\ idx < NumArgs
          /\ tpc' = [tpc EXCEPT ![idx] = "work"]
          /\ idx' = idx + 1
          /\ UNCHANGED <<sync, state, numUnjoined, jpc, totThreads, numLive>>

CreateFails == /\ jpc = "create" /\ idx < NumArgs
               /\ jpc' = "error"
               /\ UNCHANGED <<sync, tpc, state, numUnjoined, idx, totThreads, numLive>>

\* The totals are set without the mutex, while threads may be ending.
Created == /\ jpc = "create" /\ idx = NumArgs
           /\ totThreads' = NumArgs /\ numLive' = NumArgs
           /\ jpc' = "loop"
           /\ UNCHANGED <<sync, tpc, state, numUnjoined, idx>>

Loop == /\ jpc = "loop"
        /\ IF numLive > 0 THEN jpc' = "test" /\ Lock(Main)
                          ELSE jpc' = "exit" /\ UNCHANGED sync
        /\ UNCHANGED <<tpc, state, numUnjoined, idx, totThreads, numLive>>

Test == /\ jpc = "test"
        /\ IF numUnjoined = 0 THEN jpc' = "wait" /\ Wait(Main) /\ UNCHANGED idx
                              ELSE jpc' = "scan" /\ idx' = 0 /\ UNCHANGED sync
        /\ UNCHANGED <<tpc, state, numUnjoined, totThreads, numLive>>

Woken == /\ jpc = "wait" /\ jpc' = "test"
         /\ Resume(Main)
         /\ UNCHANGED <<tpc, state, numUnjoined, idx, totThreads, numLive>>

\* pthread_join() waits until the thread has returned from threadFunc().
Join == /\ jpc = "scan" /\ idx < totThreads
        /\ state[idx] = "TS_TERMINATED" /\ tpc[idx] = "gone"
        /\ state' = [state EXCEPT ![idx] = "TS_JOINED"]
        /\ numLive' = numLive - 1
        /\ numUnjoined' = numUnjoined - 1
        /\ idx' = idx + 1
        /\ UNCHANGED <<sync, tpc, jpc, totThreads>>

Pass == /\ jpc = "scan" /\ idx < totThreads /\ state[idx] # "TS_TERMINATED"
        /\ idx' = idx + 1
        /\ UNCHANGED <<sync, tpc, state, numUnjoined, jpc, totThreads, numLive>>

Scanned == /\ jpc = "scan" /\ idx = totThreads
           /\ jpc' = "loop"
           /\ Unlock(Main)
           /\ UNCHANGED <<tpc, state, numUnjoined, idx, totThreads, numLive>>

Wake == Spurious /\ UNCHANGED <<tpc, state, numUnjoined, main>>

-----------------------------------------------------------------------------
Alive == jpc \notin {"exit", "error"}
ThreadStep(t) == DieLock(t) \/ DieCount(t) \/ DieMark(t) \/ DieUnlock(t) \/ DieSignal(t)
MainStep == Create \/ Created \/ Loop \/ Test \/ Woken \/ Join \/ Pass \/ Scanned

JoinNext == Alive /\ (MainStep \/ CreateFails \/ Wake \/ \E t \in Threads : ThreadStep(t))

JoinSpec == JoinInit /\ [][JoinNext]_joinVars

\* Every thread that can run does run.
JoinFairness == /\ WF_joinVars(Alive /\ MainStep)
                /\ \A t \in Threads : WF_joinVars(Alive /\ ThreadStep(t))

-----------------------------------------------------------------------------
(* Properties.                                                             *)

In(s) == {t \in Threads : state[t] = s}

\* Whoever takes the mutex finds the counters equal to what the array says.
CountersMatchArray ==
    /\ mtx = Nobody => numUnjoined = Cardinality(In("TS_TERMINATED"))
    /\ jpc \notin {"create", "error"} => numLive = NumArgs - Cardinality(In("TS_JOINED"))

\* The main thread does not sleep while a thread waits to be joined, unless
\* that thread is still about to signal: threads that end before the main
\* thread looks, even before totThreads is set, are not forgotten.
JoinerSleepsOnlyOnNothing ==
    Main \in waiting /\ numUnjoined > 0 => \E t \in Threads : tpc[t] \in {"mark", "unlock", "signal"}

\* The program ends, and has joined with every thread by then; pthread_join()
\* under the mutex blocks no thread that is still on its way out.
AllJoined == <>(jpc = "error" \/ (jpc = "exit" /\ In("TS_JOINED") = Threads))
=============================================================================
