------------------------------- MODULE Pthreads -------------------------------
(***************************************************************************)
(* The mutex and the condition variable the thread programs use, as POSIX  *)
(* describes them.  pthread_cond_wait() unlocks the mutex and starts to    *)
(* wait in one step; a waiter that has been woken up, by a signal or for   *)
(* no reason at all, locks the mutex again before the call returns.        *)
(***************************************************************************)
EXTENDS Integers

CONSTANT MaxSpurious     \* bound: wake-ups for no reason in a behaviour

VARIABLES
    mtx, waiting,        \* the thread that has the mutex; those that wait
    spurious             \* wake-ups for no reason so far

sync == <<mtx, waiting, spurious>>

Nobody == -1             \* threads are numbered from 0; the main thread is -2
Main == -2

SyncInit == mtx = Nobody /\ waiting = {} /\ spurious = 0

Lock(t)   == mtx = Nobody /\ mtx' = t /\ UNCHANGED <<waiting, spurious>>
Unlock(t) == mtx = t /\ mtx' = Nobody /\ UNCHANGED <<waiting, spurious>>
Wait(t)   == mtx = t /\ mtx' = Nobody /\ waiting' = waiting \cup {t} /\ UNCHANGED spurious

\* pthread_cond_signal(): at least one waiter, if there is one, is woken up.
Signal == /\ waiting' \in SUBSET waiting
          /\ waiting # {} => waiting' # waiting
          /\ UNCHANGED <<mtx, spurious>>

\* A waiter wakes up although nobody has signalled.
Spurious == /\ spurious < MaxSpurious
            /\ \E t \in waiting : waiting' = waiting \ {t}
            /\ spurious' = spurious + 1
            /\ UNCHANGED mtx

\* pthread_cond_wait() returns to a thread that was woken up.
Resume(t) == t \notin waiting /\ Lock(t)
=============================================================================
