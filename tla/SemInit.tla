------------------------------- MODULE SemInit -------------------------------
(***************************************************************************)
(* svsem_good_init.c: several processes race to create one System V        *)
(* semaphore, initialise it to 0 and operate on it.  semget() creates the  *)
(* set with an unspecified value; the process that created it sets the     *)
(* value and then performs a no-op semop(), which makes sem_otime nonzero. *)
(* The others poll sem_otime, at most MAX_TRIES times, before they         *)
(* operate.                                                                *)
(***************************************************************************)
EXTENDS Integers

CONSTANTS
    Procs,        \* processes that run the program
    op,           \* the semaphore operation each of them was given
    MAX_TRIES,    \* polls before a process gives up
    SEMVMX,       \* largest semaphore value
    InitialVals,  \* values a semaphore may have after semget()
    MayDie        \* may processes be killed?

ASSUME OpAssumption    == op \in [Procs -> Int]
ASSUME TriesAssumption == MAX_TRIES \in Nat \ {0}
ASSUME ValsAssumption  == /\ SEMVMX \in Nat /\ InitialVals \subseteq 0..SEMVMX
                          /\ InitialVals # {}
ASSUME DieAssumption   == MayDie \in BOOLEAN

VARIABLES
    set,       \* does the semaphore set exist?
    val,       \* value of the semaphore
    otime,     \* is sem_otime nonzero?
    pc,        \* where each process is
    tries,     \* 'j' of each process
    applied    \* history: sum of the operations performed on the semaphore

vars == <<set, val, otime, pc, tries, applied>>

Init == /\ set = FALSE
        /\ val = 0
        /\ otime = FALSE
        /\ pc = [p \in Procs |-> "semget"]
        /\ tries = [p \in Procs |-> 0]
        /\ applied = 0

Goto(p, from, to) == pc[p] = from /\ pc' = [pc EXCEPT ![p] = to]

\* semget(IPC_CREAT | IPC_EXCL): exactly one process creates the set.
Semget(p) == /\ pc[p] = "semget"
             /\ set' = TRUE
             /\ IF set THEN pc' = [pc EXCEPT ![p] = "stat"] /\ UNCHANGED val
                ELSE pc' = [pc EXCEPT ![p] = "setval"] /\ val' \in InitialVals
             /\ UNCHANGED <<otime, tries, applied>>

\* MUTANT: the value is left as semget() made it.
SetVal_Keep(p) == /\ Goto(p, "setval", "dummy")
                  /\ UNCHANGED <<set, val, otime, tries, applied>>

SetVal(p) == /\ Goto(p, "setval", "dummy")
             /\ val' = 0
             /\ UNCHANGED <<set, otime, tries, applied>>

\* MUTANT: the operation is -1, which waits for a positive value.
DummySemop_Down(p) == /\ Goto(p, "dummy", "semop")
                      /\ val > 0
                      /\ otime' = TRUE
                      /\ val' = val - 1
                      /\ UNCHANGED <<set, tries, applied>>

\* semop() with sem_op = 0 waits for the value 0.
DummySemop(p) == /\ Goto(p, "dummy", "semop")
                 /\ val = 0
                 /\ otime' = TRUE
                 /\ UNCHANGED <<set, val, tries, applied>>

\* MUTANT: svsem_bad_init.c, which uses the semaphore as soon as it exists.
Stat_NoWait(p) == /\ Goto(p, "stat", "semop")
                  /\ UNCHANGED <<set, val, otime, tries, applied>>

\* IPC_STAT; the loop ends when sem_otime is set or the tries are used up.
Stat(p) == /\ pc[p] = "stat"
           /\ IF otime THEN pc' = [pc EXCEPT ![p] = "semop"] /\ UNCHANGED tries
              ELSE /\ tries' = [tries EXCEPT ![p] = @ + 1]
                   /\ pc' = [pc EXCEPT ![p] = IF tries[p] + 1 = MAX_TRIES THEN "fatal" ELSE "stat"]
           /\ UNCHANGED <<set, val, otime, applied>>

\* The operation proper: 0 waits for zero, a negative one for a value that is
\* large enough, a positive one fails (ERANGE) beyond SEMVMX.
Semop(p) == /\ pc[p] = "semop"
            /\ op[p] = 0 => val = 0
            /\ val + op[p] >= 0
            /\ IF val + op[p] > SEMVMX
               THEN pc' = [pc EXCEPT ![p] = "fatal"] /\ UNCHANGED <<val, otime, applied>>
               ELSE /\ pc' = [pc EXCEPT ![p] = "done"]
                    /\ val' = val + op[p]
                    /\ applied' = applied + op[p]
                    /\ otime' = TRUE
            /\ UNCHANGED <<set, tries>>

Kill(p) == /\ MayDie
           /\ pc[p] \notin {"done", "fatal"}
           /\ pc' = [pc EXCEPT ![p] = "fatal"]
           /\ UNCHANGED <<set, val, otime, tries, applied>>

Proc(p) == Semget(p) \/ SetVal(p) \/ DummySemop(p) \/ Stat(p) \/ Semop(p)

Next == \E p \in Procs : Proc(p) \/ Kill(p)

Spec == Init /\ [][Next]_vars
Fairness == \A p \in Procs : WF_vars(Proc(p))

-----------------------------------------------------------------------------
\* Every variable has a value of its type; a process polls at most MAX_TRIES times.
TypeOK == /\ set \in BOOLEAN /\ otime \in BOOLEAN
          /\ val \in 0..SEMVMX
          /\ pc \in [Procs -> {"semget", "setval", "dummy", "stat", "semop", "done", "fatal"}]
          /\ tries \in [Procs -> 0..MAX_TRIES]
          /\ applied \in Int

\* No operation is lost and none starts from an uninitialised value: once a
\* process may operate, the value is the sum of the operations performed.
\* (What the program shows, and svsem_bad_init.c gets wrong.)
NoLostOperation == otime => val = applied

\* The creator is the only process past semget() that has not waited for
\* sem_otime, so its no-op semop() never has to wait.
DummyNeverWaits == \A p \in Procs : pc[p] = "dummy" => val = 0

\* Every process comes to an end, or stays in its own operation because the
\* value forbids it: no process is left polling or waiting for the creator,
\* even if the creator dies.
AllEnd == \A p \in Procs :
             <>[](\/ pc[p] \in {"done", "fatal"}
                  \/ pc[p] = "semop" /\ (IF op[p] = 0 THEN val # 0 ELSE val + op[p] < 0))
=============================================================================
