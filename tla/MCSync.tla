-------------------------------- MODULE MCSync --------------------------------
(***************************************************************************)
(* The programs that wait for one another, for TLC.  Each behaviour is a   *)
(* run of one of them, svsem_good_init (SemInit), thread_multijoin         *)
(* (ThreadJoin) or prod_condvar (ProdCond); the variables of the others    *)
(* keep their initial values.  The processes of svsem_good_init have an    *)
(* operation of every sign, with values at the limit SEMVMX.               *)
(***************************************************************************)
EXTENDS SemInit, ThreadJoin, ProdCond, TLC

CONSTANTS p1, p2, p3, p4

MixedOps == (p1 :> 1) @@ (p2 :> 2) @@ (p3 :> -1) @@ (p4 :> 0)

\* The producers of prod_condvar make 0, 1 and 2 units.
Counts == [p \in Producers |-> p - 1]

VARIABLE program

join == <<tpc, state, numUnjoined, main>>
prod == <<avail, ppc, reg, produced, consumer>>
allVars == <<program, vars, sync, join, prod>>

AnyInit == /\ program \in {"svsem_good_init", "thread_multijoin", "prod_condvar"}
           /\ Init /\ JoinInit /\ ProdInit

AnyNext == \/ program = "svsem_good_init" /\ Next /\ UNCHANGED <<program, sync, join, prod>>
           \/ program = "thread_multijoin" /\ JoinNext /\ UNCHANGED <<program, vars, prod>>
           \/ program = "prod_condvar" /\ ProdNext /\ UNCHANGED <<program, vars, join>>

AnySpec == /\ AnyInit /\ [][AnyNext]_allVars
           /\ program = "svsem_good_init" => Fairness
           /\ program = "thread_multijoin" => JoinFairness
           /\ program = "prod_condvar" => ProdFairness

\* Nobody waits for ever: every process of svsem_good_init.c ends or is held by
\* its own operation, even if the creator dies (AllEnd of SemInit);
\* thread_multijoin.c joins with every thread and ends (AllJoined of ThreadJoin);
\* prod_condvar.c consumes every unit and ends (AllConsumed of ProdCond).
EverybodyEnds == /\ program = "svsem_good_init" => AllEnd
                 /\ program = "thread_multijoin" => AllJoined
                 /\ program = "prod_condvar" => AllConsumed
===============================================================================
