------------------------------ MODULE MCMachines ------------------------------
(***************************************************************************)
(* Three machines for TLC: the virtual machine of SIMPLE (SimpleLanguage), *)
(* the programs that the kernel's BPF machine filters (BpfFilter), and the *)
(* supervisors that seccomp notifies (SeccompNotify).  Each behaviour is   *)
(* one of them; the variables of the others keep their initial values.     *)
(*                                                                         *)
(* The programs of SIMPLE are small.  x starts as 1, as in the programs at *)
(* the end of both files; y does not exist.                                *)
(***************************************************************************)
EXTENDS SeccompNotify

CONSTANTS MaxBlobs, MaxChain, Names, Environment, MaxValue, MaxRounds

VARIABLES machine,
    main, pc, filters, abi, last,
    program, statement, environment, status, falseIf, nilAssign

BF == INSTANCE BpfFilter
SL == INSTANCE SimpleLanguage

\* Num(1) and Nil of SimpleLanguage, written out: the instance above depends on this definition.
MCEnvironment == [n \in Names |-> IF n = "x" THEN [op |-> "Number", value |-> 1] ELSE [op |-> "nil"]]

VarX == SL!Var("x")
VarY == SL!Var("y")
Exprs == {SL!Num(2), VarY, SL!Binary("Add", VarX, SL!Num(1)), SL!Binary("LessThan", VarX, SL!Num(2)),
          SL!Binary("Multiply", SL!Binary("Add", VarX, VarY), SL!Num(3))}
Conds == {SL!Binary("LessThan", VarX, SL!Num(2)), SL!Binary("LessThan", SL!Num(1), VarX), VarY, VarX}

Assigns == {SL!Assign(n, e) : n \in Names, e \in Exprs}
Ifs(S)  == {SL!If(c, s, t) : c \in Conds, s \in S, t \in Assigns}
Whiles(S) == {SL!While(c, s) : c \in Conds, s \in S}
Sequences(S, T) == {SL!Sequence(s, t) : s \in S, t \in T}
Short == Whiles(Assigns) \cup Sequences(Assigns, Assigns) \cup Ifs({SL!Assign("x", SL!Num(2))})

MCPrograms == Assigns \cup Ifs(Assigns) \cup Short \cup Whiles(Short)
              \cup Sequences(Short, Assigns) \cup Sequences(Assigns, Short)
              \cup Ifs(Whiles(Assigns))

bf_vars == <<main, pc, filters, abi, last>>
sl_vars == <<program, statement, environment, status, falseIf, nilAssign>>

AnyInit == /\ machine \in {"simple", "filter", "notify"}
           /\ main \in IF machine = "filter" THEN DOMAIN BF!Mains \cup {"multiarch", "launch"} ELSE {"launch"}
           /\ prog \in IF machine = "notify" THEN Programs ELSE {CHOOSE p \in Programs : TRUE}
           /\ BF!Init /\ Init
           /\ \E p \in IF machine = "simple" THEN MCPrograms ELSE {SL!Assign("x", SL!Num(2))} : SL!RunOf(p)

AnyNext == \/ machine = "simple" /\ SL!Next /\ UNCHANGED <<machine, bf_vars, vars>>
           \/ machine = "filter" /\ BF!Next /\ UNCHANGED <<machine, sl_vars, vars>>
           \/ machine = "notify" /\ Next /\ UNCHANGED <<machine, sl_vars, bf_vars>>

AnySpec == /\ AnyInit /\ [][AnyNext]_<<machine, vars, bf_vars, sl_vars>>
           /\ machine = "simple" => SL!Fairness
           /\ machine = "notify" => Fairness

\* The two evaluations of SIMPLE agree (AgreesWithBigStep of SimpleLanguage).
AgreesWithBigStep == SL!AgreesWithBigStep

\* The filters of seccomp do what the programs say of them (PolicyHolds of
\* BpfFilter).
PolicyHolds == BF!PolicyHolds

\* seccomp_multiarch.c fails its calls on every ABI (FailedOnEveryAbi of
\* BpfFilter).
FailedOnEveryAbi == BF!FailedOnEveryAbi

\* The machine of SIMPLE ends where big-step.rb does (EndsWhenBigStepDoes of
\* SimpleLanguage); no supervised call stays blocked, and no supervisor outlives
\* its target (Settled of SeccompNotify).
ComesToRest == []<>(/\ machine = "simple" => SL!EndsWhenBigStepDoes
                    /\ machine = "notify" => Settled)
===============================================================================
