---------------------------- MODULE SimpleLanguage ----------------------------
(***************************************************************************)
(* The language SIMPLE of Understanding-Computation, with both of its      *)
(* semantics: the machine of simple-step.rb, which reduces a statement a   *)
(* step at a time, and the evaluation of big-step.rb.                      *)
(*                                                                         *)
(* A node of a program is a record whose field 'op' is its class.  Nil is  *)
(* what a Hash gives for a name it does not have, and Raise stands for any *)
(* exception: Ruby raises one when nil gets a message or when + * < meet   *)
(* a Boolean.                                                              *)
(***************************************************************************)
EXTENDS Integers

CONSTANTS
    Names,       \* names of variables
    Environment, \* the environment they start in: a function on Names
    MaxValue,    \* bound: the machine is not followed beyond this number
    MaxRounds    \* bound: rounds of a loop the evaluation follows

Nil   == [op |-> "nil"]
Raise == [op |-> "raise"]

Num(n)  == [op |-> "Number", value |-> n]
Bool(b) == [op |-> "Boolean", truth |-> b]
Var(x)  == [op |-> "Variable", name |-> x]
Binary(op, l, r) == [op |-> op, left |-> l, right |-> r]

DoNothing    == [op |-> "DoNothing"]
Assign(x, e) == [op |-> "Assign", name |-> x, expression |-> e]
If(c, s, t)  == [op |-> "If", condition |-> c, consequence |-> s, alternative |-> t]
Sequence(s, t) == [op |-> "Sequence", first |-> s, second |-> t]
While(c, s)  == [op |-> "While", condition |-> c, body |-> s]

\* An environment, or what the code has in its place.
Env(f)   == [kind |-> "env", map |-> f]
NilEnv   == [kind |-> "nil"]
Raised   == [kind |-> "raised"]
Diverges == [kind |-> "diverges"]
merge(env, x, v) == Env([env.map EXCEPT ![x] = v])

IsBool(e, b) == e.op = "Boolean" /\ e.truth = b

\* left.value op right.value
apply(op, l, r) ==
    CASE l.op # "Number" \/ r.op # "Number" -> Raise
      [] op = "Add"      -> Num(l.value + r.value)
      [] op = "Multiply" -> Num(l.value * r.value)
      [] op = "LessThan" -> Bool(l.value < r.value)

-----------------------------------------------------------------------------
(* simple-step.rb                                                          *)

reducible(n) == n.op \notin {"Number", "Boolean", "DoNothing"}

RECURSIVE reduceExpression(_, _)
reduceExpression(e, env) ==
    LET inner(f) == IF e[f] = Nil THEN Raise ELSE reduceExpression(e[f], env)
        within(f) == IF inner(f) = Raise THEN Raise ELSE [e EXCEPT ![f] = inner(f)]
    IN  CASE e.op = "Variable" -> env.map[e.name]
          [] e.op \in {"Add", "Multiply", "LessThan"} ->
                IF reducible(e.left) THEN within("left")
                ELSE IF reducible(e.right) THEN within("right")
                ELSE apply(e.op, e.left, e.right)

\* What a statement and an environment become: a pair, as the code returns.
Pair(s, env) == [statement |-> s, environment |-> env]

reduceAssign(s, env) ==
    LET e == reduceExpression(s.expression, env)
    IN  CASE s.expression = Nil -> Pair(Raise, env)
          [] reducible(s.expression) /\ s.expression # Nil ->
                Pair(IF e = Raise THEN Raise ELSE Assign(s.name, e), env)
          [] OTHER -> Pair(DoNothing, merge(env, s.name, s.expression))

\* MUTANT: the misspelt constant of big-step.rb.
reduceIf_Flase(s, env) ==
    LET c == reduceExpression(s.condition, env)
    IN  CASE s.condition = Nil -> Pair(Raise, env)
          [] reducible(s.condition) /\ s.condition # Nil ->
                Pair(IF c = Raise THEN Raise ELSE If(c, s.consequence, s.alternative), env)
          [] IsBool(s.condition, TRUE) -> Pair(s.consequence, env)
          [] OTHER -> Pair(Raise, env)

\* MUTANT: the condition is not reduced.
reduceIf_Stuck(s, env) ==
    CASE s.condition = Nil -> Pair(Raise, env)
      [] reducible(s.condition) /\ s.condition # Nil -> Pair(s, env)
      [] IsBool(s.condition, TRUE)  -> Pair(s.consequence, env)
      [] IsBool(s.condition, FALSE) -> Pair(s.alternative, env)
      [] OTHER -> Pair(Nil, NilEnv)

\* A condition that is not a Boolean matches no branch: the result is nil.
reduceIf(s, env) ==
    LET c == reduceExpression(s.condition, env)
    IN  CASE s.condition = Nil -> Pair(Raise, env)
          [] reducible(s.condition) /\ s.condition # Nil ->
                Pair(IF c = Raise THEN Raise ELSE If(c, s.consequence, s.alternative), env)
          [] IsBool(s.condition, TRUE)  -> Pair(s.consequence, env)
          [] IsBool(s.condition, FALSE) -> Pair(s.alternative, env)
          [] OTHER -> Pair(Nil, NilEnv)

reduceWhile(s, env) == Pair(If(s.condition, Sequence(s.body, s), DoNothing), env)

\* MUTANT: the environment of the first statement is dropped.
RECURSIVE reduce_Drops(_, _)
reduce_Drops(s, env) ==
    CASE s.op = "Assign" -> reduceAssign(s, env)
      [] s.op = "If"     -> reduceIf(s, env)
      [] s.op = "While"  -> reduceWhile(s, env)
      [] s.op = "Sequence" ->
            IF s.first = DoNothing THEN Pair(s.second, env)
            ELSE LET p == reduce_Drops(s.first, env)
                 IN  IF p.statement = Raise THEN p
                     ELSE Pair(Sequence(p.statement, s.second), env)
      [] s.op = "nil" -> Pair(Raise, env)

RECURSIVE reduce(_, _)
reduce(s, env) ==
    CASE s.op = "Assign" -> reduceAssign(s, env)
      [] s.op = "If"     -> reduceIf(s, env)
      [] s.op = "While"  -> reduceWhile(s, env)
      [] s.op = "Sequence" ->
            IF s.first = DoNothing THEN Pair(s.second, env)
            ELSE LET p == reduce(s.first, env)
                 IN  IF p.statement = Raise THEN p
                     ELSE Pair(Sequence(p.statement, s.second), p.environment)
      [] s.op = "nil" -> Pair(Raise, env)

-----------------------------------------------------------------------------
(* big-step.rb                                                             *)

\* An expression in an environment that is nil: only a Variable asks it.
RECURSIVE evaluateExpression(_, _)
evaluateExpression(e, env) ==
    CASE e.op \in {"Number", "Boolean"} -> e
      [] e.op = "Variable" -> IF env = NilEnv THEN Raise ELSE env.map[e.name]
      [] OTHER -> apply(e.op, evaluateExpression(e.left, env), evaluateExpression(e.right, env))

RECURSIVE evaluate(_, _, _)
evaluate(s, env, rounds) ==
    LET value == evaluateExpression(IF s.op = "Assign" THEN s.expression ELSE s.condition, env)
    IN  CASE s.op = "Assign" -> IF value = Raise \/ env = NilEnv THEN Raised
                                ELSE merge(env, s.name, value)
          [] s.op = "If" -> IF IsBool(value, TRUE) THEN evaluate(s.consequence, env, rounds)
                            ELSE Raised     \* 'flase' is not defined
          [] s.op = "Sequence" ->
                LET between == evaluate(s.first, env, rounds)
                IN  IF between \in {Raised, Diverges} THEN between
                    ELSE evaluate(s.second, between, rounds)
          [] s.op = "While" ->
                CASE value = Raise -> Raised
                  [] IsBool(value, FALSE) -> env
                  [] IsBool(value, TRUE) ->
                        LET after == evaluate(s.body, env, rounds)
                        IN  IF after \in {Raised, Diverges} THEN after
                            ELSE IF rounds = 0 THEN Diverges
                            ELSE evaluate(s, after, rounds - 1)
                  [] OTHER -> NilEnv

-----------------------------------------------------------------------------
(* The Machine of simple-step.rb                                           *)

VARIABLES
    program,                \* the statement the machine was made with
    statement, environment, \* the fields of the Machine
    status,                 \* run() is running, has ended, or raised
    falseIf, nilAssign      \* history: an If met a false condition; an
                            \* Assign was given the value of no variable
vars == <<program, statement, environment, status, falseIf, nilAssign>>

RunOf(p) == /\ program = p
            /\ statement = program /\ environment = Env(Environment)
            /\ status = "running" /\ falseIf = FALSE /\ nilAssign = FALSE

\* The statement a step works on.
RECURSIVE Active(_)
Active(s) == IF s.op = "Sequence" /\ s.first # DoNothing THEN Active(s.first) ELSE s

\* An If of the program, not one that a While was reduced to.
FalseIf(s) == s.op = "If" /\ IsBool(s.condition, FALSE) /\ s.alternative # DoNothing
NilAssign(s) == s.op = "Assign" /\ s.expression = Nil

Followed == environment # NilEnv =>
    \A x \in Names : environment.map[x].op = "Number" => environment.map[x].value <= MaxValue

Step == /\ status = "running" /\ Followed
        /\ reducible(statement) /\ statement # Nil
        /\ LET p == reduce(statement, environment)
           IN  IF p.statement = Raise
               THEN status' = "raised" /\ UNCHANGED <<statement, environment>>
               ELSE statement' = p.statement /\ environment' = p.environment /\ UNCHANGED status
        /\ falseIf' = (falseIf \/ FalseIf(Active(statement)))
        /\ nilAssign' = (nilAssign \/ NilAssign(Active(statement)))
        /\ UNCHANGED program

\* while statement.reducible?
Stop == /\ status = "running"
        /\ ~reducible(statement) \/ statement = Nil
        /\ status' = IF statement = Nil THEN "raised" ELSE "done"
        /\ UNCHANGED <<program, statement, environment, falseIf, nilAssign>>

Next == Step \/ Stop
Fairness == WF_vars(Next)

-----------------------------------------------------------------------------
(* Properties.                                                             *)

Answer == evaluate(program, Env(Environment), MaxRounds)

\* The machine of simple-step.rb and big-step.rb agree.  Where the machine ends,
\* big-step.rb gives the same environment, or raises if and only if the machine
\* has met an If whose condition is false, since it misspells that constant (line
\* 113); a While that ends does not make it raise.  Where the machine
\* raises, big-step.rb gives no environment; it can only give one for an Assign
\* of a variable that does not exist, which it stores as nil.
AgreesWithBigStep == /\ status = "done" => Answer = IF falseIf THEN Raised ELSE environment
                     /\ status = "raised" /\ ~nilAssign => Answer.kind # "env"

\* Where big-step.rb gives any answer, the machine comes to an end too, unless
\* that answer is the misspelt constant.
EndsWhenBigStepDoes == Answer = Diverges \/ status # "running" \/ falseIf
==============================================================================
