-------------------------------- MODULE Unix --------------------------------
(***************************************************************************)
(* The part of a Unix kernel that the programs of the repository use, as   *)
(* an interpreter of their texts.  One step is one system call of one      *)
(* process, or the delivery of one signal.  Control between two system     *)
(* calls that touches only a process's own variables is part of the call   *)
(* before it, because nobody else can see it.                              *)
(***************************************************************************)
EXTENDS UnixSignal, UnixFile, UnixIpc, UnixNamespace, UnixSocket

\* Whether p may run: not stopped, and not waiting for the child of a vfork().
Runnable(p) == p \in Pids /\ proc[p].st = "run" /\ proc[p].vf = 0

\* external: what a blocking call waits for has not happened
Source(p) == file[proc[p].files[A(p)]].rd
CannotFinish(p) ==
    \E op \in {Ins(proc[p]).op} : LET k == proc[p].files[A(p)] IN
    CASE op = "wait" -> "NOHANG" \notin B(p) /\ Awaited(p) # {} /\ News(p) = {}
      [] op = "sigwait" -> Pending(proc[p]) \cap A(p) = {}
      [] op = "read" -> Has(p, A(p)) /\ ~ file[k].nb /\ ~ CanRead(k) /\ Most(p) > 0
      [] op \in {"write", "writeline", "writebuf", "fflush"} -> Has(p, A(p)) /\ ~ file[k].nb /\ Readers(file[k].wr) # {} /\ ~ Room(k, Len(Output(p)))
      [] op = "writesome" -> Readers(file[k].wr) # {} /\ ~ Room(k, 1)
      [] op = "select" -> ~ B(p).timeout /\ (\A f \in A(p) : ~ Pollable(proc[p].files[f])) /\ (\A f \in B(p).W : ~ Room(proc[p].files[f], 1))
      [] op = "epoll_wait" -> Events(Source(p)) = {}
      [] op = "accept" -> ~ file[k].nb /\ obj[Source(p)].buf = << >>
      [] op = "recvfrom" -> obj[Source(p)].buf = << >>
      [] op = "recvmsg" -> obj[Source(p)].buf = << >> /\ ~ (obj[Source(p)].kind = "pipe" /\ Writers(Source(p)) = {})
      [] op = "connect" -> obj[Source(p)].kind = "sock" /\ Listeners(B(p)) # {} /\ \A o \in Listeners(B(p)) : Len(obj[o].buf) >= obj[o].cap
      [] op = "sendto" -> Targets(p) # {} /\ \E o \in Targets(p) : Len(obj[o].buf) >= obj[o].cap
      [] op \in IpcOps -> IpcWaits(p)
      [] OTHER -> FALSE

\* external: the call waits inside the kernel; sigsuspend() changes the mask in the same step
EnterWait(p) ==
    /\ ~ proc[p].blk
    /\ \/ Ins(proc[p]).op \in {"pause", "sigsuspend"}
       \/ (Is(p, "sleep") \/ CannotFinish(p)) /\ Catches(proc[p])
       \/ Is(p, "lock") /\ CannotFinish(p)
    /\ Only([proc EXCEPT ![p].blk = TRUE, ![p].smask = proc[p].mask,
                         ![p].mask = IF Is(p, "sigsuspend") THEN A(p) ELSE @])

\* Whether p cannot take a step.
Waits(p) ==
    \/ ~ Runnable(p)
    \/ /\ Deliverable(proc[p]) = {} /\ ~ proc[p].alarm
       /\ \/ Ins(proc[p]).op \in {"pause", "sigsuspend"} /\ proc[p].blk
          \/ Is(p, "open") /\ proc[p].blk /\ ~ Met(p)
          \/ CannotFinish(p) /\ (proc[p].blk \/ ~ (Catches(proc[p]) \/ Is(p, "lock")))
          \/ Is(p, "loop") /\ left.rounds = 0
          \/ Is(p, "say") /\ Len(proc[p].said) >= MaxOut
          \/ Is(p, "clone") /\ Len(proc) >= MaxProcs

SystemCall(p) ==
    \/ \E op \in {Ins(proc[p]).op} :
          \/ op \in FileOps /\ FileCall(p, op)
          \/ op \in SignalOps /\ SignalCall(p, op)
          \/ op \in IpcOps /\ IpcCall(p, op)
          \/ op \in NsOps /\ NsCall(p, op)
          \/ op \in SocketOps /\ SocketCall(p, op)
          \/ op \notin FileOps \cup SignalOps \cup IpcOps \cup NsOps \cup SocketOps /\ ProcessCall(p, op)
    \/ EnterWait(p)

\* A signal that is pending and not blocked comes before the next system call.
Step(p) == /\ Runnable(p)
           /\ IF Deliverable(proc[p]) # {} THEN Deliver(p) ELSE SystemCall(p) \/ AlarmRings(p)

\* A call that needs resources fails for want of them.
Fault(p) ==
    /\ Runnable(p) /\ left.faults > 0
    /\ Ins(proc[p]).op \in {"clone", "exec", "pipe", "open", "openpt", "epoll_create", "sys", "unshare", "sethost", "socket", "socketpair", "accept", "get"}
    /\ proc' = Becomes(p, Error(proc[p], "EAGAIN"))
    /\ left' = [left EXCEPT !.faults = @ - 1]
    /\ UNCHANGED <<scene, file, obj>>

\* A user or another program sends a signal to a process of the scene, or, from the keyboard,
\* to the process group of the first one.
Outside(s) ==
    /\ left.ext[s] > 0
    /\ LET to == Scenes[scene].to
           P == IF to = 0 THEN {p \in Pids : proc[p].tg = p /\ proc[p].pg = 1} ELSE {to} \cap Pids
       IN  P # {} /\ proc' = PostAll(proc, P, s)
    /\ left' = [left EXCEPT !.ext[s] = @ - 1]
    /\ UNCHANGED <<scene, file, obj>>

Next == \/ \E p \in 1..MaxProcs : Step(p)
        \/ \E p \in Pids : Fault(p)
        \/ \E s \in DOMAIN left.ext : Outside(s)

\* The kernel runs what can run.  Fairness is assumed only where a property needs it.
Spec == Init /\ [][Next]_vars /\ \A p \in 1..MaxProcs : WF_vars(scene \in FairScenes /\ Step(p))
=============================================================================
