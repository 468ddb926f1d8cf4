----------------------------- MODULE UnixSignal -----------------------------
(***************************************************************************)
(* Signals: dispositions, masks, generation, delivery, and the calls that  *)
(* wait inside the kernel, where a signal interrupts them.                 *)
(***************************************************************************)
EXTENDS UnixProcess

\* external: sigaction(), signal(); a pending signal that becomes ignored is dropped
SigactionIt(p) ==
    /\ LET s == A(p)
           d == IF Is(p, "sigaction") THEN B(p) ELSE Get(proc[p], B(p))
           ps == Becomes(p, Skip(proc[p]))
           gone == d.h = "ign" \/ (d.h = "dfl" /\ s \in IgnoredByDefault)
       IN  Only([q \in Pids |->
            IF proc[q].share.sig # proc[p].share.sig \/ proc[q].st \notin {"run", "stop"} THEN ps[q]
            ELSE [ps[q] EXCEPT !.disp = (s :> d) @@ @,
                               !.pend = IF gone THEN SelectSeq(@, LAMBDA x : x # s) ELSE @]])

\* external: sigprocmask()
MaskIt(p) ==
    /\ LET q == proc[p]
           new == CASE Is(p, "block") -> q.mask \cup A(p)
                    [] Is(p, "unblock") -> q.mask \ A(p)
                    [] Is(p, "setmask") -> A(p)
                    [] Is(p, "restoremask") -> Get(q, A(p))
       IN  Only(Becomes(p, Skip([q EXCEPT !.mask = new \ Unblockable])))

\* external: sigpending(): whether the signal is pending
SigpendingIt(p) == /\ Only(Becomes(p, Let(Skip(proc[p]), B(p), A(p) \in Pending(proc[p]))))

\* external: kill(); a zombie can be sent a signal, to no effect
KillIt(p) ==
    /\ LET q == proc[p]
           to == IF A(p) = "self" THEN p ELSE IF A(p) = "group" THEN 0 ELSE Get(q, A(p))
           group == {k \in Pids : proc[k].tg = k /\ proc[k].pg = IF Is(p, "killpg") THEN proc[to].pg ELSE q.pg}
           ps == Becomes(p, Result(q, 0))
       IN  IF A(p) = "group" \/ Is(p, "killpg") THEN Only(PostAll(ps, group, B(p)))
           ELSE IF to \notin Pids \/ proc[to].st = "gone" THEN Only(Becomes(p, Error(q, "ESRCH")))
           ELSE Only(IF B(p) = "0" THEN ps ELSE Post(ps, to, B(p)))

\* external: sigwaitinfo(), and a read from a signalfd
SigwaitIt(p) ==
    /\ \E k \in DOMAIN proc[p].pend :
        /\ proc[p].pend[k] \in A(p)
        /\ \A j \in 1..(k - 1) : proc[p].pend[j] # proc[p].pend[k]
        /\ Only(Becomes(p, Let(Skip(Without(proc[p], k)), B(p), proc[p].pend[k])))

\* external: sleep() ends when its time has come; alarm() sets or clears the timer
SleepIt(p) == Only(Becomes(p, Result(proc[p], 0)))
AlarmIt(p) == Only(Becomes(p, Skip([proc[p] EXCEPT !.alarm = A(p)])))
AlarmRings(p) == /\ proc[p].alarm
                 /\ Only(Post([proc EXCEPT ![p].alarm = FALSE], p, "ALRM"))

-----------------------------------------------------------------------------
\* external: the calls that SA_RESTART restarts
Restartable == {"read", "wait", "write", "writeline", "writebuf", "open", "accept", "recvfrom", "recvmsg", "sendto", "writesome", "connect", "mqsend", "mqreceive", "lock"}

\* external: a handler starts; its frame says where to go on, and with which mask
Interrupted(q, s) ==
    LET d == Disp(q, s)
        suspended == q.blk /\ Ins(q).op = "sigsuspend"
        how == IF ~ q.blk \/ (Ins(q).op \in Restartable /\ "RESTART" \in d.flags) THEN "again" ELSE "eintr"
    IN  [q EXCEPT !.b = d.h, !.i = 1, !.blk = FALSE,
                  !.stk = Append(@, Frame(q, q.i, IF suspended THEN q.smask ELSE q.mask, how)),
                  !.loc = ("sig" :> s) @@ @,
                  !.mask = @ \cup (IF "NODEFER" \in d.flags THEN {} ELSE {s})
                             \cup (IF "FILL" \in d.flags THEN AllSignals ELSE {}),
                  !.disp = IF "RESETHAND" \in d.flags THEN (s :> Default) @@ @ ELSE @]

\* external: the delivery of a signal that is pending and not blocked
Deliver(p) ==
    \E k \in DOMAIN proc[p].pend :
        LET s == proc[p].pend[k]
            q == Without(proc[p], k)
            up == proc[p].ppid
            stopped == [proc EXCEPT ![p] = [q EXCEPT !.st = "stop", !.ev = "stopped"]]
        IN
        /\ s \notin q.mask /\ ("KILL" \in Pending(q) => s = "KILL")
        /\ \A j \in 1..(k - 1) : proc[p].pend[j] # s
        /\ CASE Caught(q, s) -> Only(Becomes(p, Interrupted(q, s)))
             [] Ignored(q, s) -> Only([proc EXCEPT ![p] = q])
             [] ~ Caught(q, s) /\ ~ Ignored(q, s) /\ s \in Stopping \ {"STOP"} /\ Orphaned(proc, q.pg) -> Only([proc EXCEPT ![p] = q])
             [] ~ Caught(q, s) /\ ~ Ignored(q, s) /\ s \in Stopping /\ (s = "STOP" \/ ~ Orphaned(proc, q.pg)) ->
                  Only(IF up < 1 THEN stopped ELSE Post(stopped, up, "CHLD"))
             [] ~ Caught(q, s) /\ ~ Ignored(q, s) /\ s \notin Stopping -> Only(End(proc, p, s))

\* external: a hardware fault; blocked or ignored it kills the process, and so does a handler
\* without a stack to run on; a handler that returns meets the fault again
TrapIt(p) ==
    /\ LET q == proc[p]  s == A(p) IN
       IF Caught(q, s) /\ s \notin q.mask /\ (B(p) = "stack" => "ONSTACK" \in Disp(q, s).flags)
       THEN Only(Becomes(p, Interrupted(q, s)))
       ELSE Only(End(proc, p, s))

SignalOps == {"trap", "sigaction", "restoreaction", "block", "unblock", "setmask", "restoremask", "sigpending", "kill", "killpg", "sigwait",
              "sleep", "alarm", "pause", "sigsuspend"}
SignalCall(p, op) ==
    \/ op = "trap" /\ TrapIt(p)
    \/ op \in {"sigaction", "restoreaction"} /\ SigactionIt(p)
    \/ op \in {"block", "unblock", "setmask", "restoremask"} /\ MaskIt(p)
    \/ op = "sigpending" /\ SigpendingIt(p)
    \/ op \in {"kill", "killpg"} /\ KillIt(p)
    \/ op = "sigwait" /\ SigwaitIt(p)
    \/ op = "sleep" /\ SleepIt(p)
    \/ op = "alarm" /\ AlarmIt(p)
=============================================================================
