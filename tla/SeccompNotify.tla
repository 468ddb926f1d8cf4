---------------------------- MODULE SeccompNotify ----------------------------
(***************************************************************************)
(* seccomp_unotify_mkdir and seccomp_unotify_openat: the target's calls    *)
(* are handed to a supervisor, which reads the pathname out of the         *)
(* target's memory, acts for it and spoofs the result.  The target may be  *)
(* interrupted or killed at any time, and its PID may be given to another  *)
(* process; the supervisor learns of the end of the target by SIGCHLD,     *)
(* whose handler is installed only after the fork.  A tag above a          *)
(* definition names the file and the lines it models.                      *)
(***************************************************************************)
EXTENDS Naturals, Sequences

CONSTANT MaxCalls        \* pathname arguments of the program

VARIABLES prog,          \* which of the two programs, and its options
          tgt,           \* the target: pc, its calls so far and their results
          notif,         \* the kernel's notification: "none", "queued" or "taken"
          sup,           \* the supervisor: pc, cookie, pathname buffer, status, response
          chld,          \* SIGCHLD: "no", "pending", "lost" (came before the handler was there)
          made           \* what the supervisor did: <<cookie, pathname>>

vars == <<prog, tgt, notif, sup, chld, made>>

\* "long" is a pathname whose end is not among the PATH_MAX bytes that are read.
Paths == {"/tmp/x", "./x", "/bye", "/x", "long"}
Programs == [name : {"mkdir"}, delay : BOOLEAN, second : {"none", "errno", "trace"}]
            \cup [name : {"openat"}, delay : {FALSE}, second : {"none"}]

Init == /\ prog \in Programs
        /\ tgt = [pc |-> "setup", sent |-> FALSE, calls |-> <<>>, results |-> <<>>]
        /\ notif = "none" /\ chld = "no" /\ made = {}
        /\ sup = [pc |-> "main", id |-> 0, path |-> "undefined", ok |-> FALSE, resp |-> "none"]

id == Len(tgt.calls)     \* the cookie of the target's latest call
Valid == tgt.pc = "blocked" /\ sup.id = id /\ notif = "taken"

Return(r) == tgt' = [tgt EXCEPT !.pc = "calls", !.results = Append(@, r)]

------------------------------------------------------------------------------
(* The target.                                                             *)

\* seccomp_unotify_mkdir.c:259-303 targetProcess(): handler, filters, sendfd(); any of these may fail
Setup == /\ tgt.pc = "setup" /\ tgt' = [tgt EXCEPT !.pc = "calls", !.sent = TRUE]
         /\ UNCHANGED <<prog, notif, sup, chld, made>>

\* seccomp_unotify_openat.c:163-220 targetProcess(): the same without a handler, then openat() for each argument
openat_targetProcess(p) ==
    /\ prog.name = "openat" /\ tgt.pc = "calls" /\ id < MaxCalls
    /\ tgt' = [tgt EXCEPT !.pc = "blocked", !.calls = Append(@, p)]
    /\ notif' = "queued" /\ UNCHANGED <<prog, sup, chld, made>>

\* seccomp_unotify_mkdir.c:305-318 targetProcess(): mkdir(), which an ERRNO filter fails before anybody is notified
mkdir_targetProcess(p) ==
    /\ prog.name = "mkdir" /\ tgt.pc = "calls" /\ id < MaxCalls
    /\ \/ /\ prog.second = "errno"
          /\ tgt' = [tgt EXCEPT !.calls = Append(@, p), !.results = Append(@, "ENOTSUP")]
          /\ UNCHANGED notif
       \/ /\ prog.second # "errno"
          /\ tgt' = [tgt EXCEPT !.pc = "blocked", !.calls = Append(@, p)]
          /\ notif' = "queued"
    /\ UNCHANGED <<prog, sup, chld, made>>

\* external: without a supervisor that holds the listener, a filtered call fails with ENOSYS
NoListener == /\ tgt.pc = "blocked" /\ sup.pc = "dead"
              /\ Return("ENOSYS") /\ notif' = "none" /\ UNCHANGED <<prog, sup, chld, made>>

\* seccomp_unotify_mkdir.c:228-235 sigintHandler(): no SA_RESTART, so the call is interrupted
sigintHandler == /\ prog.name = "mkdir" /\ tgt.pc = "blocked"
                 /\ Return("EINTR") /\ notif' = "none" /\ UNCHANGED <<prog, sup, chld, made>>

\* The target ends: after its last argument, by a failed call in its setup, or by a signal.
TargetEnds == /\ tgt.pc # "gone"
              /\ tgt' = [tgt EXCEPT !.pc = "gone"] /\ notif' = "none"
              /\ chld' = IF sup.pc = "main" THEN "lost" ELSE "pending"
              /\ UNCHANGED <<prog, sup, made>>

------------------------------------------------------------------------------
(* The supervisor.                                                         *)

At(from) == sup.pc = from
Goto(to) == sup' = [sup EXCEPT !.pc = to]

\* seccomp_unotify_mkdir.c:551-588 main(): after the fork, the handler for SIGCHLD
Sigaction == At("main") /\ Goto("recvfd") /\ UNCHANGED <<prog, tgt, notif, chld, made>>

\* Mutant: the handler returns to the supervisor.
sigchldHandler_Returns == /\ chld = "pending" /\ sup.pc \notin {"main", "dead"}
                          /\ chld' = "no" /\ UNCHANGED <<prog, tgt, notif, sup, made>>

\* seccomp_unotify_mkdir.c:97-104 sigchldHandler(): it may run at any point of the supervisor
sigchldHandler == /\ chld = "pending" /\ sup.pc \notin {"main", "dead"}
                  /\ Goto("dead") /\ UNCHANGED <<prog, tgt, notif, chld, made>>

\* seccomp_unotify_mkdir.c:483-493 supervisor(): the listener arrives; it never does if the target failed before sendfd()
Recvfd == /\ At("recvfd") /\ tgt.sent /\ Goto("recv")
          /\ UNCHANGED <<prog, tgt, notif, chld, made>>

\* seccomp_unotify_mkdir.c:334-361 handleNotifications(): SECCOMP_IOCTL_NOTIF_RECV waits for a notification
Receive == /\ At("recv") /\ notif = "queued"
           /\ notif' = "taken" /\ sup' = [sup EXCEPT !.pc = "got", !.id = id]
           /\ UNCHANGED <<prog, tgt, chld, made>>

\* seccomp_unotify_openat.c:237-247 handleNotifications(), supervisor(): a receive that fails ends the supervisor
ReceiveFails == /\ sup.pc \in {"recvfd", "recv"} /\ Goto("dead")
                /\ UNCHANGED <<prog, tgt, notif, chld, made>>

\* seccomp_unotify_mkdir.c:363-388 handleNotifications(): the delay, with the cookie checked before and after
Delay == /\ At("got") /\ prog.delay
         /\ IF Valid THEN Goto("delayed") ELSE Goto("dead")
         /\ UNCHANGED <<prog, tgt, notif, chld, made>>

\* seccomp_functions.c:65-85 getTargetPathname(): open /proc/PID/mem, then check the cookie
OpenMem == /\ \/ At("got") /\ ~prog.delay
              \/ At("delayed") /\ Valid
           /\ \/ sup' = [sup EXCEPT !.pc = "decide", !.ok = FALSE]
              \/ Valid /\ Goto("mem")
           /\ UNCHANGED <<prog, tgt, notif, chld, made>>

\* seccomp_unotify_mkdir.c:390-394 handleNotifications(): the cookie is no longer valid after the delay
DelayedTooLong == /\ At("delayed") /\ ~Valid
                  /\ Goto("dead") /\ UNCHANGED <<prog, tgt, notif, chld, made>>

\* seccomp_functions.c:87-94 getTargetPathname(): pread(); once the call is over, the bytes may be anything
ReadMem == /\ At("mem")
           /\ \/ \E p \in IF Valid THEN {tgt.calls[id]} ELSE Paths : sup' = [sup EXCEPT !.pc = "check", !.path = p]
              \/ sup' = [sup EXCEPT !.pc = "decide", !.ok = FALSE]
           /\ UNCHANGED <<prog, tgt, notif, chld, made>>

\* Mutant: the second check of the cookie is left out.
CheckAgain_None == /\ At("check") /\ sup' = [sup EXCEPT !.pc = "decide", !.ok = (sup.path # "long")]
                   /\ UNCHANGED <<prog, tgt, notif, chld, made>>

\* seccomp_functions.c:96-118 getTargetPathname(): the cookie is checked again, and the string must end
CheckAgain == /\ At("check") /\ sup' = [sup EXCEPT !.pc = "decide", !.ok = (Valid /\ sup.path # "long")]
              /\ UNCHANGED <<prog, tgt, notif, chld, made>>

Respond(r) == sup' = [sup EXCEPT !.pc = "send", !.resp = r]

\* Mutant: a pathname that could not be fetched leaves the response of the last call in place.
Decide_Stale == /\ At("decide") /\ prog.name = "mkdir"
                /\ \/ ~sup.ok /\ Goto("send") /\ UNCHANGED made
                   \/ sup.ok /\ Respond("success") /\ made' = made \cup {<<sup.id, sup.path>>}
                /\ UNCHANGED <<prog, tgt, notif, chld>>

\* seccomp_unotify_mkdir.c:396-447 handleNotifications(): what to do with a pathname
Decide == /\ At("decide") /\ prog.name = "mkdir"
          /\ \/ ~sup.ok /\ Respond("EINVAL") /\ UNCHANGED made
             \/ /\ sup.ok /\ sup.path = "/tmp/x"
                /\ \/ Respond("success") /\ made' = made \cup {<<sup.id, sup.path>>}
                   \/ Respond("error") /\ UNCHANGED made
             \/ sup.ok /\ sup.path = "./x" /\ Respond("continue") /\ UNCHANGED made
             \/ sup.ok /\ sup.path \in {"/bye", "/x"} /\ Respond("EOPNOTSUPP") /\ UNCHANGED made
          /\ UNCHANGED <<prog, tgt, notif, chld>>

\* external: SECCOMP_IOCTL_NOTIF_SEND fails with ENOENT when the call is over
Send == IF Valid
        THEN /\ notif' = "none"
             /\ IF sup.resp = "continue" THEN \E r \in {"executed", "EEXIST"} : Return(r) ELSE Return(sup.resp)
        ELSE UNCHANGED <<tgt, notif>>

\* Mutant: "/bye" ends the supervisor before it has answered.
Answer_Bye == /\ At("send") /\ prog.name = "mkdir"
              /\ IF sup.path = "/bye" THEN Goto("stuck") /\ UNCHANGED <<tgt, notif>> ELSE Send /\ Goto("recv")
              /\ UNCHANGED <<prog, chld, made>>

\* seccomp_unotify_mkdir.c:449-476 handleNotifications(): send; then the buffer, which may be stale or undefined, is
\* compared with "/bye", and the supervisor ends
Answer == /\ At("send") /\ prog.name = "mkdir" /\ Send
          /\ \E bye \in IF sup.path = "undefined" THEN BOOLEAN ELSE {sup.path = "/bye"} :
                Goto(IF bye THEN "dead" ELSE "recv")
          /\ UNCHANGED <<prog, chld, made>>

\* seccomp_unotify_openat.c:264-319 handleNotifications(): openat() for the target; the descriptor is added to the
\* target, and when that is too late the supervisor gives up
openat_Decide ==
    /\ At("decide") /\ prog.name = "openat"
    /\ \/ ~sup.ok /\ Respond("EINVAL") /\ UNCHANGED made
       \/ sup.ok /\ Respond("error") /\ UNCHANGED made
       \/ sup.ok /\ Goto("addfd") /\ made' = made \cup {<<sup.id, sup.path>>}
    /\ UNCHANGED <<prog, tgt, notif, chld>>

\* seccomp_unotify_openat.c:301-309 SECCOMP_IOCTL_NOTIF_ADDFD
openat_AddFd == /\ At("addfd")
                /\ IF Valid THEN Respond("success") ELSE Goto("dead")
                /\ UNCHANGED <<prog, tgt, notif, chld, made>>

\* seccomp_unotify_openat.c:321-336 handleNotifications(): send, and the next notification
openat_Answer == /\ At("send") /\ prog.name = "openat" /\ Send /\ Goto("recv")
                 /\ UNCHANGED <<prog, chld, made>>

Supervisor == \/ Sigaction \/ sigchldHandler \/ Recvfd \/ Receive \/ Delay \/ OpenMem \/ DelayedTooLong \/ ReadMem
              \/ CheckAgain \/ Decide \/ Answer \/ openat_Decide \/ openat_AddFd \/ openat_Answer

Next == \/ Setup \/ NoListener \/ sigintHandler \/ TargetEnds \/ Supervisor \/ ReceiveFails
        \/ \E p \in Paths : openat_targetProcess(p) \/ mkdir_targetProcess(p)

Fairness == WF_vars(Supervisor) /\ WF_vars(NoListener)

------------------------------------------------------------------------------
\* The supervisor makes a directory or opens a file for nobody but the call it was asked by, and under the pathname of
\* that call, however late it is and whoever has the target's PID by then (getTargetPathname(), two checks).
ActsForTheCall == \A m \in made : tgt.calls[m[1]] = m[2]

\* A target that is told "success" has its directory or descriptor, and no call gets the answer to another one
\* (SECCOMP_IOCTL_NOTIF_SEND with the cookie of the request).
SuccessIsReal == \A i \in 1 .. Len(tgt.results) : tgt.results[i] = "success" => <<i, tgt.calls[i]>> \in made

\* No call stays blocked, unless the target is killed in it: the supervisor answers every notification it takes, and
\* when it ends the kernel answers for it.  When the target is gone the supervisor ends, unless the target was gone
\* before the handler was installed: then SIGCHLD was discarded, and the supervisor waits for a notification that never
\* comes (main(), lines 573-583).
Settled == /\ tgt.pc # "blocked"
           /\ tgt.pc = "gone" => sup.pc = "dead" \/ chld = "lost"
==============================================================================
