---------------------------- MODULE UnixNamespace ----------------------------
(***************************************************************************)
(* Namespaces and credentials.  A PID namespace is known by its init; a    *)
(* process has the set of those that it is under.  A user namespace is the *)
(* path that leads to it from the initial one.                             *)
(***************************************************************************)
EXTENDS UnixState

\* external: unshare()
UnshareIt(p) ==
    /\ LET q == proc[p]  F == A(p) IN
       Only(Becomes(p, Result([q EXCEPT !.ns = [pid |-> @.pid, new |-> "NEWPID" \in F,
                                                uts |-> IF "NEWUTS" \in F THEN p ELSE @.uts,
                                                user |-> IF "NEWUSER" \in F THEN Append(@.user, p) ELSE @.user]], 0)))

\* external: the hostname belongs to the UTS namespace
HostIt(p) ==
    \/ /\ Is(p, "sethost")
       /\ LET ps == Becomes(p, Result(proc[p], 0)) IN
          Only([q \in Pids |-> IF ps[q].ns.uts = ps[p].ns.uts THEN [ps[q] EXCEPT !.host = A(p)] ELSE ps[q]])
    \/ Is(p, "gethost") /\ Only(Becomes(p, Let(Skip(proc[p]), A(p), proc[p].host)))

\* external: open() of /proc/PID/ns/uts or /proc/PID/ns/user, which needs the process
OpenNsIt(p) ==
    /\ LET t == Get(proc[p], B(p)) IN
       IF proc[t].st = "gone" THEN Only(Becomes(p, Error(proc[p], "ENOENT")))
       ELSE /\ obj' = Append(obj, [NewObj("ns", "", << >>, 0) EXCEPT !.at = {t}])
            /\ file' = Append(file, NewFile(Len(obj) + 1, 0))
            /\ proc' = PutFiles(Becomes(p, Result(proc[p], 0)), p, (A(p) :> Len(file) + 1) @@ proc[p].files)
            /\ UNCHANGED <<scene, left>>

\* external: setns(); a user namespace can be joined from one above it only
SetnsIt(p) ==
    /\ LET q == proc[p]
           t == proc[CHOOSE x \in obj[file[q.files[A(p)]].rd].at : TRUE]
           above == Len(q.ns.user) < Len(t.ns.user) /\ SubSeq(t.ns.user, 1, Len(q.ns.user)) = q.ns.user
       IN  IF B(p) = "user" THEN Only(Becomes(p, IF above THEN Result([q EXCEPT !.ns.user = t.ns.user], 0) ELSE Error(q, "EPERM")))
           ELSE Only(Becomes(p, Result([q EXCEPT !.ns.uts = t.ns.uts, !.host = t.host], 0)))

\* external: setresuid(), setresgid(), which only root may call with an arbitrary value, and
\* other attributes of a process: securebits, capability sets
CredIt(p) ==
    \/ /\ Is(p, "setid")
       /\ Only(Becomes(p, IF proc[p].cred.uid = "root" THEN Result([proc[p] EXCEPT !.cred = (A(p) :> Get(proc[p], B(p))) @@ @], 0)
                          ELSE Error(proc[p], "EPERM")))
    \/ Is(p, "setcap") /\ Only(Becomes(p, Result([proc[p] EXCEPT !.cred = (A(p) :> B(p)) @@ @], 0)))
    \/ Is(p, "getcred") /\ Only(Becomes(p, Let(Skip(proc[p]), B(p), proc[p].cred[A(p)])))

NsOps == {"unshare", "sethost", "gethost", "openns", "setns", "setid", "setcap", "getcred"}
NsCall(p, op) ==
    \/ op = "unshare" /\ UnshareIt(p)
    \/ op \in {"sethost", "gethost"} /\ HostIt(p)
    \/ op = "openns" /\ OpenNsIt(p)
    \/ op = "setns" /\ SetnsIt(p)
    \/ op \in {"setid", "setcap", "getcred"} /\ CredIt(p)
=============================================================================
