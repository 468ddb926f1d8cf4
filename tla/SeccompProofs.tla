---------------------------- MODULE SeccompProofs ----------------------------
(***************************************************************************)
(* Theorems about SeccompNotify, for any number of calls of the target:    *)
(* the supervisor acts for the call it was asked by, and "success" is      *)
(* told only of what was done.                                             *)
(*                                                                         *)
(* A cookie that has ceased to be valid never becomes valid again, because *)
(* the next call has a new one; so what was read from the target's memory  *)
(* between two successful checks is the pathname of that call.             *)
(***************************************************************************)
EXTENDS SeccompNotify, SequenceTheorems, TLAPS

\* The specification without the fairness that only liveness needs.
SafeSpec == Init /\ [][Next]_vars

TgtPcs == {"setup", "calls", "blocked", "gone"}
SupPcs == {"main", "recvfd", "recv", "got", "delayed", "mem", "check", "decide", "addfd", "send", "dead"}
Results == {"ENOTSUP", "ENOSYS", "EINTR", "EINVAL", "EOPNOTSUPP", "success", "error", "executed", "EEXIST"}
Responses == {"none", "EINVAL", "EOPNOTSUPP", "success", "error", "continue"}

TgtType == [pc : TgtPcs, sent : BOOLEAN, calls : Seq(Paths), results : Seq(Results)]
SupType == [pc : SupPcs, id : Nat, path : Paths \cup {"undefined"}, ok : BOOLEAN, resp : Responses]

TypeOK == /\ tgt \in TgtType /\ sup \in SupType
          /\ notif \in {"none", "queued", "taken"}
          /\ made \subseteq Nat \X Paths

\* There is a notification exactly while the target is blocked, and the supervisor has none of a
\* call that is queued; results are as many as calls that have returned.
Notified == /\ notif # "none" <=> tgt.pc = "blocked"
            /\ sup.id <= id
            /\ notif = "queued" => sup.id < id
            /\ tgt.pc \in {"setup", "calls"} => Len(tgt.results) = id
            /\ tgt.pc = "blocked" => Len(tgt.results) + 1 = id
            /\ Len(tgt.results) <= id

\* The pathname is that of the call.
Known(s) == s.path = tgt.calls[s.id]

\* What a supervisor in state s knows at each point of handleNotifications().
Knows(s) == /\ s.pc \notin {"main", "recvfd", "recv", "dead"} => s.id \in 1..id
            /\ s.pc = "check" /\ Valid => Known(s)
            /\ s.pc = "decide" /\ s.ok => Known(s)
            /\ s.pc = "addfd" => Known(s) /\ <<s.id, s.path>> \in made
            /\ s.pc = "send" => s.resp # "none"
            /\ s.pc = "send" /\ s.resp = "success" => <<s.id, tgt.calls[s.id]>> \in made

Recorded == \A m \in made : m[1] \in 1..id

Inv == TypeOK /\ Notified /\ Knows(sup) /\ Recorded /\ ActsForTheCall /\ SuccessIsReal

-----------------------------------------------------------------------------
\* The invariant holds before the target makes its first call.
LEMMA InitInv == Init => Inv
<1> SUFFICES ASSUME Init PROVE Inv
  OBVIOUS
<1> USE DEF Init
<1>1. TypeOK
  BY DEF TypeOK, TgtType, SupType, TgtPcs, SupPcs, Responses
<1>2. Notified
  BY DEF Notified, id
<1>3. Knows(sup) /\ Recorded
  BY DEF Knows, Recorded
<1>4. ActsForTheCall /\ SuccessIsReal
  BY DEF ActsForTheCall, SuccessIsReal
<1> QED BY <1>1, <1>2, <1>3, <1>4 DEF Inv

\* A step of the supervisor alone, which keeps the cookie and does nothing for the target.
LEMMA SupervisorStep ==
    ASSUME Inv, NEW s \in SupType, sup' = s, s.id = sup.id, Knows(s),
           UNCHANGED <<tgt, notif, made>>
    PROVE  Inv'
<1>1. TypeOK'
  BY DEF Inv, TypeOK
<1>2. Notified'
  BY DEF Inv, Notified, id
<1>3. Knows(sup)'
  BY DEF Knows, Known, Valid, id
<1>4. Recorded' /\ ActsForTheCall' /\ SuccessIsReal'
  BY DEF Inv, Recorded, ActsForTheCall, SuccessIsReal, id
<1> QED BY <1>1, <1>2, <1>3, <1>4 DEF Inv

\* A call of the target that returns r: the supervisor is not disturbed, because the cookie of the
\* call is no longer valid.
LEMMA ReturnStep ==
    ASSUME Inv, tgt.pc = "blocked", NEW r \in Results, Return(r), notif' = "none", UNCHANGED made,
           NEW s \in SupType, sup' = s, s.id = sup.id, s = sup \/ s.pc \in {"recv", "dead"},
           r = "success" => <<id, tgt.calls[id]>> \in made
    PROVE  Inv'
<1>1. /\ tgt' \in TgtType /\ tgt'.pc = "calls" /\ tgt'.calls = tgt.calls
      /\ Len(tgt'.results) = Len(tgt.results) + 1
      /\ \A i \in 1..Len(tgt.results) : tgt'.results[i] = tgt.results[i]
      /\ tgt'.results[Len(tgt.results) + 1] = r
  <2>1. tgt \in TgtType /\ tgt.results \in Seq(Results)
    BY DEF Inv, TypeOK, TgtType
  <2>2. tgt' = [tgt EXCEPT !.pc = "calls", !.results = Append(tgt.results, r)]
    BY DEF Return
  <2>3. Append(tgt.results, r) \in Seq(Results)
    BY <2>1
  <2>4. tgt' \in TgtType /\ tgt'.pc = "calls" /\ tgt'.calls = tgt.calls /\ tgt'.results = Append(tgt.results, r)
    BY <2>1, <2>2, <2>3 DEF TgtType, TgtPcs
  <2> QED BY <2>1, <2>4
<1>2. /\ id \in Nat /\ id' = id /\ id = Len(tgt.results) + 1
      /\ Len(tgt.results) \in Nat
  BY <1>1 DEF id, Inv, TypeOK, Notified, TgtType
<1>3. TypeOK'
  BY <1>1 DEF Inv, TypeOK
<1>4. Notified'
  BY <1>1, <1>2 DEF Inv, Notified
<1>5. Knows(sup)'
  BY <1>1, <1>2 DEF Inv, Knows, Known, Valid
<1>6. Recorded' /\ ActsForTheCall'
  BY <1>1, <1>2 DEF Inv, Recorded, ActsForTheCall
<1>7. SuccessIsReal'
  BY <1>1, <1>2 DEF Inv, SuccessIsReal
<1> QED BY <1>3, <1>4, <1>5, <1>6, <1>7 DEF Inv

\* Moving the supervisor to another point of its program changes its pc only.
LEMMA GotoStep ==
    ASSUME sup \in SupType, NEW to \in SupPcs, Goto(to)
    PROVE  sup' \in SupType /\ sup'.id = sup.id /\ sup'.pc = to /\ sup'.path = sup.path
BY DEF Goto, SupType

\* Composing a response changes the response and the pc only.
LEMMA RespondStep ==
    ASSUME sup \in SupType, NEW r \in Responses, Respond(r)
    PROVE  sup' \in SupType /\ sup'.id = sup.id /\ sup'.pc = "send" /\ sup'.resp = r /\ sup'.path = sup.path
BY DEF Respond, SupType, SupPcs

\* A new call has a new cookie: nothing that is known of the earlier calls changes.
LEMMA CallStep ==
    ASSUME Inv, tgt.pc = "calls", NEW p \in Paths, UNCHANGED <<sup, made>>,
           \/ /\ tgt' = [tgt EXCEPT !.pc = "blocked", !.calls = Append(@, p)] /\ notif' = "queued"
           \/ /\ tgt' = [tgt EXCEPT !.calls = Append(@, p), !.results = Append(@, "ENOTSUP")] /\ UNCHANGED notif
    PROVE  Inv'
<1>0. tgt \in TgtType /\ tgt.calls \in Seq(Paths) /\ tgt.results \in Seq(Results) /\ sup \in SupType
  BY DEF Inv, TypeOK, TgtType
<1>1. /\ Append(tgt.calls, p) \in Seq(Paths) /\ Len(Append(tgt.calls, p)) = Len(tgt.calls) + 1
      /\ \A i \in 1..Len(tgt.calls) : Append(tgt.calls, p)[i] = tgt.calls[i]
      /\ Len(tgt.calls) \in Nat /\ Len(tgt.results) \in Nat
  BY <1>0
<1>2. /\ Append(tgt.results, "ENOTSUP") \in Seq(Results)
      /\ Len(Append(tgt.results, "ENOTSUP")) = Len(tgt.results) + 1
      /\ \A i \in 1..Len(tgt.results) : Append(tgt.results, "ENOTSUP")[i] = tgt.results[i]
      /\ Append(tgt.results, "ENOTSUP")[Len(tgt.results) + 1] = "ENOTSUP"
  BY <1>0 DEF Results
<1>3. tgt' \in TgtType /\ tgt'.calls = Append(tgt.calls, p)
  <2>1. CASE tgt' = [tgt EXCEPT !.pc = "blocked", !.calls = Append(@, p)]
    BY <1>0, <1>1, <2>1, ZenonT(30) DEF TgtType, TgtPcs
  <2>2. CASE tgt' = [tgt EXCEPT !.calls = Append(@, p), !.results = Append(@, "ENOTSUP")]
    BY <1>0, <1>1, <1>2, <2>2, ZenonT(30) DEF TgtType, TgtPcs
  <2> QED BY <2>1, <2>2
<1>4. \/ tgt'.pc = "blocked" /\ notif' = "queued" /\ tgt'.results = tgt.results
      \/ tgt'.pc = "calls" /\ notif' = notif /\ tgt'.results = Append(tgt.results, "ENOTSUP")
  BY <1>0 DEF TgtType
<1>5. /\ id \in Nat /\ id' = id + 1 /\ Len(tgt.results) = id /\ notif = "none"
      /\ sup.id \in Nat /\ sup.id <= id
      /\ \A i \in 1..id : tgt'.calls[i] = tgt.calls[i]
  BY <1>1, <1>3, <1>0 DEF id, Inv, TypeOK, Notified, SupType
<1>6. TypeOK'
  BY <1>3, <1>4 DEF Inv, TypeOK
<1>7. Notified'
  BY <1>2, <1>4, <1>5, SMTT(30) DEF Inv, Notified
<1>8. Knows(sup)'
  BY <1>4, <1>5, SMTT(30) DEF Inv, Knows, Known, Valid
<1>9. Recorded' /\ ActsForTheCall'
  BY <1>5, SMTT(30) DEF Inv, Recorded, ActsForTheCall
<1>10. SuccessIsReal'
  BY <1>2, <1>4, <1>5 DEF Inv, SuccessIsReal
<1> QED BY <1>6, <1>7, <1>8, <1>9, <1>10 DEF Inv

\* The target is set up, or ends.
LEMMA TargetStep == ASSUME Inv, Setup \/ TargetEnds PROVE Inv'
<1>0. tgt \in TgtType /\ sup \in SupType
  BY DEF Inv, TypeOK
<1>1. /\ tgt' \in TgtType /\ tgt'.calls = tgt.calls /\ tgt'.results = tgt.results
      /\ UNCHANGED <<sup, made>>
      /\ \/ tgt.pc = "setup" /\ tgt'.pc = "calls" /\ notif' = notif
         \/ tgt'.pc = "gone" /\ notif' = "none"
  BY <1>0 DEF Setup, TargetEnds, TgtType, TgtPcs
<1>2. id' = id
  BY <1>1 DEF id
<1>3. TypeOK' /\ Notified'
  BY <1>1, <1>2 DEF Inv, TypeOK, Notified
<1>4. Knows(sup)'
  BY <1>1, <1>2 DEF Inv, Knows, Known, Valid
<1>5. Recorded' /\ ActsForTheCall' /\ SuccessIsReal'
  BY <1>1, <1>2 DEF Inv, Recorded, ActsForTheCall, SuccessIsReal
<1> QED BY <1>3, <1>4, <1>5 DEF Inv

\* The supervisor takes a notification, and with it the cookie of the call.
LEMMA ReceiveStep == ASSUME Inv, Receive PROVE Inv'
<1>0. tgt \in TgtType /\ sup \in SupType /\ id \in Nat /\ notif = "queued" /\ sup.id \in Nat
  BY DEF Inv, TypeOK, Receive, TgtType, SupType, id
<1>1. sup' \in SupType /\ sup'.pc = "got" /\ sup'.id = id /\ notif' = "taken" /\ UNCHANGED <<tgt, made>>
  BY <1>0 DEF Receive, SupType, SupPcs
<1>2. id' = id
  BY <1>1 DEF id
<1>3. TypeOK' /\ Notified'
  BY <1>0, <1>1, <1>2 DEF Inv, TypeOK, Notified
<1>4. Knows(sup)'
  BY <1>0, <1>1, <1>2 DEF Inv, Notified, Knows
<1>5. Recorded' /\ ActsForTheCall' /\ SuccessIsReal'
  BY <1>1, <1>2 DEF Inv, Recorded, ActsForTheCall, SuccessIsReal
<1> QED BY <1>3, <1>4, <1>5 DEF Inv

\* The supervisor does what the target has asked for, which it knows by now.
LEMMA ActStep ==
    ASSUME Inv, sup.pc = "decide", sup.ok, sup.path \in Paths,
           made' = made \cup {<<sup.id, sup.path>>}, UNCHANGED <<tgt, notif>>,
           NEW s \in SupType, sup' = s, s.id = sup.id, s.path = sup.path,
           s.pc = "addfd" \/ (s.pc = "send" /\ s.resp = "success")
    PROVE  Inv'
<1>0. tgt \in TgtType /\ sup.id \in 1..id /\ sup.id \in Nat /\ sup.path = tgt.calls[sup.id] /\ id' = id
  BY DEF Inv, TypeOK, Knows, Known, SupType, id
<1>1. TypeOK'
  BY <1>0 DEF Inv, TypeOK
<1>2. Notified'
  BY <1>0 DEF Inv, Notified
<1>3. Knows(sup)'
  BY <1>0 DEF Knows, Known, Valid
<1>4. Recorded' /\ ActsForTheCall'
  BY <1>0 DEF Inv, Recorded, ActsForTheCall
<1>5. SuccessIsReal'
  BY DEF Inv, SuccessIsReal
<1> QED BY <1>1, <1>2, <1>3, <1>4, <1>5 DEF Inv

\* A response goes to the call whose cookie it carries, or nowhere.
LEMMA SendStep ==
    ASSUME Inv, sup.pc = "send", Send, UNCHANGED made, sup.resp # "none",
           NEW pc \in {"recv", "dead"}, sup' = [sup EXCEPT !.pc = pc]
    PROVE  Inv'
<1>0. sup \in SupType /\ sup' \in SupType /\ sup'.id = sup.id /\ sup'.pc = pc
  BY DEF Inv, TypeOK, SupType, SupPcs
<1>1. CASE Valid
  <2>1. tgt.pc = "blocked" /\ sup.id = id
    BY <1>1 DEF Valid
  <2>2. PICK r \in Results : Return(r) /\ (r = "success" => sup.resp = "success")
    <3>1. CASE sup.resp = "continue"
      BY <1>1, <3>1 DEF Send, Results
    <3>2. CASE sup.resp # "continue"
      BY <1>0, <1>1, <3>2 DEF Send, Results, Responses, SupType
    <3> QED BY <3>1, <3>2
  <2>3. r = "success" => <<id, tgt.calls[id]>> \in made
    BY <2>1, <2>2 DEF Inv, Knows
  <2> QED
    BY <1>0, <1>1, <2>1, <2>2, <2>3, ReturnStep DEF Send
<1>2. CASE ~Valid
  <2>1. UNCHANGED <<tgt, notif>>
    BY <1>2 DEF Send
  <2>2. Knows(sup')
    BY <1>0 DEF Knows
  <2> QED BY <1>0, <2>1, <2>2, SupervisorStep
<1> QED BY <1>1, <1>2

\* Every step of the target, the supervisor or the kernel keeps the invariant.
LEMMA NextInv == Inv /\ [Next]_vars => Inv'
<1> SUFFICES ASSUME Inv, [Next]_vars PROVE Inv'
  OBVIOUS
<1>0. sup \in SupType /\ tgt \in TgtType /\ Knows(sup)
  BY DEF Inv, TypeOK
<1>1. CASE Setup \/ TargetEnds
  BY <1>1, TargetStep
<1>2. CASE NoListener \/ sigintHandler
  BY <1>0, <1>2, ReturnStep DEF NoListener, sigintHandler, Results
<1>3. ASSUME NEW p \in Paths, openat_targetProcess(p) \/ mkdir_targetProcess(p) PROVE Inv'
  BY <1>3, CallStep DEF openat_targetProcess, mkdir_targetProcess
<1>4. CASE Receive
  BY <1>4, ReceiveStep
<1>5. CASE Sigaction \/ sigchldHandler \/ Recvfd \/ ReceiveFails \/ DelayedTooLong
  <2>1. sup' \in SupType /\ sup'.id = sup.id /\ sup'.pc \in {"recvfd", "recv", "dead"} /\ UNCHANGED <<tgt, notif, made>>
    BY <1>0, <1>5 DEF Sigaction, sigchldHandler, Recvfd, ReceiveFails, DelayedTooLong, Goto, SupType, SupPcs
  <2>2. Knows(sup')
    BY <2>1 DEF Knows
  <2> QED BY <2>1, <2>2, SupervisorStep
<1>6. CASE Delay \/ OpenMem
  <2>1. /\ sup' \in SupType /\ sup'.id = sup.id /\ UNCHANGED <<tgt, notif, made>> /\ sup.pc \in {"got", "delayed"}
        /\ sup'.pc \in {"dead", "delayed", "mem"} \/ (sup'.pc = "decide" /\ ~sup'.ok)
    <3>1. CASE \E to \in {"dead", "delayed", "mem"} : Goto(to)
      <4>1. PICK to \in {"dead", "delayed", "mem"} : Goto(to)
        BY <3>1
      <4>2. sup' \in SupType /\ sup'.id = sup.id /\ sup'.pc = to
        BY <1>0, <4>1, GotoStep DEF SupPcs
      <4> QED BY <1>6, <4>1, <4>2 DEF Delay, OpenMem, At
    <3>2. CASE sup' = [sup EXCEPT !.pc = "decide", !.ok = FALSE]
      <4>1. sup' \in SupType /\ sup'.id = sup.id /\ sup'.pc = "decide" /\ ~sup'.ok
        BY <1>0, <3>2, ZenonT(30) DEF SupType, SupPcs
      <4> QED BY <1>6, <4>1 DEF Delay, OpenMem, At
    <3> QED BY <1>6, <3>1, <3>2 DEF Delay, OpenMem
  <2>2. Knows(sup')
    BY <1>0, <2>1 DEF Knows
  <2> QED BY <2>1, <2>2, SupervisorStep
<1>7. CASE ReadMem
  <2>1. /\ sup' \in SupType /\ sup'.id = sup.id /\ UNCHANGED <<tgt, notif, made>> /\ sup.pc = "mem"
        /\ \/ sup'.pc = "check" /\ (Valid => sup'.path = tgt.calls[id])
           \/ sup'.pc = "decide" /\ ~sup'.ok
    <3>1. Valid => tgt.calls[id] \in Paths
      BY <1>0, <1>7 DEF Valid, Knows, ReadMem, At, TgtType, id
    <3>2. CASE \E p \in IF Valid THEN {tgt.calls[id]} ELSE Paths : sup' = [sup EXCEPT !.pc = "check", !.path = p]
      <4>1. PICK p \in Paths : /\ sup' = [sup EXCEPT !.pc = "check", !.path = p]
                               /\ Valid => p = tgt.calls[id]
        BY <3>1, <3>2
      <4>2. sup' \in SupType /\ sup'.id = sup.id /\ sup'.pc = "check" /\ sup'.path = p
        BY <1>0, <4>1, ZenonT(30) DEF SupType, SupPcs
      <4> QED BY <1>7, <4>1, <4>2 DEF ReadMem, At
    <3>3. CASE sup' = [sup EXCEPT !.pc = "decide", !.ok = FALSE]
      <4>1. sup' \in SupType /\ sup'.id = sup.id /\ sup'.pc = "decide" /\ ~sup'.ok
        BY <1>0, <3>3, ZenonT(30) DEF SupType, SupPcs
      <4> QED BY <1>7, <4>1 DEF ReadMem, At
    <3> QED BY <1>7, <3>2, <3>3 DEF ReadMem
  <2>2. Knows(sup')
    BY <1>0, <2>1 DEF Knows, Known, Valid
  <2> QED BY <2>1, <2>2, SupervisorStep
<1>8. CASE CheckAgain
  <2>1. /\ sup' \in SupType /\ sup'.id = sup.id /\ sup'.path = sup.path /\ UNCHANGED <<tgt, notif, made>>
        /\ sup.pc = "check" /\ sup'.pc = "decide" /\ sup'.ok = (Valid /\ sup.path # "long")
    BY <1>0, <1>8 DEF CheckAgain, At, SupType, SupPcs, Valid
  <2>2. Knows(sup')
    BY <1>0, <2>1 DEF Knows, Known
  <2> QED BY <2>1, <2>2, SupervisorStep
<1>9. CASE Decide \/ openat_Decide
  <2>1. sup.pc = "decide" /\ UNCHANGED <<tgt, notif>>
    BY <1>9 DEF Decide, openat_Decide, At
  <2>2. sup.ok => sup.path \in Paths
    BY <1>0, <2>1 DEF Knows, Known, TgtType, id
  <2>3. CASE UNCHANGED made /\ \E r \in Responses \ {"none", "success"} : Respond(r)
    <3>1. /\ sup' \in SupType /\ sup'.id = sup.id /\ sup'.pc = "send" /\ sup'.resp \notin {"none", "success"}
      BY <1>0, <2>3 DEF Respond, SupType, SupPcs
    <3>2. Knows(sup')
      BY <1>0, <2>1, <3>1 DEF Knows
    <3> QED BY <2>1, <2>3, <3>1, <3>2, SupervisorStep
  <2>4. CASE sup.ok /\ made' = made \cup {<<sup.id, sup.path>>} /\ (Respond("success") \/ Goto("addfd"))
    <3>1. /\ sup' \in SupType /\ sup'.id = sup.id /\ sup'.path = sup.path
          /\ sup'.pc = "addfd" \/ (sup'.pc = "send" /\ sup'.resp = "success")
      BY <1>0, <2>4, GotoStep, RespondStep DEF SupPcs, Responses
    <3> QED BY <2>1, <2>2, <2>4, <3>1, ActStep
  <2> QED BY <1>9, <2>3, <2>4 DEF Decide, openat_Decide, Responses
<1>10. CASE openat_AddFd
  <2>1. /\ sup' \in SupType /\ sup'.id = sup.id /\ UNCHANGED <<tgt, notif, made>> /\ sup.pc = "addfd"
        /\ sup'.pc = "dead" \/ (sup'.pc = "send" /\ sup'.resp = "success")
    <3>1. Goto("dead") => sup' \in SupType /\ sup'.id = sup.id /\ sup'.pc = "dead"
      BY <1>0, GotoStep DEF SupPcs
    <3>2. Respond("success") => sup' \in SupType /\ sup'.id = sup.id /\ sup'.pc = "send" /\ sup'.resp = "success"
      BY <1>0, RespondStep DEF Responses
    <3> QED BY <1>10, <3>1, <3>2 DEF openat_AddFd, At
  <2>2. Knows(sup')
    BY <1>0, <2>1 DEF Knows, Known
  <2> QED BY <2>1, <2>2, SupervisorStep
<1>11. CASE Answer \/ openat_Answer
  <2>1. sup.pc = "send" /\ Send /\ UNCHANGED made /\ \E to \in {"recv", "dead"} : sup' = [sup EXCEPT !.pc = to]
    BY <1>11 DEF Answer, openat_Answer, At, Goto
  <2> QED BY <1>0, <2>1, SendStep DEF Knows
<1>12. CASE UNCHANGED vars
  BY <1>12, SupervisorStep, <1>0 DEF vars
<1> QED
  BY <1>1, <1>2, <1>3, <1>4, <1>5, <1>6, <1>7, <1>8, <1>9, <1>10, <1>11, <1>12
     DEF Next, Supervisor

-----------------------------------------------------------------------------
\* For any number of calls: the supervisor never makes a directory or opens a file under another
\* pathname than that of the call whose cookie it holds (the two checks of getTargetPathname()).
THEOREM ActsRight == SafeSpec => []ActsForTheCall
BY InitInv, NextInv, PTL DEF SafeSpec, Inv

\* For any number of calls: who is told "success" has what was asked for.
THEOREM SuccessRight == SafeSpec => []SuccessIsReal
BY InitInv, NextInv, PTL DEF SafeSpec, Inv
=============================================================================
