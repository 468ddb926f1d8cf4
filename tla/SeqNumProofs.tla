----------------------------- MODULE SeqNumProofs -----------------------------
(***************************************************************************)
(* Both sequence number servers implement SeqNumService, for any number of *)
(* clients and server starts and whatever is killed: SeqSocket as it is,   *)
(* SeqFifo as long as no PID is used again.  Together with the theorems on *)
(* SeqNumService: no number is handed out twice before the counter         *)
(* overflows.                                                              *)
(***************************************************************************)
EXTENDS SeqFifo, SeqSocket, SequenceTheorems, TLAPS

-----------------------------------------------------------------------------
(* fifo_seqnum.                                                            *)

Reqs == {[pid |-> c, seqLen |-> seqLen[c]] : c \in Clients}

\* While no PID is used again, requests under way are ones that clients make,
\* and the server writes to the client whose request it is serving.
Served == /\ pid \in [Clients -> Clients]
          /\ resp = [c \in Clients |-> resp[c]]
          /\ NoReuse => /\ requests \in Seq(Reqs)
                        /\ spc \in {"open", "write", "update"} => req \in Reqs
                        /\ spc = "write" => peer \in Clients /\ peer = req.pid

\* A PID that has been used twice stays so.
LEMMA ReuseStays == ASSUME pid \in [Clients -> Clients], [Next]_vars, NoReuse' PROVE NoReuse
<1>1. CASE UNCHANGED pid  BY <1>1 DEF NoReuse
<1>2. ASSUME NEW c \in Clients, ClientStart(c), pid' # pid PROVE NoReuse
  <2>1. PICK d \in Clients : cpc[d] \in Ended \ {"none"} /\ pid' = [pid EXCEPT ![c] = pid[d]]
    BY <1>2 DEF ClientStart, NewPid
  <2>2. cpc[c] = "none"  BY <1>2 DEF ClientStart
  <2>3. c # d  BY <2>1, <2>2
  <2>4. pid'[c] = pid[d] /\ pid'[d] = pid[d]  BY <2>1, <2>3
  <2> QED  BY <2>3, <2>4 DEF NoReuse
<1> QED
  BY <1>1, <1>2 DEF Next, Server, Client, ServerStart, ServerOpenRead, ServerOpenWrite,
     ServerRead, ServerOpenClient, ServerGiveUp, ServerWrite, ServerUpdate, ServerKilled,
     ClientOpenServer, ClientWrite, ClientOpen, ClientRead, ClientKilled, client, vars

\* It is so before the server is started.
LEMMA InitServed == Init => Served
BY DEF Init, Served, NoReuse

\* Every step keeps it so.
LEMMA NextServed == Served /\ [Next]_vars => Served'
<1> SUFFICES ASSUME Served, [Next]_vars PROVE Served'
  OBVIOUS
<1>0. NoReuse' => NoReuse
  BY ReuseStays DEF Served
<1> USE <1>0 DEF Served, Close
<1>1. CASE ServerStart
  BY <1>1 DEF ServerStart, client
<1>2. CASE ServerOpenRead
  BY <1>2 DEF ServerOpenRead, client
<1>3. CASE ServerOpenWrite
  BY <1>3 DEF ServerOpenWrite, client
<1>4. CASE ServerRead
  BY <1>4 DEF ServerRead, client
<1>5. CASE ServerOpenClient
  BY <1>5 DEF ServerOpenClient, NoReuse
<1>6. CASE ServerGiveUp
  BY <1>6 DEF ServerGiveUp, client
<1>7. CASE ServerWrite
  BY <1>7 DEF ServerWrite
<1>8. CASE ServerUpdate
  BY <1>8 DEF ServerUpdate, client
<1>9. CASE ServerKilled
  BY <1>9 DEF ServerKilled, client
<1>10. ASSUME NEW c \in Clients, ClientStart(c) PROVE Served'
  <2>1. pid' \in [Clients -> Clients]
    BY <1>10 DEF ClientStart, NewPid
  <2> QED
    BY <1>10, <2>1 DEF ClientStart, server
<1>11. ASSUME NEW c \in Clients, ClientOpenServer(c) PROVE Served'
  BY <1>11 DEF ClientOpenServer, server
<1>12. ASSUME NEW c \in Clients, ClientWrite(c) PROVE Served'
  <2> DEFINE Request == [pid |-> pid[c], seqLen |-> seqLen[c]]
  <2>1. NoReuse => Request \in Reqs
    BY DEF Reqs, NoReuse
  <2>2. NoReuse' => requests' \in Seq(Reqs)
    <3>1. NoReuse => Append(requests, Request) \in Seq(Reqs)
      BY <2>1
    <3>2. << >> \in Seq(Reqs)
      OBVIOUS
    <3> HIDE DEF Reqs
    <3> QED
      BY <1>12, <3>1, <3>2 DEF ClientWrite
  <2> QED
    BY <1>12, <2>2 DEF ClientWrite, server
<1>13. ASSUME NEW c \in Clients, ClientOpen(c) PROVE Served'
  BY <1>13 DEF ClientOpen, NoReuse
<1>14. ASSUME NEW c \in Clients, ClientRead(c) PROVE Served'
  BY <1>14 DEF ClientRead, server
<1>15. ASSUME NEW c \in Clients, ClientKilled(c) PROVE Served'
  BY <1>15 DEF ClientKilled, server
<1>16. CASE UNCHANGED vars
  BY <1>16 DEF vars, server, client
<1> QED
  BY <1>1, <1>2, <1>3, <1>4, <1>5, <1>6, <1>7, <1>8, <1>9, <1>10, <1>11, <1>12,
     <1>13, <1>14, <1>15, <1>16 DEF Next, Server, Client

\* Requests are served in the way described in every reachable state.
THEOREM ServedInvariant == Spec => []Served
BY InitServed, NextServed, PTL DEF Spec

\* The write() is the step that allocates, or that wastes numbers on a client
\* that has gone: the length is that of the client's own request.
LEMMA WriteAllocates ==
    ASSUME NoReuse, Served, ServerWrite PROVE Service!SvcNext
<1>1. /\ spc = "write" /\ spc' = "update"
      /\ UNCHANGED <<epoch, seqNum, req>>
  BY DEF ServerWrite
<1>2. PICK c \in Clients : req = [pid |-> c, seqLen |-> seqLen[c]]
  BY <1>1 DEF Served, Reqs
<1>3. peer = c
  BY <1>1, <1>2 DEF Served
<1>4. CASE cpc[peer] = "read" /\ resp[peer] = NoGrant
  <2>1. resp' = [resp EXCEPT ![c] = [start |-> seqNum, epoch |-> epoch]]
    BY <1>3, <1>4 DEF ServerWrite
  <2>2. Service!Allocate(c)
    BY <1>1, <1>2, <1>3, <1>4, <2>1 DEF Service!Allocate, Service!NoGrant, NoGrant, Service!Wrap, Wrap
  <2> QED
    BY <2>2 DEF Service!SvcNext
<1>5. CASE ~(cpc[peer] = "read" /\ resp[peer] = NoGrant)
  <2>1. Service!Waste(c)
    BY <1>1, <1>2, <1>5 DEF ServerWrite, Service!Waste, Service!Wrap, Wrap
  <2> QED
    BY <2>1 DEF Service!SvcNext
<1> QED
  BY <1>4, <1>5

\* Every other step but a kill of the server leaves counter and grants alone.
LEMMA StepMaps ==
    ASSUME Served, [Next]_vars, NoReuse' PROVE [Service!SvcNext]_(Service!svcVars)
<1> USE DEF Service!svcVars
<1>1. CASE ServerStart
  BY <1>1 DEF ServerStart, client
<1>2. CASE ServerOpenRead
  BY <1>2 DEF ServerOpenRead, client
<1>3. CASE ServerOpenWrite
  BY <1>3 DEF ServerOpenWrite, client
<1>4. CASE ServerRead
  BY <1>4 DEF ServerRead, client
<1>5. CASE ServerOpenClient
  BY <1>5 DEF ServerOpenClient
<1>6. CASE ServerGiveUp
  BY <1>6 DEF ServerGiveUp, client
<1>7. CASE ServerWrite
  BY <1>7, ReuseStays, WriteAllocates DEF Served
<1>8. CASE ServerUpdate
  BY <1>8 DEF ServerUpdate, client
<1>9. CASE ServerKilled
  <2>1. Service!Restart
    BY <1>9 DEF ServerKilled, client, Service!Restart
  <2> QED
    BY <2>1 DEF Service!SvcNext
<1>10. ASSUME NEW c \in Clients, ClientStart(c) PROVE UNCHANGED Service!svcVars
  BY <1>10 DEF ClientStart, server
<1>11. ASSUME NEW c \in Clients, ClientOpenServer(c) PROVE UNCHANGED Service!svcVars
  BY <1>11 DEF ClientOpenServer, server
<1>12. ASSUME NEW c \in Clients, ClientWrite(c) PROVE UNCHANGED Service!svcVars
  BY <1>12 DEF ClientWrite, server
<1>13. ASSUME NEW c \in Clients, ClientOpen(c) PROVE UNCHANGED Service!svcVars
  BY <1>13 DEF ClientOpen
<1>14. ASSUME NEW c \in Clients, ClientRead(c) PROVE UNCHANGED Service!svcVars
  BY <1>14 DEF ClientRead, server
<1>15. ASSUME NEW c \in Clients, ClientKilled(c) PROVE UNCHANGED Service!svcVars
  BY <1>15 DEF ClientKilled, server
<1>16. CASE UNCHANGED vars
  BY <1>16 DEF vars, server, client
<1> QED
  BY <1>1, <1>2, <1>3, <1>4, <1>5, <1>6, <1>7, <1>8, <1>9, <1>10, <1>11, <1>12,
     <1>13, <1>14, <1>15, <1>16 DEF Next, Server, Client

\* The server hands out numbers the way SeqNumService does, although it moves
\* its counter on only after the answer has been sent.
THEOREM Implements == Spec => CountsLikeService
<1>1. Init => Service!SvcInit
  BY DEF Init, Service!SvcInit, NoGrant, Service!NoGrant
<1>2. Served /\ [Next]_vars => [NoReuse' => Service!SvcNext]_(Service!svcVars)
  BY StepMaps
<1> QED
  BY <1>1, <1>2, ServedInvariant, PTL DEF Spec, CountsLikeService

Facts == INSTANCE SeqNumServiceProofs WITH
    next   <- IF spc = "update" THEN Wrap(seqNum + req.seqLen) ELSE seqNum,
    grant  <- resp, Starts <- {0}

\* While no PID is used again and the counter does not overflow, no number is
\* handed out twice by one server process (lines 16 and 17 of the header).
THEOREM NumbersUnique ==
    Spec /\ [][NoReuse' /\ Service!NoOverflow]_(Service!svcVars) => []Unique
<1>1. Facts!Sensible
  BY FifoAssumption DEF Facts!Sensible
<1>2. Facts!FreshSpec => []Facts!Disjoint
  BY <1>1, Facts!UniqueNumbers
<1>3. Service!SvcInit => Facts!SvcInit
  BY DEF Service!SvcInit, Facts!SvcInit, Service!NoGrant, Facts!NoGrant
<1>4. [NoReuse' => Service!SvcNext]_(Service!svcVars) /\ [NoReuse' /\ Service!NoOverflow]_(Service!svcVars)
      => [Facts!FreshNext]_(Facts!svcVars)
  BY DEF Service!SvcNext, Facts!FreshNext, Facts!SvcNext, Service!NoOverflow, Facts!NoOverflow,
     Service!svcVars, Facts!svcVars, Service!Allocate, Facts!Allocate, Service!Waste, Facts!Waste,
     Service!Restart, Facts!Restart, Service!Wrap, Facts!Wrap, Service!NoGrant, Facts!NoGrant
<1>5. Facts!Disjoint => Unique
  BY DEF Facts!Disjoint, Unique, Service!Disjoint, Facts!Numbers, Service!Numbers, Facts!Wrap, Service!Wrap
<1> QED
  BY <1>2, <1>3, <1>4, <1>5, Implements, PTL DEF CountsLikeService, Facts!FreshSpec

-----------------------------------------------------------------------------
(* is_seqnum.                                                              *)

SocketType == /\ svSeqNum \in 0 .. Word - 1 /\ svEpoch \in Nat \ {0}
              /\ svpc \in {"accept", "read", "write", "update"}
              /\ svpc # "accept" => cfd \in SocketClients
              /\ svpc \in {"write", "update"} => cfd \in Valid
              /\ pending \in Seq(SocketClients)
              /\ clpc = [c \in SocketClients |-> clpc[c]]
              /\ clResp = [c \in SocketClients |-> clResp[c]]

\* A connection waits at most once to be accepted.
Waiting(c) == \E i \in 1 .. Len(pending) : pending[i] = c
WaitsOnce == \A i, j \in 1 .. Len(pending) : pending[i] = pending[j] => i = j

\* The clients that the server has not answered yet, but may.
Unserved(c) == Waiting(c) \/ (svpc \in {"read", "write"} /\ cfd = c)

\* Each client asks once, so the server answers it at most once.
AskedOnce(c) == /\ clpc[c] = "none" => ~Unserved(c)
                /\ clpc[c] = "none" \/ Unserved(c) => clResp[c] = NoAnswer
                /\ ~(Waiting(c) /\ svpc \in {"read", "write"} /\ cfd = c)

SocketInv == SocketType /\ WaitsOnce /\ \A c \in SocketClients : AskedOnce(c)

\* The counter as an unsigned number and as the signed number "%d" shows agree:
\* uint32_t arithmetic is two's complement arithmetic on what is shown.
LEMMA ShownWraps ==
    ASSUME NEW x \in 0 .. Word - 1, NEW l \in 1 .. INT_MAX
    PROVE  /\ (x + l) % Word \in 0 .. Word - 1
           /\ Shown((x + l) % Word) = SocketService!Wrap(Shown(x) + l)
<1>1. INT_MAX \in Nat \ {0} /\ Word \in Nat \ {0} /\ Word = 2 * (INT_MAX + 1)
  BY SocketAssumption DEF Word
<1> HIDE DEF Word
<1>2. CASE x + l < Word
  <2>1. (x + l) % Word = x + l
    BY <1>1, <1>2
  <2> QED
    BY <1>1, <1>2, <2>1 DEF Shown, SocketService!Wrap
<1>3. CASE x + l >= Word
  <2>1. (x + l) % Word = x + l - Word
    BY <1>1, <1>3
  <2> QED
    BY <1>1, <1>3, <2>1 DEF Shown, SocketService!Wrap
<1> QED
  BY <1>1, <1>2, <1>3

\* An init-seq-num is shown as it was given.
LEMMA ShownStart ==
    ASSUME NEW x \in InitNums PROVE Unsigned(x) \in 0 .. Word - 1 /\ Shown(Unsigned(x)) = x
<1>1. /\ INT_MAX \in Nat \ {0} /\ Word \in Nat \ {0} /\ Word = 2 * (INT_MAX + 1)
      /\ x \in -INT_MAX - 1 .. INT_MAX
  BY SocketAssumption DEF Word
<1> HIDE DEF Word
<1>2. CASE x >= 0
  <2>1. x % Word = x
    BY <1>1, <1>2
  <2> QED
    BY <1>1, <1>2, <2>1 DEF Shown, Unsigned
<1>3. CASE x < 0
  <2>1. x % Word = x + Word
    BY <1>1, <1>3
  <2> QED
    BY <1>1, <1>3, <2>1 DEF Shown, Unsigned
<1> QED
  BY <1>1, <1>2, <1>3

\* Nobody has asked when the server starts for the first time.
LEMMA InitAsked == SocketInit => SocketInv
<1> SUFFICES ASSUME SocketInit PROVE SocketInv
  OBVIOUS
<1>1. SocketType
  BY ShownStart, EmptySeq DEF SocketInit, SocketType
<1>2. \A c : ~Waiting(c)
  BY DEF SocketInit, Waiting
<1>3. WaitsOnce /\ \A c \in SocketClients : AskedOnce(c)
  BY <1>2 DEF SocketInit, WaitsOnce, AskedOnce, Unserved
<1> QED
  BY <1>1, <1>3 DEF SocketInv

\* The typing is kept by every step.
LEMMA SocketTypeStep == SocketType /\ [SocketNext]_socketVars => SocketType'
<1> SUFFICES ASSUME SocketType, [SocketNext]_socketVars PROVE SocketType'
  OBVIOUS
<1> USE DEF SocketType, sv
<1>1. CASE SvAccept
  BY <1>1, HeadTailProperties DEF SvAccept
<1>2. CASE SvRead
  BY <1>2, SocketAssumption DEF SvRead, SvDrop, Valid
<1>3. CASE SvWrite
  BY <1>3 DEF SvWrite
<1>4. CASE SvUpdate
  <2>1. reqLen[cfd] \in 1 .. INT_MAX
    BY <1>4, SocketAssumption DEF SvUpdate, Valid
  <2> QED
    BY <1>4, <2>1, ShownWraps DEF SvUpdate, SvDrop
<1>5. CASE SvRestart
  BY <1>5, ShownStart, EmptySeq DEF SvRestart
<1>6. ASSUME NEW c \in SocketClients, ClConnect(c) PROVE SocketType'
  BY <1>6, AppendProperties DEF ClConnect, ClAt
<1>7. ASSUME NEW c \in SocketClients, ClStep(c) \/ ClKilled(c) PROVE SocketType'
  BY <1>7 DEF ClStep, ClWrite, ClRead, ClKilled, ClAt
<1>8. CASE UNCHANGED socketVars
  BY <1>8 DEF socketVars
<1> QED
  BY <1>1, <1>2, <1>3, <1>4, <1>5, <1>6, <1>7, <1>8 DEF SocketNext, Sv

\* No step lets a client ask, or be answered, twice.
LEMMA AskedStep ==
    SocketInv /\ [SocketNext]_socketVars => WaitsOnce' /\ \A c \in SocketClients : AskedOnce(c)'
<1> SUFFICES ASSUME SocketInv, [SocketNext]_socketVars
             PROVE  WaitsOnce' /\ \A c \in SocketClients : AskedOnce(c)'
  OBVIOUS
<1>0. SocketType /\ WaitsOnce /\ \A c \in SocketClients : AskedOnce(c)
  BY DEF SocketInv
<1> USE DEF sv
<1>1. ASSUME UNCHANGED <<pending, clResp>>, \A c \in SocketClients : clpc'[c] = "none" => clpc[c] = "none",
             svpc' \in {"read", "write"} => svpc \in {"read", "write"} /\ cfd' = cfd
      PROVE  WaitsOnce' /\ \A c \in SocketClients : AskedOnce(c)'
  <2>1. WaitsOnce' /\ \A c : Waiting(c)' <=> Waiting(c)
    BY <1>0, <1>1 DEF WaitsOnce, Waiting
  <2>2. \A c \in SocketClients : AskedOnce(c)'
    BY <1>0, <1>1, <2>1 DEF AskedOnce, Unserved
  <2> QED
    BY <2>1, <2>2
<1>2. CASE SvAccept
  <2>1. /\ Len(pending') = Len(pending) - 1 /\ Len(pending) \in Nat \ {0}
        /\ \A i \in 1 .. Len(pending') : pending'[i] = pending[i + 1]
        /\ cfd' = pending[1]
    BY <1>0, <1>2, HeadTailProperties, EmptySeq DEF SvAccept, SocketType
  <2>2. WaitsOnce'
    BY <1>0, <2>1 DEF WaitsOnce
  <2>3. ASSUME NEW c \in SocketClients PROVE AskedOnce(c)'
    <3>1. Waiting(c)' => Waiting(c)
      BY <2>1 DEF Waiting
    <3>2. cfd' = c => Waiting(c)
      <4>1. 1 \in 1 .. Len(pending) /\ pending[1] = cfd'
        BY <2>1
      <4> QED
        BY <4>1 DEF Waiting
    <3>3. ~(Waiting(c)' /\ cfd' = c)
      BY <1>0, <2>1 DEF Waiting, WaitsOnce
    <3> QED
      BY <1>0, <1>2, <3>1, <3>2, <3>3 DEF SvAccept, AskedOnce, Unserved
  <2> QED
    BY <2>2, <2>3
<1>3. CASE SvRead \/ SvUpdate \/ UNCHANGED socketVars
  BY <1>1, <1>3 DEF SvRead, SvUpdate, SvDrop, socketVars
<1>4. CASE SvWrite
  <2>1. WaitsOnce' /\ \A c : Waiting(c)' <=> Waiting(c)
    BY <1>0, <1>4 DEF WaitsOnce, Waiting, SvWrite
  <2>2. /\ svpc = "write" /\ svpc' = "update" /\ clpc' = clpc
        /\ \A c \in SocketClients \ {cfd} : clResp'[c] = clResp[c]
    BY <1>0, <1>4 DEF SvWrite, SocketType
  <2>3. ASSUME NEW c \in SocketClients PROVE AskedOnce(c)'
    BY <1>0, <2>1, <2>2 DEF AskedOnce, Unserved
  <2> QED
    BY <2>1, <2>3
<1>5. CASE SvRestart
  <2>1. pending' = << >> /\ svpc' = "accept" /\ UNCHANGED <<clpc, clResp>>
    BY <1>5 DEF SvRestart
  <2>2. WaitsOnce' /\ \A c : ~Waiting(c)'
    BY <2>1 DEF WaitsOnce, Waiting
  <2> QED
    BY <1>0, <2>1, <2>2 DEF AskedOnce, Unserved
<1>6. ASSUME NEW c \in SocketClients, ClConnect(c)
      PROVE  WaitsOnce' /\ \A d \in SocketClients : AskedOnce(d)'
  <2>1. /\ Len(pending') = Len(pending) + 1 /\ Len(pending) \in Nat
        /\ \A i \in 1 .. Len(pending) : pending'[i] = pending[i]
        /\ pending'[Len(pending) + 1] = c
    BY <1>0, <1>6, AppendProperties, LenProperties DEF ClConnect, SocketType
  <2>2. /\ clpc[c] = "none" /\ clpc'[c] = "length" /\ UNCHANGED <<svpc, cfd, clResp>>
        /\ \A d \in SocketClients \ {c} : clpc'[d] = clpc[d]
    BY <1>0, <1>6 DEF ClConnect, ClAt, SocketType
  <2>3. ~Unserved(c) /\ clResp[c] = NoAnswer
    BY <1>0, <2>2 DEF AskedOnce
  <2>4. WaitsOnce'
    BY <1>0, <2>1, <2>3 DEF WaitsOnce, Unserved, Waiting
  <2>5. \A d \in SocketClients \ {c} : Waiting(d)' <=> Waiting(d)
    BY <2>1 DEF Waiting
  <2>6. AskedOnce(c)'
    BY <2>2, <2>3 DEF AskedOnce, Unserved
  <2>7. ASSUME NEW d \in SocketClients \ {c} PROVE AskedOnce(d)'
    BY <1>0, <2>2, <2>5 DEF AskedOnce, Unserved
  <2> QED
    BY <2>4, <2>6, <2>7
<1>7. ASSUME NEW c \in SocketClients, ClStep(c) \/ ClKilled(c)
      PROVE  WaitsOnce' /\ \A d \in SocketClients : AskedOnce(d)'
  <2>1. \A d \in SocketClients : clpc'[d] = "none" => clpc[d] = "none"
    BY <1>0, <1>7 DEF ClStep, ClWrite, ClRead, ClKilled, ClAt, SocketType
  <2> QED
    BY <1>1, <1>7, <2>1 DEF ClStep, ClWrite, ClRead, ClKilled
<1> QED
  BY <1>2, <1>3, <1>4, <1>5, <1>6, <1>7 DEF SocketNext, Sv

\* Each client asks once and is answered at most once in every reachable state.
THEOREM AskedInvariant == SocketSpec => []SocketInv
<1>1. SocketInv /\ [SocketNext]_socketVars => SocketInv'
  BY SocketTypeStep, AskedStep DEF SocketInv
<1> QED
  BY <1>1, InitAsked, PTL DEF SocketSpec

\* The write() of the answer allocates, or wastes numbers on a client that has gone.
LEMMA SvWriteAllocates == ASSUME SocketInv, SvWrite PROVE SocketService!SvcNext
<1>1. /\ svpc = "write" /\ svpc' = "update" /\ UNCHANGED <<svEpoch, svSeqNum, cfd>>
      /\ cfd \in Valid /\ cfd \in SocketClients /\ reqLen[cfd] \in 1 .. INT_MAX
      /\ svSeqNum \in 0 .. Word - 1
  BY SocketAssumption DEF SvWrite, SocketInv, SocketType, Valid
<1>2. Shown((svSeqNum + reqLen[cfd]) % Word) = SocketService!Wrap(Shown(svSeqNum) + reqLen[cfd])
  BY <1>1, ShownWraps
<1>3. clResp[cfd] = NoAnswer
  BY <1>1 DEF SocketInv, AskedOnce, Unserved
<1>4. CASE cfd \in open
  <2>1. clResp' = [clResp EXCEPT ![cfd] = [start |-> Shown(svSeqNum), epoch |-> svEpoch]]
    BY <1>4 DEF SvWrite
  <2>2. [c \in Valid |-> clResp'[c]]
        = [[c \in Valid |-> clResp[c]] EXCEPT ![cfd] = [start |-> Shown(svSeqNum), epoch |-> svEpoch]]
    BY <1>1, <2>1 DEF SocketInv, SocketType, Valid
  <2>3. PICK c \in Valid : c = cfd
    BY <1>1
  <2>4. SocketService!Allocate(c)
    BY <1>1, <1>2, <1>3, <2>2, <2>3 DEF SocketService!Allocate, SocketService!NoGrant, NoAnswer
  <2> QED
    BY <2>4 DEF SocketService!SvcNext
<1>5. CASE cfd \notin open
  <2>1. SocketService!Waste(cfd)
    BY <1>1, <1>2, <1>5 DEF SvWrite, SocketService!Waste
  <2> QED
    BY <1>1, <2>1 DEF SocketService!SvcNext
<1> QED
  BY <1>4, <1>5

\* The server hands out numbers the way SeqNumService does, although its counter is
\* unsigned and moves on only after the answer has been sent, and whether clients ask
\* for nonsense, stop in the middle of a request or die.
THEOREM SocketImplements == SocketSpec => SocketCountsLikeService
<1>1. SocketInit => SocketService!SvcInit
  BY ShownStart DEF SocketInit, SocketService!SvcInit, SocketService!NoGrant, NoAnswer, Valid
<1>2. SocketInv /\ [SocketNext]_socketVars => [SocketService!SvcNext]_(SocketService!svcVars)
  <2> SUFFICES ASSUME SocketInv, [SocketNext]_socketVars
               PROVE  [SocketService!SvcNext]_(SocketService!svcVars)
    OBVIOUS
  <2> USE DEF SocketService!svcVars, sv
  <2>1. CASE SvAccept
    BY <2>1 DEF SvAccept
  <2>2. CASE SvRead
    BY <2>2 DEF SvRead, SvDrop
  <2>3. CASE SvWrite
    BY <2>3, SvWriteAllocates
  <2>4. CASE SvUpdate
    BY <2>4 DEF SvUpdate, SvDrop
  <2>5. CASE SvRestart
    <3>1. SocketService!Restart
      BY <2>5, ShownStart DEF SvRestart, SocketService!Restart
    <3> QED
      BY <3>1 DEF SocketService!SvcNext
  <2>6. ASSUME NEW c \in SocketClients, ClConnect(c) \/ ClStep(c) \/ ClKilled(c)
        PROVE  UNCHANGED SocketService!svcVars
    BY <2>6 DEF ClConnect, ClStep, ClWrite, ClRead, ClKilled
  <2>7. CASE UNCHANGED socketVars
    BY <2>7 DEF socketVars
  <2> QED
    BY <2>1, <2>2, <2>3, <2>4, <2>5, <2>6, <2>7 DEF SocketNext, Sv
<1> QED
  BY <1>1, <1>2, AskedInvariant, PTL DEF SocketSpec, SocketCountsLikeService, SocketService!SvcSpec

SocketFacts == INSTANCE SeqNumServiceProofs WITH
    Clients <- Valid, seqLen <- [c \in Valid |-> reqLen[c]], MaxInt <- INT_MAX,
    Starts <- InitNums, MaxEpoch <- MaxStarts, epoch <- svEpoch,
    next  <- IF svpc = "update" THEN Shown((svSeqNum + reqLen[cfd]) % Word) ELSE Shown(svSeqNum),
    grant <- [c \in Valid |-> clResp[c]]

\* While the counter does not overflow, no number is handed out twice by one server
\* process.
THEOREM SocketNumbersUnique ==
    SocketSpec /\ [][SocketService!NoOverflow]_(SocketService!svcVars) => []SocketService!Disjoint
<1>1. SocketFacts!Sensible
  BY SocketAssumption DEF SocketFacts!Sensible, Valid
<1>2. SocketFacts!FreshSpec => []SocketFacts!Disjoint
  BY <1>1, SocketFacts!UniqueNumbers
<1>3. SocketService!SvcInit => SocketFacts!SvcInit
  BY DEF SocketService!SvcInit, SocketFacts!SvcInit, SocketService!NoGrant, SocketFacts!NoGrant
<1>4. [SocketService!SvcNext]_(SocketService!svcVars) /\ [SocketService!NoOverflow]_(SocketService!svcVars)
      => [SocketFacts!FreshNext]_(SocketFacts!svcVars)
  BY DEF SocketService!SvcNext, SocketFacts!FreshNext, SocketFacts!SvcNext,
     SocketService!NoOverflow, SocketFacts!NoOverflow, SocketService!svcVars, SocketFacts!svcVars,
     SocketService!Allocate, SocketFacts!Allocate, SocketService!Waste, SocketFacts!Waste,
     SocketService!Restart, SocketFacts!Restart, SocketService!Wrap, SocketFacts!Wrap,
     SocketService!NoGrant, SocketFacts!NoGrant
<1>5. SocketFacts!Disjoint => SocketService!Disjoint
  BY DEF SocketFacts!Disjoint, SocketService!Disjoint, SocketFacts!Numbers,
     SocketService!Numbers, SocketFacts!Wrap, SocketService!Wrap
<1> QED
  BY <1>2, <1>3, <1>4, <1>5, SocketImplements, PTL
     DEF SocketCountsLikeService, SocketService!SvcSpec, SocketFacts!FreshSpec
=============================================================================
